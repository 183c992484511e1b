--------------------------- MODULE MCBookingWork ---------------------------
(* BookingWork for TLC. *)
EXTENDS BookingWork
=============================================================================

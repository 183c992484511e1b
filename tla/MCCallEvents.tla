---------------------------- MODULE MCCallEvents ----------------------------
(* CallEvents for TLC. *)
EXTENDS CallEvents
=============================================================================

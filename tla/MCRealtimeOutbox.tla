-------------------------- MODULE MCRealtimeOutbox --------------------------
(* RealtimeOutbox for TLC. *)
EXTENDS RealtimeOutbox
=============================================================================

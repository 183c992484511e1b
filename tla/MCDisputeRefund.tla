-------------------------- MODULE MCDisputeRefund --------------------------
(* The instance of DisputeRefund that TLC checks. *)
EXTENDS DisputeRefund
=============================================================================

------------------------- MODULE MCFinalSettlement -------------------------
(* FinalSettlement for TLC. *)
EXTENDS FinalSettlement
=============================================================================

--------------------------- MODULE MCTaskerLedger ----------------------------
(* The instance of TaskerLedger that TLC checks. *)
EXTENDS TaskerLedger, FiniteSetsExt

\* Counting unit by unit is adding up.
ASSUME SumAddsUp ==
  \A paid \in [CashBookings \union Settlements -> 0 .. 4] :
    Sum(paid) = MapThenSumSet(LAMBDA c : paid[c], DOMAIN paid)
=============================================================================

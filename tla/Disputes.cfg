SPECIFICATION Spec
CONSTANTS
  Complaints = {c1}
  Resolutions = {r1, r2}
  Charged = 3
  Net = 4
  Sources = {"stripe", "wallet"}
  Intents = {0, 3}
  Unused = {0, 1}
  Amounts = {1}
INVARIANT EarningBalances RefundsWithinCharge
PROPERTIES FullRefundTakesAll HeldWhileDisputed RefundReachesBooks
CHECK_DEADLOCK FALSE

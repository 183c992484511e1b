SPECIFICATION Spec
CONSTANTS
  Earnings = {e1}
  CashBookings = {b1, b2}
  CashRefunds = {f1, f2}
  Settlements = {s1}
  Withdrawals = {w1}
  Net = 2
  Collected = 3
  Payable = 2
  Amounts = {2}
  Limit = 3
INVARIANTS ReceivableBalances PayableIsCollectible PendingBacked BooksBalance
PROPERTIES CardPaymentCounts RestrictionFollowsDebt
CHECK_DEADLOCK FALSE

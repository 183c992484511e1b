SPECIFICATION FairSpec
CONSTANTS
  Bookings = {b1}
  Slots = {s1,s2}
  Taskers = {t1,t2}
  Times <- TwoTimes
  PendingWindow = 1
  PaymentWindow = 1
  MinPaymentWindow = 1
  MaxNow = 3
  None = None
CHECK_DEADLOCK FALSE
PROPERTIES
  WaitsEnd

SPECIFICATION FairCalls
CONSTANTS
  Calls = {c1, c2}
  Bookings = {b1, b2}
  Customers = {cu}
  Taskers = {t1, t2}
  None = None
INVARIANTS OneCallEach
PROPERTIES EveryCallEnds
CHECK_DEADLOCK FALSE

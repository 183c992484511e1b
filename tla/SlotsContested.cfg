SPECIFICATION Spec
CONSTANTS
  Bookings = {b1,b2}
  Slots = {s1,s2,s3}
  Taskers = {t1}
  Times <- ThreeTimes
  PendingWindow = 0
  PaymentWindow = 0
  MinPaymentWindow = 0
  MaxNow = 1
  None = None
CHECK_DEADLOCK FALSE
SYMMETRY Symmetry
INVARIANTS
  SlotExclusive
  OpenSlotUnheld
  CalendarSafe
  NoLeakedSlot

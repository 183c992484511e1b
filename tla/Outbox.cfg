SPECIFICATION FairSpec
CONSTANTS
  MaxEvents = 2
  Dispatchers = {d1, d2}
  BatchSize = 2
INVARIANTS OnceUnlessTroubled
PROPERTIES DeliveredAtLeastOnce
CHECK_DEADLOCK FALSE

SPECIFICATION Spec
CONSTANTS
  MaxTime = 5
  MaxCodes = 2
  CodeTtl = 2
  MaxAttempts = 2
  ApprovalWindow = 2
INVARIANTS BillableTimeIsWorked
PROPERTIES DisputeBlocksCompletion DeadCodeStaysDead ReviewEnds
CHECK_DEADLOCK FALSE

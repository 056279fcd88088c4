SPECIFICATION Spec
CONSTANTS
  Check <- GateAndJob
  Plumbing <- OnlyJob
  Required <- OnlyGate
  RepairBudget = 1
  RetryBudget = 1
  AutoMergeAllowed = TRUE
  MaxHead = 3
  MaxMoves = 1
  ReviewRequired = FALSE
  Faults = {}
  Pass <- OnePass
PROPERTIES BehindMerges
CHECK_DEADLOCK FALSE

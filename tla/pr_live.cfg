SPECIFICATION Spec
CONSTANTS
  Check <- GateAndJob
  Plumbing <- OnlyJob
  Required <- OnlyGate
  RepairBudget = 1
  RetryBudget = 1
  AutoMergeAllowed = TRUE
  MaxHead = 2
  MaxMoves = 1
  ReviewRequired = FALSE
  Faults = {"flaky", "oldstate", "conflict", "main", "push", "issueheld", "objection",
            "write"}
  Pass <- OnePass
PROPERTIES DisarmedInTime ReadyMerges ConflictAnswered
CHECK_DEADLOCK FALSE

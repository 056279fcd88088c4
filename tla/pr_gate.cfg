SPECIFICATION Spec
CONSTANTS
  Check <- GateAndJob
  Plumbing <- OnlyJob
  Required <- OnlyGate
  RepairBudget = 1
  RetryBudget = 1
  AutoMergeAllowed = TRUE
  MaxHead = 2
  MaxMoves = 2
  ReviewRequired = TRUE
  Faults = {"red", "conflict", "lag", "submit", "timeline", "killed", "dispatch", "write",
            "policy", "settings", "approver", "reviews", "issue", "objection", "issueheld"}
  Pass <- OnePass
INVARIANTS TypeOK BlockedIsHeld
PROPERTIES HoldStands RepairBounded MergesJudged
CHECK_DEADLOCK FALSE

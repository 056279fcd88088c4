SPECIFICATION FactorySpec
CONSTANTS
  Ticket <- TwoTickets
  Epic <- OneEpic
  PartOf <- Siblings
  BlockedBy <- NoBlockers
  Unresolvable = {}
  Pass = {1}
  Repo = {1, 2}
  RepoOf <- OneAbroad
  Parents = {2}
  MaxCycles = 1
  Grace = 1
  JobCap = 2
  RepeatWindow = 1
  Faults = {"webhook", "late", "write", "killed"}
CONSTRAINT Unreleased
INVARIANTS LiveRunSpared OneInFlight
PROPERTIES LanesKept
CHECK_DEADLOCK FALSE

SPECIFICATION FleetSpec
CONSTANTS
  Ticket <- TwoTickets
  Epic <- OneEpic
  PartOf <- Siblings
  BlockedBy <- TwoWaitsOne
  Unresolvable = {}
  Pass <- OnePass
  Repo <- OneRepo
  RepoOf <- InOneRepo
  Parents = {}
  MaxCycles = 1
  Grace = 0
  JobCap = 0
  Faults = {"write", "rest", "issues", "killed"}
INVARIANTS FleetTypeOK
PROPERTIES IdleEpicResumes OnlyUnblocked
CHECK_DEADLOCK FALSE

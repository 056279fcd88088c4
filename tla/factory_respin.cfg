SPECIFICATION FactorySpec
CONSTANTS
  Ticket <- OneTicket
  Epic <- OneEpic
  PartOf <- Siblings
  BlockedBy <- NoBlockers
  Unresolvable = {}
  Pass = {1}
  Repo = {1}
  RepoOf <- InOneRepo
  Parents = {}
  MaxCycles = 3
  Grace = 1
  JobCap = 2
  RepeatWindow = 2
  Faults = {"331open"}
INVARIANTS FactoryTypeOK
PROPERTIES RespinFree RepeatDeathHeld
CHECK_DEADLOCK FALSE

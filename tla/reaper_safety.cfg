SPECIFICATION Spec
CONSTANTS
  Ticket <- OneTicket
  Parents = {}
  MaxCycles = 2
  Grace = 1
  JobCap = 2
  RepeatWindow = 2
  Faults = {"webhook", "late", "write", "killed", "ticket", "prs", "branch", "claim", "guard", "331open"}
INVARIANTS TypeOK LiveRunSpared
PROPERTIES NoRespin
CHECK_DEADLOCK FALSE

SPECIFICATION Spec
CONSTANTS
  Ticket <- OneTicket
  Parents = {}
  MaxCycles = 3
  Grace = 1
  JobCap = 2
  RepeatWindow = 2
  Faults = {}
PROPERTIES NeverBare
CHECK_DEADLOCK FALSE

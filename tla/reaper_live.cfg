SPECIFICATION Spec
CONSTANTS
  Ticket <- OneTicket
  Parents = {}
  MaxCycles = 2
  Grace = 1
  JobCap = 2
  RepeatWindow = 1
  Faults = {"webhook", "relabel", "runs"}
PROPERTIES DeadLabelFreed
CHECK_DEADLOCK FALSE

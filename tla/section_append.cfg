SPECIFICATION Spec
CONSTANTS
  MaxLines = 5
  MaxReaps = 2
INVARIANTS Declined
PROPERTIES ListExtended
CHECK_DEADLOCK FALSE

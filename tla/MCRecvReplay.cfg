SPECIFICATION Spec
CONSTANTS
  BYTE = 2
  Sizes = {0, 1}
  MaxSent = 2
  MaxSignals = 1
CHECK_DEADLOCK FALSE
INVARIANTS
  EachOnce

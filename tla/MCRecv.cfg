SPECIFICATION FairSpec
CONSTANTS
  BYTE = 2
  Sizes = {0, 1, 3}
  MaxSent = 3
  MaxSignals = 2
CHECK_DEADLOCK FALSE
INVARIANTS
  ReceivedInOrder
  NothingSkipped
  OneRepetitionPerSignal
PROPERTIES
  EverythingArrives

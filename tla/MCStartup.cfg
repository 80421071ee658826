SPECIFICATION Spec
CONSTANTS
  POINTER = 2
  Cols = 2
  MaxLines = 3
  Object = {wall, space}
  LF = LF
  NUL = NUL
  JUNK = JUNK
  ERRNO = {4, 5}
  EINTR = 4
  Descriptor = {3}
  MaxAddresses = 2
  MaxOptions = 2
CHECK_DEADLOCK FALSE
INVARIANTS
  StartupTypeOK
  FirstRowsLoaded
  NothingBeforeInit

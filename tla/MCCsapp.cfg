SPECIFICATION FairSpec
CONSTANTS
  ERRNO = {4, 5}
  EINTR = 4
  Byte = {a, newline}
  NEWLINE = newline
  RIO_BUFSIZE = 2
  MaxInput = 3
  MaxSize = 3
  MaxTrouble = 2
  Descriptor = {3, 4}
  MaxAddresses = 2
  LONG_MAX = 127
  BASE = 10
CHECK_DEADLOCK FALSE
INVARIANTS
  TypeOK
  ErrorsAreFatal
  StreamExact
  ResultsExact
  NoDescriptorLost
PROPERTIES
  CallReturns

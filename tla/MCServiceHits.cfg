SPECIFICATION FairSpec
CONSTANTS
  Client = {c1, c2}
  Avatar = {A, B}
  NONE = NONE
  BYTE = 2
  MaxUnread = 1
  Request = {"login", "fire"}
SYMMETRY Sym
CHECK_DEADLOCK FALSE
PROPERTIES
  HitsNoticed

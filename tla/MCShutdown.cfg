SPECIFICATION FairShutdownSpec
CONSTANTS
  Thread = {t1, t2}
  Fd = {f1, f2}
  Addr = {a1, a2}
  NULL = NULL
CHECK_DEADLOCK FALSE
INVARIANTS
  QuietShutdownExact
  NoSharedDescriptor
PROPERTIES
  SigHupTerminates

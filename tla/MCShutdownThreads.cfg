SPECIFICATION ShutdownSpec
CONSTANTS
  Thread = {t1, t2}
  Fd = {f1, f2}
  Addr = {a1, a2, a3}
  NULL = NULL
SYMMETRY Sym
CHECK_DEADLOCK FALSE
INVARIANTS
  AllServiceThreadsTerminated

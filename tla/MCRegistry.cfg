SPECIFICATION Spec
CONSTANTS
  Thread = {t1, t2, t3}
  Fd = {f1, f2, f3}
  Addr = {a1, a2, a3, a4}
  NULL = NULL
SYMMETRY Sym
INVARIANTS
  TypeOK
  MutualExclusion
  RegistryExact
  SafeAccess
  UnregisterFinds
  DistinctConnections
  NoLeak
PROPERTIES
  ImplementsSet

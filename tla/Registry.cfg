SPECIFICATION Spec
CONSTANTS
  t1 = t1  t2 = t2
  Threads <- TwoThreads
  NumBase = 1
  MaxKind = 4
  MapLen = 2
  MaxArenas = 6
  MaxFds = 5
  MaxCreates = 4
  MaxOps = 6
INVARIANTS RegistryExact PartitionsUnique ArenasOwned FilesOwned
SYMMETRY Symmetric
CHECK_DEADLOCK FALSE

SPECIFICATION Spec
CONSTANTS
  t1 = t1
  t2 = t2
  t3 = t3
  NULL = NULL
  Mallocers = {t1, t2, t3}
  Freers = {t1, t2, t3}
  SerialMalloc = TRUE
  ElementSize = 3
  MaxElements = 3
  PageSize = 4
  DefaultMax = 8
SYMMETRY ThreadSymmetry
INVARIANTS ListIntact MappedBeforeUse DiesOnlyBeyondMax
PROPERTIES PoolSpec

CONSTANTS
  Threads = {t1, t2}
  Kinds = {k1, k2, k3}
  KindRatios = {1}
  AllocSizes = {0, 1, 2}
  Sizes = {5, 9}
  STEP = 4
  CHECK_CNT = 2
  Vals = {0, 4, 10}
  Counts = {0, 1}
  Triggers <- MCTriggers
  Degrees <- MCDegrees
  UintMod = 4
  Word = 32
  MaxTiers = 3
  MaxCtl = 2
  MaxOps = 3
SPECIFICATION Spec
SYMMETRY Symmetry
INVARIANTS RangeKept SizesPlaced CheckedEvery
CHECK_DEADLOCK FALSE

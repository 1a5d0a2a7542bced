SPECIFICATION Spec
CONSTANTS
  t1 = t1  t2 = t2
  Threads <- TwoThreads
  ThreadBuckets = 2
  BucketOf <- OneBucket
  Cfg <- TwoTiers
  Ratio <- TwoToOne
  PmemKinds = {7}
  HotTierId = 0
  Sizes = {1, 2}
  Calls = {"malloc", "free", "realloc", "query", "destroy"}
  Failures = TRUE
  MaxOps = 5
  Word = 64
INVARIANTS NothingStranded KindConserved TotalConserved RatioKept
CHECK_DEADLOCK FALSE
SYMMETRY Symmetric

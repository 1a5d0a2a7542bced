SPECIFICATION Spec
CONSTANTS
  t1 = t1  t2 = t2
  Threads <- TwoThreads
  Hotness = {1, 2}  InitialHotness = 1
  SizeModulus = 16
  Hashes = {1}
  Tiers = {TRUE, FALSE}
  Sizes = {1}
  MaxAddr = 2
  QueueSize = 4
  BatchLimit = 2
  MaxOps = 4  MaxTouches = 2
  Reallocs = TRUE  NullEvents = TRUE
SYMMETRY Symmetric
INVARIANTS RankingExact QuiescentExact CountersCoverBlocks
PROPERTY TouchConservesSize
CHECK_DEADLOCK FALSE

SPECIFICATION Spec
CONSTANTS
  t1 = t1  t2 = t2
  Threads <- TwoThreads
  Hotness = {1, 2}  InitialHotness = 1
  SizeModulus = 16
  Hashes = {1, 2}
  Tiers = {TRUE}
  Sizes = {1}
  MaxAddr = 3
  QueueSize = 7
  BatchLimit = 2
  MaxOps = 4  MaxTouches = 3
  Reallocs = TRUE  NullEvents = FALSE
INVARIANT RelaxedRemoveAssertion
SYMMETRY Symmetric
CHECK_DEADLOCK FALSE

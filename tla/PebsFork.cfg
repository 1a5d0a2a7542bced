CONSTANTS
  NumProcs = 2
  MaxMonitors = 2
  QueueSize = 1
  PerCycle = 1
  RingSize = 1
  MaxEvents = 0
  MaxSamples = 0
  MaxCalls = 2
SPECIFICATION Spec
INVARIANT SingleReader
CHECK_DEADLOCK FALSE

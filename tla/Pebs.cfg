CONSTANTS
  NumProcs = 2
  MaxMonitors = 2
  QueueSize = 1
  PerCycle = 1
  RingSize = 1
  MaxEvents = 1
  MaxSamples = 2
  MaxCalls = 3
SPECIFICATION Spec
INVARIANTS SingleReaderUnlessForked MonitorSafe RecordsIntact SamplesSeen
PROPERTIES FiniReturns EventsTaken
CHECK_DEADLOCK FALSE

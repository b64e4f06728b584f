CONSTANTS
  MaxThreads = 3
  MaxServices = 2
  MaxEvents = 4
SPECIFICATION FairSpec
INVARIANTS
  TypeOK
  ExclusiveIfCovered
  RunHasDevice
  OneReceiver
  AwakeWhileReceiving
PROPERTIES
  EngineEnds
  
\* Events are bounded, a stopped service waits for a start, a dead process for good.
CHECK_DEADLOCK FALSE

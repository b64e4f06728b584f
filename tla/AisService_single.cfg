CONSTANTS
  MaxThreads = 2
  MaxServices = 2
  MaxEvents = 6
SPECIFICATION Spec
INVARIANTS
  SingleNativeExecution
\* Events are bounded, a stopped service waits for a start, a dead process for good.
CHECK_DEADLOCK FALSE

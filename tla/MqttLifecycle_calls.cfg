CONSTANTS
  MaxCalls = 2
  MaxMessages = 2
  MaxLosses = 1
SPECIFICATION FairSpec
INVARIANTS
  TypeOK
  SentOnceInOrder
  NoOrphan
  QueueLosesNothing
PROPERTIES
  StoppedIsSilent
  CallsEnd
\* When the calls, messages and losses are used up nothing is left to do.
CHECK_DEADLOCK FALSE

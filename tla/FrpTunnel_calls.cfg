CONSTANTS
  MaxCalls = 2
SPECIFICATION FairSpec
INVARIANTS
  OneProcess
  FlagHonest
  Stoppable
PROPERTIES
  DestroyedEnds
\* When the calls are used up and frpc runs on, nothing is left to do.
CHECK_DEADLOCK FALSE

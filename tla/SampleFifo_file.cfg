CONSTANTS
  BlockSize = 2
  NBlocks = 2
  Chunks = {2}
  MaxBytes = 9
  IsFile = TRUE
SPECIFICATION FairSpec
INVARIANTS
  DoneIsDrained
  PlayedInOrder
PROPERTIES
  StopReturns
  FileEnds
\* A stopped device, a file played to its end and a silent source take no step.
CHECK_DEADLOCK FALSE

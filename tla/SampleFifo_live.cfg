CONSTANTS
  BlockSize = 2
  NBlocks = 3
  Chunks = {1, 3, 4}
  MaxBytes = 11
  IsFile = FALSE
SPECIFICATION Spec
INVARIANTS
  TypeOK
  FrontIntact
PROPERTIES
  RefinesStream
\* A stopped device, a file played to its end and a silent source take no step.
CHECK_DEADLOCK FALSE

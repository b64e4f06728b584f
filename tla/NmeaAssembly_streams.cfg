CONSTANTS
  Streams = {a, b}
  Values = {0, 1, 2, 3}
  IDs = {i, j}
  Stale = 0
  MaxLines = 4
  MaxTime = 1
SYMMETRY Symmetry
SPECIFICATION Spec
INVARIANTS
  TypeOK
  RunsAreBuilt
  SentAreRuns
\* The lines end.
CHECK_DEADLOCK FALSE

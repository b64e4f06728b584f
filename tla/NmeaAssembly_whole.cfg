CONSTANTS
  Streams = {a, b}
  Values = {0, 1, 2, 3}
  IDs = {i}
  Stale = 1
  MaxLines = 4
  MaxTime = 2
SPECIFICATION Spec
INVARIANTS
  SentWhole
\* The lines end.
CHECK_DEADLOCK FALSE

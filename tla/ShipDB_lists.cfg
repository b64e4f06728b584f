CONSTANTS
  Ships = {m1, m2, m3}
  Nships = 2
  Npaths = 2
  Places = {0, 1}
  Near = 1
  MaxMessages = 4
  MaxTime = 2
  MaxRestarts = 1
SYMMETRY Symmetry
SPECIFICATION Spec
INVARIANTS
  ListIsWhole
  PathIsOwn
PROPERTIES
  RefinesRecent
\* The messages end.
CHECK_DEADLOCK FALSE

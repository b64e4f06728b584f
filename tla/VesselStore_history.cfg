CONSTANTS
  None = None
  Writers = {w1, w2}
  Places = {0, 1}
  Move = 1
  Heartbeat = 2
  Hour = 2
  Day = 4
  Raw = 1
  Hourly = 2
  Ages = {0}
  Interval = 4
  MaxTime = 9
  MaxPolls = 4
  MaxMishaps = 1
SYMMETRY Symmetry
SPECIFICATION Spec
INVARIANTS
  TypeOK
  HistoryCovered
  TablesStaySmall
  TrackFollows
\* The clock stops at MaxTime.
CHECK_DEADLOCK FALSE

CONSTANTS
  Clients = {c1}
  Pollers = {p1, p2}
  PipeSize = 2
  BufferSize = 2
  MaxMessages = 3
SPECIFICATION FairSpec
INVARIANTS
  TypeOK
  StreamWhole
  HandedOver
  BufferIsLatest
PROPERTIES
  StopEndsRun
  GoneIsForgotten
\* When every message is out and every client gone, nothing is left to do.
CHECK_DEADLOCK FALSE

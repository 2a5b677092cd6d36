SPECIFICATION Spec
CONSTANTS
  Clients = {a, b}
  QueueSize = 2
  MaxSeq = 4
  MaxConnects = 2
INVARIANTS TypeOK NoGap Bounded
PROPERTIES CatchesUp StreamsEnd
CHECK_DEADLOCK FALSE

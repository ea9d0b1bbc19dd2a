SPECIFICATION FairSpec
CONSTANTS
  Procs = {p1, p2}
  QueueSize = 1
  MaxPids = 2
  MaxRequests = 2
PROPERTY
  ShutdownEnds
CHECK_DEADLOCK FALSE

SPECIFICATION DrainSpec
CONSTANTS
  Procs = {p1, p2}
  QueueSize = 1
  MaxPids = 2
  MaxRequests = 2
INVARIANT
  NoExitLost
PROPERTIES
  ZombieReaped
  ShutdownEnds
CHECK_DEADLOCK FALSE

SPECIFICATION FairSpec
CONSTANTS
  Procs = {web, db}
  Clients = {c1}
INVARIANTS
  NoChildLeftBehind
  BulkUndone
PROPERTY
  ShutdownEnds
CHECK_DEADLOCK FALSE

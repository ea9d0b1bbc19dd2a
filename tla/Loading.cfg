SPECIFICATION Spec
CONSTANTS
  Disks <- MCDisks
  Dir <- MCDir
  Env <- MCEnv
  MaxRequests = 1
INVARIANTS
  LoadedAsWritten
  GroupsAsWritten
  StartedInOrder
CHECK_DEADLOCK FALSE

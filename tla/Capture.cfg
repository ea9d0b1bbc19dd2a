SPECIFICATION Spec
CONSTANTS
  Configs <- MCConfigs
  MaxBackups = 3
  MaxInput = 5
  MaxRead = 2
  RingSize = 3
  MaxReadAlloc = 4
  DefaultLength = 2
  MaxLine = 4
  MaxPending = 3
INVARIANTS
  RingIsTail
  StreamFaithful
  LinesFaithful
  LogIsSuffix
  LogBounded
CHECK_DEADLOCK FALSE

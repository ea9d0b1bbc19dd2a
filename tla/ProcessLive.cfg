SPECIFICATION DrainSpec
CONSTANTS
  MaxAttempts = 2
  Configs <- MCDefault
  Horizon = 1
INVARIANTS
  StartArmed
PROPERTIES
  StopCompletes
  StartDecided

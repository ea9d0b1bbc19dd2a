SPECIFICATION Spec
CONSTANTS
  MaxAttempts = 3
  Configs <- MCDefault
  Horizon = 1
INVARIANT
  RunningHasChild

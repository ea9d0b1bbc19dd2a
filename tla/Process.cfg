SPECIFICATION Spec
CONSTANTS
  MaxAttempts = 2
  Configs <- MCReloaded
  Horizon = 1
INVARIANTS
  TypeOK
  ChildTracked
  EscalationArmed
  RetryArmed
PROPERTIES
  AttemptsBounded
  RunningEarned
  RetiredNeverStarts
  NoAutoStartAfterShutdown
  Lifecycle

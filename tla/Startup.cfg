SPECIFICATION FairSpec
CONSTANTS
  Daemons = {d1, d2}
  Earlier = Earlier
  None = None
INVARIANTS
  ControlKept
  LeftoversHarmless
PROPERTY
  ParentReturns
CHECK_DEADLOCK FALSE

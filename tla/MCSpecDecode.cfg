SPECIFICATION Spec
CONSTANTS
  a = a
  b = b
  Blank = Blank
  Window = 3
  Widths = {1, 2}
  Horizon = 8
  MaxFailures = 2
  Token <- MCToken
  Setups <- MCSetups
  FaultSets <- MCFaultSets
INVARIANTS
  LockstepContext
  WindowEndsText
  RowsRotated
PROPERTY
  WritesTargetText

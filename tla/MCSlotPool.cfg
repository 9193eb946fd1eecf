SPECIFICATION Spec
CONSTANTS
  c1 = c1
  c2 = c2
  None = None
  MaxDepth = 2
  Caller <- MCCaller
  Mode <- MCMode
  CallLimit <- MCCallLimit
INVARIANTS
  CurrentLeaseHeld
  OwnOutput
  SoloViewIntact
  CopyModeNeverStalls
PROPERTIES
  EveryCallReturns

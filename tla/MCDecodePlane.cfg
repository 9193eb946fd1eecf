SPECIFICATION Spec
CONSTANTS
  c1 = c1
  c2 = c2
  None = None
  NumLayers = 3
  Caller <- MCCaller
  Setups <- MCSetups
  CallLimit <- MCCallLimit
INVARIANTS
  SpansAreMaximalRuns
  EveryLayerOnce
  ANEFailuresSoft
  AtMostOneLateLayer
  DisableSettles
PROPERTIES
  PrewarmCovers

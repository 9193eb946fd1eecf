SPECIFICATION DispatchSpec
CONSTANTS
  c1 = c1
  c2 = c2
  shared = shared
  e1 = e1
  e2 = e2
  None = None
  MaxDepth = 2
  Caller <- MCCaller
  Stage <- MCStage
  Order <- MCOrder
  Alias = {TRUE, FALSE}
  Faults <- MCFaults
  CallLimit <- MCOneCall
INVARIANTS
  NothingLeftBehind
PROPERTIES
  EveryDispatchReturns
CHECK_DEADLOCK FALSE

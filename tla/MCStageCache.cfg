SPECIFICATION Spec
CONSTANTS
  c1 = c1
  c2 = c2
  c3 = c3
  dense = dense
  expert = expert
  None = None
  Key <- MCKey
  Expert <- MCExpert
  Caller <- MCCaller
  CallLimit <- MCCallLimit
INVARIANTS
  BuiltAtMostOnce
  NoLostWakeup
PROPERTIES
  ImplementsOnceMap

SPECIFICATION Spec
CONSTANTS
  c1 = c1
  c2 = c2
  s1 = s1
  s2 = s2
  s3 = s3
  s4 = s4
  None = None
  Tile = 4
  Word = 256
  Caller = {c1, c2}
  Session = {s1, s2, s3, s4}
  ModelSession = {s4}
  Bare = {s2}
  ModeOf <- MCModeOf
  MaxCalls <- MCMaxCalls
  Confs <- MCConfs
  Plans <- MCPlans
  FaultSets <- MCFaultSets
INVARIANTS
  SessionsNest
  ClosureAlive
  BaseHookReached
  Attribution
  BudgetHeld
  AnswersOwn

SPECIFICATION StartSpec
CONSTANTS
  SharedEvents = {TRUE, FALSE}
  Profiles = 1
  Envs <- MCEnvs
INVARIANTS
  OpenIsWhole
  NothingLeft
  RequestsBacked
  StartedIsRunnable
PROPERTIES
  CallsReturn

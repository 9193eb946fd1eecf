SPECIFICATION Spec
CONSTANTS
  RunLimit = 3
  Confs <- MCConfs
INVARIANTS
  
  ViewShowsOwn

  

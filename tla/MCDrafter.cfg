SPECIFICATION Spec
CONSTANTS
  a = a
  b = b
  Blank = Blank
  Window = 5
  MinDrafted = 2
  MinCorrections = 2
  MaxText = 5
  MaxDraft = 2
  MaxGenerations = 2
  Token <- MCToken
  Drafters <- MCDrafters
  FaultSets <- MCFaultSets
INVARIANTS
  HistoryIsText
  ContextIsHistory
  ReferenceIsHistory
  GuardTripsSoon
SYMMETRY MCSymmetry

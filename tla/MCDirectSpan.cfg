SPECIFICATION Spec
CONSTANTS
  q1 = q1
  q2 = q2
  None = None
  MaxDepth = 2
  NumLayers = 3
  First = 1
  Last = 2
  MaxSeqLen = 3
  Borrowing = {TRUE, FALSE}
  FaultSets <- MCFaultSets
  Sequence <- MCSequence
  TokenLimit <- MCTokenLimit
INVARIANTS
  OneRowPerLayer
  SoloContextExact

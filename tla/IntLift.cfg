SPECIFICATION Spec
CONSTANTS
  W = 3
  Numbers <- MCNumbers
  ScratchBase = 4
  ScratchPredBase = 2
  SmVersion = 120
  RegNo <- MCRegNo
  PredNo <- MCPredNo
  Programs <- MCPrograms
  Contents <- MCContents
  Truths <- MCTruths
INVARIANTS
  PairAddsWide
PROPERTIES
  ImplementsSass

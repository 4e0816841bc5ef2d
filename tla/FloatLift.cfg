SPECIFICATION Spec
CONSTANTS
  Numbers <- MCNumbers
  RegNo <- MCRegNo
  PredNo <- MCPredNo
  ScratchBase = 30
  ScratchPredBase = 10
  Instructions <- MCInstructions
  Assignments <- MCAssignments
  PsiSets <- MCPsiSets
  Contents <- MCContents
  Truths <- MCTruths
INVARIANTS
  SupportedIsExact

SPECIFICATION FlowSpec
CONSTANTS
  Numbers <- MCNumbers
  Address <- MCAddress
  Barrier <- MCBarrier
  Kernels <- MCKernels
  RegNo <- MCRegNo
  Assignments <- MCAssignments
INVARIANTS
  TypeOK
  LabelsAreUnique
  BranchesAreDefined
  PairsAreBrackets
  SameInstruction

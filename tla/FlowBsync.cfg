SPECIFICATION FlowSpec
CONSTANTS
  Numbers <- MCNumbers
  Address <- MCAddress
  Barrier <- MCBarrier
  Kernels <- MCKernels
  RegNo <- MCRegNo
  Assignments <- MCAssignments
INVARIANTS
  BsyncsBranch

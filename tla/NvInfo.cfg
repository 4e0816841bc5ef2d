SPECIFICATION ReadersSpec
CONSTANTS
  Kernel <- MCKernel
  Requests <- MCRequests
  Cubins <- MCCubins
INVARIANTS
  GlobalDefaultsApply

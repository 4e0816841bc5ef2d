SPECIFICATION ReadersSpec
CONSTANTS
  Kernel <- MCKernel
  Requests <- MCRequests
  Cubins <- MCCubins
INVARIANTS
  KernelsAsDescribed
  EarlierEntriesSurvive
  KernelsAsCompiled
  RowsAsProgrammed
  SourcesAsMapped

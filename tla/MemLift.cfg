SPECIFICATION Spec
CONSTANTS
  W = 4
  GprCounter = 6
  Param = 37
  Numbers <- MCNumbers
  RegNo <- MCRegNo
  UniformNo <- MCUniformNo
  Pairs <- MCPairs
  Programs <- MCPrograms
  Contents <- MCContents
INVARIANTS
  MemoryAgrees
  DisciplinedIsAccepted

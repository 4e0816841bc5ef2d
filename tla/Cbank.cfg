SPECIFICATION Spec
CONSTANTS
  Opcodes <- MCOpcodes
  Kernels <- MCKernels
  SmVersions <- MCSmVersions
  NvInfos <- MCNvInfos
  Word <- MCWord
  MaxLen = 2
INVARIANTS
  TypeOK
  DistinctRegisters
  EveryOccurrenceResolved
  PreambleInitialises
  LoadsAreDeclared

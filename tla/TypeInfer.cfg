SPECIFICATION StageSpec
CONSTANTS
  RegId <- MCRegId
  Programs <- MCPrograms
  MaxLen = 2
INVARIANTS
  TypeOK
  UnknownIsAlone
  OneIdleSweep
  ResultIsReference
  LeastSolution
  SweepsCoverProgram
PROPERTIES
  ImplementsClosure
  Terminates
  SearchEnds

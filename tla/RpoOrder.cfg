SPECIFICATION StageSpec
CONSTANTS
  RegId <- MCRegId
  Programs <- MCPrograms
  MaxLen = 1
INVARIANTS
  SweepsDefinitionsFirst

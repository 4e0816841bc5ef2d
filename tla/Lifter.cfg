SPECIFICATION Spec
CONSTANTS
  Name <- MCName
  File <- MCFile
  Listings <- MCListings
  Unspecified <- MCUnspecified
  Calls <- MCCalls
  Modules <- MCModules
INVARIANTS
  ReadInOrder
  EncodingsBelong
  TargetArchitecture
PROPERTIES
  ImplementsPerFunction

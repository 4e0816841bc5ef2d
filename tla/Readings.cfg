SPECIFICATION Spec
CONSTANT
  Listings <- MCListings
INVARIANTS
  OperandsAreRead
  DependenciesAreLastWrites
  ReconstructedExactly
  TemplatesExactly

SPECIFICATION Spec
CONSTANTS
  Names = {"a", "A", "b", "c"}
  NormKey <- MCNorm
  TopLevels <- MCTops
  Requires <- MCRequires
  Packages <- MCPackages
  Elements <- MCElements
  MaxElements = 4
  Product <- MCProduct
  Decimal <- MCDecimal
INVARIANTS
  ClaimedIsComplete
  WalkCovers
  EveryRefOnce
  IndexedAsDeclared
PROPERTY
  WalkEnds
CHECK_DEADLOCK FALSE

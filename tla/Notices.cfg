SPECIFICATION Spec
CONSTANTS
  Users = {u, v}
  Product = "p"
  Products = {"p", "q"}
  Ids = {"cve"}
  Instants <- MCInstants
  PeriodStarts <- MCPeriodStarts
  Records <- MCRecords
  Payloads <- MCPayloads
  MaxLog = 3
INVARIANTS
  NothingHidden
  SilenceIsNoExit
  BoundAsOfTheCall
  SameDeadline
  CarriedOn
  PeriodsAreWhole
  ScopeFollowsDates
SYMMETRY Symmetry
CHECK_DEADLOCK FALSE

SPECIFICATION Spec
CONSTANTS
  Users = {u, v}
  Product = "p"
  Products = {"p", "q"}
  Ids = {"cve"}
  Instants <- MCInstants
  PeriodStarts <- MCPeriodStarts
  Records <- MCRecords
  Payloads <- MCPayloads
  MaxLog = 3
INVARIANT
  BoundToLast
SYMMETRY Symmetry
CHECK_DEADLOCK FALSE

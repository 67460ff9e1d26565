SPECIFICATION Spec
CONSTANTS
  Prior = 1
  Size = 3
  Buffer = 2
  Room = 2
  VulnIds = {"GHSA-1", "GHSA-2"}
  Cves = {"CVE-0", "CVE-1"}
  AliasesOf <- MCAliases
  Catalogues = {"cisa_kev", "enisa_euvd"}
  Listed <- MCListed
  Control = "CVE-0"
  BatchMax = 2
  PageLimit = 1
  MaxAsked = 3
INVARIANTS
  InOrder
  SlowIsNotLost
  CompleteOrError
  
  FeedsBelieved
PROPERTY
  Exits
CHECK_DEADLOCK FALSE

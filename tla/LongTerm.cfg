SPECIFICATION Spec
CONSTANTS
  Algs = {"ed", "pq"}
  Hashes = {"sha3", "sha2"}
  DefaultHash = "sha3"
  Policies <- MCPolicies
  Digests = {d1, d2}
  Keys = {"k"}
  Ephemerals = {}
  Trusted = {"k"}
  Margin = 1
  Interval = 1
  Horizon = 3
  MaxSeals = 2
INVARIANTS
  VerifiedIsRecorded
  CoverUnbroken
  KeptVerifies
  NotDueStands
SYMMETRY Symmetry
CHECK_DEADLOCK FALSE

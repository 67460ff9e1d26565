SPECIFICATION AuditSpec
CONSTANTS
  Data = {d1, d2}
  Writers = {w1, w2}
  AllowUnlocked = {}
  Keyed = {w1, w2}
  Flock = {TRUE}
  NONE = NONE
INVARIANTS
  AcceptedHoldsPromised
  VerifiedIsComplete
CHECK_DEADLOCK FALSE

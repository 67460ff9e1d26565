SPECIFICATION PackSpec
CONSTANTS
  Data = {r1, r2, a1}
  Anchors = {a1}
  Writers = {w1, w2}
  Packers = {w1}
  AllowUnlocked = {}
  Keyed = {w1}
  Flock = {TRUE}
  NONE = NONE
INVARIANTS
  PackAnchored
  DeclaredIfPromised
PROPERTIES
  AnchoredStays

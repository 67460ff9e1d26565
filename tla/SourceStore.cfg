SPECIFICATION SourceSpec
CONSTANTS
  r1 = r1
  r2 = r2
  bom = bom
  Data = {r1, r2}
  Docs = {bom}
  DocOf <- MCDocOf
  Overlap = FALSE
  Writers = {w1, w2}
  AllowUnlocked = {}
  Keyed = {w1, w2}
  Flock = {TRUE}
  NONE = NONE
INVARIANTS
  ShownIsStored

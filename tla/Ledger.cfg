SPECIFICATION FairSpec
CONSTANTS
  Data = {d1, d2, d3}
  Writers = {w1, w2}
  AllowUnlocked = {w1}
  Keyed = {w1, w2}
  Flock = {TRUE, FALSE}
  NONE = NONE
INVARIANTS
  TypeOK
  ChainIntact
  PromisedKept
  TipNamesPrefix
  UndoneIsAbsent
  TornLast
PROPERTIES
  TipForward
  ImplementsLog
  Answered

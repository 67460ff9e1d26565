SPECIFICATION Spec
INVARIANTS
  OkIsTheStates
  NotAssessedIsNoFinding
  OkIsEarned
CHECK_DEADLOCK FALSE

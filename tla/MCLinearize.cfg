SPECIFICATION MCSpec
CONSTANTS
  MaxOps = 3
  MaxTime = 3
  Groups = {0, 1}
  Histories <- MCHistories
  InitState = 0
  Pending <- Never
  UseSame = TRUE
  N = 4
INVARIANTS VerdictRight CoreExplains
PROPERTY SearchEnds
CHECK_DEADLOCK FALSE

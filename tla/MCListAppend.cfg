SPECIFICATION MCSpec
CONSTANTS
  Setups <- MCSetups
  MaxDoubt = 1
  MaxEdges = 6
INVARIANTS
  VerdictExact
  CyclesClassified
CHECK_DEADLOCK FALSE

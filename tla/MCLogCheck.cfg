SPECIFICATION MCSpec
CONSTANTS
  Values = {v1, v2}
  k1 = k1
  k2 = k2
  Setups <- MCSetups
  MaxOffset = 4
SYMMETRY Perms
INVARIANTS NoFalseAlarms WrongsReported
CHECK_DEADLOCK FALSE

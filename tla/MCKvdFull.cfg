SPECIFICATION Spec
CONSTANTS
  Users <- MCUsers
  Keys <- MCKeys
  MaxLaunches = 2
  HalfWrites = TRUE
  MaxOps = 2
  MaxFails = 2
INVARIANT LogServes
CHECK_DEADLOCK FALSE

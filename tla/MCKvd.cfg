SPECIFICATION Spec
CONSTANTS
  Users <- MCUsers
  Keys <- MCKeys
  MaxLaunches = 2
  HalfWrites = FALSE
  MaxOps = 2
  MaxFails = 2
INVARIANTS LogServes  OneKvd
CHECK_DEADLOCK FALSE

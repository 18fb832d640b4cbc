SPECIFICATION Spec
CONSTANTS
  Users <- MCUsers
  Keys <- MCKeys
  MaxLaunches = 2
  HalfWrites = FALSE
  MaxOps = 2
  MaxFails = 2
PROPERTY InFlightAnswered
CHECK_DEADLOCK FALSE

SPECIFICATION MCSpec
CONSTANTS
  N = 2
  Limited = TRUE
  MaxFails = 2
  MaxDeaths = 1
  Faults <- MCFaults
  AllFaults = TRUE
  NetOK = TRUE
  MaxFaults = 2
  MaxTime = 2
  MaxEvents = 5
INVARIANTS OneServer ExitsAreUnasked FaultsEnd NoAmnesia WindowsTrue
CHECK_DEADLOCK FALSE

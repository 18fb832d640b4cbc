SPECIFICATION MCSpec
CONSTANTS
  n1 = n1
  n2 = n2
  Node = {n1, n2}
  NumRequests = 3
  Capable <- MCCapable
  Parallel = 2
INVARIANTS RequestsAccounted SchedulingStops StrandedCannotFit MatchingContract
PROPERTIES
  ImplementsLease
  RunEnds

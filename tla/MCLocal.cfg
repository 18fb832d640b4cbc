SPECIFICATION MCSpec
CONSTANTS
  Run = {r1, r2, r3}
  Nil = Nil
INVARIANTS ReapedExactly TeardownIsTrue GateHolds
PROPERTIES CallsEnd FreezeWorks
CHECK_DEADLOCK FALSE

SPECIFICATION MCSpec
CONSTANTS
  Op = {o1, o2}
  Teardown = {t1}
  Nil = nil
  Endings = {"lost", "closed"}
INVARIANTS NothingLeaks CacheServes NilMeansGone
 
CHECK_DEADLOCK FALSE

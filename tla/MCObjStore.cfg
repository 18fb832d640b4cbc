SPECIFICATION Spec
CONSTANTS
  Key = {"k1"}
  Part = {1}
  Confs <- MCConfs
INVARIANTS StoreExplained WinsOnce
PROPERTY CloseIsFinal
CHECK_DEADLOCK FALSE

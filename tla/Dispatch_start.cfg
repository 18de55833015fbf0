SPECIFICATION Spec
CONSTANTS
  Pid = 1
INVARIANTS StartsAtEntry
CHECK_DEADLOCK FALSE

SPECIFICATION Spec
CONSTANTS
  WORD = 32
  PAGESIZE = 4
  MEM_USERLO_PI = 2
  MEM_USERHI_PI = 6
  Maps <- MCMaps
INVARIANTS UserRamExists
CHECK_DEADLOCK FALSE

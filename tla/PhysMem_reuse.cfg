SPECIFICATION Spec
CONSTANTS
  MAX_PROCS = 4
  MAX_CHILDREN = 2
  NUM_PHYSICAL_PAGES = 7
  MEM_USERLO_PI = 2
  MEM_USERHI_PI = 6
  RamSets <- MCRamSets
  Quotas <- MCQuotas
INVARIANT ExclusiveOwnership
CHECK_DEADLOCK FALSE

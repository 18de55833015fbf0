SPECIFICATION VMSpec
CONSTANTS
  MAX_PROCS = 3
  MAX_CHILDREN = 2
  NUM_PHYSICAL_PAGES = 9
  MEM_USERLO_PI = 3
  MEM_USERHI_PI = 9
  NUM_TABLES = 3
  RamSets <- MCRamSets
  Quotas <- MCQuotas
INVARIANTS VMTypeOK Isolation TablesIntact AtMostOnePageLost
PROPERTIES MappingsKept
CHECK_DEADLOCK FALSE

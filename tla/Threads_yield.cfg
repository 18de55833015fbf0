SPECIFICATION Spec
CONSTANTS
  MAX_PROCS = 3
  MAX_CHILDREN = 2
  UserPages = 4
  Quotas <- MCQuotas
INVARIANT CpuRunsCurrent

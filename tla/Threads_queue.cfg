SPECIFICATION Spec
CONSTANTS
  MAX_PROCS = 5
  MAX_CHILDREN = 2
  UserPages = 4
  Quotas <- MCQuotas
INVARIANTS TypeOK LinksConsistent QueueHoldsReady SpawnIsFresh CpuRunsCurrentAsBuilt ReadyContextIntact
PROPERTIES ImplementsReadyQueue
CHECK_DEADLOCK FALSE

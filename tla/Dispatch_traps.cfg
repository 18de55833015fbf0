SPECIFICATION Spec
CONSTANTS
  Pid = 1
INVARIANTS TypeOK UserRunsInItsSpace HandlersRunInKernelSpace PagingHasDirectory NothingLeftInService
PROPERTIES Delivered
CHECK_DEADLOCK FALSE

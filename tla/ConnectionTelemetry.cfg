SPECIFICATION Spec
CONSTANTS
  Conns = {1, 2}
  MaxBytes = 1
  MaxTime = 2
  RingSize = 1
  AccountedLimit = 1
  MaxTracked = 1
  MaxBuckets = 1
  MaxChanges = 1
  MaxFaults = 1
  None = None
INVARIANTS NeverOvercounts CoverageCountsOnce OneSource
PROPERTIES TotalsArrive
CHECK_DEADLOCK FALSE

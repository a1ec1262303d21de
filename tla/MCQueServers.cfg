SPECIFICATION FairSpec
CONSTANTS
  r1 = r1
  r2 = r2
  l1 = l1
  l2 = l2
  Requests = {r1, r2}
  Labels = {l1, l2}
  MaxWorkers = 1
CHECK_DEADLOCK FALSE
INVARIANTS TypeOK MetricsMatchResults NoneMeetsClosedPool
PROPERTY EveryCallEnds

SPECIFICATION Spec
CONSTANTS
  h1 = h1
  h2 = h2
  t1 = t1
  t2 = t2
  NoThread = NoThread
  Threads = {h1, h2}
  Tenants = {t1, t2}
  Quotas = {1, 2}
  TicksPerSecond = 2
  MaxBuckets = 2
  MaxTime = 2
SYMMETRY Symmetry
INVARIANTS MapsAgree UnlimitedOnlyIfDisturbed WindowBound
PROPERTY RejectsOnlyOverQuota

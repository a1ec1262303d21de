SPECIFICATION Spec
CONSTANTS
  h1 = h1
  h2 = h2
  n1 = n1
  n2 = n2
  NoName = NoName
  Threads = {h1, h2}
  Names = {n1, n2}
  HealthTTL = 1
  MaxBackends = 3
  MaxTime = 2
SYMMETRY Symmetry
INVARIANTS StaleWithinTTL NoVerdictLeftBehind KeyErrorOnlyIfRemoved
PROPERTY SummaryExact

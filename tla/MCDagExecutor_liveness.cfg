SPECIFICATION FairSpec
CONSTANTS
  r1 = r1
  r2 = r2
  q1 = q1
  q2 = q2
  u1 = u1
  u2 = u2
  u3 = u3
  c1 = c1
  None = None
  NoResult = NoResult
  Requests = {r1, r2}
  Questions = {q1, q2}
  Contexts = {u1, u2}
  Contents = {c1}
  MaxSub = 2
  Spelling <- PlainSpelling
  Calls <- LiveCalls
  MaxWorkers = 1
  TTL = 1
  MaxTime = 0
PROPERTIES EveryCallEnds EveryTaskEnds

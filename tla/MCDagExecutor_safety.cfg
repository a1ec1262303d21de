SPECIFICATION Spec
CONSTANTS
  r1 = r1
  r2 = r2
  q1 = q1
  q2 = q2
  u1 = u1
  u2 = u2
  u3 = u3
  c1 = c1
  None = None
  NoResult = NoResult
  Requests = {r1, r2}
  Questions = {q1, q2}
  Contexts = {u1, u2, u3}
  Contents = {c1}
  MaxSub = 2
  Spelling <- AliasedSpelling
  Calls <- SafetyCalls
  MaxWorkers = 2
  TTL = 0
  MaxTime = 1
SYMMETRY Symmetry
INVARIANTS TypeOK WaveBarrier AnswersFaithful DependenciesInjected CacheOnlyCollected
PROPERTIES FreshAnswers ImplementsContract

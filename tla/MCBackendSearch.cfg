SPECIFICATION Spec
CONSTANTS
  w1 = w1
  w2 = w2
  Workers = {w1, w2}
  Others <- MCOthers
  MaxEvents = 3
SYMMETRY WorkerSymmetry
INVARIANTS TypeOK RouteIsKept StubsStayUsable ChannelsBounded

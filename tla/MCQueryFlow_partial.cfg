SPECIFICATION FlowSpec
CONSTANTS
  w = w
  v = v
  a = a
  b = b
  c = c
  Blank = Blank
  Questions = {w, v}
  Asked = w
  Pieces = {w}
  Sides <- MCSides
  Threshold = 70
  Steps <- MCSteps
  DependsOn <- MCDependsOn
  MaxHops = 3
  Expansions <- MCExpansions
  Caps <- MCCaps
  Contents = {a, b, c, Blank}
  Similar <- MCSimilar
  ChunkLists <- MCChunkLists
INVARIANT PartialFailureUsable

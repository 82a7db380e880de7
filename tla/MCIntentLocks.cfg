\* One request and the schedulers of two processes, which can make circles.
SPECIFICATION LiveSpec
CONSTANTS
  p1 = p1
  p2 = p2
  i1 = i1
  i2 = i2
  Requests   = {r1}
  Schedulers = {s1, s2}
  Keys       = {k1}
  Pairs      = {p1, p2}
  Intents    = {i1, i2}
  PairOf    <- MCPairOf
  None       = None
INVARIANTS
  CirclesAreOfSchedulers
PROPERTIES
  EndedStays
  OverdueIntentEnds
  RequestsEnd

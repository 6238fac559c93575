SPECIFICATION Spec
CONSTANTS
  v1 = v1
  v2 = v2
  o1 = o1
  o2 = o2
  i1 = i1
  p1 = p1
  p2 = p2
  p3 = p3
  NoPtr = NoPtr
  Vertex = {v1, v2}
  Fresh = {v2}
  OutE = {o1, o2}
  InE = {i1}
  Ptr = {p1, p2}
  Loaded <- MCLoaded
  Home <- MCHome
  Threshold <- MCThreshold
  MaxCost = 1
  NumConsumer = 2
  MaxOps = 4
INVARIANTS
  FreeRunsAlone
  CollectorSound
PROPERTIES
  VertexReclaimed
CHECK_DEADLOCK FALSE

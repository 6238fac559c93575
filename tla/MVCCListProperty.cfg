SPECIFICATION Spec
CONSTANTS
  Item = {i1, i2, i3}
  NULL = null
  NumTrx = 3
  Value = {e, a}
  Empty = e
  MaxTS = 5
  IsEdge = FALSE
  w1 = w1
  w2 = w2
  Worker = {w1, w2}
  Home <- TwoHomes
INVARIANTS
  ListShape
  ItemsPartitioned
  LifetimesAdjacent
  WalkStops
PROPERTIES
  ScanKeepsReads
  ImplementsVersionChain
SYMMETRY ItemSymmetry
CHECK_DEADLOCK FALSE

SPECIFICATION Spec
CONSTANTS
  Item = {i1, i2, i3}
  NULL = null
  NumTrx = 3
  Value = {e, a}
  Empty = e
  MaxTS = 5
  IsEdge = TRUE
  w1 = w1
  w2 = w2
  Worker = {w1, w2}
  Home <- TwoHomes
PROPERTIES
  ScanKeepsReads
CHECK_DEADLOCK FALSE

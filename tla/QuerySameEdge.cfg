SPECIFICATION Spec
CONSTANTS
  NumNodes = 2
  Parent = 0
  MaxData = 3
  Uninit = 3
  EnableReorder = TRUE
  IndexCount <- MCIndexCount
  KeyIO <- MCKeyIO
  Transactions <- AddEdgeOnly
  Graph0 <- TheGraph
  Faults <- SameEdgeFault
INVARIANT
  AbortIsOnItsWay
CHECK_DEADLOCK FALSE

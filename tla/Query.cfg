SPECIFICATION Spec
CONSTANTS
  NumNodes = 2
  Parent = 0
  MaxData = 3
  Uninit = 3
  EnableReorder = TRUE
  IndexCount <- MCIndexCount
  KeyIO <- MCKeyIO
  Transactions <- MCTransactions
  Graph0 <- TheGraph
  Faults <- MCFaults
INVARIANTS
  ResultCorrect
  EndsAlike
  NothingLeft
PROPERTIES
  Answered
CHECK_DEADLOCK FALSE

SPECIFICATION MCSpec
CONSTANTS
  NumCells = 10
  Thread = {0, 1}
  BLOCK_SIZE = 2
  MEM_CELL_SIZE = 2
  Value <- MCValue
  Garbage = "?"
  MaxCalls = 5
  RowThread = {t1, t2}
  PRowOps = 3
  TRowOps = 3
  RowEdge = {e1, e2, e3}
  NoMap = NoMap
  NoList = NoList
  NoTrx = NoTrx
  NoCell = NoCell
  Gone = Gone
  IndexElem = {a, b}
  IndexLoaded = {a}
  TopoUpdates = 2
  PropUpdates = 3
INVARIANTS
  PoolSound
  PropertyRowsSound
  EdgeRowsSound
  TopoIndexSound
  PropIndexSound
PROPERTIES
  ImplementsFreeLists
CHECK_DEADLOCK FALSE

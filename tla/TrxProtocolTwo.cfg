SPECIFICATION FairSpec
CONSTANTS
  w1 = w1
  w2 = w2
  t1 = t1
  t2 = t2
  t3 = t3
  x = x
  y = y
  NoTrx = none
  Worker = {w1, w2}
  Trx = {t1, t2}
  Key = {x, y}
  Home <- TwoHome
  Place <- TwoPlace
  Reads <- CrossReads
  Writes <- CrossWrites
  EnableOptPreread = TRUE
  Locks = TRUE
  EnableOptValidation = TRUE
INVARIANTS
  VersionsInCommitOrder
  NoOrphanVersion
  StatusChecksHold
  WaitsForOlder
PROPERTIES
  EveryTrxEnds
CHECK_DEADLOCK FALSE

SPECIFICATION MCSpec
CONSTANTS
  W = 2
  RbfSize = 16
  Threshold = 6
  RrSize = 3
  MessageLens <- MCMessageLens
  NumLocal = 1
  Receiver = {r1, r2}
  TableLoads <- MCLoads
  ClockOffsets = {0, 3}
INVARIANTS
  RingSound
  StatusTableSound
  CalibrationSound
  NotificationsSound
  CoresSound
  IdsSound
  ConflictCaught
CHECK_DEADLOCK FALSE

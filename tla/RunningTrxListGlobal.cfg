SPECIFICATION Spec
CONSTANTS
  Worker = {w1, w2}
  MaxBT = 2
INVARIANTS
  GlobalMinBTSafe

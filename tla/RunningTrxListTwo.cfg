SPECIFICATION FairSpec
CONSTANTS
  Worker = {w1, w2}
  MaxBT = 2
INVARIANTS
  LocalMinBTSafe
  PublishedNotAhead
PROPERTIES
  MinBTNeverFalls
  WatermarkNeverFalls
  WatermarkAdvances

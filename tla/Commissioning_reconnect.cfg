SPECIFICATION FairSpec
CONSTANTS
  Qty = 1
  Attempts = 2
  MaxDrops = 1
  EventsMayLag = TRUE
INVARIANTS
  SnapshotIsCurrent
  AdoptionCountsOnce
PROPERTIES
  Terminates
CHECK_DEADLOCK FALSE

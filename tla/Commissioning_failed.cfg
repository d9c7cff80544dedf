SPECIFICATION Spec
CONSTANTS
  Qty = 1
  Attempts = 1
  MaxDrops = 1
  EventsMayLag = FALSE
INVARIANTS
  FailedIsFlat
CHECK_DEADLOCK FALSE

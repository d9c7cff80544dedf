SPECIFICATION Spec
CONSTANTS
  Qty = 2
  Attempts = 1
  MaxDrops = 0
  EventsMayLag = TRUE
INVARIANTS
  MirrorWithinVenue
CHECK_DEADLOCK FALSE

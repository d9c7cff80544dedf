CONSTANTS
  Engines = {btc, eth}
  Cap = 1
  Threshold = 1
  MaxQuantity = 2
  MaxOrders = 2
  MaxResting = 1
SPECIFICATION Spec
SYMMETRY EngineSymmetry
CHECK_DEADLOCK FALSE
INVARIANTS TypeOK LiveOrderIsTracked NoOrderIsLeftWaiting BooksFollowFills
PROPERTIES IdentitiesDoNotMix HaltAdmitsNoExposure

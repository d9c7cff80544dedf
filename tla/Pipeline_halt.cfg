CONSTANTS
  Engines = {btc}
  Cap = 1
  Threshold = 1
  MaxQuantity = 2
  MaxOrders = 2
  MaxResting = 1
SPECIFICATION Spec
CHECK_DEADLOCK FALSE
INVARIANT ErrorHaltLasts

SPECIFICATION BookSpec
CONSTANTS
  LevelCount = 8
  Prices = {1, 2, 3}
  Quantities = {0, 1}
INVARIANT BestBidIsHighest

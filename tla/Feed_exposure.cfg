SPECIFICATION FeedSpec
CONSTANTS
  NetNodes = {n1}
  LocalNodes = {l1, l2}
  MaxOutages = 2
INVARIANTS DisconnectBlocksExposure
CHECK_DEADLOCK FALSE

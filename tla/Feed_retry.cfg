SPECIFICATION FairFeedSpec
CONSTANTS
  NetNodes = {n1}
  LocalNodes = {l1}
  MaxOutages = 1
PROPERTIES DisconnectionIsRetried
CHECK_DEADLOCK FALSE

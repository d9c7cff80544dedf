SPECIFICATION ProgramsSpec
CONSTANTS
  Streams = {btc, eth}
  Rows = 3
  LatestInstant = 3
  Interval = 1
  Word = 16
  SortedInput = TRUE
  MaxLaunches = 3
  NetNodes = {n1, n2}
  LocalNodes = {l1, l2}
  MaxOutages = 2
  MaxConnections = 2
  MaxFrames = 4
  RingValues = {v1, v2, v3}
  RingCapacity = 3
  LevelCount = 8
  Prices = {0, 1, 2, 4}
  Quantities = {0, 1}
  MaxGateLaunches = 2
  MaxCodes = 2
  GateAccounts <- MCGateAccounts
  UnsafeTitles = {"unsafe"}
  ListedAccounts <- MCListedAccounts
  ListedSymbols <- MCListedSymbols
  FullSymbols <- MCFullSymbols
  RawPrices <- MCRawPrices
  RawTimes = {0, 1, 10, 50, 95}
  ReceiptTime = 100
  TimeUnits = {1, 10, 100}
  MaxAge = 12
  MaxFuture = 2
  MaxInt = 1000
  MaxScale = 8
  ReplayInputs <- MCReplayInputs
  RecordLimits = {1, 2}
  Pieces = 2
  MaxReplays = 2
  Qty = 4
  TicksPerMinute = 1
  MaxClock = 3
  MaxRevision = 1
  MaxEvidenceAge = 0
  CompletedCapacity = 1
  ReconnectAttempts = 2
  ByteBase = 3
  MaxFrameBytes = 3
  ReadBytes = 3
  FramePayloads <- MCPayloads
  MaxSends = 3
  MaxStreams = 2
INVARIANTS
  ProgramsTypeOK
  NoCandleTradedTwice
  LostOnlyAtCheckpointInstant
  CheckpointSurvivesDeath
  NodeHasOneOwner
  DeliveredIsSent
  QuoteHasSize
  CodeUsedOnce
  OnlyTheApprovedAccount
  QuoteProvesOneDemoAccount
  CandlesAreFinal
  EvidenceIsOfOneConnection
  FramesAreSent
PROPERTIES
  OutageEnds
  RingIsFifo
  EvidenceIsWhole
CHECK_DEADLOCK FALSE

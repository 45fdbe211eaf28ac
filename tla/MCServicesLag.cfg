SPECIFICATION Spec
CONSTANTS
  m1 = m1
  Markets <- MCMarkets
  Transactions <- MCTransactions
  Outcomes = {1, 2}
  SlotSteps = {0}
  PAGE = 2
  MAX_ACCOUNTS = 1
  MaxTx = 3
  MaxLag = 1
  MaxFaults = 1
  MaxCrashes = 1
  THROTTLE = 2
  TTL = 3
  MARGIN = 1
  Delay = 1
  Snapshots <- MCSnapshots
  MaxFeed = 2
  MaxMisses = 1
  NoValue = NoValue
  Pools = {p1, p2}
  TICK = 1
  MARK_DENOM = 100
  OddsFeeds <- MCOddsFeeds
  SpotWeights <- MCSpotWeights
  EPOCH = 2
  MAX_MARK_AGE = 10
  PostDelay = 1
  MaxUpdates = 1
  MaxPostMisses = 1
  Crlf = FALSE
  MaxFrames = 3
  MaxBreaks = 2
  MaxEnds = 2
INVARIANT
  EachReplayed

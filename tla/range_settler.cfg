CONSTANTS
  Prices = {1, 2}
  Ranges <- MCRanges
  MAX_SETTLE_BATCH = 2
  MaxOrders = 2
  MaxTokens = 2
  Providers = {p1, p2}
  Primary = p1
  CONFIRMATIONS = 3
  MaxSettlementBatch = 2
  InitialManager <- MCInitialManager
  InitialPrice = 2
  None = None
  Torn = Torn
  MaxReorgDepth = 2
  ReorgsBetweenReads = FALSE
  MaxHeight = 4
  MaxTxs = 3
  MaxFaults = 1
SPECIFICATION Spec
CHECK_DEADLOCK FALSE
INVARIANT
  NoncesRise
  NothingUnrecorded
  RecordsStand
PROPERTY
  CrossedOrdersSettled

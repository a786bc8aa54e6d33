SPECIFICATION Spec
CONSTANTS
  Venues = {"binance_perp", "binance_spot", "okx", "hyperliquid"}
  Prices = {1, 2}
  Quantities = {0, 1}
  Depth = 1
  Time <- CoarseTime
  StaleThreshold = 2
  MaxUpdates = 4
  MaxFaults = 2
INVARIANTS
  SynchronizedBookIsExact
  NoObservationFromBeforeAGap
  BridgedBeforeUse
  RewarmedBeforeStreaming
PROPERTIES
  NeverGoesBack
CHECK_DEADLOCK FALSE

SPECIFICATION Spec
CONSTANTS
  Feeds = {"adapter", "lane", "baseline", "ticker", "funding", "open_interest", "trade"}
  WindowSize = 4
  WarmupSize = 3
  RecentTradeLimit = 2
  OpenInterestHistorySize = 2
  Times = {1, 2}
  SequenceIds = {0, 1, 2}
  Values = {1, 2}
  TradeIds = {"x", "y", "z"}
  LastCandle = 6
  MaxInFlight = 2
  MaxEvents = 4
  MaxFaults = 2
INVARIANTS
  CandlesAreExact
  ContextIsExact
PROPERTIES
  NothingTakenBack
CHECK_DEADLOCK FALSE

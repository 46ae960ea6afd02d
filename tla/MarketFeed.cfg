SPECIFICATION Spec
CONSTANTS
  Interval = 2
  Stale = 1
  MaxGap = 3
  Window = 2
  Keep = 2
  Limit = 2
  Horizon = 4
  MaxBooks = 3
  MaxDrops = 1
  MaxTrades = 3
INVARIANT QuoteIsNewest
INVARIANT HistoryIsTime
INVARIANT TradeCountIsTrue

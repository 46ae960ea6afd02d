CONSTANTS
  Keys = {k1, k2}
  MaxTrades = 2
  MaxDepth = 2
  TradeBudget = 2
  MaxStarts = 2
  MaxStops = 2
  MaxJobs = 4
SPECIFICATION FairSpec
INVARIANTS TypeOK NoJobLost WritesInOrder NeitherStarves AcceptingIsServed
PROPERTIES StopDrains
CHECK_DEADLOCK FALSE

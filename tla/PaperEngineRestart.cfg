CONSTANTS
  OrderIds = {1, 2, 3}
  FundingIds = {1}
  Requests <- MCRequests
  Books <- MCBooks
  Fundings <- MCFundings
  Capital = 60000
  FeeScale = 60
  MaxLeverage = 2
  MaxExposure = 36000
  MaxFeedAge = 1
  LossLimits <- MCLossLimits
  MaxSize = 6
  Grid <- MCGrid
  None = None
SPECIFICATION Spec

PROPERTY RestartKnows
CHECK_DEADLOCK FALSE

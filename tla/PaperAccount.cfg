CONSTANTS
  Strategies = {s1}
  None = None
  Prices <- MCPrices
  Quantities <- MCQuantities
  Leverages <- MCLeverages
  FundingRates <- MCFundingRates
  FeeRate = 1
  RateScale = 10
  StartingCash = 250
  MaxTime = 3
  MaxTrades = 2
SPECIFICATION Spec
INVARIANTS TypeOK Reconciles CashConserved RealizedMatchesTrades DrawdownLagsByEntryFee
PROPERTY FundingOnce
CHECK_DEADLOCK FALSE

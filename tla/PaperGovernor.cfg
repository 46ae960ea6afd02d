SPECIFICATION Spec
CONSTANTS
  A = A
  B = B
  Strategies <- Both
  Stake <- MCStake
  DailyLimit <- MCDailyLimit
  WeeklyLimit <- MCWeeklyLimit
  DrawdownPct <- MCDrawdownPct
  SmallestMargin <- MCSmallestMargin
  Fee = 1
  Gains <- MCGains
  Fundings <- MCFundings
  WorstLoss = 6
  MaxAccrued = 2
  DaysPerWeek = 2
  MaxDays = 2
  MaxTrades = 2
INVARIANTS TypeOK PeriodDrift PeriodLossBounded OnlyABreachHalts
PROPERTY DrawdownIsFinal
CHECK_DEADLOCK FALSE

SPECIFICATION AccountSpec
CONSTANTS
  Trades <- MCDays
  Target = 9000
  MaxLoss = 4500
  MaxSize = 15
  MinPassDays = 2
  WinningDay = 150
  WinningDays = 2
  StandardCap = 5000
  ConsistencyCap = 6000
  MinPayout = 125
  Slippage = 50
  DailyStop = 1000
  ProfitLock = 2000
  Duration = 8
  MaxTrades = 1
CHECK_DEADLOCK FALSE
INVARIANT ConsistenciesAgree

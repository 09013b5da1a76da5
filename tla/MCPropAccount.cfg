SPECIFICATION AccountSpec
CONSTANTS
  Trades <- MCTrades
  Target = 9000
  MaxLoss = 4500
  MaxSize = 15
  MinPassDays = 2
  WinningDay = 150
  WinningDays = 2
  StandardCap = 5000
  ConsistencyCap = 6000
  MinPayout = 125
  Slippage = 50
  DailyStop = 1000
  ProfitLock = 2000
  Duration = 4
  MaxTrades = 2
CHECK_DEADLOCK FALSE
INVARIANTS ReplaysAgree AuditIsConservative OpenIsSolvent

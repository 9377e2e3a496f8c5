CONSTANTS
  Scale = 2
  Price <- TickPrices
  InitialBalance = 40
  FeeBps = 1000
  SlipBps = 1000
  FastPeriod = 1
  SlowPeriod = 2
  RSIPeriod = 2
  Oversold = 40
  Overbought = 60
  BandPeriod = 3
  StdDevTimes = 1
  EntryPeriod = 2
  ExitPeriod = 2
  GridCount = 3
  BasePrice = 10
  GridSpacing = 30
  MaxTicks = 5
  MaxRuns = 2
SPECIFICATION Spec
INVARIANTS
  DailyAddsUp
  WinsAreGains
  FlatWhenFlagged
CHECK_DEADLOCK FALSE

CONSTANTS
  Scale = 2
  Price <- TwoPrices
  s1 = s1
  Strategy <- OneStrategy
  InitialBalance = 20
  FeeBps = 5000
  MaxOrderValue = 6
  MaxPositionValue = 3
  DailyLossLimit = 1
  MaxInt = 1000
  StopQty <- OneQty
  MaxOrders = 7
  MaxStops = 1
  MaxTicks = 2
SPECIFICATION Spec
INVARIANTS
  NeverShort
  PositionMatchesTrades
  LedgersAgree
PROPERTIES
  LossStopsTrading
  StopFiresOnce
CHECK_DEADLOCK FALSE

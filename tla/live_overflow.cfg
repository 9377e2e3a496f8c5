CONSTANTS
  Scale = 2
  Price <- TwoPrices
  s1 = s1
  Strategy <- OneStrategy
  InitialBalance = 40
  FeeBps = 2500
  MaxOrderValue = 0
  MaxPositionValue = 0
  DailyLossLimit = 0
  MaxInt = 4
  StopQty <- NoQty
  MaxOrders = 6
  MaxStops = 0
  MaxTicks = 2
SPECIFICATION Spec
INVARIANTS
  PositionMatchesTrades
CHECK_DEADLOCK FALSE

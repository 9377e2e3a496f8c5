CONSTANTS
  Scale = 2
  Price <- SomePrices
  Qty <- SomeQtys
  MaxQty = 7
  MaxCalls = 5
  ChanCap = 2
  MaxInt = 12
SPECIFICATION ReportSpec
INVARIANTS
  AvgInRange
  MoneyAccountedFor
  TodayIsEarned
  AvgCostIsFifo
CHECK_DEADLOCK FALSE

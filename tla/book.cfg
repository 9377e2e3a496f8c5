CONSTANTS
  Price <- TwoPrices
  SubmitQty <- OneTwo
  AddQty <- ZeroTwo
  MaxOrders = 4
SPECIFICATION Spec
INVARIANTS
  BookConsistent
  LevelTotals
  FillsBalance
PROPERTIES
  PriceTimePriority
  RestsUncrossed

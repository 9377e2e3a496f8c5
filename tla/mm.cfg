CONSTANTS
  Price <- QuotePrices
  SubmitQty <- One
  AddQty <- Two
  MaxOrders = 5
  Tick <- TwoTicks
  Levels = 1
  SpreadBps = 1000
  QuoteQty = 2
  TakerKind <- Kind
  MaxStarts = 2
  MaxTicks = 2
  MaxTakers = 1
SPECIFICATION MMSpec
CHECK_DEADLOCK FALSE
INVARIANTS
  QuotesTracked
  NoQuoteLeft
  QuotesUncrossed
PROPERTIES
  StopReturns

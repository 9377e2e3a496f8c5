CONSTANTS
  main = main
  Caller <- OneCaller
  MaxStarts = 2
  FeedCap = 2
  OutCap = 1
  MaxTicks = 3
SPECIFICATION PipelineSpec
INVARIANTS
  QuotedBeforeSeen
PROPERTIES
  TicksInOrder
  TickMovesOn
CHECK_DEADLOCK FALSE

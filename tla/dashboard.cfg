CONSTANTS
  b1 = b1
  Conn <- OneBrowser
  Stuck <- NoBrowser
  MaxTrades = 2
  BroadcastCap = 1
  Kinds = 2
SPECIFICATION Spec
INVARIANTS
  NothingMissing
  NoClientForgotten
PROPERTIES
  Delivered
  StopEnds
CHECK_DEADLOCK FALSE

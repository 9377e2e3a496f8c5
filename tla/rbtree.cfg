CONSTANTS
  Key <- EightPrices
  Desc = TRUE
SPECIFICATION TreeSpec
INVARIANTS
  RepresentsKeys
  RedBlackWhileGrowing
  NoPanicWhenQueued
CHECK_DEADLOCK FALSE

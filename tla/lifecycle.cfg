CONSTANTS
  c1 = c1
  c2 = c2
  Caller <- TwoCallers
  MaxStarts = 2
SPECIFICATION Spec
INVARIANTS
  OpenWhileRunning
  OneDispatcherInTurn
  RunTogether
PROPERTIES
  StopIsNotLost
  CallsReturn
CHECK_DEADLOCK FALSE

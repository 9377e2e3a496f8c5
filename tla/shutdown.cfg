CONSTANTS
  h1 = h1
  h2 = h2
  main = main
  Handler <- TwoHandlers
  Caller <- Everyone
  MaxStarts = 2
SPECIFICATION ProgramSpec
INVARIANTS
  StoppedAtExit
CHECK_DEADLOCK FALSE

CONSTANTS
  c1 = c1
  c2 = c2
  s1 = s1
  t1 = t1
  Caller <- TwoCallers
  Strategy <- OneStrategy
  Name <- OneName
  TradeId <- OneTrade
  Version <- TwoVersions
  EnvKey <- TwoKeys
  Time <- Moments
  Day <- Days
  DayLength = 6
  HourLength = 2
  Place <- Places
SPECIFICATION Spec
INVARIANTS
  StrategiesAsAsked
  EachTradeOneDay
  KeysReadBack
CHECK_DEADLOCK FALSE

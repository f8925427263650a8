SPECIFICATION FairSpec
CONSTANTS
  Timeout = 7
  Interval = 2
  Lag = 3
  QueryTime = 1
  FetchLimit = 9
INVARIANTS
  TypeOK
  NoFalseAlarm
  VerdictHonest
  EndsInTime
  IInv
PROPERTIES
  RouteEnds

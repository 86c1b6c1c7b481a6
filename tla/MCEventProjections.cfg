SPECIFICATION Spec
CONSTANTS
  Worker = {w1, w2}
  r1 = r1
  r2 = r2
  Row = {r1, r2}
  Logs <- MCLogs
  MaxFaults = 1
CHECK_DEADLOCK FALSE
INVARIANTS
  TypeOK
  ViewMatchesLog
  NewestWins
  CacheFollows
  DistributionsSound
PROPERTIES
  IndexerProgresses
  DeliverySpec

SPECIFICATION FairSpec
CONSTANTS
  Life = 15
  Refresh = 6
  Retry = 1
  Latency = 2
  Outage = 4
  Absent = Absent
  Foreign = Foreign
INVARIANTS TypeOK TokensLive InStep
PROPERTIES RefreshEnds
CHECK_DEADLOCK FALSE

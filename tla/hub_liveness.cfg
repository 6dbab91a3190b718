SPECIFICATION FairSpec
CONSTANTS
  Sessions = {s1}
  Projects = {p1}
  Codes = {c1}
  Watchers = {w1}
  Requests = {r1}
  None = None
  MaxWatchersPerSession = 1
  MaxSessionsPerProject = 1
  EventBuffer = 1
  RecentBuffer = 1
  PairingCodeTTL = 0
  IdleTimeout = 0
  EndedTTL = 1
  MaxClock = 1
  MaxSeq = 1
  MaxBatch = 1
CHECK_DEADLOCK FALSE
PROPERTY EndingLetsGo

SPECIFICATION Spec
CONSTANTS
  Sessions = {s1}
  Projects = {p1}
  Codes = {c1}
  Watchers = {w1, w2}
  Requests = {}
  None = None
  MaxWatchersPerSession = 1
  MaxSessionsPerProject = 1
  EventBuffer = 1
  RecentBuffer = 2
  PairingCodeTTL = 1
  IdleTimeout = 1
  EndedTTL = 0
  MaxClock = 1
  MaxSeq = 3
  MaxBatch = 2
SYMMETRY Interchangeable
CHECK_DEADLOCK FALSE
INVARIANTS TypeOK NeitherHoleNorDuplicate WatchersInStep
PROPERTY EndIsFinal

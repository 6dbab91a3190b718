SPECIFICATION Spec
CONSTANTS
  Sessions = {s1, s2}
  Projects = {p1, p2}
  Codes = {c1, c2}
  Watchers = {}
  Requests = {r1, r2}
  None = None
  MaxWatchersPerSession = 1
  MaxSessionsPerProject = 1
  EventBuffer = 1
  RecentBuffer = 1
  PairingCodeTTL = 0
  IdleTimeout = 0
  EndedTTL = 0
  MaxClock = 2
  MaxSeq = 0
  MaxBatch = 0
SYMMETRY Interchangeable
CHECK_DEADLOCK FALSE
INVARIANTS CodesNameWaitingSessions PendingIsTheOpenQuestions

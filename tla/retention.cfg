SPECIFICATION FairSpec
CONSTANTS
  l1 = l1
  l2 = l2
  s1 = s1
  p1 = p1
  Logs = {l1, l2}
  Launches = {s1}
  Projects = {p1}
  LaunchOf <- OneLaunch
  ProjectOf <- OneProject
  Uploads = {u1, u2}
  Windows <- SomeWindows
  UsageGraceDays = 1
  BatchSize = 1
  MaxBatches = 1
  MaxAge = 3
  MaxFaults = 1
CHECK_DEADLOCK FALSE
INVARIANT KeptIsWhole
PROPERTIES GoneInItsTime EverythingExpires

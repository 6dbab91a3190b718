SPECIFICATION FairSpec
CONSTANTS
  d1 = d1
  d2 = d2
  l1 = l1
  l2 = l2
  l3 = l3
  a1 = a1
  Devices = {d1, d2}
  Logs = {l1, l2, l3, a1}
  WrittenOn <- TwoEach
  Anonymous = {a1}
  Uploads = {u1, u2}
  None = None
  DailyLogCap = 2
  MaxBatch = 2
  MaxFaults = 1
CHECK_DEADLOCK FALSE
INVARIANTS NothingLost StoredOnce ChargesAreRight LaunchesHaveLogs
PROPERTIES ImplementsDelivery EverythingArrives

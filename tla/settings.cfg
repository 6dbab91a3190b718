SPECIFICATION Spec
CONSTANTS
  Requests = {r1, r2}
  Releases <- SomeReleases
  Version <- BuildVersion
  None = None
  MaxFaults = 1
SYMMETRY Interchangeable
CHECK_DEADLOCK FALSE
INVARIANT SettingsAgree
PROPERTY OffMeansOff

SPECIFICATION Spec
CONSTANTS
  Dbs <- MCDbs
  Handles = {1, 4, 5}
  Exact = 4
  Limit = 2
  Starts <- MCStarts
  Viewed = {"cache"}
  Texts = {"2"}
  None = None
  MaxQuestions = 4
  MaxOpen = 2
  MaxChanges = 1
CHECK_DEADLOCK FALSE
INVARIANTS PageBelongsTogether PagesLeaveNothingOut
PROPERTIES NoLostUpdate RefusalsAreHonest

SPECIFICATION Spec
CONSTANTS
  Users = {u1, u2}
  Projects = {p1}
  Requests = {r1, r2, r3}
  None = None
  MaxTokensPerUser = 1
  Operations = {"create", "role", "delete", "access", "login", "change", "reset", "token", "command"}
SYMMETRY Interchangeable
CHECK_DEADLOCK FALSE
INVARIANTS CountHoldsUntilWrite SuperAdminRemains AccessIsRevocable EvictionIsTotal TemporaryIsFlagged

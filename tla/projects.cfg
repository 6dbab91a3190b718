SPECIFICATION FairSpec
CONSTANTS
  sue = sue
  ann = ann
  Users = {sue, ann}
  Projects = {p1, p2}
  Names = {n1, n2}
  Keys = {k1, k2, k3, k4}
  Requests = {r1, r2}
  RoleOf <- SomeRoles
  None = None
CHECK_DEADLOCK FALSE
INVARIANTS OneKeyOpens DeletedGrantsNothing
PROPERTY RequestsAreAnswered

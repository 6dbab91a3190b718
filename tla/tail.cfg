SPECIFICATION FairSpec
CONSTANTS
  Projects = {p1}
  Viewers = {v1, v2}
  Uploads = {u1, u2}
  None = None
  MaxPerProject = 1
  BufferSize = 2
  MaxBatches = 3
CHECK_DEADLOCK FALSE
INVARIANTS RegisteredIsOpen TailIsFaithful
PROPERTY TailsLetGo

CONSTANTS
  CPUs = {c1}
  Nodes = {1, 2, 3}
  Entities = {1, 2, 3}
  Nil = Nil
  Base = Base
  None = None
  Fires = {0, 1, 2, 3}
  MaxTime = 0
  Calls <- CallsNoUpdate
  AllocFails = FALSE
  UpdateLinked = FALSE
SPECIFICATION FairCreatedSpec
PROPERTIES LockReleased

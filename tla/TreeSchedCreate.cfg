CONSTANTS
  CPUs = {c1}
  Nodes = {n1}
  Entities = {e1, e2}
  Nil = Nil
  Base = Base
  None = None
  Fires = {0}
  MaxTime = 0
  Calls <- CallsNoFinish
  AllocFails = TRUE
  UpdateLinked = FALSE
SPECIFICATION Spec
INVARIANTS NodePerEntity

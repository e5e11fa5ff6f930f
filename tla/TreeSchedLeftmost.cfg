CONSTANTS
  CPUs = {c1}
  Nodes = {n1, n2}
  Entities = {e1, e2}
  Nil = Nil
  Base = Base
  None = None
  Fires = {0, 1}
  MaxTime = 0
  Calls <- CallsNoFinish
  AllocFails = FALSE
  UpdateLinked = TRUE
SPECIFICATION Spec
INVARIANTS LeftmostIsLeast

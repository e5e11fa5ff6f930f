CONSTANTS
  CPUs = {c1, c2}
  Nodes = {n1, n2}
  Entities = {e1, e2}
  Nil = Nil
  Base = Base
  None = None
  Fires = {0, 1}
  MaxTime = 2
  Calls <- AllCalls
  AllocFails = FALSE
  UpdateLinked = TRUE
SYMMETRY Symmetry
VIEW LiveView
SPECIFICATION Spec
INVARIANTS TypeOK MutualExclusion
PROPERTIES FinishNeverReturns

CONSTANTS
  CPUs = {c1, c2}
  Nodes = {n1, n2, n3}
  Entities = {e1, e2, e3}
  Nil = Nil
  Base = Base
  None = None
  Fires = {0, 1}
  MaxTime = 0
  Calls <- CallsNoFinish
  AllocFails = FALSE
  UpdateLinked = FALSE
SYMMETRY Symmetry
VIEW LiveView
SPECIFICATION Spec
PROPERTIES ImplementsReadyQueue

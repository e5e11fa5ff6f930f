CONSTANTS
  CPUs = {c1}
  Nodes = {1, 2, 3, 4, 5, 6, 7}
  Entities = {1, 2, 3, 4, 5, 6, 7}
  Nil = Nil
  Base = Base
  None = None
  Fires = {0, 1, 2, 3, 4, 5, 6, 7}
  MaxTime = 0
  Calls <- TreeCalls
  AllocFails = FALSE
  UpdateLinked = FALSE
VIEW LiveView
SPECIFICATION CreatedSpec
INVARIANTS Shape RedBlack CountExact LeftmostIsLeast

CONSTANTS
  CPUs = {c1}
  Nodes = {n1}
  Entities = {e1}
  Nil = Nil
  Base = Base
  None = None
  Fires = {0}
  MaxTime = 1
  Calls <- AllCalls
  AllocFails = FALSE
  UpdateLinked = FALSE
SPECIFICATION FairSpec
PROPERTIES FinishReturns

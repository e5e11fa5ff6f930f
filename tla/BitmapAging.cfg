SPECIFICATION Spec
CONSTANTS
  Entities = {e1, e2}
  None = None
  PrioMin = 3
  PrioDefault = 2
  CfsFrom = 2
  AgingFrom = 3
  Granularity = 1
  AgingThreshold = 1
  AgingPeriod = 3
  TimesliceBase = 4
  TimesliceMin = 1
  CountMod = 4
  MaxClock = 6
SYMMETRY Symmetry
INVARIANT CountIsEntities

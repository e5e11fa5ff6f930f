CONSTANTS
  Cpus = {c1, c2}
  Locks = {1, 2}
  HandlerLocks = {1}
  NoLock = NoLock
  Takers = {t1, t2}
  Givers = {g1, g2}
  MaxFailures = 2
SPECIFICATION ConcurrentSpec
INVARIANTS
  ConcurrentTypeOK
  OneHolder
  InterruptsExact
  NoCircularWait
  Exclusion
  NoLostWakeup
PROPERTY EveryLockReturned
CHECK_DEADLOCK FALSE

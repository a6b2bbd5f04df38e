SPECIFICATION BusySpec
CONSTANTS
  t1 = t1
  t2 = t2
  t3 = t3
  P = P
  Q = Q
  Thread = {t1, t2, t3}
  Process = {P, Q}
  Home <- TwoInP
  NoOne = NoOne
  StaleThreshold = 2
  Timeout = 1
  MaxCrashes = 1
  CrashAt <- Anywhere
INVARIANTS TypeOK MutexUntilStale HolderOwnsLock ThreadLockReturned
PROPERTIES AcquireResolves OrphanEvictedUnlessTorn

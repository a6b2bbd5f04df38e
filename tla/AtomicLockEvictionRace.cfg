SPECIFICATION Spec
CONSTANTS
  t1 = t1
  t2 = t2
  t3 = t3
  P = P
  Q = Q
  Thread = {t1, t2, t3}
  Process = {t1, t2, t3}
  Home <- OneEach
  NoOne = NoOne
  StaleThreshold = 2
  Timeout = 1
  MaxCrashes = 1
  CrashAt <- Holding
INVARIANTS MutexWhileHoldersPrompt

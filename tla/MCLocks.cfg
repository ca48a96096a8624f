CONSTANTS
  t1 = t1  t2 = t2  t3 = t3  t4 = t4
  Threads = {t1, t2, t3, t4}
  Pids = {1, 2, 3}
  Files <- MCFiles
  Argvs <- MCArgvs
SPECIFICATION AllSpec
INVARIANTS
  MutualExclusion
  SomeoneCanGo
  NoAssertionFails
  OrderPreventsCircles
PROPERTIES
  ImplementsSemaphore
  LockProgress

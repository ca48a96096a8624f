CONSTANTS
  t1 = t1  t2 = t2  t3 = t3
  Threads = {t1, t2, t3}
  N = 2
  Increments = 7
  Records = 3
  Entries = {f1, f2}
  NoEntry = NoEntry
  Width = 4
  Widths = {0, 1, 2, 3}
SPECIFICATION AllSpec
INVARIANTS
  UpdatesLostWithinBounds
  SpinLockWorks
  PoolWorks
  ImageIsComplete
PROPERTIES
  MainEnds

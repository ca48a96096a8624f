CONSTANTS
  t1 = t1  t2 = t2  t3 = t3
  p1 = p1
  Threads = {t1, t2, t3}
  Producers = {p1, p2}
  Consumers = {c1, c2}
  Input <- MCInput
  Few <- MCFew
  NTHREAD = 2
SPECIFICATION AllSpec
INVARIANTS
  NoNumberLost
PROPERTIES
  MidtermEnds

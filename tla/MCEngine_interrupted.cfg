CONSTANTS
  t1 = t1  t2 = t2  t3 = t3
  w1 = w1  w2 = w2
  c1 = c1  c2 = c2
  b1 = b1
  NoBranch = NoBranch
  NoTask = NoTask
  BranchOf <- MCBranchOf
  Tasks = {t1}
  Workers = {w1}
  Clients = {c1}
  QueueMax = 2
  Deletable = {}
  KillTwice = FALSE
  MaxCrashes = 1
  StoreFails = FALSE
SPECIFICATION Spec
INVARIANT ActiveTracked

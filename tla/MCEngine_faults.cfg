CONSTANTS
  t1 = t1  t2 = t2  t3 = t3
  w1 = w1  w2 = w2
  c1 = c1  c2 = c2
  b1 = b1
  NoBranch = NoBranch
  NoTask = NoTask
  BranchOf <- MCBranchOf
  Tasks = {t1, t2}
  Workers = {w1, w2}
  Clients = {c1}
  QueueMax = 1
  Deletable = {t1}
  KillTwice = FALSE
  MaxCrashes = 1
  StoreFails = TRUE
SPECIFICATION Spec
SYMMETRY MCSymmetry
INVARIANT SingleOwner
INVARIANT RunningIsKillable
INVARIANT EngineInv
\* A read lock that Tasks leaves behind stops every worker.
CHECK_DEADLOCK FALSE

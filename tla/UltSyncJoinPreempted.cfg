SPECIFICATION Spec
CONSTANTS
  e1 = e1 e2 = e2 t1 = t1 t2 = t2 t3 = t3 p1 = p1 p2 = p2
  Xstreams = {e1, e2}
  Threads = {t1, t2, t3}
  Pools = {p1, p2}
  SchedPool <- PrivatePool
  FirstPool <- T3InP2
  Access <- AllMpsc
  Joins <- T1JoinsT2
  Cancels <- NoPairs
  YieldsTo <- NoPairs
  Migrates <- NoPairs
  MigrateBy <- ByXstream
  Suspenders = {}
  Yielders = {}
  Finishing = {}
  NewEs = {t2}
  None = None
INVARIANTS ResumedOnItsKlt
CHECK_DEADLOCK FALSE

SPECIFICATION Spec
CONSTANTS
  e1 = e1 e2 = e2 t1 = t1 t2 = t2 t3 = t3 p1 = p1 p2 = p2
  Xstreams = {e1, e2}
  Threads = {t1, t2, t3}
  Pools = {p1, p2}
  SchedPool <- PrivatePool
  FirstPool <- T3InP2
  Access <- AllMpsc
  Joins <- T1JoinsT3
  Cancels <- T3CancelsT1
  YieldsTo <- NoPairs
  Migrates <- NoPairs
  MigrateBy <- ByXstream
  Suspenders = {}
  Yielders = {}
  Finishing = {e1}
  NewEs = {}
  None = None
INVARIANTS NoUseAfterEnd
CHECK_DEADLOCK FALSE

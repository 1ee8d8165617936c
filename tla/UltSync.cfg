SPECIFICATION Spec
CONSTANTS
  e1 = e1 e2 = e2 t1 = t1 t2 = t2 t3 = t3 p1 = p1 p2 = p2
  Xstreams = {e1, e2}
  Threads = {t1, t2, t3}
  Pools = {p1}
  SchedPool <- SharedPool
  FirstPool <- AllInP1
  Access <- AllMpmc
  Joins <- T1JoinsT2
  Cancels <- T3CancelsT2
  YieldsTo <- NoPairs
  Migrates <- NoPairs
  MigrateBy <- ByXstream
  Suspenders = {t1, t3}
  Yielders = {t2}
  Finishing = {}
  NewEs = {t2}
  None = None
INVARIANTS OneHolder NoUseAfterEnd
PROPERTIES JoinSeesEnd
CHECK_DEADLOCK FALSE

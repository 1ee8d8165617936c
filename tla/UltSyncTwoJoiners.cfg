SPECIFICATION FairSpec
CONSTANTS
  e1 = e1 e2 = e2 t1 = t1 t2 = t2 t3 = t3 p1 = p1 p2 = p2
  Xstreams = {e1, e2}
  Threads = {t1, t2, t3}
  Pools = {p1}
  SchedPool <- SharedPool
  FirstPool <- AllInP1
  Access <- AllMpmc
  Joins <- TwoJoinT2
  Cancels <- NoPairs
  YieldsTo <- NoPairs
  Migrates <- NoPairs
  MigrateBy <- ByXstream
  Suspenders = {}
  Yielders = {}
  Finishing = {}
  NewEs = {}
  None = None
PROPERTIES JoinReturns
CHECK_DEADLOCK FALSE

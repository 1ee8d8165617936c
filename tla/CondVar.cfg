SPECIFICATION FairSpec
CONSTANTS
  u1 = u1 u2 = u2 u3 = u3 x = x
  Xstreams = {e1, e2}
  Ults = {u1, u2, u3}
  Externals = {x}
  Programs <- Both
  None = None
INVARIANTS QueueHolds RwExclusion NoSignalLost
PROPERTIES CallsReturn
CHECK_DEADLOCK FALSE

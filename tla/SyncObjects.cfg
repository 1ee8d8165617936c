SPECIFICATION FairSpec
CONSTANTS
  u1 = u1 u2 = u2 x = x ev = ev fu = fu ba = ba
  Xstreams = {e1, e2}
  Ults = {u1, u2}
  Externals = {x}
  Objects = {ev,fu,ba}
  Kind <- KindOf
  Size <- SizeOf
  Uses <- UsersOf
  MaxCalls = 2
  None = None
INVARIANTS NobodyForgotten BarrierHolds NoUseAfterFree
PROPERTIES WaitReturns
CHECK_DEADLOCK FALSE

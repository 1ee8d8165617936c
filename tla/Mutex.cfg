SPECIFICATION FairSpec
CONSTANTS
  u1 = u1 u2 = u2 u3 = u3 x = x e1 = e1 e2 = e2
  Xstreams = {e1, e2}
  Ults = {u1, u2, u3}
  Externals = {x}
  Programs <- Sound
  MaxHandovers = 1
  MaxWakeups = 1
  None = None
INVARIANTS NoForgottenWaiter RunsOnce
PROPERTIES ImplementsLock LockReturns
CHECK_DEADLOCK FALSE

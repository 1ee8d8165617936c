SPECIFICATION EndingSpec
CONSTANTS
  e1 = e1 e2 = e2 m1 = m1 m2 = m2 k1 = k1 k2 = k2 k3 = k3 t1 = t1 t2 = t2 t3 = t3 None = None
  Xstreams = {e1, e2}
  Klts = {m1, m2, k1, k2}
  Threads = {t1, t2}
  NewEs = {t2}
  Joiners = {t1}
  InitNum = 1
  Main <- MCMain
  InitSubs <- MCInitSubs
  Serves <- MCServesJoin
PROPERTIES BackToMainReturns

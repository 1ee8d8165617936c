SPECIFICATION FairSpec
CONSTANTS
  e1 = e1 e2 = e2 m1 = m1 m2 = m2 k1 = k1 k2 = k2 k3 = k3 t1 = t1 t2 = t2 t3 = t3 None = None
  Xstreams = {e1}
  Klts = {m1, k1, k2, k3}
  Threads = {t1, t2}
  NewEs = {t1, t2}
  Joiners = {}
  InitNum = 1
  Main <- MCMainOne
  InitSubs <- MCInitSubsOne
  Serves <- MCServesAll
PROPERTIES SchedulerRegainsEs PreemptedResumes

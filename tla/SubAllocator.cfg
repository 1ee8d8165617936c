SPECIFICATION Spec
CONSTANTS
  e1 = e1 e2 = e2 m1 = m1 m2 = m2 k1 = k1 k2 = k2 k3 = k3 k4 = k4
  Xstreams = {e1, e2}
  Primary = e1
  Klts = {k1, k2, k3, k4}
  None = None
  Main <- MainTwo
  InitList <- ListTwo
  InitNum = 1
  CountMod = 8
  Garbage = {0, 2}
INVARIANTS OnePlace
PROPERTIES TerminationSeen ImplementsKltList
SYMMETRY NewAlike
CONSTRAINT Uncut
CHECK_DEADLOCK FALSE

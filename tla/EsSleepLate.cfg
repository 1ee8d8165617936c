SPECIFICATION FairSpec
CONSTANTS
  N = 3
  MaxSignals = 3
  Hogs = {}
PROPERTIES ClientReturns
CHECK_DEADLOCK FALSE

SPECIFICATION FairSpec
CONSTANTS
  N = 3
  MaxSignals = 3
  Hogs = {2}
INVARIANTS ActiveEsAwake AnswersAwake
PROPERTIES InactiveEsSleeps HandlerEnds ClientReturnsUnlessLate
CHECK_DEADLOCK FALSE

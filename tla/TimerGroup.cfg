SPECIFICATION Spec
CONSTANTS
  N = 3
  MaxOverlaps = 1
INVARIANTS RoundHitsAll GroupRecovers NoUseAfterDelete
CHECK_DEADLOCK FALSE

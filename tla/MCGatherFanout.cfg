CONSTANTS
  N = 2
  Collector = {t1, t2}
  Cap = 1
  MaxRound = 1
  MaxForward = 1
  MaxDrop = 1
  None = None
SPECIFICATION Spec
CHECK_DEADLOCK FALSE
INVARIANTS
  SameOrder
  StopTakesEffect
PROPERTIES
  Progress
  KeepsPromise

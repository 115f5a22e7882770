CONSTANTS
  Interval <- MCInterval
  MaxClock = 7
  None = None
  Garbled = Garbled
SPECIFICATION Spec
INVARIANTS
  Aligned
  LastCommandWins
PROPERTIES
  TimersResume
  KeepsPromise

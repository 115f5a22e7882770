CONSTANTS
  Interval <- MCInterval
  Sleep <- MCSleep
  Unit <- MCUnit
  Keep <- MCKeep
  Zone <- MCZone
  Early <- MCEarly
  ERROR_TIMES = 0
  Slow = 5
  Late = 1
  First = 31
  MaxClock = 71
  MaxBoot = 1
  MaxFail = 1
  Null = Null
  Garbled = Garbled
  Database <- MCDatabase
  MAXDEVS = 2
  MaxRefused = 2
SPECIFICATION GatherSpec
INVARIANTS
  CountedOnce
  NothingMissed
  HistoryKept
  LoadedAsStored
  ReadAsStored
CHECK_DEADLOCK FALSE

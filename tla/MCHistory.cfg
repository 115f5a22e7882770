CONSTANTS
  RETRY_COUNT = 2
  MaxPacket = 2
  MaxDrop = 1
  MaxCallback = 2
  MaxTime = 4
  Pols = 2
  Slots = 2
  MaxChange = 2
  MaxRefusal = 1
  ReportTime <- MCTime
  RETRY_TIMES = 1
  MaxMessage = 2
  MaxAsked = 2
  MaxRefused = 2
SPECIFICATION HistorySpec
CHECK_DEADLOCK FALSE
INVARIANTS
  ResendBound
  QueryAnswered
  LocksKeep
  ReportsMarkNothing
PROPERTIES
  AnswerStopsResending
  NoFalseFailure
  KeepsPromise
  TimerStops
  CommandEnds

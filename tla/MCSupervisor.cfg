CONSTANTS
  N = 2
  Period = 5
  Ahead = 3
  Grace = 2
  Delay = 1
  Cap = 1
  MaxDeath = 2
  MaxRefused = 2
SPECIFICATION AnySpec
INVARIANTS
  NoFalseAlarm
  DeathNoticed
  QueuesFound
  EarlyExitSeen
CHECK_DEADLOCK FALSE

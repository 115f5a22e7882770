CONSTANTS
  RETRY_COUNT_HEARTBEAT = 3
  DogLimit = 5
SPECIFICATION AnySpec
INVARIANTS
  HealthyKept
PROPERTIES
  SilenceNoticed
  Recovers

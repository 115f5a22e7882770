CONSTANTS
  RETRY_COUNT = 3
  MaxPacket = 2
  MaxDrop = 1
  MaxCallback = 1
SPECIFICATION Spec
CHECK_DEADLOCK FALSE
INVARIANT
  FailureAfterRetries

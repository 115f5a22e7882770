CONSTANTS
  Client = {c1}
  CONNECT_TIMES = 2
  DataMax = 3
  crc16 <- CRC16
  Room = 9
  MsgSize = 8
  MaxLogin = 2
  MaxFrame = 3
  MaxDamage = 1
SPECIFICATION LinkSpec
CHECK_DEADLOCK FALSE
INVARIANTS
  OfflineStopped
  LaterSessionFlows
  OnlyWhole
  NothingLost
  SessionAccepted
PROPERTY
  DropAnnounced

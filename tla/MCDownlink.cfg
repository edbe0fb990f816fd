CONSTANTS
  IdLength = 2
  HeaderLength = 2
  MaxLength = 2
  WSize = 6
  Chunk = 4
  SocketRoom = 4
  MaxSize = 1
  Packets = 3
  Interrupts = 1
SPECIFICATION DownFairSpec
CHECK_DEADLOCK FALSE
INVARIANTS
  DownTypeOK
PROPERTIES
  ArrivesInOrder
  ClientReturns
  EveryPacketGetsThrough

CONSTANTS
  IdLength = 2
  HeaderLength = 2
  MaxLength = 1
  RSize = 5
  SocketRoom = 2
  MaxSize = 4
  Packets = 5
  Interrupts = 2
SPECIFICATION Spec
CHECK_DEADLOCK FALSE
INVARIANTS TypeOK NeverStuffed
PROPERTIES ArrivesInOrder EveryPacketArrives

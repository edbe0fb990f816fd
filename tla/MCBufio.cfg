CONSTANTS
  Byte = {0, 1}
  RSize = 2
  WSize = 3
  Chunk = 2
  SocketRoom = 2
  Writes <- MCWrites
  Reads <- MCReads
SPECIFICATION FairSpec
INVARIANTS TypeOK
PROPERTIES OutputIsAQueue InputIsAQueue BytesMove

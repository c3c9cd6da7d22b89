SPECIFICATION Spec
CONSTANTS
  INIT_BUFFER_SIZE = 2
  SmallBuffer = 5
  BigBuffer = 5
  LengthRoom = 3
  MaxHead = 3
  MAX_PACKET_SIZE = 9
  PacketLists <- MCPacketLists
  RawStreams <- MCRawStreams
INVARIANTS
  BuffersWithin
  ReadHasRoom
  CutsDoNotMatter
  SentIsReceived
  AnswersAreWhole
CHECK_DEADLOCK FALSE

SPECIFICATION ServerSpec
CONSTANTS
  Connections = {"c1", "c2"}
  FileSize = 5
  ChunkSize = 2
  HeaderSize = 1
  ReplySize = 2
  Offsets <- MCOffsets
INVARIANTS
  ServerTypeOK
  BufferBounded
  GaplessAnswer
  NoDanglingClient
PROPERTIES
  TransferEnds
  ImplementsFileStream
CHECK_DEADLOCK FALSE

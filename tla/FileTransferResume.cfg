SPECIFICATION Spec
CONSTANTS
  Connections = {"c1", "c2"}
  Paths = {"p1"}
  FileSize = 3
  ChunkSize = 2
  HeaderSize = 1
  ReplySize = 1
  WriteBuffer = 1
  Resumes = {}
  Leftovers = {}
  SaveChoices <- AnyPath
  Offsets = {0}
INVARIANT AnswerStartsWhereAsked
CHECK_DEADLOCK FALSE

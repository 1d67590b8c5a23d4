SPECIFICATION Spec
CONSTANTS
  Connections = {c1, c2}
  Paths = {p1, p2}
  FileSize = 3
  ChunkSize = 2
  HeaderSize = 1
  ReplySize = 1
  WriteBuffer = 1
  Resumes = {}
  Leftovers = {}
  SaveChoices <- OwnPath
  Offsets = {0}
SYMMETRY Exchanges
PROPERTIES
  FinishedBySaver
  ProgressIsSaved
CHECK_DEADLOCK FALSE

SPECIFICATION Spec
CONSTANTS
  Connections = {"c1"}
  Paths = {"p1"}
  FileSize = 50
  ChunkSize = 20
  HeaderSize = 1
  ReplySize = 1
  WriteBuffer = 10
  Resumes = {0, 49}
  Leftovers <- Prefixes
  SaveChoices <- AnyPath
  Offsets = {0, 1}
INVARIANTS
  TypeOK
  FinishedIsSaved
PROPERTIES
  FreshDownloadEnds
  ServesAsSpecified
CHECK_DEADLOCK FALSE

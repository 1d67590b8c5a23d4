SPECIFICATION DownloadSpec
CONSTANTS
  Transports = {"t1", "t2"}
  FileSize = 4
  Threshold = 2
  Resumes = {1, 4}
INVARIANTS
  WholeAnswersAreSaved
CHECK_DEADLOCK FALSE

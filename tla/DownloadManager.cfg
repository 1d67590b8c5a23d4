SPECIFICATION Spec
CONSTANTS
  Ids = {1}
  MaxObjects = 2
  OddEntries <- OddFiles
INVARIANT TypeOK
PROPERTIES
  SavesAreOfListed
  UnfinishedSurvives

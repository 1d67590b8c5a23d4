SPECIFICATION Spec
CONSTANTS
  Hosts = {"h1", "h2"}
  Paths = {"p1", "p2", "p3"}
  LongPaths = {"p3"}
  Directories <- MCDirectories
  MaxRequests = 2
INVARIANTS
  EntriesAreLive
  ListedIsOfActive
PROPERTIES
  ListingsInOrder
  LastAskedIsShown

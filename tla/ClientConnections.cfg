SPECIFICATION ClientSpec
CONSTANTS
  Names = {1, 2}
  Addresses = {a, b, w}
  WebDavAddresses = {w}
  MaxObjects = 2
  OddEntries <- OddFiles

CONSTRAINT SomeNameIsGood
SYMMETRY Hosts
INVARIANTS
  TypeOK
  RowsAreRight
  CopiesAgree
  MessengersFit

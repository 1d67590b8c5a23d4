SPECIFICATION Spec
CONSTANTS
  Paths = {"p1", "p2"}
  MaxGets = 1
  Names = {"notes", "photos"}
  Collections = {"photos"}
  FaultyStyles <- MCFaultyStyles
INVARIANTS
  OneListing
  PostedReplyExists
  ListingIsContents
PROPERTY ParserIsFreed

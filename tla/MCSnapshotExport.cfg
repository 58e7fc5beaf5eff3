SPECIFICATION Spec
CONSTANTS
  A = A
  B = B
  NoId = NoId
  Old = Old
  New = New
  Absent = Absent
  Torn = Torn
  Foreign = Foreign
  List <- Lists
  Stamped <- Edges
  Name <- Ids
  Val <- Values
  Graphs <- SomeGraphs
  Limit = 2
  Includes <- Requests
  HandMade <- ByHand
  DiffRequests <- Comparisons
  MaxPublications = 2
  MaxWrites = 2
INVARIANTS
  FilesAreWhole
  QuietExportIsConsistent
  DiffIsTrueOfGraphs
  DiffLosesNothing
  ExitStatusTells
CHECK_DEADLOCK FALSE

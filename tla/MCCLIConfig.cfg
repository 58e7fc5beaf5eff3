SPECIFICATION Spec
CONSTANTS
  P1 = P1
  P2 = P2
  Namespace = Namespace
  Server = Server
  A = A
  B = B
  None = None
  Absent = Absent
  Empty = Empty
  Torn = Torn
  Proc <- Procs
  Key <- Keys
  Value <- Values
  Raw <- Spellings
  Canonical <- Spelled
  Flags <- FlagChoices
  Environ <- Environment
  Default <- Defaults
  MaxCommands = 4
SYMMETRY Symmetric
INVARIANTS
  ReadsAreExplained
  UndisturbedIsExact
  LastCommandIsInEffect
PROPERTIES
  TornNeedsReset
CHECK_DEADLOCK FALSE

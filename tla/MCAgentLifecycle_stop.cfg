\* The process exits.
CHECK_DEADLOCK FALSE
SPECIFICATION AgentSpec
CONSTANTS
  Secret = Secret
  Resource <- Kinds
  SyncOrder <- Order
  ListOrder <- Order
  InitialItems <- OneItem
  Absent <- NoKinds
  ListMayFail <- Kinds
  MaxVersion = 2
  MaxPending = 1
  MaxRequests = 2
INVARIANTS
  ExitStatusHasACause
PROPERTIES
  AgentExits

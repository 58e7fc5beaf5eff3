SPECIFICATION FairSpec
CONSTANTS
  Secret = Secret
  Deployment = Deployment
  Pod = Pod
  Connector = Connector
  Resource <- WithConnectors
  SyncOrder <- ConnectorsLast
  ListOrder <- ConnectorsLast
  InitialItems <- SomeItems
  Absent <- ConnectorsAbsent
  ListMayFail <- NoFailure
  MaxVersion = 2
  MaxPending = 1
PROPERTIES
  AbsentKindIsLeftAside

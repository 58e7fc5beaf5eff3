SPECIFICATION FairSpec
CONSTANTS
  Secret = Secret
  Deployment = Deployment
  Pod = Pod
  Connector = Connector
  Resource <- TwoResources
  SyncOrder <- TwoOrder
  ListOrder <- TwoOrder
  InitialItems <- SomeItems
  Absent <- NoneAbsent
  ListMayFail <- NoFailure
  MaxVersion = 2
  MaxPending = 1
PROPERTIES
  ImplementsPublication
  FirstGraphIsPublished
  ShutdownCompletes

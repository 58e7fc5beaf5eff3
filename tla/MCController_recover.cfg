SPECIFICATION RecoverySpec
CONSTANTS
  Secret = Secret
  Deployment = Deployment
  Pod = Pod
  Connector = Connector
  Resource <- TwoResources
  SyncOrder <- TwoOrder
  ListOrder <- TwoOrder
  InitialItems <- SomeItems
  Absent <- NoneAbsent
  ListMayFail <- PodsFail
  MaxVersion = 2
  MaxPending = 1
PROPERTIES
  FailedRebuildIsMadeUpFor

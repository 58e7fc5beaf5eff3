SPECIFICATION Spec
CONSTANTS
  Secret = Secret
  Deployment = Deployment
  Pod = Pod
  Connector = Connector
  Resource <- ThreeResources
  SyncOrder <- ThreeSyncOrder
  ListOrder <- ThreeListOrder
  InitialItems <- SomeItems
  Absent <- NoneAbsent
  ListMayFail <- NoFailure
  MaxVersion = 2
  MaxPending = 2
INVARIANTS
  QuietGraphIsCurrent
  NoPartialGraph
  CountsDescribeGraph
PROPERTIES
  GraphNeverGoesBack

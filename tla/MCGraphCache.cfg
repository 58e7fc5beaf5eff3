SPECIFICATION Spec
CONSTANTS
  Db = Db
  Token = Token
  Web = Web
  Batch = Batch
  Pay = Pay
  Ops = Ops
  None = None
  Secret <- TwoSecrets
  Observable <- OneSecret
  Workload <- TwoWorkloads
  Ns <- Namespaces
  KindOf <- Kinds
  NameOf <- Names
  Rank <- IdOrder
  AnyKind = AnyKind
  NoTeam = None
  SecretMeta <- Plain
  Manifest <- UsesAny
  MaxTime = 6
INVARIANTS
  GraphIsConsistent
  EdgesMatchNodes
  SettledGraphIsExact
  ChangesAreDifferences
  EdgeAgeIsUnbroken
  MetricsAddUp
PROPERTIES
  ChangeTimeNeverGoesBack

SPECIFICATION Spec
CONSTANTS
  Pay = Pay
  Ops = Ops
  PadPay = PadPay
  Spaces = Spaces
  Db = Db
  Tls = Tls
  None = None
  NoJSON = NoJSON
  NoValue = NoValue
  Namespace <- Namespaces
  Name <- Names
  Team <- Teams
  RawTeam <- RawTeams
  Trim <- Trimmed
  Blank = NoValue
  Absent = None
  NotJSON = NoJSON
  LabelKeys = 2
  Options <- SomeOptions
  Objects <- SomeObjects
INVARIANTS
  OneEdgePerSecret
  ExplicitListsAreShown
  IgnoreHidesWhatItNames
  PullSecretsHaveOneOrigin
  OwnerIsDeclared

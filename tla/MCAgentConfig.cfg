SPECIFICATION Spec
CONSTANTS
  Resync = Resync
  Debounce = Debounce
  Grace = Grace
  Mode = Mode
  Ten = Ten
  Five = Five
  Bad = Bad
  Blank = Blank
  Zero = Zero
  Unset = Unset
  NoFile = NoFile
  Broken = Broken
  A = A
  B = B
  Sys = Sys
  SpacedA = SpacedA
  Everywhere = Everywhere
  Setting <- Settings
  Duration <- Durations
  Interval <- Intervals
  HasEnv <- InEnvAndFlags
  HasFlag <- InEnvAndFlags
  Text <- Texts
  Valid <- ValidTexts
  Default <- Defaults
  Namespace <- Namespaces
  Entry <- Entries
  Trim <- Trimmed
  System <- SystemNamespaces
  Kind <- Kinds
  Dynamic <- CustomResources
  DefaultKinds <- DefaultKindsOn
  Sources <- SourcesChecked
INVARIANTS
  AgentIsSound
  NamespacesAsWritten
  NearestSourceWins
CHECK_DEADLOCK FALSE

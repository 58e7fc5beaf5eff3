SPECIFICATION Spec
CONSTANTS
  Object <- Chains
  Enabled <- NoDaemonSets
  IncludeNs <- AnyNamespace
  ExcludeNs <- ExcludeSys
INVARIANTS
  NothingHidden
  ExactlyTheRoots

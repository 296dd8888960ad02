SPECIFICATION Spec
CONSTANTS
  None = None
  Source <- MCSource
  Universe <- MCUniverse
  Directive <- MCDirective
  Capital <- MCCapital
  NameRank <- MCNameRank
  Repo <- MCRepo
  Rank <- RepoRank
  DirRank <- RepoDirRank
  TestName = {"a_test"}
  UniverseMethod = {"Close"}
  MajorVersion = {"v2"}
  MaxCandidates = 2
  Task <- MCTask
  Symbol <- MCSymbol
  Lower <- MCLower
  Misshapen = {"me", "t", "go"}
  Stopword = {"test", "config", "flaky", "file"}
  TestWord = {"test", "flaky"}
  ConfigWord = {"config"}
CHECK_DEADLOCK FALSE
INVARIANTS
  ExtractTypeOK MatchOrderIsIrrelevant DegradationPolicy RefsByPlace ContainersEnclose
  ResolverTypeOK BindingsAreVisible NothingIsDropped RefsFollowImports ModuleBoundaries StreamedAgrees
  ModifiersAreFlags FragmentsAreSignal SeedsNameSymbols

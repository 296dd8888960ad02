SPECIFICATION Spec
CONSTANTS
  None = None
  root = root
  sub = sub
  git = git
  Dir <- MCDir
  Root = root
  Path <- MCPath
  Content <- MCContent
  Hidden = {git}
  Trees <- MCTrees
  ParseCap = 1
  ReadCap = 2
  MaxFiles = 2
  MaxBytes = 4
  MaxEdits = 3
  MaxRuns = 2
CHECK_DEADLOCK FALSE
INVARIANTS TypeOK ScanIsFunction SteadyFilesAreListed IndexFollowsTree

SPECIFICATION Spec
CONSTANTS
  None = None
  Unreadable = Unreadable
  Path <- ResumePaths
  Text <- AllTexts
  PackageName <- MCNames
  Trees <- PairsTrees
  Versions <- PairsVersions
  BatchSize = 2
  MaxEdits = 0
  MaxCrashes = 0
  MaxRebuilds = 0
CHECK_DEADLOCK FALSE
INVARIANT AffinityBidirectional

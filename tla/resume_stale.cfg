SPECIFICATION Spec
CONSTANTS
  None = None
  Unreadable = Unreadable
  Path <- ResumePaths
  Text <- AllTexts
  PackageName <- MCNames
  Trees <- ResumeTrees
  Versions <- ResumeVersions
  BatchSize = 2
  MaxEdits = 1
  MaxCrashes = 1
  MaxRebuilds = 0
CHECK_DEADLOCK FALSE
INVARIANT ResumeEqualsFresh

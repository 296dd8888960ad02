SPECIFICATION FairSpec
CONSTANTS
  None = None
  Unreadable = Unreadable
  Path <- ResumePaths
  Text <- AllTexts
  PackageName <- MCNames
  Trees <- ResumeTrees
  Versions <- ResumeVersions
  BatchSize = 2
  MaxEdits = 2
  MaxCrashes = 1
  MaxRebuilds = 1
CHECK_DEADLOCK FALSE
INVARIANTS TypeOK ReadyIsDerived HealthyWhenReady ResumeReingests ResumeKeepsManifest
PROPERTIES ImplementsLifecycle BuildCompletes

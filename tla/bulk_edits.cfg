SPECIFICATION Spec
CONSTANTS
  None = None
  Unreadable = Unreadable
  Path <- AllPaths
  Text <- AllTexts
  PackageName <- MCNames
  Starts <- BulkStarts
  Versions <- ChainVersions
  MaxEdits = 3
  MaxPending = 3
  MaxCrashes = 1
INVARIANTS NoDanglingRows AffinityNeverStale HealthyWhenReady
PROPERTIES NoGhostPackages RebuildIsFresh

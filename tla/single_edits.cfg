SPECIFICATION FairSpec
CONSTANTS
  None = None
  Unreadable = Unreadable
  Path <- AllPaths
  Text <- AllTexts
  PackageName <- MCNames
  Starts <- ChainStarts
  Versions <- ChainVersions
  MaxEdits = 2
  MaxPending = 1
  MaxCrashes = 1
INVARIANTS TypeOK Coherent SnapshotNamesFacts
PROPERTIES ImplementsLifecycle TornIsRepaired IndexConverges

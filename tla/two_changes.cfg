SPECIFICATION Spec
CONSTANTS
  None = None
  Unreadable = Unreadable
  Path <- AllPaths
  Text <- AllTexts
  PackageName <- MCNames
  Starts <- FreshStarts
  Versions <- ChainVersions
  MaxEdits = 2
  MaxPending = 2
  MaxCrashes = 0
INVARIANT Coherent

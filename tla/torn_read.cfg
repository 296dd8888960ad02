SPECIFICATION Spec
CONSTANTS
  None = None
  Proc = {p1, p2}
  Pkg = {h1, h2}
  Commands <- ReadCommands
  MaxEdits = 1
  MaxCommands = 2
  MaxCrashes = 0
CHECK_DEADLOCK FALSE
INVARIANT SelectionIsCoherent

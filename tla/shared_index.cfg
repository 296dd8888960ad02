SPECIFICATION Spec
CONSTANTS
  None = None
  Proc = {p1, p2}
  Pkg = {h1, h2}
  Commands <- AllCommands
  MaxEdits = 1
  MaxCommands = 3
  MaxCrashes = 1
CHECK_DEADLOCK FALSE
INVARIANTS TypeOK ClaimedOnce ReadyIsCompleteAlone UndisturbedSelectionIsCoherent
SYMMETRY Symmetry

SPECIFICATION Spec
CONSTANTS
  None = None
  Source <- TrailingSource
  Universe <- MCUniverse
  Directive <- MCDirective
  Capital <- MCCapital
  NameRank <- MCNameRank
CHECK_DEADLOCK FALSE
INVARIANT DocsStandAlone

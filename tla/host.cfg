SPECIFICATION MCSpec
CONSTANTS
  p1 = p1
  p2 = p2
  Paths <- MCPaths
  LayerLists <- MCLayerLists
  Scripts <- MCScripts
  Interval = 2
  MaxTime = 5
INVARIANTS
  TypeOK
  ScriptIsFollowed
  LibraryOutlivesLayer
  CrashHasCause
CHECK_DEADLOCK FALSE
PROPERTY EventsHappen

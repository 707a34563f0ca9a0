SPECIFICATION Spec
CONSTANTS
  PageSize = 12
  Alignment = 4
  MaxPages = 3
  Sizes <- MCSizes
  MaxAllocs = 7
  MaxNulls = 1
INVARIANT ArenaReturnsPages
CHECK_DEADLOCK FALSE

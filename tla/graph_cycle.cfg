SPECIFICATION Spec
CONSTANTS
  N = 2
  Weights <- MCOneWeight
  MaxList = 1
  MaxEdges = 2
INVARIANT CycleIsNotSorted
CHECK_DEADLOCK FALSE

SPECIFICATION Spec
CONSTANTS
  N = 3
  Weights <- MCWeights
  MaxList = 2
  MaxEdges = 4
INVARIANTS
  TypeOK
  LoopsAreFlagged
  QueriesAgree
  SortOutcome
PROPERTY StaysSimple
CHECK_DEADLOCK FALSE

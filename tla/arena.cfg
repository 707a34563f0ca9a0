SPECIFICATION Spec
CONSTANTS
  PageSize = 12
  Alignment = 4
  MaxPages = 3
  Sizes <- MCSizes
  MaxAllocs = 7
  MaxNulls = 1
INVARIANTS
  TypeOK
  BlocksDisjoint
  BlocksInPages
  AccountsAgree
  PagesArePacked
CHECK_DEADLOCK FALSE

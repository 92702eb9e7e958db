CONSTANTS
  Ids = {1, 2, 3}
  Keys = {1, 2}
  Tables <- MCTables
  Nullable = TRUE
  Projects = {1, 2}
  ProjectOf <- MCProjectOf
  External = TRUE
  Queries <- MCQueries
  PageLimits = {0, 5}
  DefaultSort <- MCDefaultSort
  DefaultLimit = 1
  MaxLimit = 2
  Budgets = {2}
  Sizes = {1, 3}
  MaxChanges = 2
  MaxFaults = 1
  Null = Null
  None = None
SPECIFICATION FairSpec
CHECK_DEADLOCK FALSE

INVARIANTS
  TypeOK
  EachOnce
PROPERTIES
  NoneMissing
  WalkEnds

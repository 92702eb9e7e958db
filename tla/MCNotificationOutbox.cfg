SPECIFICATION FairSpec
CONSTANTS
  Replicas = {p1, p2}
  Rows = {r1, r2}
  NoRow = NoRow
  BatchSizes = {1, 2}
  MaxAttemptsValues = {2}
  MaxWait = 1
  MaxFaults = 1
INVARIANTS
  BatchesAreDisjoint
  DuplicatesHaveACause
  AttemptsAreHonest
PROPERTIES
  KeepsPromise
  EveryRowSettles

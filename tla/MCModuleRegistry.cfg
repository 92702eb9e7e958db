SPECIFICATION FairSpec
CHECK_DEADLOCK FALSE
CONSTANTS
  Records = {r1, r2}
  Unreadable = {bad}
  Deleted = Deleted
  NoEntry = NoEntry
  MaxChanges = 3
  MaxFaults = 2
INVARIANTS
  StatusIsOfTheRecord
  NoChangeIsLost
PROPERTIES
  StatusConverges

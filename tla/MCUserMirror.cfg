CONSTANTS
  Replicas = {r1, r2}
  Cmds = {c1}
  Identity <- MCIdentity
  Versions = 2
  Fallback = "id"
  Bare = {TRUE}
  MaxInbox = 1
  MaxFaults = 1
  None = None
SPECIFICATION FairSpec
INVARIANTS
  AuthorExists
PROPERTIES
  KnownNameStays
  RowConverges

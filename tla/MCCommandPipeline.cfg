SPECIFICATION FairSpec
CHECK_DEADLOCK FALSE
CONSTANTS
  c1 = c1
  c2 = c2
  Commands <- MCCommands
  Replicas = {r1, r2}
  Nowhere = Nowhere
  Enveloped <- OnlyFirst
  External <- OnlySecond
  Notifying <- OnlyFirst
  Publishing <- OnlyFirst
  Pool = 1
  MaxFaults = 2
INVARIANTS
  ConnectionsAreReturned
PROPERTIES
  KeepsCommandPromise
  EveryHandlerEnds

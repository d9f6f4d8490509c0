SPECIFICATION FairSpec
CONSTANTS
  u1 = u1
  u2 = u2
  Users <- TwoUsers
  NumBlocks = 3
  VersionMod = 3
  Garbage <- SomeGarbage
INVARIANTS FreeListIntact
PROPERTIES ImplementsPool LockFree

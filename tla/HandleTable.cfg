SPECIFICATION Spec
CONSTANTS
  t1 = t1
  t2 = t2
  Threads <- TwoThreads
  MaxSlots = 2
  GenMod = 3
  MaxObjects = 4
  MaxIssued = 6
CHECK_DEADLOCK FALSE
INVARIANTS NoAliasing NoResurrection SlotAccounting

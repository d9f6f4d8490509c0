SPECIFICATION FairSpec
CONSTANT Bridges <- BridgeAtOne
INVARIANTS LockOwnership NoLostWakeup BypassSourceIntact
PROPERTIES LockReleasedByOwner ClosureCompletes
CHECK_DEADLOCK FALSE

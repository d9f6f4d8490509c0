SPECIFICATION Spec
CONSTANTS
  MaxParcels = 2
  MaxMoves = 2
  MaxDeferred = 0
INVARIANT StableMarksAreTrue
CHECK_DEADLOCK FALSE

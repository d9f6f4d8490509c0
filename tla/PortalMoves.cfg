SPECIFICATION Spec
CONSTANTS
  MaxParcels = 2
  MaxMoves = 2
  MaxDeferred = 1
INVARIANTS OnlyLateParcelsFail ClosureIsTrue OneBypassPerLink
           ParcelsArrive ProxiesGo ClosureArrives
PROPERTY ImplementsRoute
CHECK_DEADLOCK FALSE

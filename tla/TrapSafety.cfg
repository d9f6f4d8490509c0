SPECIFICATION Spec
CONSTANTS
  Threads = {t1, t2}
  Watches = {w1, w2}
  Contexts = {c1, c2}
  MaxMessages = 1
  Interests <- MCInterests
SYMMETRY MCSymmetry
INVARIANTS NoLostEvent CloseReachesSettled
PROPERTY CancelledOnce
CHECK_DEADLOCK FALSE

SPECIFICATION Spec
CONSTANTS
  Threads = {t1, t2}
  Watches = {w1, w2}
  Contexts = {c1, c2}
  MaxMessages = 1
  Interests <- MCReadable
SYMMETRY MCSymmetry
INVARIANT NothingAfterCancelled
CHECK_DEADLOCK FALSE

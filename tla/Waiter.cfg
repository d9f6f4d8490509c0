SPECIFICATION FairSpec
CONSTANTS
  Threads = {t1, t2}
  Watches <- MCOne
  MaxMessages = 2
  Interests <- MCInterests
  Object <- MCOwn
  EndOf <- MCEndOf
  SignalsOf <- MCSignalsOf
  Deadlined <- MCOne
INVARIANTS NoLostWakeup NoLeakedWatch
PROPERTY WaitReturns
CHECK_DEADLOCK FALSE

SPECIFICATION AllSpec
CONSTANTS
  Threads = {t1, t2, t3}
  Team = {t1, t2, t3, t4, t5}
  Waiter = w
  NoThread = NoThread
  Sleepers = {t1, t2}
  Clocks = {k1, k2}
  MaxTime = 1
CHECK_DEADLOCK FALSE
INVARIANTS
  InvokedAtMostOnce
  ReturnSeesCompletion
  SafeToDestroy
PROPERTIES
  EveryCallEnds
  EverybodyReturns

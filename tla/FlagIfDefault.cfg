SPECIFICATION FlagSpec
CONSTANTS
  Callers = {t1, t2}
  NoThread = NoThread
  HeapAllocated = FALSE
  MaxSets = 3
INVARIANT
  IfDefaultOnlyOnce
CHECK_DEADLOCK FALSE

SPECIFICATION AllSpec
CONSTANTS
  Threads = {t1, t2, t3, t4}
  NoThread = NoThread
  Priority <- EqualPriority
  Ops <- PlainOps
  MaxCalls = 4
SYMMETRY Symmetry
CHECK_DEADLOCK FALSE
INVARIANTS
  MutualExclusion
  WordCountsHolders
  DesignatedWaker
  SearchUndisturbed
  NobodyStranded
  OnOneQueue
  NoCheckFails
  SkipInvariant
PROPERTY
  ImplementsWaiterQueue

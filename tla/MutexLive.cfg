SPECIFICATION LiveSpec
CONSTANTS
  Threads = {t1, t2, t3}
  NoThread = NoThread
  Priority <- OneAbove
  Ops <- LiveOps
  MaxCalls = 3
CHECK_DEADLOCK FALSE
PROPERTY
  Settles

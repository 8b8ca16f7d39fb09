SPECIFICATION Spec
CONSTANTS
  Callers = {t1, t2}
  Setters = {w}
  Sites = {s1, s2}
  Files = {f}
  Levels = {0, 1}
  Callbacks = {}
  FileOf <- OneFile
  kUninitialized = 99
  Null = Null
  NoRule = NoRule
  Nobody = Nobody
  MaxUpdates = 1
CHECK_DEADLOCK FALSE
INVARIANT LevelsFresh

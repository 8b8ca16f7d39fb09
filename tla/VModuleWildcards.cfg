SPECIFICATION Spec
CONSTANTS
  Patterns <- LatePatterns
  Files <- LateFiles
  Levels = {0, 1}
  NoLevel = NoLevel
  MaxRules = 2
CHECK_DEADLOCK FALSE
INVARIANT WildcardsMatch

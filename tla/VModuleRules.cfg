SPECIFICATION Spec
CONSTANTS
  Patterns <- PathPatterns
  Files <- PathFiles
  Levels = {0, 1}
  NoLevel = NoLevel
  MaxRules = 2
CHECK_DEADLOCK FALSE
INVARIANT RulesDecide

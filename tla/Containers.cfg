SPECIFICATION AllSpec
CONSTANTS
  kWidth = 4
  kMaxGrowthLeftLowerBound = 3
  kMaxBlockedElementsForLargeTables = 1
  kReuseCapacity = 8
  soo_capacity = 1
  Elements = {0, 5, 11}
  Seeds = {0, 1}
  HashRange = 32
  Requests = {0, 4, 5}
  MaxSize = 6
  MaxCapacity = 7
  Hashes = {0, 20}
  WideRequests = {0, 2, 4}
  kNodeSlots = 3
  MaxTreeSize = 12
  MaxHintSize = 6
  Strides = {2, 3}
  MaxGraph = 4
  MaxReuseGraph = 3
  MaxReused = 3
  MaxVersion = 2
  kInline = 4
  Values = {0, 1, 4, 8}
  MaxTable = 8
  kHashTableSize = 2
  Pointers = {1, 2, 3, 5}
  Indexes = {0, 1, 2}
  Levels = {0, 1}
  NoLevel = NoLevel
  MaxRules = 3
  Callers = {t1, t2}
  Setters = {w1, w2}
  Sites = {s1, s2}
  Callbacks = {b}
  kUninitialized = 99
  Null = Null
  NoRule = NoRule
  Nobody = Nobody
  MaxUpdates = 2
SYMMETRY Symmetry
CHECK_DEADLOCK FALSE
INVARIANTS
  ContentsKept
  StructureSound
  RefusesExactlyCycles
  IdsDoNotAlias
  LevelsFreshUnlessRaced

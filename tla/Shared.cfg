SPECIFICATION AllSpec
CONSTANTS
  Cords = {c1, c2}
  Infos = {i1, i2}
  Null = Null
  None = Null
  MaxRoots = 2
  MaxSnapshots = 2
  Threads = {t1, t2, t3}
  Samples = {x1, x2, x3}
  Graveyard = G
  Limits = {0, 1}
  Owners = {t1, t2}
  Reps = {r1, r2, r3, r4}
  Urls = {u1}
  Payloads = {p}
  MaxJoins = 1
  Lockers = {1, 2}
  MaxMutexes = 3
  MaxReused = 2
  MaxReuses = 1
  MaxHeld = 3
  Pages = 2
  kPagesSize = 6
  Requests = {2, 3, 4}
  kMaxRandom = 2
  MaxMessages = 2
  MaxDepth = 2
  Identities = {j1, j2}
  MaxWaits = 3
  Addrs = {m1, m2}
  Events = {1, 2, 3, 4, 5}
  kMaxSynchEventCount = 2
  MaxObjects = 1
CHECK_DEADLOCK FALSE
INVARIANTS
  ReferencesCounted
  ReadersSafe
  NothingLost
  EqualityIsByValue
  DeadlocksReported
PROPERTIES
  CopiesIndependent

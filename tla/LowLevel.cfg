SPECIFICATION AllSpec
CONSTANTS
  Threads = {t1, t2, t3}
  MayIdentify = {t1}
  Cooperative = FALSE
  Impls = {"futex", "sem", "condvar"}
  Posters = {p1, p2}
  IdlePeriods = 2
  MaxPosts = 4
  MaxSem = 3
  Words = {w1, w2}
  Readers = {r1, r2}
  MaxWrites = 2
  Callers = {t1, t2}
  NoThread = NoThread
  HeapAllocated = TRUE
  MaxSets = 2
  WordBits = 5
  kProfileTimestampShift = 3
  MaxTime = 40
  HiBits = 5
  LoBits = 4
  kTicksPerNanosecond = 2
  NanosPerSecond = 4
  FastNanos = {1, 2}
  SecondsPerMinute = 3
  TimeTBits = 3
  kNanosInMillis = 3
  NanosInMicro = 2
  DWordBits = 2
  Unset = Unset
INVARIANTS
  MutualExclusion
  NoLostWakeup
  SchedulingBalanced
  TimesExact
  NoMissedPost
  NoTornRead
  LockedReadSucceeds
  NoRacingRead
  EventualConsistency
  SameCountSameState
PROPERTIES
  SleeperWakesUp
  BecomesIdle
  ImplementsSemaphore
  CallsReturn
CHECK_DEADLOCK FALSE

# TLA+ verification of Abseil's shared state

This directory holds TLA+ models of the parts of Abseil (`src/absl`) where correctness depends on
interleavings, memory order or long histories, the TLC configurations that model-check them on
small instances, and TLAPS proofs of the most important invariants for every instance.
`PROJECT.json` is the index: components, runs, mutants, the map from each definition to the source
lines it models, findings, hazards and theorems.

To check: `tlc -config X.cfg M` for the cfg and module of a run, `tlapm M.tla` for a proof module.

## The system

Abseil is a library, so its parts meet through calls. The ones with shared state form layers:

1. `base`: `call_once`, `SpinLock` and the futex wait they block in, `LowLevelAlloc`, thread
   identities.
2. `synchronization`: one semaphore per thread (`PerThreadSem`, over one of five `Waiter` classes);
   `Mutex` and `CondVar`, which block on it and keep queues of waiters; `Barrier`,
   `BlockingCounter`, `Notification` and `SimulatedClock` over `Mutex`; deadlock detection over
   `GraphCycles`; debug events; `KernelTimeout`.
3. Users of these with protocols of their own: `flags` (`FlagImpl` and its `SequenceLock`), `log`
   (messages, sinks, VLOG sites), `strings` (Cordz sampling), `profiling` (`SampleRecorder`),
   `status` (reference-counted `StatusRep`).
4. Sequential code: containers, text, numbers, time arithmetic, random, hash, crc, debugging, and
   type-level headers.

The models cover the shared state of layers 1 to 3, and from layer 4 the hash table, the B-tree,
`Duration` and the matching of `--vmodule`.

## Modules

| Module | Models | State and actions |
|---|---|---|
| `CallOnce` | `call_once.h`, `SpinLockWait`, futex | the control word, a program counter per caller; one action per atomic access |
| `SpinLock` | `spinlock.h`, `spinlock.cc` | the lock word as a record of its fields; one action per load, compare-exchange or exchange |
| `SpinLockCycles` | `EncodeWaitCycles`, `DecodeWaitCycles` | two clock readings; widths are constants |
| `Duration`, `KernelTimeout` | `time/duration.cc`, `time.h`, `kernel_timeout.cc` | a register and one action per operation, or two clocks that move; all widths are constants |
| `Semaphore` | what `Mutex` expects of a thread's semaphore | abstract |
| `Waiter` | `PerThreadSem` and the waiter classes | count, POSIX count, owner, posters, ticker; `impl` is chosen in the initial state |
| `Mutex` | `mutex.cc`: fast paths, `LockSlowLoop`, `UnlockSlow`, `Block`, `TryRemove`, `Await` | the bits of `mu_`, the reader count in the word or in the last waiter, the queue as a sequence; one action per successful compare-exchange or section under the spin bit |
| `CondVar` | `CondVar`, `Mutex::Fer`, `Trans` | extends `Mutex` with the list of the condition variable and the signaller's wake list |
| `WaiterQueue` | what the queue promises | abstract: a sequence, and exactly whom an unlocker wakes |
| `MuQueue` | `Enqueue`, `Dequeue`, `DequeueAllWakeable`, `Skip`, `FixSkip`, `TryRemove`, the search of `UnlockSlow` | the circular list with its skip chains |
| `Barrier`, `BlockingCounter`, `Notification`, `SimulatedClock` | the classes of these names | their fields, and a lock with an owner for the Mutex |
| `SequenceLock` | `sequence_lock.h`, `ReadSequenceLockedData` | relaxed memory: each location has an order of stores, each reader a view of what it can still load |
| `Flag` | `FlagImpl` | the masked value pointer with its buffers, the modification count, the callback and its lock |
| `Cordz` | `CordzHandle`, `CordzInfo`, the update scope, and what `Cord` does to a tracked root | the list of infos with its pointers, the delete queue, snapshots and their walk; a tree is its reference count |
| `SampleRecorder` | `profiling/internal/sample_recorder.h` | the list of all samples, the graveyard, the lock of each sample |
| `Status` | `Status`, `StatusRep`, `StatusBuilder`'s conversion | the rep or inlined code of each owner, the reps with count and contents |
| `DeadlockCheck` | `DeadlockCheck`, `LockEnter`, `LockLeave`, `ForgetDeadlockInfo` | the locks held by each thread, over an instance of `GraphCycles` |
| `GraphCycles`, `NodeSet` | `graphcycles.cc`, and its hash sets and pointer map | nodes with ranks and versions; the tables slot by slot |
| `LowLevelAlloc` | `low_level_alloc.cc` | blocks with headers, the levels of the free list; sizes in units of `round_up` |
| `LogSinks` | `LogMessage`'s end of life and `LogSinkSet` | the guard with readers and writer, the sinks, the thread-local recursion flag |
| `ThreadIdentity` | `create_thread_identity.cc` | the freelist, the fields of each identity, posts that come late |
| `SynchEvents` | `EnsureSynchEvent`, `GetSynchEvent`, `UnrefSynchEvent` | the records by address, their reference counts |
| `RawHashSet` | `raw_hash_set.h`, `raw_hash_set.cc` | control bytes with their clones, slots, growth left |
| `BTree` | `internal/btree.h` | nodes with parent, position and slots; the operations as recursive operators |
| `VLogSites`, `VModule` | `vlog_config.cc`, `fnmatch.cc` | sites joining a list without a lock while updates walk it; the list of patterns |

`MCOneShot`, `MCLowLevel`, `MCMutex`, `MCShared` and `MCContainers` instantiate them for TLC
(`Flag`, `VLogSites`, `VModule` and `CallOnce` also have runs of their own). They put components that share no code into one state graph: a variable
fixed in the initial state (`which`, `scenario`) says which component runs or which calls its
threads make, and everything else stays put. The components are otherwise independent, so nothing
is lost by that.

Conventions: a load and the compare-exchange that depends on it are one step where a failed
exchange only goes round a loop; locals that are dead are reset; a definition marked "Mutant" is
a plausible bug that shows that a property can fail. `Mutex` leaves out debug logging
(`kMuEvent`) and contention profiling, which change no lock state; deadlock detection and the event
records have modules of their own. Priorities are fixed per thread; the code re-reads them about
once a second.

## Runs

Every cfg names its bounds. A run takes at most about four minutes on two cores.

| Run | Question and result | Bounds and why they are enough |
|---|---|---|
| `oneshot` | `call_once` invokes the function once, returns after it and ends (unless the function throws); `Barrier`, `BlockingCounter`, `Notification` and `SimulatedClock` may be destroyed when documented and let everybody through | three callers: a runner, one that marks the word, one that sleeps on the mark; five threads at a barrier and up to five workers; two sleepers, two threads that move the clock by one |
| `call_once_throw` | violated: a call after one that threw waits forever | two callers |
| `lowlevel` | `SpinLock`: exclusion, no lost wakeup, balanced scheduling guards, sleepers wake. `Waiter`: no lost wakeup, semaphore refinement, long waits become idle. `SequenceLock`: no torn read, the locked read succeeds. `Flag`: no racing buffer reuse, callbacks converge, equal counts mean equal states, calls return. Wait times, durations and timeouts are exact, or off in the one way that is stated | three threads on a lock: holder, sleeper, one that barges in; two posters, four posts, a POSIX semaphore that overflows at three, all implementations; two readers, two words, two writes; two callers of a flag and two stores; a 5-bit word with a 3-bit shift, a `Duration` of 5 and 4 bits, two ticks per nanosecond, four nanoseconds per second, three per millisecond and two per microsecond reach zero, overflow, borrow, truncation and clocks that run backwards. The safety properties of the first four are proved for every bound |
| `mutex` | exclusion, reader counts, the designated waker, undisturbed searches, nobody stranded, every waiter on one list; in the list itself no internal check fails, skips stay within equivalent waiters, and it implements `WaiterQueue` | four threads and four calls; with timeouts or a CondVar three active threads; in the list four waiters of four kinds: the shortest failing skip chains need three |
| `mutex_live` | once calls stop every thread returns, or waits for a signal or a false condition | three threads, one of higher priority, three to five calls |
| `flag_if_default` | violated: `SET_FLAG_IF_DEFAULT` overwrites a value that was set | two callers |
| `shared` | readers without a lock meet nothing dead, every reference is counted, nothing is lost, `Status` is a value, deadlocks among mutexes that were not forgotten are reported, and only deadlocks | two cords, infos, trees and snapshots; three threads on three samples; two owners of four reps; two threads that lock three mutexes, or two mutexes whose node is reused once, with three held locks, which stale entries fill; two mappings of six units; two messages, sinks that log to depth two; two identities; two addresses |
| `containers` | the containers hold what was put in, keep what their searches rely on, the graph refuses exactly cycles, stale ids are recognised, VLOG sites that no two threads register at once end with the last level | a group of 4 and capacities up to 7, elements whose probes collide and wrap; nodes of 3 slots and 12 elements, which gives three levels; graphs of 4 nodes; six patterns, up to three rules; patterns and names of up to five characters for `FNMatch`; two callers and two setters, two sites, two updates, alike up to symmetry |
| `vlog_install_once` | violated: two threads install the same site | two callers, one setter |
| `vlog_fresh` | violated: a site that two threads register while the level changes keeps the old one | two callers, one setter, two sites |
| `vmodule_rules` | violated: a rule that was dropped as shadowed was the only one for a file | two rules |
| `vmodule_wildcards` | violated: a name that fits a pattern is not matched | two rules |

Deadlock checking is off where threads may stop: when the calls are used up, when an object has
been destroyed, and in the mutex runs where a thread may wait for a condition nobody makes true.
The liveness properties and `NobodyStranded` say which of these stops are legal.

Fairness is weak fairness of the steps of a thread inside a call: the scheduler runs every
runnable thread, functions and critical sections terminate. Calls, spurious wakeups, signals and
timeouts are never forced. Exceptions: the ticker of `Waiter` ticks forever, as
`PerThreadSem::Tick`'s caller does; in `Barrier` and `BlockingCounter` the threads do call, which is
their contract; in `Notification` and `SimulatedClock` the acquisition of a mutex that is free
again and again is strongly fair, which is what `Mutex` provides to a waiter.

## Findings

- `flag_if_default`: `FlagImpl::ParseFrom` with `SET_FLAGS_DEFAULT` assigns `modified_ = false`
  after `StoreValue` has let go of the mutex to run the callback. A `Write` in that window is
  forgotten, and a later `SET_FLAG_IF_DEFAULT` overwrites it.
- `call_once_throw`: an exception leaves the control word at `kOnceRunning`. The documentation
  suggests that the first call that does not throw runs the function; later callers wait forever.
- `vlog_install_once`: while the list of sites is empty, the compare-exchange of `next_` from null
  stores null, so two threads at the same first site both "commit to being *the* thread that
  installs" it, and the site may become its own successor.
- `vlog_fresh`: the thread that loses the compare-exchange of `next_` does not wait for the winner
  to put the site on the list. It reads the level and stores it in `v_`; an update whose walk comes
  now misses the site, and the winner respects the level that is there. "`v` itself will always
  arrive at the freshest value" fails until the next update. `LevelsFreshUnlessRaced` and
  `InstalledOnceUnlessRaced` show that this race and that of `vlog_install_once` are the only
  ways: without two threads at one site the promises hold.
- `vmodule_rules`: a list that holds `a*` drops `a/b`, whose text it matches, although patterns
  without a slash are matched against basenames only; `a/b.h` then has the level of `--v`, where
  `vlog_is_on.h` lets the first match decide. `a?` drops `a*` in the same way.
  `RulesDecideIfTextTells` shows that the list is right when the patterns that match
  the text of another also match its files.
- `vmodule_wildcards`: after a `*`, `FNMatch` takes the next text where it occurs first and does
  not backtrack, so `*b` does not match `abab` (it does match `aab`). `FNMatchIsGlob` shows that it
  accepts nothing else than it should, and misses only names where such a text occurs twice.

Seen while modelling, without a run of their own:

- The comment on `may_skip` (`mutex.cc:837`) says that a waiter without it has no skip; `Dequeue`
  may give it one. The queue still does its job (`SkipInvariant`, `ImplementsWaiterQueue`).
- `Floor` and `Ceil` by a unit of `kint64min` seconds give an infinity although the exact result is
  representable.
- The level `INT_MAX` is `kUninitialized` and makes a VLOG site register again.
- A file name is cut at its first dot, while `vlog_is_on.h` speaks of the last.
- `InMillisecondsFromNow` is INFINITE not only "when !has_timeout()" (`kernel_timeout.h:104`): a
  timeout of 2^32 - 1 milliseconds or more, which a `DWord` cannot hold, never ends.
  `TimeoutsExact` says exactly when.
- `ToChronoTimePoint` cuts nanoseconds off (`kernel_timeout.cc:204`), so a wait until that time may
  end up to a microsecond early; `TimeoutsExact` bounds it. The other forms are never early.
- `ForgetDeadlockInfo` on a mutex that is held leaves an entry with a stale id in the holder's list
  that no unlock removes. Enough of them fill the list, and detection ends for that thread. What
  was not forgotten stays protected (`DeadlocksReported`), and no stale entry stands for another
  mutex (`ListsHeldLocks`).
- A second thread that dies in `LOG(FATAL)` may abort before the first has told the sinks.
- `synch_event_count` is described as the number of live events but counts every call of
  `EnsureSynchEvent`; after the records are dropped, `EnableInvariantDebugging` on a mutex that was
  logged makes a record without logging.
- A late post leaves a count in the semaphore of an identity's next owner. `Block` tolerates it
  because it loops until its waiter is no longer queued.

## Proofs

TLAPS checks the following for every value of the constants. `PROJECT.json` names the theorems;
the lemmas they rest on are beside them. The inductive invariants of the mutex were first checked with
TLC on the instance of the run `mutex`.

**`OneShotProofs`.** `CallOnceCorrect` and `CallOnceReturnsAfter` rest on `OnceInv`: at most one
runner, the word says so while it runs, and a thread about to sleep has read `kOnceWaiter`.
`OneShotSafeToDestroy` rests on `ObjectsInv`, one conjunct per class. Each counts who has still to
leave and identifies the last one out: `num_to_exit_` is the number of threads inside a barrier,
`count_` the number of workers that have still to decrement, a caller of `SimulatedClock` is in one
list or in one thread's hands, with `wakeup_called_` set exactly between the two.

**`LowLevelProofs`.**
- `SequenceLockNoTornRead`, `SequenceLockLockedRead`: `WriterInv` relates the counter to the
  versions of the words, `ViewInv` says what each store carries, `ReaderInv` that a copy is at least
  as new as the first load of the counter. The two fences are what makes the last two inductive.
- `SpinLockExcludes`, `SpinLockWakes`, `SpinLockGuardBalanced`: exclusion although a caller takes a
  returned value without the held bit for success. All free words are equal, so a failed
  compare-exchange from a free word met a held one. No wakeup is lost because a thread that was
  woken answers for the sleepers that remain.
- `WaiterWakes`, `WaiterIsSemaphore`: no implementation sleeps on a wakeup, and each implements
  `Semaphore`: initial states map to initial states, steps to steps or stutters.
- `FlagNoRacingRead`, `FlagEventuallyConsistent`, `FlagSameCountSameState`: the protected bit of a
  buffer is set before anybody reads it unlocked and such a buffer is never reused; after a
  store the callback is about to read the flag, has read its value or has derived from it, one callback
  at a time; the count only grows, so an unchanged count means the saved state.

**The mutex.** `MutexProofs` states the invariants and the lemmas on searches and queues;
`MutexWordProofs`, `MutexQueueProofs` and `MutexWakeProofs` prove one layer each, for the composition
of `Mutex` and `CondVar`, any number of threads, calls and priorities:
1. `WordInv` (`MutexExcludes`, `MutexCounts`, `MutexSearchUndisturbed`): the bits agree with the
   threads and the queue, the readers are counted in the word or in the last waiter, the spin bit has
   one owner, and what an unlocker has found is still queued, because only the unlocker removes
   waiters while it evaluates conditions.
2. `QueueInv` and `DesigInv` (`WaiterOnOneQueue`, `DesignatedWakerExists`): a parked thread is on one
   list, once, or in the hands of the thread that wakes it; `kMuDesig` has a woken thread behind it.
3. `StrandInv` (`NobodyIsStranded`): a free mutex without a designated waker has only waiters that
   could not run. It needs the hand-over points: an unlocker that queues itself again waits for
   a false condition (`RequeueInv`), and one that wakes nobody has seen false conditions only
   (`SearchInv`).

**`SharedProofs`.** `StatusRepsCounted`, `StatusCopiesIndependent` and `StatusEqualityIsByValue` rest
on `StatusInv`: the count of a rep is the number of owners and hands that hold it, so a thread that
reads one through the fast path of `Unref`, or before it writes in place, is the only holder.
`CordzReferencesCounted` does the same for the trees of cords: `OwnInv` says which cord, info and
snapshot owns what at each step.

**`CordzProofs`.** `CordzNoInfoStranded` and `CordzProfilerSafe` build on it. `QueueInv`: a handle is
queued once, and the queue is the age order of snapshots and deleted infos. `FreedInv`: an info that
is not deleted has a cord, is queued or is about to be deleted. `ListInv`: the pointers of the infos
on the list agree. `SeenInv` is the heart: for a profiler on its walk there is a set of infos,
closed under the pointers it can follow and containing the one it is at, whose members are on the
list or behind its snapshot in the queue. `RootInv`, `RootTypes` and `WriteInv` then say that the
tree an info shows is referenced while its lock is held, and that a tree written in place has one
holder.

The assumptions on constants are named in the module that declares them: sets of threads, owners,
cords and infos are finite where they are counted, the null values are not members of the sets they
are absent from, and bounds are naturals. They hold of every program.

Only model-checked:
- Liveness (`EveryCallEnds`, `EverybodyReturns`, `SleeperWakesUp`, `Settles`, `BecomesIdle`,
  `CallsReturn`), which needs fairness and `ENABLED`.
- `MuQueue`, `BTree`, `VModule` and the properties of `MCContainers`: their operations recurse over
  lists and trees, and what a recursion computes needs induction over data.
- `TimesExact`: arithmetic modulo powers of two against exact arithmetic, with division.
- `SampleRecorder`, `DeadlockCheck`, `LowLevelAlloc`, `LogSinks`, `ThreadIdentity`, `SynchEvents`: the
  parts of `NothingLost`, `ReadersSafe` and `DeadlocksReported` that are about them. The theorems
  cover the parts about `Status` and `Cordz`.

## What is not modelled

`PROJECT.json` lists every part with its reason. In short: text processing, bit mixing, statistics,
platform memory layouts, I/O and type-level code have no state whose interleavings or histories
a model would explore, and they are most of the repository's lines. Within the modelled parts,
stack traces, logging and formatting are left out; `Status` leaves out `WithContextImpl`, `StatusOr`'s
union and text; the B-tree leaves out multisets, swap, move, merge and extract; `Cordz` the decision to
sample, which is a free choice here, and the inside of trees.

--------------------------- MODULE LowLevelProofs ---------------------------
(***************************************************************************)
(* The synchronization below Mutex and the storage of a flag, for any      *)
(* number of threads.                                                      *)
(*                                                                         *)
(* SpinLock: mutual exclusion, the clean free word, the absence of lost    *)
(* wakeups and the pairing of the scheduling guard.  The heart of the      *)
(* argument is that a failed compare-exchange from a free word can only    *)
(* have met a held one, because all free words are equal.                  *)
(*                                                                         *)
(* The semaphore of a thread, for any number of posts: no implementation   *)
(* sleeps on a wakeup, and each of them is a semaphore.                    *)
(*                                                                         *)
(* SequenceLock, for any number of words, readers and writes: a successful *)
(* TryRead is not torn, and the one made under the mutex succeeds.         *)
(*                                                                         *)
(* FlagImpl, for any number of stores: no buffer is overwritten while it   *)
(* is read without the mutex, the callback sees the last value, and an     *)
(* equal modification count means an equal state.                          *)
(***************************************************************************)
EXTENDS SpinLock, Waiter, SequenceLock, Flag, TLAPS
-----------------------------------------------------------------------------
(* SequenceLock. *)

\* The writer: lock_ is even exactly when it is idle; the words are at the version of the last
\* Write, and during a Write some of them at that version already.
WriterInv ==
    /\ lock_ \in LockValues /\ fence \in Int /\ value_words \in [Words -> Versions]
    /\ \A w \in Words : 2 * value_words[w] <= lock_ + 1
    /\ wpc \in {"init", "mark", "idle", "fence", "copy"}
    /\ wpc \in {"init", "mark"} => lock_ = -1
    /\ wpc = "mark" => \A w \in Words : value_words[w] = 0
    /\ wpc = "idle" => lock_ >= 0 /\ ~IsOdd(lock_) /\ \A w \in Words : 2 * value_words[w] = lock_
    /\ wpc \in {"fence", "copy"} => lock_ >= 1 /\ lock_ < 2 * MaxWrites /\ IsOdd(lock_)
    /\ wpc = "fence" => \A w \in Words : 2 * value_words[w] = lock_ - 1
    /\ wpc = "copy" =>
          fence = lock_ /\ \A w \in Words : 2 * value_words[w] \in {lock_ - 1, lock_ + 1}

\* What the stores carry: an even value of lock_ the words of its Write, a word the odd value of
\* lock_ that announced its Write.
ViewInv ==
    /\ lock_view \in [LockValues -> [Words -> Int]] /\ word_view \in [Words -> [Versions -> Int]]
    /\ \A v \in -1..lock_ : v >= 0 /\ ~IsOdd(v) => \A w \in Words : 2 * lock_view[v][w] = v
    /\ \A w \in Words : \A k \in Versions : word_view[w][k] >= -1
    /\ \A w \in Words : \A k \in 0..value_words[w] : word_view[w][k] >= 2 * k - 1

\* What a reader has copied is at least as new as the Write its first load of lock_ saw.
ReaderInv ==
    /\ rpc \in [Readers -> {"call", "copy", "done", "fallback"}]
    /\ locked \subseteq Readers
    /\ lock_floor \in [Readers -> Int] /\ seq_before \in [Readers -> Int]
    /\ word_floor \in [Readers -> [Words -> Int]] /\ dst \in [Readers -> [Words -> Int]]
    /\ \A r \in Readers : lock_floor[r] >= -1 /\ lock_floor[r] <= lock_
    /\ \A r \in Readers : rpc[r] \in {"copy", "done"} =>
          /\ seq_before[r] >= 0 /\ ~IsOdd(seq_before[r])
          /\ \A w \in Words : 2 * word_floor[r][w] >= seq_before[r]
          /\ \A w \in Words : dst[r][w] # -1 =>
                dst[r][w] \in -1..value_words[w] /\ 2 * dst[r][w] >= seq_before[r]
    /\ \A r \in Readers : rpc[r] = "done" => \A w \in Words : 2 * dst[r][w] = seq_before[r]

\* A reader with the mutex sees everything.
LockedInv ==
    \A r \in locked :
        /\ wpc = "idle" /\ lock_floor[r] = lock_
        /\ rpc[r] \in {"copy", "done"} => seq_before[r] = lock_

\* The inductive invariant of the sequence lock.
IInv == WriterInv /\ ViewInv /\ ReaderInv /\ LockedInv

\* Odd and even alternate.
LEMMA OddStep == IsOdd(-1) /\ \A v \in Int : IsOdd(v + 1) <=> ~IsOdd(v)
<1>1. \A v \in Int : IsOdd(v + 1) <=> ~IsOdd(v)
  BY DEF IsOdd
<1>2. ~IsOdd(0) /\ -1 \in Int /\ -1 + 1 = 0
  BY DEF IsOdd
<1> QED BY Zenon, <1>1, <1>2

\* Twice a number that is at least the even v, and less than 2 above it, is v.
LEMMA EvenBetween ==
    ASSUME NEW v \in Int, NEW k \in Int, ~IsOdd(v), 2 * k >= v, 2 * k - 1 <= v
    PROVE  2 * k = v
  BY DEF IsOdd

\* A sequence lock that was never written satisfies the invariant.
LEMMA InitInv == SeqInit => IInv
<1> SUFFICES ASSUME SeqInit PROVE IInv
  BY Zenon
<1> USE MaxWritesAssumption DEF SeqInit, kUninitialized, Nowhere, LockValues, Versions
<1>1. WriterInv BY DEF WriterInv
<1>2. ViewInv BY DEF ViewInv
<1>3. ReaderInv BY DEF ReaderInv
<1>4. LockedInv BY Zenon DEF LockedInv
<1> QED BY Zenon, <1>1, <1>2, <1>3, <1>4 DEF IInv

\* MarkInitialized, and the steps of Write.
LEMMA WriterStep ==
    ASSUME IInv,
           \/ GenFunc \/ MarkInitialized \/ BeginWrite \/ ReleaseFence \/ EndWrite
           \/ \E w \in Words : RelaxedCopyToAtomic(w)
    PROVE  IInv'
<1> USE MaxWritesAssumption DEF LockValues, Versions, IInv
<1>0. rvars' = rvars
  BY Zenon DEF GenFunc, MarkInitialized, BeginWrite, ReleaseFence, EndWrite, RelaxedCopyToAtomic
\* What the readers have seen stays in the past: lock_ and the words only move on.
<1>r. ASSUME lock_' >= lock_, lock_' \in Int,
             \A w \in Words : value_words'[w] >= value_words[w] /\ value_words'[w] \in Int
      PROVE  ReaderInv'
  BY <1>0, <1>r DEF ReaderInv, WriterInv, rvars
<1>1. CASE GenFunc
  <2>1. WriterInv' BY <1>1 DEF GenFunc, WriterInv
  <2>2. ViewInv' BY <1>1 DEF GenFunc, WriterInv, ViewInv
  <2>3. ReaderInv' BY <1>1, <1>r DEF GenFunc, WriterInv
  <2>4. LockedInv' BY Zenon, <1>1, <1>0 DEF GenFunc, LockedInv, rvars
  <2> QED BY Zenon, <2>1, <2>2, <2>3, <2>4
<1>2. CASE MarkInitialized
  <2>0. ~IsOdd(lock_') /\ lock_' = 0 /\ lock_ = -1
    BY <1>2, OddStep DEF MarkInitialized, StoreLock, WriterInv
  <2>1. WriterInv' BY <1>2, <2>0 DEF MarkInitialized, WriterInv
  <2>2. ViewInv' BY <1>2, <2>0 DEF MarkInitialized, StoreLock, WriterInv, ViewInv
  <2>3. ReaderInv' BY <1>2, <1>r, <2>0 DEF MarkInitialized, WriterInv
  <2>4. LockedInv' BY Zenon, <1>2, <1>0 DEF MarkInitialized, LockedInv, rvars
  <2> QED BY Zenon, <2>1, <2>2, <2>3, <2>4
<1>3. CASE BeginWrite
  <2>0. IsOdd(lock_') /\ lock_' = lock_ + 1 /\ lock_' < 2 * MaxWrites
    <3>1. IsOdd(lock_ + 1) /\ lock_ + 1 <= 2 * MaxWrites
      BY <1>3, OddStep DEF BeginWrite, WriterInv
    <3>2. lock_ + 1 # 2 * MaxWrites
      BY <3>1 DEF IsOdd
    <3> QED BY <1>3, <3>1, <3>2 DEF BeginWrite, StoreLock, WriterInv
  <2>1. WriterInv' BY <1>3, <2>0 DEF BeginWrite, WriterInv
  <2>2. ViewInv' BY <1>3, <2>0, SMTT(30) DEF BeginWrite, StoreLock, WriterInv, ViewInv, Nowhere
  <2>3. ReaderInv' BY <1>3, <1>r, <2>0 DEF BeginWrite, WriterInv
  <2>4. LockedInv' BY Zenon, <1>3, <1>0 DEF BeginWrite, LockedInv, rvars
  <2> QED BY Zenon, <2>1, <2>2, <2>3, <2>4
<1>4. CASE ReleaseFence
  <2>1. WriterInv' BY <1>4 DEF ReleaseFence, WriterInv
  <2>2. ViewInv' BY Zenon, <1>4 DEF ReleaseFence, ViewInv
  <2>3. ReaderInv' BY <1>4, <1>r DEF ReleaseFence, WriterInv
  <2>4. LockedInv' BY Zenon, <1>4, <1>0 DEF ReleaseFence, LockedInv, rvars
  <2> QED BY Zenon, <2>1, <2>2, <2>3, <2>4
<1>5. CASE EndWrite
  <2>0. ~IsOdd(lock_') /\ lock_' = lock_ + 1
    BY Zenon, <1>5, OddStep DEF EndWrite, StoreLock, WriterInv
  <2>1. WriterInv' BY <1>5, <2>0 DEF EndWrite, WriterInv
  <2>2. ViewInv' BY <1>5, <2>0 DEF EndWrite, StoreLock, WriterInv, ViewInv
  <2>3. ReaderInv' BY <1>5, <1>r, <2>0 DEF EndWrite, WriterInv
  <2>4. LockedInv' BY Zenon, <1>5, <1>0 DEF EndWrite, LockedInv, rvars
  <2> QED BY Zenon, <2>1, <2>2, <2>3, <2>4
<1>6. ASSUME NEW w \in Words, RelaxedCopyToAtomic(w) PROVE IInv'
  <2>0. /\ 2 * value_words[w] = lock_ - 1 /\ fence = lock_ /\ lock_ \in Int
        /\ value_words[w] + 1 \in Versions /\ value_words[w] \in Int /\ lock_ >= -1
    BY <1>6 DEF RelaxedCopyToAtomic, WriterInv
  <2>1. WriterInv' BY <1>6, <2>0 DEF RelaxedCopyToAtomic, WriterInv
  <2>2. ViewInv'
    <3>1. /\ word_view' \in [Words -> [Versions -> Int]]
          /\ \A u \in Words : \A k \in Versions : word_view'[u][k] =
                IF u = w /\ k = value_words[w] + 1 THEN lock_ ELSE word_view[u][k]
      BY Zenon, <1>6, <2>0 DEF RelaxedCopyToAtomic, ViewInv
    <3>2. ASSUME NEW u \in Words, NEW k \in 0..value_words'[u]
          PROVE  word_view'[u][k] >= 2 * k - 1
      <4>1. k \in Int /\ k \in Versions
        BY <2>1, <3>2 DEF WriterInv
      <4>2. CASE u = w /\ k = value_words[w] + 1
        <5>1. word_view'[u][k] = lock_
          BY Zenon, <3>1, <3>2, <4>1, <4>2
        <5> QED BY <2>0, <4>1, <4>2, <5>1
      <4>3. CASE ~(u = w /\ k = value_words[w] + 1)
        <5>1. k \in 0..value_words[u]
          BY <1>6, <3>2, <4>1, <4>3 DEF RelaxedCopyToAtomic, WriterInv
        <5> QED BY Zenon, <3>1, <4>1, <4>3, <5>1 DEF ViewInv
      <4> QED BY Zenon, <4>2, <4>3
    <3>3. ASSUME NEW u \in Words, NEW k \in Versions PROVE word_view'[u][k] >= -1
      <4>1. word_view[u][k] >= -1
        BY Zenon, <3>3 DEF ViewInv
      <4> QED BY Zenon, <2>0, <3>1, <4>1
    <3>4. lock_view' = lock_view /\ lock_' = lock_
      BY Zenon, <1>6 DEF RelaxedCopyToAtomic
    <3> QED BY Zenon, <3>1, <3>2, <3>3, <3>4 DEF ViewInv
  <2>3. ReaderInv' BY <1>6, <1>r DEF RelaxedCopyToAtomic, WriterInv
  <2>4. LockedInv' BY Zenon, <1>6, <1>0 DEF RelaxedCopyToAtomic, LockedInv, rvars
  <2> QED BY Zenon, <2>1, <2>2, <2>3, <2>4
<1> QED BY Zenon, <1>1, <1>2, <1>3, <1>4, <1>5, <1>6

\* The steps of TryRead, with the mutex or without.
LEMMA ReaderStep ==
    ASSUME IInv, NEW r \in Readers,
           \/ AcquireGuard(r) \/ ReadReturns(r)
           \/ \E v \in LockValues : LoadBefore(r, v) \/ LoadAfter(r, v)
           \/ \E w \in Words, k \in Versions : RelaxedCopyFromAtomic(r, w, k)
    PROVE  IInv'
<1> USE MaxWritesAssumption DEF LockValues, Versions, IInv
<1>0. wvars' = wvars
  BY Zenon DEF AcquireGuard, ReadReturns, LoadBefore, LoadAfter, RelaxedCopyFromAtomic
<1>w. WriterInv' /\ ViewInv'
  BY Zenon, <1>0 DEF wvars, WriterInv, ViewInv
<1>1. CASE AcquireGuard(r)
  <2>1. ReaderInv' BY <1>1, <1>0 DEF AcquireGuard, ReaderAt, wvars, WriterInv, ReaderInv
  <2>2. LockedInv' BY Zenon, <1>1, <1>0 DEF AcquireGuard, ReaderAt, wvars, ReaderInv, LockedInv
  <2> QED BY Zenon, <1>w, <2>1, <2>2
<1>2. CASE ReadReturns(r)
  <2>1. ReaderInv' BY <1>2, <1>0 DEF ReadReturns, ReaderAt, Nowhere, wvars, ReaderInv
  <2>2. LockedInv' BY Zenon, <1>2, <1>0 DEF ReadReturns, ReaderAt, wvars, ReaderInv, LockedInv
  <2> QED BY Zenon, <1>w, <2>1, <2>2
<1>3. ASSUME NEW v \in LockValues, LoadBefore(r, v) PROVE IInv'
  <2>0. v \in Int /\ v >= -1 /\ v <= lock_ /\ lock_ \in Int
    BY <1>3 DEF LoadBefore, WriterInv
  <2>1. CASE IsOdd(v)
    <3>1. r \notin locked
      BY <1>3, <2>0, <2>1 DEF LoadBefore, LockedInv, WriterInv
    <3>2. ReaderInv' BY <1>3, <1>0, <2>0, <2>1, <3>1, SMTT(30) DEF LoadBefore, Failed, ReaderAt, Nowhere, wvars, ReaderInv
    <3>3. LockedInv' BY Zenon, <1>3, <1>0, <2>1, <3>1 DEF LoadBefore, Failed, ReaderAt, wvars, ReaderInv, LockedInv
    <3> QED BY Zenon, <1>w, <3>2, <3>3
  <2>2. CASE ~IsOdd(v)
    <3>1. v >= 0
      BY <2>0, <2>2, OddStep
    <3>2. ASSUME NEW w \in Words PROVE 2 * lock_view[v][w] = v /\ lock_view[v][w] \in Int
      <4>1. v \in -1..lock_ /\ v \in LockValues
        BY <1>3, <2>0
      <4>2. lock_view[v] \in [Words -> Int]
        BY Zenon, <4>1 DEF ViewInv
      <4> QED BY Zenon, <3>1, <2>2, <4>1, <4>2 DEF ViewInv
    <3>3. /\ word_floor' \in [Readers -> [Words -> Int]]
          /\ \A q \in Readers : q # r => word_floor'[q] = word_floor[q]
          /\ \A w \in Words : 2 * word_floor'[r][w] >= v
      <4> DEFINE wf == [w \in Words |-> IF lock_view[v][w] > word_floor[r][w]
                                        THEN lock_view[v][w] ELSE word_floor[r][w]]
      <4>1. word_floor' = [word_floor EXCEPT ![r] = wf]
        BY Zenon, <1>3, <2>2 DEF LoadBefore
      <4>2. word_floor \in [Readers -> [Words -> Int]] /\ word_floor[r] \in [Words -> Int]
        BY Zenon DEF ReaderInv
      <4>3. ASSUME NEW w \in Words PROVE wf[w] \in Int /\ 2 * wf[w] >= v
        BY <2>0, <3>2, <4>2, SMTT(30)
      <4>4. wf \in [Words -> Int]
        BY Zenon, <4>3
      <4> HIDE DEF wf
      <4> QED BY Zenon, <4>1, <4>2, <4>3, <4>4
    <3>a. /\ rpc' = [rpc EXCEPT ![r] = "copy"] /\ seq_before' = [seq_before EXCEPT ![r] = v]
          /\ dst' = [dst EXCEPT ![r] = Nowhere] /\ locked' = locked
          /\ lock_floor' = [lock_floor EXCEPT ![r] = v]
      BY Zenon, <1>3, <2>2 DEF LoadBefore, ReaderAt
    <3>b. ReaderInv'
      <4>1. dst' \in [Readers -> [Words -> Int]] /\ \A w \in Words : dst'[r][w] = -1
        BY <3>a DEF Nowhere, ReaderInv
      <4>2. \A q \in Readers : q # r => /\ rpc'[q] = rpc[q] /\ seq_before'[q] = seq_before[q]
                                       /\ dst'[q] = dst[q] /\ lock_floor'[q] = lock_floor[q]
        BY Zenon, <3>a DEF ReaderInv
      <4>3. /\ rpc'[r] = "copy" /\ seq_before'[r] = v /\ lock_floor'[r] = v
            /\ rpc' \in [Readers -> {"call", "copy", "done", "fallback"}]
            /\ seq_before' \in [Readers -> Int] /\ lock_floor' \in [Readers -> Int]
        BY Zenon, <2>0, <3>a DEF ReaderInv
      <4>4. lock_' = lock_ /\ value_words' = value_words /\ locked' = locked
        BY Zenon, <1>0, <3>a DEF wvars
      <4>5. \A q \in Readers : lock_floor'[q] >= -1 /\ lock_floor'[q] <= lock_'
        BY Zenon, <2>0, <4>2, <4>3, <4>4 DEF ReaderInv
      <4>6. ASSUME NEW q \in Readers, rpc'[q] \in {"copy", "done"}
            PROVE  /\ seq_before'[q] >= 0 /\ ~IsOdd(seq_before'[q])
                   /\ \A w \in Words : 2 * word_floor'[q][w] >= seq_before'[q]
                   /\ \A w \in Words : dst'[q][w] # -1 =>
                         dst'[q][w] \in -1..value_words'[w] /\ 2 * dst'[q][w] >= seq_before'[q]
        <5>1. CASE q = r
          BY Zenon, <2>2, <3>1, <3>3, <4>1, <4>3, <5>1
        <5>2. CASE q # r
          BY Zenon, <3>3, <4>2, <4>4, <4>6, <5>2 DEF ReaderInv
        <5> QED BY Zenon, <5>1, <5>2
      <4>7. \A q \in Readers : rpc'[q] = "done" => \A w \in Words : 2 * dst'[q][w] = seq_before'[q]
        BY Zenon, <4>2, <4>3 DEF ReaderInv
      <4>8. locked' \subseteq Readers
        BY Zenon, <4>4 DEF ReaderInv
      <4> QED BY Zenon, <3>3, <4>1, <4>3, <4>5, <4>6, <4>7, <4>8 DEF ReaderInv
    <3>4. r \in locked => v = lock_
      BY <1>3, <2>0, SMTT(30) DEF LoadBefore, LockedInv
    <3>5. LockedInv' BY Zenon, <1>3, <1>0, <2>2, <3>4 DEF LoadBefore, ReaderAt, wvars, ReaderInv, LockedInv
    <3> QED BY Zenon, <1>w, <3>b, <3>5
  <2> QED BY Zenon, <2>1, <2>2
<1>4. ASSUME NEW v \in LockValues, LoadAfter(r, v) PROVE IInv'
  <2>0. v \in Int /\ v >= -1 /\ v <= lock_ /\ lock_ \in Int
    BY <1>4, SMTT(30) DEF LoadAfter, WriterInv
  <2>1. CASE v = seq_before[r]
    <3>1. ASSUME NEW w \in Words PROVE 2 * dst[r][w] = v
      <4>1. 2 * dst[r][w] >= v /\ v >= 0 /\ ~IsOdd(v) /\ dst[r][w] \in -1..value_words[w]
        BY Zenon, <1>4, <2>1 DEF LoadAfter, ReaderInv
      <4>2. dst[r][w] \in 0..value_words[w] /\ dst[r][w] \in Versions /\ dst[r][w] \in Int
        BY <4>1, <2>0 DEF WriterInv
      <4>3. word_view[w][dst[r][w]] >= 2 * dst[r][w] - 1 /\ word_view[w][dst[r][w]] \in Int
        BY Zenon, <4>2 DEF ViewInv
      <4>4. word_view[w][dst[r][w]] <= v
        BY Zenon, <1>4 DEF LoadAfter
      <4>5. 2 * dst[r][w] - 1 <= v
        BY <4>2, <4>3, <4>4, <2>0, SMTT(30)
      <4> QED BY Zenon, <4>1, <4>2, <4>5, <2>0, EvenBetween
    <3>2. ReaderInv' BY Zenon, <1>4, <1>0, <2>0, <2>1, <3>1 DEF LoadAfter, ReaderAt, wvars, ReaderInv
    <3>3. LockedInv' BY Zenon, <1>4, <1>0, <2>0, <2>1 DEF LoadAfter, ReaderAt, wvars, ReaderInv, LockedInv
    <3> QED BY Zenon, <1>w, <3>2, <3>3
  <2>2. CASE v # seq_before[r]
    <3>1. r \notin locked
      BY <1>4, <2>0, <2>2, SMTT(30) DEF LoadAfter, LockedInv
    <3>2. ReaderInv' BY Zenon, <1>4, <1>0, <2>0, <2>2, <3>1 DEF LoadAfter, Failed, ReaderAt, wvars, ReaderInv
    <3>3. LockedInv' BY Zenon, <1>4, <1>0, <2>2, <3>1 DEF LoadAfter, Failed, ReaderAt, wvars, ReaderInv, LockedInv
    <3> QED BY Zenon, <1>w, <3>2, <3>3
  <2> QED BY Zenon, <2>1, <2>2
<1>5. ASSUME NEW w \in Words, NEW k \in Versions, RelaxedCopyFromAtomic(r, w, k) PROVE IInv'
  <2>1. ReaderInv' BY <1>5, <1>0, SMTT(30) DEF RelaxedCopyFromAtomic, wvars, WriterInv, ReaderInv
  <2>2. LockedInv' BY Zenon, <1>5, <1>0 DEF RelaxedCopyFromAtomic, wvars, LockedInv
  <2> QED BY Zenon, <1>w, <2>1, <2>2
<1> QED BY Zenon, <1>1, <1>2, <1>3, <1>4, <1>5

\* Every step of the writer and of every reader preserves the invariant.
LEMMA StepInv == IInv /\ [SeqNext]_seqvars => IInv'
<1> SUFFICES ASSUME IInv, [SeqNext]_seqvars PROVE IInv'
  BY Zenon
<1>1. CASE UNCHANGED seqvars
  BY Zenon, <1>1 DEF seqvars, IInv, WriterInv, ViewInv, ReaderInv, LockedInv
<1>2. CASE SeqNext
  BY Zenon, <1>2, WriterStep, ReaderStep DEF SeqNext
<1> QED BY Zenon, <1>1, <1>2

\* TryRead of sequence_lock.h never returns true with words of two different Writes, whatever
\* relaxed loads and stores the memory model reorders.
THEOREM SequenceLockNoTornRead == SeqSpec => []NoTornRead
<1>1. IInv => NoTornRead
  BY Zenon DEF IInv, ReaderInv, NoTornRead
<1> QED BY <1>1, InitInv, StepInv, PTL DEF SeqSpec

\* The TryRead that ReadSequenceLockedData makes under the mutex, whose result is only
\* asserted, succeeds and returns the last value.
THEOREM SequenceLockLockedRead == SeqSpec => []LockedReadSucceeds
<1>1. IInv => LockedReadSucceeds
  BY Zenon DEF IInv, ReaderInv, LockedInv, LockedReadSucceeds
<1> QED BY <1>1, InitInv, StepInv, PTL DEF SeqSpec
-----------------------------------------------------------------------------
(* SpinLock. *)


\* The word is held exactly while some thread holds the lock.
HeldMeansHolder == (lockword.held = 1) <=> \E t \in Threads : pc[t] = "held"

\* Every value a thread has seen of a free word is the clean one.
SeenFreeIsClean ==
    \A t \in Threads : lock_value[t].held = 0 => lock_value[t] = FreeWord

\* Inside SlowLock's loop the local value is that of a held lock, and its wait bits are
\* as the branch that led there found them.
LoopValue ==
    \A t \in Threads :
        /\ pc[t] \in {"loop", "mark", "delay"} => lock_value[t].held = 1
        /\ pc[t] = "mark" => lock_value[t].wait = 0
        /\ pc[t] = "delay" => lock_value[t].wait # 0

\* The inductive invariant of the spin lock.
SpinInv ==
    /\ TypeOK
    /\ MutualExclusion
    /\ FreeMeansClean
    /\ HeldMeansHolder
    /\ SeenFreeIsClean
    /\ LoopValue
    /\ SchedulingBalanced

USE DEF PC, Goto

\* An unlocked lock that nobody uses satisfies the invariant.
LEMMA InitSpinInv == Init => SpinInv /\ NoLostWakeup
  BY DEF Init, SpinInv, TypeOK, MutualExclusion, FreeMeansClean, HeldMeansHolder,
         SeenFreeIsClean, LoopValue, SchedulingBalanced, NoLostWakeup, Word, FreeWord

\* TryLockInternal, from any of its call sites, preserves the invariant: when its
\* compare-exchange fails the lock is held, so the caller does not enter.
LEMMA TryLockInternalSpinInv ==
    ASSUME SpinInv, NEW t \in Threads, NEW c \in 0..2, NEW busy \in {"spin", "idle", "loop"},
           pc[t] \in {"try", "trylock", "attempt"}, TryLockInternal(t, c, busy),
           UNCHANGED <<wait_cycles, identified>>
    PROVE  SpinInv'
<1> USE DEF SpinInv, TypeOK, MutualExclusion, FreeMeansClean, HeldMeansHolder,
            SeenFreeIsClean, LoopValue, SchedulingBalanced, Word, FreeWord
<1>1. CASE lock_value[t].held = 1
  <2>1. TypeOK'
    BY <1>1 DEF TryLockInternal
  <2>2. (MutualExclusion /\ HeldMeansHolder)'
    BY <1>1 DEF TryLockInternal
  <2>3. (FreeMeansClean /\ SeenFreeIsClean)'
    BY Zenon, <1>1 DEF TryLockInternal
  <2>4. LoopValue'
    BY <1>1 DEF TryLockInternal
  <2>5. SchedulingBalanced'
    BY <1>1 DEF TryLockInternal
  <2> QED
    BY Zenon, <2>1, <2>2, <2>3, <2>4, <2>5
<1>2. CASE lock_value[t].held = 0 /\ lockword = lock_value[t]
  <2> DEFINE w == HeldWord(t, lock_value[t], c)
  <2>1. /\ w \in Word /\ w.held = 1 /\ w.sched = DisableRescheduling(t)
        /\ DisableRescheduling(t) \in {0, 1}
    BY <1>2 DEF HeldWord, DisableRescheduling
  <2>2. /\ lockword' = w /\ pc' = [pc EXCEPT ![t] = "held"]
        /\ depth' = [depth EXCEPT ![t] = @ + DisableRescheduling(t)]
        /\ UNCHANGED lock_value
    BY <1>2 DEF TryLockInternal
  <2> HIDE DEF w
  <2> QED
    BY <1>2, <2>1, <2>2
<1>3. CASE lock_value[t].held = 0 /\ lockword # lock_value[t]
  <2>1. TypeOK'
    <3>1. /\ lock_value' = [lock_value EXCEPT ![t] = lockword]
          /\ \E l \in PC : pc' = [pc EXCEPT ![t] = l]
          /\ UNCHANGED <<lockword, depth>>
      BY Zenon, <1>3 DEF TryLockInternal
    <3> QED
      BY <3>1
  <2>2. (MutualExclusion /\ HeldMeansHolder)'
    BY <1>3 DEF TryLockInternal
  <2>3. (FreeMeansClean /\ SeenFreeIsClean)'
    BY <1>3 DEF TryLockInternal
  <2>4. LoopValue'
    BY <1>3 DEF TryLockInternal
  <2>5. SchedulingBalanced'
    BY <1>3 DEF TryLockInternal
  <2> QED
    BY Zenon, <2>1, <2>2, <2>3, <2>4, <2>5
<1> QED
  BY Zenon, <1>1, <1>2, <1>3

\* Every step of every thread preserves the invariant.
LEMMA NextSpinInv == SpinInv /\ [Next]_vars => SpinInv'
<1> SUFFICES ASSUME SpinInv, [Next]_vars PROVE SpinInv'
  BY Zenon
<1>1. ASSUME NEW t \in Threads, TryLockImpl(t) PROVE SpinInv'
  BY <1>1, TryLockInternalSpinInv DEF TryLockImpl
<1>2. ASSUME NEW t \in Threads, SlowTryLock(t) PROVE SpinInv'
  BY Zenon, <1>2, TryLockInternalSpinInv DEF SlowTryLock, SpinInv, TypeOK
<1> USE DEF SpinInv, TypeOK, MutualExclusion, FreeMeansClean, HeldMeansHolder,
            SeenFreeIsClean, LoopValue, SchedulingBalanced, Word, FreeWord
<1>3. ASSUME NEW t \in Threads, Call(t) PROVE SpinInv'
  <2>1. TypeOK'
    BY <1>3 DEF Call
  <2>2. (MutualExclusion /\ HeldMeansHolder)'
    BY <1>3 DEF Call
  <2>3. (FreeMeansClean /\ SeenFreeIsClean)'
    BY Zenon, <1>3 DEF Call
  <2>4. LoopValue'
    BY <1>3 DEF Call
  <2>5. SchedulingBalanced'
    BY <1>3 DEF Call
  <2> QED
    BY Zenon, <2>1, <2>2, <2>3, <2>4, <2>5
<1>4. ASSUME NEW t \in Threads, CreateThreadIdentity(t) PROVE SpinInv'
  BY Zenon, <1>4, SpinLockAssumption DEF CreateThreadIdentity
<1>5. ASSUME NEW t \in Threads, SpinLoop(t) PROVE SpinInv'
  <2>1. TypeOK'
    BY Zenon, <1>5 DEF SpinLoop
  <2>2. (MutualExclusion /\ HeldMeansHolder)'
    BY Zenon, <1>5 DEF SpinLoop
  <2>3. (FreeMeansClean /\ SeenFreeIsClean)'
    BY Zenon, <1>5 DEF SpinLoop
  <2>4. LoopValue'
    BY Zenon, <1>5 DEF SpinLoop
  <2>5. SchedulingBalanced'
    BY Zenon, <1>5 DEF SpinLoop
  <2> QED
    BY Zenon, <2>1, <2>2, <2>3, <2>4, <2>5
<1>6. ASSUME NEW t \in Threads, Loop(t) PROVE SpinInv'
  BY Zenon, <1>6 DEF Loop
<1>7. ASSUME NEW t \in Threads, Mark(t) PROVE SpinInv'
  <2>1. TypeOK'
    <3>1. CASE lockword = lock_value[t]
      <4>1. [lockword EXCEPT !.wait = 1] \in Word
        OBVIOUS
      <4>2. /\ lockword' = [lockword EXCEPT !.wait = 1]
            /\ lock_value' = [lock_value EXCEPT ![t] = [lock_value[t] EXCEPT !.wait = 1]]
        BY Zenon, <1>7, <3>1 DEF Mark
      <4> QED
        BY Zenon, <1>7, <3>1, <4>1, <4>2 DEF Mark
    <3>2. CASE lockword # lock_value[t]
      BY <1>7, <3>2, Zenon DEF Mark
    <3> QED
      BY Zenon, <3>1, <3>2
  <2>2. (MutualExclusion /\ HeldMeansHolder)'
    BY <1>7 DEF Mark
  <2>3. (FreeMeansClean /\ SeenFreeIsClean)'
    BY <1>7 DEF Mark
  <2>4. LoopValue'
    BY <1>7 DEF Mark
  <2>5. SchedulingBalanced'
    BY <1>7 DEF Mark
  <2> QED
    BY Zenon, <2>1, <2>2, <2>3, <2>4, <2>5
<1>8. ASSUME NEW t \in Threads, Delay(t) \/ SpuriousWakeup(t) PROVE SpinInv'
  <2>1. TypeOK'
    BY Zenon, <1>8 DEF Delay, SpuriousWakeup
  <2>2. (MutualExclusion /\ HeldMeansHolder)'
    BY <1>8 DEF Delay, SpuriousWakeup
  <2>3. (FreeMeansClean /\ SeenFreeIsClean)'
    BY <1>8 DEF Delay, SpuriousWakeup
  <2>4. LoopValue'
    BY <1>8 DEF Delay, SpuriousWakeup
  <2>5. SchedulingBalanced'
    BY <1>8 DEF Delay, SpuriousWakeup
  <2> QED
    BY Zenon, <2>1, <2>2, <2>3, <2>4, <2>5
<1>9. ASSUME NEW t \in Threads, Respin(t) PROVE SpinInv'
  <2>1. TypeOK'
    BY <1>9 DEF Respin, EncodeWaitCycles
  <2>2. (MutualExclusion /\ HeldMeansHolder)'
    BY Zenon, <1>9 DEF Respin, EncodeWaitCycles
  <2>3. (FreeMeansClean /\ SeenFreeIsClean)'
    BY Zenon, <1>9 DEF Respin, EncodeWaitCycles
  <2>4. LoopValue'
    BY Zenon, <1>9 DEF Respin, EncodeWaitCycles
  <2>5. SchedulingBalanced'
    BY Zenon, <1>9 DEF Respin, EncodeWaitCycles
  <2> QED
    BY Zenon, <2>1, <2>2, <2>3, <2>4, <2>5
<1>10. ASSUME NEW t \in Threads, Unlock(t) PROVE SpinInv'
  BY <1>10 DEF Unlock
<1>11. ASSUME NEW t \in Threads, SlowUnlock(t) PROVE SpinInv'
  <2>1. TypeOK'
    BY Zenon, <1>11 DEF SlowUnlock
  <2>2. (MutualExclusion /\ HeldMeansHolder)'
    <3>1. \A x \in Threads : (pc'[x] = "held") <=> (pc[x] = "held")
      BY Zenon, <1>11 DEF SlowUnlock
    <3> QED
      BY <1>11, <3>1 DEF SlowUnlock
  <2>3. (FreeMeansClean /\ SeenFreeIsClean)'
    BY Zenon, <1>11 DEF SlowUnlock
  <2>4. LoopValue'
    BY <1>11 DEF SlowUnlock
  <2>5. SchedulingBalanced'
    BY <1>11 DEF SlowUnlock
  <2> QED
    BY Zenon, <2>1, <2>2, <2>3, <2>4, <2>5
<1>12. CASE UNCHANGED vars
  BY Zenon, <1>12 DEF vars
<1> QED
  BY Zenon, <1>1, <1>2, <1>3, <1>4, <1>5, <1>6, <1>7, <1>8, <1>9, <1>10, <1>11, <1>12
     DEF Next, Step

\* Every step keeps somebody responsible for the sleepers.
LEMMA NextNoLostWakeup == SpinInv /\ NoLostWakeup /\ [Next]_vars => NoLostWakeup'
<1> SUFFICES ASSUME SpinInv, NoLostWakeup, [Next]_vars PROVE NoLostWakeup'
  BY Zenon
<1> USE DEF SpinInv, TypeOK, LoopValue, FreeMeansClean, NoLostWakeup, Relay, Word, FreeWord
<1>1. ASSUME NEW t \in Threads, TryLockImpl(t) PROVE NoLostWakeup'
  BY <1>1 DEF TryLockImpl, TryLockInternal, HeldWord, SeenFreeIsClean
<1>2. ASSUME NEW t \in Threads, SlowTryLock(t) PROVE NoLostWakeup'
  BY <1>2 DEF SlowTryLock, TryLockInternal, HeldWord, SeenFreeIsClean
<1>3. ASSUME NEW t \in Threads, Call(t) PROVE NoLostWakeup'
  BY <1>3 DEF Call
<1>4. ASSUME NEW t \in Threads, CreateThreadIdentity(t) PROVE NoLostWakeup'
  BY Zenon, <1>4 DEF CreateThreadIdentity
<1>5. ASSUME NEW t \in Threads, SpinLoop(t) PROVE NoLostWakeup'
  BY Zenon, <1>5 DEF SpinLoop
<1>6. ASSUME NEW t \in Threads, Loop(t) PROVE NoLostWakeup'
  BY Zenon, <1>6 DEF Loop
<1>7. ASSUME NEW t \in Threads, Mark(t) PROVE NoLostWakeup'
  BY <1>7 DEF Mark
<1>8. ASSUME NEW t \in Threads, Delay(t) \/ SpuriousWakeup(t) PROVE NoLostWakeup'
  BY <1>8 DEF Delay, SpuriousWakeup
<1>9. ASSUME NEW t \in Threads, Respin(t) PROVE NoLostWakeup'
  BY <1>9 DEF Respin, EncodeWaitCycles
<1>10. ASSUME NEW t \in Threads, Unlock(t) PROVE NoLostWakeup'
  BY Zenon, <1>10 DEF Unlock
<1>11. ASSUME NEW t \in Threads, SlowUnlock(t) PROVE NoLostWakeup'
  BY <1>11 DEF SlowUnlock
<1>12. CASE UNCHANGED vars
  BY Zenon, <1>12 DEF vars
<1> QED
  BY Zenon, <1>1, <1>2, <1>3, <1>4, <1>5, <1>6, <1>7, <1>8, <1>9, <1>10, <1>11, <1>12
     DEF Next, Step

\* SpinLock provides mutual exclusion, and a free word is clean.
THEOREM SpinLockExcludes == Spec => [](MutualExclusion /\ FreeMeansClean)
<1>1. SpinInv => MutualExclusion /\ FreeMeansClean
  BY Zenon DEF SpinInv
<1> QED
  BY <1>1, InitSpinInv, NextSpinInv, PTL DEF Spec

\* The scheduling guard is balanced: unlock() enables rescheduling exactly if the lock() it
\* ends disabled it, also for a thread that got its identity in between.
THEOREM SpinLockGuardBalanced == Spec => []SchedulingBalanced
<1>1. SpinInv => SchedulingBalanced
  BY Zenon DEF SpinInv
<1> QED
  BY <1>1, InitSpinInv, NextSpinInv, PTL DEF Spec

\* No sleeper in SpinLockDelay is ever forgotten.
THEOREM SpinLockWakes == Spec => []NoLostWakeup
  BY InitSpinInv, NextSpinInv, NextNoLostWakeup, PTL DEF Spec

-----------------------------------------------------------------------------
(* The waiters. *)

\* A semaphore owner that is on its way to sleep must not have missed a wakeup either; a
\* condition variable sleeps only while there is none.
NothingMissed ==
    /\ impl = "futex" /\ opc = "asleep" /\ count > 0 => \E p \in Posters : poster[p] = "poke"
    /\ impl = "sem" /\ opc \in {"sleep", "asleep"} /\ count > 0 =>
         sem > 0 \/ \E p \in Posters : poster[p] = "poke"
    /\ impl = "condvar" => opc # "sleep" /\ (opc = "asleep" => count = 0)

\* The inductive invariant of the waiters.
WaiterInv == SemTypeOK /\ NothingMissed

\* Nobody waits and nothing was posted.
LEMMA WaiterInit == SemInit => WaiterInv
  BY WaiterAssumption DEF SemInit, WaiterInv, SemTypeOK, NothingMissed

USE DEF WaiterInv, owner, Return, Awake

\* Every step keeps the variables in their types.
LEMMA WaiterTypes == SemTypeOK /\ [SemNext]_semvars => SemTypeOK'
  <1> SUFFICES ASSUME SemTypeOK, [SemNext]_semvars PROVE SemTypeOK'
    BY Zenon
  <1> USE WaiterAssumption DEF SemTypeOK
  <1>0. impl' = impl
    BY Zenon DEF SemNext, semvars
  <1>1. CASE Wait BY <1>0, <1>1 DEF Wait
  <1>2. CASE Consume BY <1>0, <1>2 DEF Consume
  <1>3. CASE FindNone BY Zenon, <1>0, <1>3 DEF FindNone, MaybeBecomeIdle
  <1>4. CASE Sleep BY Zenon, <1>0, <1>4 DEF Sleep
  <1>5. CASE WouldBlock BY Zenon, <1>0, <1>5 DEF WouldBlock
  <1>6. CASE SemWait BY <1>0, <1>6 DEF SemWait
  <1>7. CASE Spurious BY Zenon, <1>0, <1>7 DEF Spurious
  <1>8. CASE TimesOut BY <1>0, <1>8 DEF TimesOut
  <1>9. CASE Tick BY <1>0, <1>9 DEF Tick, Cap
  <1>10. CASE TickPokes BY <1>0, <1>10 DEF TickPokes, Poke
  <1>11. CASE \E p \in Posters : Post(p) BY <1>0, <1>11 DEF Post, Poke
  <1>12. CASE \E p \in Posters : PostPokes(p) BY <1>0, <1>12 DEF PostPokes, Poke
  <1>13. CASE UNCHANGED semvars BY Zenon, <1>13 DEF semvars
  <1> QED BY Zenon, <1>1, <1>2, <1>3, <1>4, <1>5, <1>6, <1>7, <1>8, <1>9, <1>10, <1>11, <1>12, <1>13
          DEF SemNext, OwnerStep

\* Every step keeps the owner from sleeping on a wakeup.
LEMMA WaiterMisses == WaiterInv /\ [SemNext]_semvars => NothingMissed'
  <1> SUFFICES ASSUME WaiterInv, [SemNext]_semvars PROVE NothingMissed'
    BY Zenon
  <1> USE WaiterAssumption DEF SemTypeOK, NothingMissed
  <1>0. impl' = impl
    BY Zenon DEF SemNext, semvars
  <1>1. CASE Wait BY Zenon, <1>0, <1>1 DEF Wait
  <1>2. CASE Consume BY Zenon, <1>0, <1>2 DEF Consume
  <1>3. CASE FindNone BY <1>0, <1>3 DEF FindNone, MaybeBecomeIdle
  <1>4. CASE Sleep BY <1>0, <1>4 DEF Sleep
  <1>5. CASE WouldBlock BY Zenon, <1>0, <1>5 DEF WouldBlock
  <1>6. CASE SemWait BY Zenon, <1>0, <1>6 DEF SemWait
  <1>7. CASE Spurious BY Zenon, <1>0, <1>7 DEF Spurious
  <1>8. CASE TimesOut BY Zenon, <1>0, <1>8 DEF TimesOut
  <1>9. CASE Tick BY Zenon, <1>0, <1>9 DEF Tick, Cap
  <1>10. CASE TickPokes BY <1>0, <1>10 DEF TickPokes, Poke
  <1>11. CASE \E p \in Posters : Post(p) BY <1>0, <1>11 DEF Post, Poke
  <1>12. CASE \E p \in Posters : PostPokes(p) BY <1>0, <1>12 DEF PostPokes, Poke
  <1>13. CASE UNCHANGED semvars BY Zenon, <1>13 DEF semvars
  <1> QED BY Zenon, <1>1, <1>2, <1>3, <1>4, <1>5, <1>6, <1>7, <1>8, <1>9, <1>10, <1>11, <1>12, <1>13
          DEF SemNext, OwnerStep

\* No implementation ever sleeps on a wakeup that nobody will deliver, although Post() pokes
\* only when it counts from 0 on.
THEOREM WaiterWakes == SemSpec => []NoMissedPost
  <1>1. WaiterInv => NoMissedPost
    BY DEF SemTypeOK, NothingMissed, NoMissedPost
  <1> QED BY <1>1, WaiterInit, WaiterTypes, WaiterMisses, PTL DEF SemSpec

\* Futex, POSIX semaphore and condition variable implement the same semaphore.
THEOREM WaiterIsSemaphore == SemSpec => ImplementsSemaphore
  <1>1. SemInit => Abstract!Init
    BY Zenon DEF SemInit, Abstract!Init
  <1>2. SemTypeOK /\ [SemNext]_semvars => [Abstract!Next]_(Abstract!vars)
    <2> SUFFICES ASSUME SemTypeOK, [SemNext]_semvars PROVE [Abstract!Next]_(Abstract!vars)
      BY Zenon
    <2> USE WaiterAssumption DEF SemTypeOK, Abstract!Next, Abstract!vars
    <2>1. CASE Wait BY Zenon, <2>1 DEF Wait, Abstract!Wait
    <2>2. CASE Consume BY Zenon, <2>2 DEF Consume, Abstract!Take
    <2>3. CASE FindNone \/ Sleep \/ WouldBlock \/ SemWait \/ Spurious
      BY Zenon, <2>3 DEF FindNone, Sleep, WouldBlock, SemWait, Spurious
    <2>4. CASE TimesOut BY Zenon, <2>4 DEF TimesOut, Abstract!TimesOut
    <2>5. CASE Tick \/ TickPokes BY Zenon, <2>5 DEF Tick, TickPokes, Poke
    <2>6. CASE \E p \in Posters : Post(p) BY Zenon, <2>6 DEF Post, Poke, Abstract!Post
    <2>7. CASE \E p \in Posters : PostPokes(p) BY Zenon, <2>7 DEF PostPokes, Poke
    <2>8. CASE UNCHANGED semvars BY Zenon, <2>8 DEF semvars
    <2> QED BY Zenon, <2>1, <2>2, <2>3, <2>4, <2>5, <2>6, <2>7, <2>8 DEF SemNext, OwnerStep
  <1> QED BY <1>1, <1>2, WaiterInit, WaiterTypes, PTL DEF SemSpec, ImplementsSemaphore, Abstract!Spec
-----------------------------------------------------------------------------
(* FlagImpl. *)

\* Where a thread can be in a call, and what the storage looks like.
FlagTypes ==
    /\ ptr_value \in [buf : Buffers, candidate : BOOLEAN, read : BOOLEAN]
    /\ freelist \subseteq Buffers /\ mods \in Nat
    /\ callback_ \in BOOLEAN
    /\ at \in [Callers -> {"idle", "copy", "store", "invoke", "callback", "relock"}]
    /\ DOMAIN src = Callers /\ DOMAIN op = Callers
    /\ \A t \in Callers : at[t] = "store" => op[t].cmd \in BOOLEAN

\* A buffer that is read without the mutex is leaked, or is the flag's with both bits set, which
\* only StoreElsewhere takes away; a leaked buffer is never used again.
UnprotectedReads ==
    /\ ptr_value.buf \notin freelist
    /\ \A u \in Callers : at[u] = "copy" =>
           src[u] \in freelist \/ (src[u] = ptr_value.buf /\ AllowsUnprotectedRead)

\* One callback runs at a time, and only if there is one.
OneCallback ==
    /\ \A t \in Callers : at[t] = "callback" => guard = t
    /\ \A t \in Callers : at[t] \in {"invoke", "callback", "relock"} => callback_

\* The callback is about to read the flag, or has read its value, or has derived from it.
Derived ==
    callback_ => \/ \E t \in Callers : at[t] = "invoke"
                 \/ \E t \in Callers : at[t] = "callback" /\ src[t] = Value
                 \/ derived = Value /\ \A t \in Callers : at[t] # "callback"

\* The modification count only grows.
CountGrows == saved.counter \in Int /\ saved.counter <= mods /\ SameCountSameState

FlagInv == FlagTypes /\ UnprotectedReads /\ OneCallback /\ Derived /\ CountGrows

\* A flag that nobody uses satisfies the invariant.
LEMMA FlagFirst == FlagInit => FlagInv
<1> SUFFICES ASSUME FlagInit PROVE FlagInv
  BY Zenon
<1> USE FlagAssumption DEF FlagInit, Value
<1>1. FlagTypes /\ UnprotectedReads
  <2>1. callback_ \in BOOLEAN
    BY Zenon
  <2>2. ptr_value \in [buf : Buffers, candidate : BOOLEAN, read : BOOLEAN] /\ ptr_value.buf \notin freelist
    BY DEF Buffers
  <2>3. \A u \in Callers : at[u] \notin {"copy", "store"}
    BY Zenon
  <2> QED
    BY Zenon, <2>1, <2>2, <2>3 DEF FlagTypes, UnprotectedReads
<1>2. OneCallback /\ Derived
  BY Zenon DEF OneCallback, Derived
<1>3. CountGrows
  BY DEF CountGrows, SameCountSameState, NoState
<1> QED
  BY Zenon, <1>1, <1>2, <1>3 DEF FlagInv

\* Reading the flag, with the mutex or without.
LEMMA FlagReads ==
    ASSUME FlagInv, NEW t \in Callers, Get(t) \/ GetReturns(t) \/ Read(t)
    PROVE  FlagInv'
<1> USE FlagAssumption DEF FlagInv, FlagTypes
<1>1. /\ UNCHANGED <<data_guard_, mem, freelist, mods, modified_, on_command_line_, cvars, dvars, op, updated>>
      /\ ptr_value'.buf = ptr_value.buf /\ (AllowsUnprotectedRead => AllowsUnprotectedRead')
      /\ ptr_value' \in [buf : Buffers, candidate : BOOLEAN, read : BOOLEAN]
  BY Zenon DEF Get, GetReturns, Read, MarkAsRead, fvars, AllowsUnprotectedRead
<1>2. /\ at' \in [Callers -> {"idle", "copy", "store", "invoke", "callback", "relock"}]
      /\ DOMAIN src' = Callers
      /\ \A u \in Callers : /\ at'[u] \notin {"idle", "copy"} \/ at[u] \notin {"idle", "copy"} =>
                                  at'[u] = at[u] /\ src'[u] = src[u]
                            /\ at'[u] = "copy" => \/ at[u] = "copy" /\ src'[u] = src[u]
                                                  \/ src'[u] = ptr_value.buf /\ AllowsUnprotectedRead
  BY SMTT(30) DEF Get, GetReturns, Read, To
<1>3. Value' = Value
  BY Zenon, <1>1 DEF Value
<1>4. FlagTypes' /\ UnprotectedReads'
  BY Zenon, <1>1, <1>2 DEF UnprotectedReads, cvars
<1>5. OneCallback'
  BY Zenon, <1>1, <1>2 DEF OneCallback, cvars
<1>6. Derived'
  BY Zenon, <1>1, <1>2, <1>3 DEF Derived, cvars
<1>7. CountGrows'
  BY Zenon, <1>1, <1>3 DEF CountGrows, SameCountSameState, cvars, dvars
<1> QED
  BY Zenon, <1>4, <1>5, <1>6, <1>7

\* The calls up to StoreValue, and SaveState: they leave the value, the count and the callback
\* alone.
LEMMA FlagCalls ==
    ASSUME FlagInv, NEW t \in Callers,
           \/ Write(t) \/ SaveState(t) \/ RestoreState(t)
           \/ \E mode \in Modes \ {"WRITE", "RESTORE"}, cmd \in BOOLEAN : ParseFrom(t, mode, cmd)
    PROVE  FlagInv'
<1> USE FlagAssumption DEF FlagInv, FlagTypes
<1>1. /\ UNCHANGED <<fvars, modified_, on_command_line_, cvars, src>>
      /\ at' \in [Callers -> {"idle", "copy", "store", "invoke", "callback", "relock"}]
      /\ \A u \in Callers : at'[u] = at[u] \/ (at[u] = "idle" /\ at'[u] = "store")
  BY Zenon DEF Write, SaveState, RestoreState, ParseFrom, Store, To
<1>o. DOMAIN op' = Callers /\ \A u \in Callers : at'[u] = "store" => op'[u].cmd \in BOOLEAN
  <2> DEFINE Stores(o) == /\ o.cmd \in BOOLEAN /\ op' = [op EXCEPT ![t] = o]
                          /\ at' = [at EXCEPT ![t] = "store"]
  <2>1. CASE Write(t)
    <3>1. Stores(Fresh("WRITE", FALSE))
      BY Zenon, <2>1 DEF Write, Store, To, Fresh
    <3> QED
      BY <3>1, Zenon
  <2>2. CASE SaveState(t)
    BY Zenon, <2>2 DEF SaveState
  <2>3. CASE RestoreState(t)
    <3>1. UNCHANGED <<op, at>> \/ Stores([mode |-> "RESTORE", cmd |-> FALSE, v |-> saved.value, state |-> saved])
      BY Zenon, <2>3 DEF RestoreState, Store, To
    <3> QED
      BY <3>1, Zenon
  <2>4. ASSUME NEW mode \in Modes, NEW cmd \in BOOLEAN, ParseFrom(t, mode, cmd)
        PROVE  DOMAIN op' = Callers /\ \A u \in Callers : at'[u] = "store" => op'[u].cmd \in BOOLEAN
    <3>1. UNCHANGED <<op, at>> \/ Stores(Fresh(mode, cmd))
      BY Zenon, <2>4 DEF ParseFrom, Store, To, Fresh
    <3> QED
      BY Zenon, <3>1
  <2> QED
    BY Zenon, <2>1, <2>2, <2>3, <2>4
<1>2. \/ UNCHANGED saved
      \/ /\ saved'.counter = mods /\ saved'.value = Value
         /\ saved'.modified = modified_ /\ saved'.on_command_line = on_command_line_
      \/ saved'.counter = -2
  <2>1. CASE Write(t) \/ \E mode \in Modes \ {"WRITE", "RESTORE"}, cmd \in BOOLEAN : ParseFrom(t, mode, cmd)
    BY <2>1, Zenon DEF Write, ParseFrom
  <2>2. CASE SaveState(t)
    BY Zenon, <2>2 DEF SaveState
  <2>3. CASE RestoreState(t)
    BY Zenon, <2>3 DEF RestoreState, Restored
  <2> QED
    BY Zenon, <2>1, <2>2, <2>3
<1>3. Value' = Value /\ (AllowsUnprotectedRead <=> AllowsUnprotectedRead')
  BY Zenon, <1>1 DEF Value, AllowsUnprotectedRead, fvars
<1>4. FlagTypes' /\ UnprotectedReads'
  BY Zenon, <1>1, <1>o, <1>3 DEF UnprotectedReads, fvars, cvars
<1>5. OneCallback'
  BY Zenon, <1>1 DEF OneCallback, cvars
<1>6. Derived'
  BY Zenon, <1>1, <1>3 DEF Derived, cvars
<1>7. CountGrows'
  BY <1>1, <1>2, <1>3 DEF CountGrows, SameCountSameState, cvars, fvars
<1> QED
  BY Zenon, <1>4, <1>5, <1>6, <1>7

\* StoreValue: in place only if nobody reads the buffer without the mutex, else in a buffer
\* that is not leaked; the count grows and the callback, if there is one, will run.
LEMMA FlagStores ==
    ASSUME FlagInv, NEW t \in Callers, StoreValue(t)
    PROVE  FlagInv'
<1> USE FlagAssumption DEF FlagInv, FlagTypes
<1>1. /\ UNCHANGED <<cvars, dvars, src>> /\ mods' = mods + 1 /\ at[t] = "store"
      /\ at' = [at EXCEPT ![t] = IF callback_ THEN "invoke" ELSE "idle"]
  BY Zenon DEF StoreValue, StoreInPlace, StoreElsewhere, InvokesCallback, Finish, To
<1>o. DOMAIN op' = Callers /\ \A u \in Callers \ {t} : op'[u] = op[u]
  BY Zenon DEF StoreValue, InvokesCallback, Finish
<1>2. /\ ptr_value' \in [buf : Buffers, candidate : BOOLEAN, read : BOOLEAN]
      /\ freelist' \subseteq Buffers
      /\ UnprotectedReads'
  <2>1. CASE MustLeak
    <3>1. PICK b \in Buffers \ (freelist \cup {ptr_value.buf}) :
              ptr_value' = [buf |-> b, candidate |-> op[t].cmd, read |-> FALSE]
      BY Zenon, <2>1 DEF StoreValue, StoreElsewhere
    <3>2. freelist' = freelist \cup {ptr_value.buf}
      BY Zenon, <2>1 DEF StoreValue, StoreElsewhere
    <3> QED
      BY Zenon, <1>1, <3>1, <3>2 DEF UnprotectedReads
  <2>2. CASE ~MustLeak
    <3>1. ptr_value' = [ptr_value EXCEPT !.candidate = @ \/ op[t].cmd] /\ UNCHANGED freelist
      BY Zenon, <2>2 DEF StoreValue, StoreInPlace
    <3>2. \A u \in Callers : at'[u] = "copy" => at[u] = "copy" /\ src'[u] \in freelist
      BY Zenon, <1>1, <2>2 DEF UnprotectedReads, MustLeak
    <3> QED
      BY <3>1, <3>2, Zenon DEF UnprotectedReads
  <2> QED
    BY Zenon, <2>1, <2>2
<1>3. OneCallback' /\ FlagTypes'
  BY <1>1, <1>o, <1>2 DEF OneCallback, cvars
<1>4. Derived'
  BY Zenon, <1>1 DEF Derived, cvars
<1>5. CountGrows'
  BY <1>1 DEF CountGrows, SameCountSameState, dvars
<1> QED
  BY Zenon, <1>2, <1>3, <1>4, <1>5

\* SetCallback, and the callback's steps.
LEMMA FlagCallbacks ==
    ASSUME FlagInv, NEW t \in Callers,
           SetCallback(t) \/ CallbackReads(t) \/ CallbackReturns(t) \/ Relock(t)
    PROVE  FlagInv'
<1> USE FlagAssumption DEF FlagInv, FlagTypes
<1>1. /\ UNCHANGED <<mem, freelist, mods, dvars>>
      /\ ptr_value'.buf = ptr_value.buf /\ (AllowsUnprotectedRead => AllowsUnprotectedRead')
      /\ ptr_value' \in [buf : Buffers, candidate : BOOLEAN, read : BOOLEAN]
      /\ at[t] \notin {"copy", "store"} /\ at'[t] \notin {"copy", "store"} /\ callback_'
      /\ at' \in [Callers -> {"idle", "copy", "store", "invoke", "callback", "relock"}]
      /\ \A u \in Callers \ {t} : at'[u] = at[u] /\ src'[u] = src[u] /\ op'[u] = op[u]
      /\ DOMAIN src' = Callers /\ DOMAIN op' = Callers
  <2>1. CASE SetCallback(t)
    BY Zenon, <2>1 DEF SetCallback, To, fvars, AllowsUnprotectedRead
  <2>2. CASE CallbackReads(t)
    BY Zenon, <2>2 DEF CallbackReads, MarkAsRead, To, AllowsUnprotectedRead, OneCallback
  <2>3. CASE CallbackReturns(t)
    BY Zenon, <2>3 DEF CallbackReturns, To, fvars, AllowsUnprotectedRead, OneCallback
  <2>4. CASE Relock(t)
    BY Zenon, <2>4 DEF Relock, Finish, To, fvars, cvars, AllowsUnprotectedRead, OneCallback
  <2> QED
    BY Zenon, <2>1, <2>2, <2>3, <2>4
<1>2. Value' = Value
  BY Zenon, <1>1 DEF Value
<1>3. FlagTypes' /\ UnprotectedReads'
  BY Zenon, <1>1 DEF UnprotectedReads
<1>4. OneCallback'
  <2>1. CASE SetCallback(t)
    BY Zenon, <1>1, <2>1 DEF OneCallback, SetCallback, To
  <2>2. CASE CallbackReads(t)
    BY Zenon, <1>1, <2>2 DEF OneCallback, CallbackReads
  <2>3. CASE CallbackReturns(t)
    BY <1>1, <2>3, Zenon DEF OneCallback, CallbackReturns, To
  <2>4. CASE Relock(t)
    BY Zenon, <1>1, <2>4 DEF OneCallback, Relock, Finish, To, cvars
  <2> QED
    BY Zenon, <2>1, <2>2, <2>3, <2>4
<1>5. Derived'
  <2>1. CASE SetCallback(t)
    BY Zenon, <2>1 DEF SetCallback, To, Derived
  <2>2. CASE CallbackReads(t)
    BY Zenon, <1>2, <2>2 DEF CallbackReads, To, Derived
  <2>3. CASE CallbackReturns(t)
    BY <1>1, <1>2, <2>3, Zenon DEF CallbackReturns, To, Derived, OneCallback
  <2>4. CASE Relock(t)
    BY Zenon, <1>2, <2>4 DEF Relock, Finish, To, Derived, cvars
  <2> QED
    BY Zenon, <2>1, <2>2, <2>3, <2>4
<1>6. CountGrows'
  BY Zenon, <1>1 DEF CountGrows, SameCountSameState, dvars
<1> QED
  BY Zenon, <1>3, <1>4, <1>5, <1>6

\* Every step of every thread preserves the invariant.
LEMMA FlagSteps == FlagInv /\ [FlagNext]_flagvars => FlagInv'
<1> SUFFICES ASSUME FlagInv, [FlagNext]_flagvars PROVE FlagInv'
  BY Zenon
<1>1. CASE FlagNext
  BY Zenon, <1>1, FlagReads, FlagCalls, FlagStores, FlagCallbacks DEF FlagNext
<1>2. CASE UNCHANGED flagvars
  BY Zenon, <1>2 DEF flagvars, fvars, cvars, dvars, FlagInv, FlagTypes, UnprotectedReads, OneCallback, Derived,
              CountGrows, SameCountSameState, AllowsUnprotectedRead, Value
<1> QED
  BY Zenon, <1>1, <1>2

\* The invariant holds of every execution of FlagImpl.
LEMMA FlagAlways == FlagSpec => []FlagInv
  BY FlagFirst, FlagSteps, PTL DEF FlagSpec

\* FlagImpl::StoreValue never overwrites a buffer that another thread is reading without the
\* mutex: a pointer that allows unprotected reads does so until the buffer is leaked.
THEOREM FlagNoRacingRead == FlagSpec => []NoRacingRead
<1>1. FlagInv => NoRacingRead
  BY Zenon DEF FlagInv, UnprotectedReads, NoRacingRead, MustLeak
<1> QED
  BY <1>1, FlagAlways, PTL

\* FlagImpl::InvokeCallback: however many setters run the callback, without the mutex and in
\* any order, what it derived last is the flag's value once they have all returned.
THEOREM FlagEventuallyConsistent == FlagSpec => []EventualConsistency
<1>1. FlagInv => EventualConsistency
  BY Zenon DEF FlagInv, Derived, EventualConsistency
<1> QED
  BY <1>1, FlagAlways, PTL

\* FlagImpl::RestoreState may skip the store when the modification count is the saved one:
\* without a callback the flag is then in the saved state.
THEOREM FlagSameCountSameState == FlagSpec => []SameCountSameState
<1>1. FlagInv => SameCountSameState
  BY Zenon DEF FlagInv, CountGrows
<1> QED
  BY <1>1, FlagAlways, PTL
=============================================================================

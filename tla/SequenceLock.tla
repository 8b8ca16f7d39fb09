---------------------------- MODULE SequenceLock ----------------------------
(***************************************************************************)
(* absl::flags_internal::SequenceLock and the reads of a flag through it:  *)
(* TryRead without a lock, then again under the flag's mutex when that     *)
(* fails.  The words of the value are relaxed atomics, so the model gives  *)
(* every store of lock_ and of a word its place in that location's order,  *)
(* and a load returns any store not older than what its thread has seen.   *)
(* A release store, or a relaxed store after a release fence, carries what *)
(* its writer had stored by then; an acquire load, or an acquire fence     *)
(* after a relaxed load, brings that to the reader.                        *)
(***************************************************************************)
EXTENDS Integers

CONSTANTS
    Words,      \* the words of the flag's value
    Readers,
    MaxWrites   \* bound on the calls of Write

ASSUME MaxWritesAssumption == MaxWrites \in Nat

VARIABLES
    lock_,        \* the last value stored in lock_: they are -1, 0, 1, 2, ... in this order
    lock_view,    \* what each of them carries: the version of each word
    value_words,  \* the last version stored in each word; the n-th Write stores version n
    word_view,    \* what each of them carries: a value of lock_
    fence,        \* lock_ at the writer's last release fence
    wpc,          \* the writer, which holds the flag's mutex in Init and Write
    rpc,          \* readers
    locked,       \* readers that hold the flag's mutex
    lock_floor,   \* per reader, the oldest value of lock_ that it can still load
    word_floor,   \* the same for each word
    seq_before,
    dst           \* the versions the reader has copied

seqvars == <<lock_, lock_view, value_words, word_view, fence, wpc,
             rpc, locked, lock_floor, word_floor, seq_before, dst>>
wvars == <<lock_, lock_view, value_words, word_view, fence, wpc>>
rvars == <<rpc, locked, lock_floor, word_floor, seq_before, dst>>

kUninitialized == -1
LockValues == -1..(2 * MaxWrites)
Versions == -1..MaxWrites
Nowhere == [w \in Words |-> -1]
IsOdd(v) == v % 2 = 1

SeqInit ==
    /\ lock_ = kUninitialized
    /\ lock_view = [v \in LockValues |-> Nowhere]
    /\ value_words = Nowhere
    /\ word_view = [w \in Words |-> [k \in Versions |-> -1]]
    /\ fence = -1 /\ wpc = "init"
    /\ rpc = [r \in Readers |-> "call"] /\ locked = {}
    /\ lock_floor = [r \in Readers |-> -1] /\ word_floor = [r \in Readers |-> Nowhere]
    /\ seq_before = [r \in Readers |-> -1] /\ dst = [r \in Readers |-> Nowhere]
-----------------------------------------------------------------------------
StoreLock(view) ==
    /\ lock_' = lock_ + 1
    /\ lock_view' = [lock_view EXCEPT ![lock_ + 1] = view]

\* FlagImpl::Init fills the buffer ...
GenFunc ==
    /\ wpc = "init"
    /\ value_words' = [w \in Words |-> 0]
    /\ wpc' = "mark"
    /\ UNCHANGED <<lock_, lock_view, word_view, fence, rvars>>

\* ... and marks it initialized, a release store.
MarkInitialized ==
    /\ wpc = "mark"
    /\ StoreLock(value_words)
    /\ wpc' = "idle"
    /\ UNCHANGED <<value_words, word_view, fence, rvars>>

\* Write: a relaxed store makes lock_ odd ...
BeginWrite ==
    /\ wpc = "idle" /\ locked = {} /\ lock_ < 2 * MaxWrites
    /\ StoreLock(Nowhere)
    /\ wpc' = "fence"
    /\ UNCHANGED <<value_words, word_view, fence, rvars>>

\* Mutant: no release fence.
NoReleaseFence ==
    /\ wpc = "fence"
    /\ wpc' = "copy"
    /\ UNCHANGED <<lock_, lock_view, value_words, word_view, fence, rvars>>

ReleaseFence ==
    /\ wpc = "fence"
    /\ fence' = lock_
    /\ wpc' = "copy"
    /\ UNCHANGED <<lock_, lock_view, value_words, word_view, rvars>>

\* ... the words are stored, in any order as far as a reader can tell ...
RelaxedCopyToAtomic(w) ==
    /\ wpc = "copy" /\ 2 * value_words[w] < lock_
    /\ value_words' = [value_words EXCEPT ![w] = @ + 1]
    /\ word_view' = [word_view EXCEPT ![w][value_words[w] + 1] = fence]
    /\ UNCHANGED <<lock_, lock_view, fence, wpc, rvars>>

\* ... and a release store makes lock_ even again.
EndWrite ==
    /\ wpc = "copy" /\ \A w \in Words : 2 * value_words[w] = lock_ + 1
    /\ StoreLock(value_words)
    /\ wpc' = "idle"
    /\ UNCHANGED <<value_words, word_view, fence, rvars>>
-----------------------------------------------------------------------------
ReaderAt(r, l) == rpc' = [rpc EXCEPT ![r] = l]

\* A TryRead that returned false: a second one fails an assertion.
Failed(r) == ReaderAt(r, IF r \in locked THEN "assert" ELSE "fallback")

\* TryRead: the acquire load of lock_.
LoadBefore(r, v) ==
    /\ rpc[r] = "call" /\ lock_floor[r] <= v /\ v <= lock_
    /\ lock_floor' = [lock_floor EXCEPT ![r] = v]
    /\ IF IsOdd(v)
       THEN Failed(r) /\ UNCHANGED <<word_floor, seq_before>>
       ELSE /\ ReaderAt(r, "copy")
            /\ seq_before' = [seq_before EXCEPT ![r] = v]
            /\ word_floor' = [word_floor EXCEPT ![r] =
                   [w \in Words |-> IF lock_view[v][w] > @[w] THEN lock_view[v][w] ELSE @[w]]]
    /\ dst' = [dst EXCEPT ![r] = Nowhere]
    /\ UNCHANGED <<locked, wvars>>

RelaxedCopyFromAtomic(r, w, k) ==
    /\ rpc[r] = "copy" /\ dst[r][w] = -1
    /\ word_floor[r][w] <= k /\ k <= value_words[w]
    /\ dst' = [dst EXCEPT ![r][w] = k]
    /\ word_floor' = [word_floor EXCEPT ![r][w] = k]
    /\ UNCHANGED <<rpc, locked, lock_floor, seq_before, wvars>>

\* The acquire fence, and the second load of lock_.
LoadAfter(r, v) ==
    /\ rpc[r] = "copy" /\ \A w \in Words : dst[r][w] # -1
    /\ lock_floor[r] <= v /\ v <= lock_
    /\ \A w \in Words : word_view[w][dst[r][w]] <= v
    /\ lock_floor' = [lock_floor EXCEPT ![r] = v]
    /\ IF v = seq_before[r] THEN ReaderAt(r, "done") ELSE Failed(r)
    /\ UNCHANGED <<locked, word_floor, seq_before, dst, wvars>>

\* Mutant: the second attempt does not wait for the writer.
AcquireGuardBarging(r) ==
    /\ rpc[r] = "fallback" /\ wpc \notin {"init", "mark"}
    /\ locked' = locked \cup {r} /\ ReaderAt(r, "call")
    /\ lock_floor' = [lock_floor EXCEPT ![r] = lock_]
    /\ word_floor' = [word_floor EXCEPT ![r] = value_words]
    /\ UNCHANGED <<seq_before, dst, wvars>>

\* ReadSequenceLockedData falls back on the mutex, which DataGuard() hands out after Init; it
\* excludes the writer and makes all that the last one stored visible.
AcquireGuard(r) ==
    /\ rpc[r] = "fallback" /\ wpc = "idle"
    /\ locked' = locked \cup {r} /\ ReaderAt(r, "call")
    /\ lock_floor' = [lock_floor EXCEPT ![r] = lock_]
    /\ word_floor' = [word_floor EXCEPT ![r] = value_words]
    /\ UNCHANGED <<seq_before, dst, wvars>>

ReadReturns(r) ==
    /\ rpc[r] = "done"
    /\ locked' = locked \ {r} /\ ReaderAt(r, "call")
    /\ dst' = [dst EXCEPT ![r] = Nowhere]
    /\ UNCHANGED <<lock_floor, word_floor, seq_before, wvars>>

SeqNext ==
    \/ GenFunc \/ MarkInitialized \/ BeginWrite \/ ReleaseFence \/ EndWrite
    \/ \E w \in Words : RelaxedCopyToAtomic(w)
    \/ \E r \in Readers :
          \/ AcquireGuard(r) \/ ReadReturns(r)
          \/ \E v \in LockValues : LoadBefore(r, v) \/ LoadAfter(r, v)
          \/ \E w \in Words, k \in Versions : RelaxedCopyFromAtomic(r, w, k)

SeqSpec == SeqInit /\ [][SeqNext]_seqvars
-----------------------------------------------------------------------------
\* A TryRead that returns true has copied every word from the same Write, the one that left
\* lock_ at the value it loaded: no torn value is returned, and none from before Init.
NoTornRead == \A r \in Readers : rpc[r] = "done" => \A w \in Words : 2 * dst[r][w] = seq_before[r]

\* "We failed due to contention. Acquire the lock to prevent contention and try again": the
\* second TryRead succeeds (it is only asserted) and returns the value last written.
LockedReadSucceeds ==
    \A r \in Readers :
        /\ rpc[r] # "assert"
        /\ rpc[r] = "done" /\ r \in locked => seq_before[r] = lock_
=============================================================================

-------------------------------- MODULE Mutex --------------------------------
(***************************************************************************)
(* absl::Mutex (absl/synchronization/mutex.cc): the lock word, the waiter  *)
(* queue, and the slow paths of Lock, Unlock, Await and a timed wait.      *)
(*                                                                         *)
(* mu is the set of flag bits of mu_ and count the reader count kept in    *)
(* its upper bits while there are no waiters; with waiters those bits are  *)
(* a pointer and the count is the readers field of the last waiter         *)
(* (readers).  queue is the circular list from its first to its last       *)
(* waiter (the "head" of the code); skip chains are in MuQueue.  A load of *)
(* mu_ and the compare-exchange that depends on it are one step, since a   *)
(* failed compare-exchange changes nothing and reads the word again.       *)
(* kMuEvent (debug logging) is left out.  A thread whose waitp names a     *)
(* condition variable (cv_word) is queued on cv instead of queue in the    *)
(* step that releases the mutex: no other thread can tell the difference.  *)
(***************************************************************************)
EXTENDS Naturals, Sequences, FiniteSetsExt

CONSTANTS
    Threads,
    Priority,   \* PerThreadSynch::priority of each thread
    NoThread,   \* the null PerThreadSynch*
    Ops,        \* what a thread may call: records [how, cond, timed, try]
    MaxCalls    \* bound: calls made by all threads together

ASSUME MutexAssumption ==
    /\ IsFiniteSet(Threads) /\ NoThread \notin Threads
    /\ Priority \in [Threads -> Nat] /\ MaxCalls \in Nat
    /\ Ops \subseteq [how : {"kShared", "kExclusive"}, cond : {"null", "set", "clear"},
                      timed : BOOLEAN, try : BOOLEAN]

VARIABLES
    mu, count, queue, readers, maybe_unlocking,
    wake,       \* the waiters whose wake field is true
    cv,         \* the waiters of a condition variable, first to last
    sem,        \* per-thread semaphore counts
    pc, how, cond, timed,       \* per thread: program counter and SynchWaitParams
    cv_word,    \* the threads whose waitp has a cv_word
    blocked,    \* the threads whose flags have kMuHasBlocked
    requeue,    \* the threads that called UnlockSlow with a waitp
    local,      \* the locals of UnlockSlow, and of the enqueueing loops
    wake_list,  \* the threads UnlockSlow has still to wake, per unlocker
    flag,       \* a variable protected by the mutex, read by the conditions
    calls       \* calls made so far

word == <<mu, count>>
waiters == <<queue, readers, maybe_unlocking, wake>>
waitp == <<how, cond, timed>>
rest == <<flag, calls>>
vars == <<word, waiters, cv, sem, pc, waitp, cv_word, blocked, requeue, local, wake_list, rest>>

Bits == {"kMuReader", "kMuDesig", "kMuWait", "kMuWriter", "kMuWrWait", "kMuSpin"}

NoLocal == [v |-> {}, w |-> NoThread, old_h |-> NoThread, from |-> NoThread, wr_wait |-> {}]

Goto(t, l) == pc' = [pc EXCEPT ![t] = l]

Init ==
    /\ mu = {} /\ count = 0
    /\ queue = <<>> /\ readers = 0 /\ maybe_unlocking = FALSE /\ wake = {} /\ cv = <<>>
    /\ sem = [t \in Threads |-> 0]
    /\ pc = [t \in Threads |-> "idle"]
    /\ how = [t \in Threads |-> "kExclusive"]
    /\ cond = [t \in Threads |-> "null"]
    /\ timed = [t \in Threads |-> FALSE]
    /\ cv_word = {} /\ blocked = {} /\ requeue = {}
    /\ local = [t \in Threads |-> NoLocal]
    /\ wake_list = [t \in Threads |-> <<>>]
    /\ flag = FALSE
    /\ calls = 0
-----------------------------------------------------------------------------
\* The masks of kSharedS and kExclusiveS.
fast_need_zero == [kShared    |-> {"kMuWriter", "kMuWait"},
                   kExclusive |-> {"kMuWriter", "kMuReader"}]
slow_need_zero == fast_need_zero

slow_inc_need_zero == [kShared    |-> {"kMuSpin", "kMuWriter", "kMuWrWait"},
                       kExclusive |-> Bits]

fast_or == [kShared |-> {"kMuReader"}, kExclusive |-> {"kMuWriter"}]
fast_add == [kShared |-> 1, kExclusive |-> 0]

\* ClearDesignatedWakerMask: a thread that was woken gives up its designation.
ClearDesig(t, v) == IF t \in blocked THEN v \ {"kMuDesig"} ELSE v

IgnoreWaitingWriters(t, mask) == IF t \in blocked THEN mask \ {"kMuWrWait"} ELSE mask

\* EvalCondition on a thread's condition; a null condition is true.
Eval(c) == c = "null" \/ c = (IF flag THEN "set" ELSE "clear")

\* PerThreadSynch::state is kQueued: on a queue, or on a list of threads to be woken.
Queued(t) ==
    \/ t \in Range(queue) \cup Range(cv)
    \/ \E u \in Threads : t \in Range(wake_list[u])

UnconditionalWriter(t) == how[t] = "kExclusive" /\ cond[t] = "null"

\* The operators on queues are written out here: the few that are needed, instead of all
\* of SequencesExt, keep the proofs' context small.
Last(q) == q[Len(q)]
Position(q, t) == CHOOSE i \in DOMAIN q : q[i] = t
InsertAt(q, i, t) == (SubSeq(q, 1, i - 1) \o <<t>>) \o SubSeq(q, i, Len(q))
RemoveFirst(q, t) ==
    LET at == {i \in 1..Len(q) : q[i] = t}
    IN IF at = {} THEN q ELSE SubSeq(q, 1, Min(at) - 1) \o SubSeq(q, Min(at) + 1, Len(q))

\* Enqueue on a Mutex queue: by priority, at the front for a thread that has blocked
\* before, else at the back.  While an unlocker may be searching the queue only a writer
\* without condition may go to the front, and nobody to the middle.
Enqueue(q, s, hasBlocked, searching) ==
    LET above   == q # <<>> /\ Priority[s] > Priority[Last(q)]
        ahead   == above \/ (q # <<>> /\ hasBlocked /\ Priority[s] >= Priority[Head(q)])
        safe    == ~searching \/ UnconditionalWriter(s)
    IN IF above /\ ~searching
         THEN InsertAt(q, Min({i \in 1..Len(q) : Priority[q[i]] < Priority[s]}), s)
         ELSE IF ahead /\ safe THEN <<s>> \o q ELSE Append(q, s)
-----------------------------------------------------------------------------
\* lock, lock_shared, try_lock, LockWhen and their variants start.
Call(t) ==
    /\ pc[t] = "idle" /\ calls < MaxCalls
    /\ \E op \in Ops :
        /\ how' = [how EXCEPT ![t] = op.how]
        /\ cond' = [cond EXCEPT ![t] = op.cond]
        /\ timed' = [timed EXCEPT ![t] = op.timed]
        /\ Goto(t, IF op.try THEN "try" ELSE "fast")
    /\ calls' = calls + 1
    /\ UNCHANGED <<word, waiters, cv, sem, cv_word, blocked, requeue, local, wake_list, flag>>

\* The lock was obtained: return, or release it again to wait for the condition.
Acquired(t) ==
    IF Eval(cond[t])
      THEN /\ Goto(t, "cs")
           /\ blocked' = blocked \ {t}
           /\ cond' = [cond EXCEPT ![t] = "null"]
           /\ timed' = [timed EXCEPT ![t] = FALSE]
           /\ UNCHANGED <<requeue, how>>
      ELSE /\ Goto(t, "unlock")
           /\ requeue' = requeue \cup {t}
           /\ UNCHANGED <<waitp, blocked>>

\* The compare-exchange that takes the lock.
Acquire(t, need_zero) ==
    /\ mu \cap need_zero[how[t]] = {}
    /\ mu' = ClearDesig(t, mu) \cup fast_or[how[t]]
    /\ count' = count + fast_add[how[t]]
    /\ Acquired(t)
    /\ UNCHANGED <<waiters, cv, sem, cv_word, local, wake_list, rest>>

\* The inlined fast path, try_lock, and the first attempt of LockSlowWithDeadline.
Fast(t) == pc[t] \in {"fast", "try"} /\ Acquire(t, fast_need_zero)

\* The fast path fails, also because its compare-exchange lost to another thread.
FastFails(t) ==
    /\ \/ pc[t] = "fast" /\ Goto(t, "slow")
       \/ pc[t] = "try" /\ Goto(t, "idle")
    /\ UNCHANGED <<word, waiters, cv, sem, waitp, cv_word, blocked, requeue, local, wake_list, rest>>

\* LockSlowLoop: the lock can be taken from the word alone.
SlowAcquire(t) == pc[t] = "slow" /\ Acquire(t, slow_need_zero)

\* Mutant: the reader count is not moved to the new waiter.
OnlyWaiterForgets(t) ==
    /\ pc[t] = "slow"
    /\ mu \cap slow_need_zero[how[t]] # {}
    /\ mu \cap {"kMuSpin", "kMuWait"} = {}
    /\ mu' = ClearDesig(t, mu) \cup {"kMuWait"}
    /\ queue' = <<t>> /\ readers' = 0 /\ count' = 0
    /\ maybe_unlocking' = FALSE /\ wake' = wake \ {t}
    /\ Goto(t, "block")
    /\ UNCHANGED <<cv, sem, waitp, cv_word, blocked, requeue, local, wake_list, rest>>

\* LockSlowLoop must wait and there are no waiters: become the only one.
OnlyWaiter(t) ==
    /\ pc[t] = "slow"
    /\ mu \cap slow_need_zero[how[t]] # {}
    /\ mu \cap {"kMuSpin", "kMuWait"} = {}
    /\ mu' = ClearDesig(t, mu) \cup {"kMuWait"}
             \cup (IF how[t] = "kExclusive" /\ "kMuReader" \in mu THEN {"kMuWrWait"} ELSE {})
    /\ queue' = <<t>> /\ readers' = count /\ count' = 0
    /\ maybe_unlocking' = FALSE /\ wake' = wake \ {t}
    /\ Goto(t, "block")
    /\ UNCHANGED <<cv, sem, waitp, cv_word, blocked, requeue, local, wake_list, rest>>

\* Is a reader allowed to join the readers counted in the last waiter?
MayIncrement(t) == mu \cap IgnoreWaitingWriters(t, slow_inc_need_zero[how[t]]) = {}

\* LockSlowLoop: a reader takes the spin bit and sets kMuReader...
IncrementStart(t) ==
    /\ pc[t] = "slow"
    /\ mu \cap slow_need_zero[how[t]] # {}
    /\ mu \cap {"kMuSpin", "kMuWait"} # {}
    /\ MayIncrement(t)
    /\ mu' = ClearDesig(t, mu) \cup {"kMuSpin", "kMuReader"}
    /\ Goto(t, "increment")
    /\ UNCHANGED <<count, waiters, cv, sem, waitp, cv_word, blocked, requeue, local, wake_list, rest>>

\* ... counts itself in the last waiter, and releases the spin bit.
Increment(t) ==
    /\ pc[t] = "increment"
    /\ readers' = readers + 1
    /\ mu' = (mu \ {"kMuSpin"}) \cup {"kMuReader"}
    /\ Acquired(t)
    /\ UNCHANGED <<count, queue, maybe_unlocking, wake, cv, sem, cv_word, local, wake_list, rest>>

\* LockSlowLoop: otherwise queue behind the others; first take the spin bit...
EnqueueStart(t) ==
    /\ pc[t] = "slow"
    /\ mu \cap slow_need_zero[how[t]] # {}
    /\ "kMuWait" \in mu /\ "kMuSpin" \notin mu /\ ~MayIncrement(t)
    /\ mu' = ClearDesig(t, mu) \cup {"kMuSpin", "kMuWait"}
    /\ local' = [local EXCEPT ![t].wr_wait =
                    IF how[t] = "kExclusive" /\ "kMuReader" \in mu THEN {"kMuWrWait"} ELSE {}]
    /\ Goto(t, "enqueue")
    /\ UNCHANGED <<count, waiters, cv, sem, waitp, cv_word, blocked, requeue, wake_list, rest>>

\* ... then enqueue and release it.
EnqueueEnd(t) ==
    /\ pc[t] = "enqueue"
    /\ queue' = Enqueue(queue, t, t \in blocked, maybe_unlocking)
    /\ wake' = wake \ {t}
    /\ mu' = (mu \ {"kMuSpin"}) \cup {"kMuWait"} \cup local[t].wr_wait
    /\ local' = [local EXCEPT ![t] = NoLocal]
    /\ Goto(t, "block")
    /\ UNCHANGED <<count, readers, maybe_unlocking, cv, sem, waitp, cv_word, blocked, requeue, wake_list, rest>>
-----------------------------------------------------------------------------
\* Block: the thread leaves the loop once it is no longer queued.
Unblocked(t) ==
    /\ pc[t] = "block" /\ ~Queued(t)
    /\ blocked' = blocked \cup {t}
    /\ Goto(t, "slow")
    /\ UNCHANGED <<word, waiters, cv, sem, waitp, cv_word, requeue, local, wake_list, rest>>

\* DecrementSynchSem returns true: look at the state again.
DecrementSynchSem(t) ==
    /\ pc[t] \in {"block", "cvwait"} /\ Queued(t) /\ sem[t] > 0
    /\ sem' = [sem EXCEPT ![t] = @ - 1]
    /\ UNCHANGED <<word, waiters, cv, pc, waitp, cv_word, blocked, requeue, local, wake_list, rest>>

\* DecrementSynchSem returns false: the wait has timed out.
TimesOut(t) ==
    /\ pc[t] = "block" /\ Queued(t) /\ timed[t]
    /\ Goto(t, "remove")
    /\ UNCHANGED <<word, waiters, cv, sem, waitp, cv_word, blocked, requeue, local, wake_list, rest>>

\* Mutant: the removal takes the spin bit but not the lock.
TryRemoveSpinOnly(t) ==
    /\ pc[t] = "remove"
    /\ "kMuWait" \in mu /\ "kMuSpin" \notin mu
    /\ mu' = mu \cup {"kMuSpin"}
    /\ Goto(t, "removing")
    /\ UNCHANGED <<count, waiters, cv, sem, waitp, cv_word, blocked, requeue, local, wake_list, rest>>

\* TryRemove: take both the spin bit and the lock, if the lock is free...
TryRemoveStart(t) ==
    /\ pc[t] = "remove"
    /\ mu \cap {"kMuWait", "kMuSpin", "kMuWriter", "kMuReader"} = {"kMuWait"}
    /\ mu' = mu \cup {"kMuSpin", "kMuWriter"}
    /\ Goto(t, "removing")
    /\ UNCHANGED <<count, waiters, cv, sem, waitp, cv_word, blocked, requeue, local, wake_list, rest>>

\* ... and remove the thread, if it is still on the queue.
TryRemoveEnd(t) ==
    /\ pc[t] = "removing"
    /\ queue' = RemoveFirst(queue, t)
    /\ mu' = (mu \cap {"kMuDesig"}) \cup (IF queue' # <<>> THEN {"kMuWait"} ELSE {})
    /\ readers' = 0 /\ maybe_unlocking' = FALSE /\ count' = 0
    /\ wake' = wake \ {t}
    /\ Goto(t, "recheck")
    /\ UNCHANGED <<cv, sem, waitp, cv_word, blocked, requeue, local, wake_list, rest>>

\* TryRemove does nothing if the lock or the spin bit is taken.
TryRemoveFails(t) ==
    /\ pc[t] = "remove"
    /\ mu \cap {"kMuWait", "kMuSpin", "kMuWriter", "kMuReader"} # {"kMuWait"}
    /\ Goto(t, "recheck")
    /\ UNCHANGED <<word, waiters, cv, sem, waitp, cv_word, blocked, requeue, local, wake_list, rest>>

\* Block tries again until the thread is off the queue.
RemoveAgain(t) ==
    /\ pc[t] = "recheck" /\ Queued(t)
    /\ Goto(t, "remove")
    /\ UNCHANGED <<word, waiters, cv, sem, waitp, cv_word, blocked, requeue, local, wake_list, rest>>

\* Block, after a timeout, once TryRemove or an unlocker has released the thread: from
\* now on it waits for the lock only, without timeout or condition.
Removed(t) ==
    /\ pc[t] = "recheck" /\ ~Queued(t)
    /\ timed' = [timed EXCEPT ![t] = FALSE]
    /\ cond' = [cond EXCEPT ![t] = "null"]
    /\ Goto(t, "block")
    /\ UNCHANGED <<word, waiters, cv, sem, how, cv_word, blocked, requeue, local, wake_list, rest>>
-----------------------------------------------------------------------------
\* A writer changes what the mutex protects.
Write(t) ==
    /\ pc[t] = "cs" /\ how[t] = "kExclusive"
    /\ \E op \in Ops : op.cond # "null"    \* else nobody reads it
    /\ flag' = ~flag
    /\ UNCHANGED <<word, waiters, cv, sem, pc, waitp, cv_word, blocked, requeue, local, wake_list, calls>>

\* unlock, unlock_shared.
Unlock(t) ==
    /\ pc[t] = "cs"
    /\ Goto(t, "unlock")
    /\ UNCHANGED <<word, waiters, cv, sem, waitp, cv_word, blocked, requeue, local, wake_list, rest>>

\* Await, AwaitWithTimeout: release the lock to wait unless the condition holds.
Await(t) ==
    /\ pc[t] = "cs" /\ calls < MaxCalls
    /\ \E op \in Ops :
        /\ op.how = how[t] /\ op.cond # "null" /\ ~op.try /\ ~Eval(op.cond)
        /\ cond' = [cond EXCEPT ![t] = op.cond]
        /\ timed' = [timed EXCEPT ![t] = op.timed]
    /\ requeue' = requeue \cup {t}
    /\ calls' = calls + 1
    /\ Goto(t, "unlock")
    /\ UNCHANGED <<word, waiters, cv, sem, how, cv_word, blocked, local, wake_list, flag>>

\* The unlocker is done: it waits if it had a waitp, else the call returns.
Released(t) ==
    /\ Goto(t, IF t \in cv_word THEN "cvwait" ELSE IF t \in requeue THEN "block" ELSE "idle")
    /\ cv_word' = cv_word \ {t}
    /\ requeue' = requeue \ {t}
    /\ local' = [local EXCEPT ![t] = NoLocal]

\* Fast writer release: no waiters, or a designated waker.
FastWriterRelease(t) ==
    /\ pc[t] = "unlock" /\ t \notin requeue
    /\ "kMuWriter" \in mu /\ mu \cap {"kMuWait", "kMuDesig"} # {"kMuWait"}
    /\ mu' = mu \ {"kMuWriter", "kMuWrWait"}
    /\ Released(t)
    /\ UNCHANGED <<count, waiters, cv, sem, waitp, blocked, wake_list, rest>>

\* Fast reader release: no waiters.
FastReaderRelease(t) ==
    /\ pc[t] = "unlock" /\ t \notin requeue
    /\ mu \cap {"kMuReader", "kMuWait"} = {"kMuReader"}
    /\ count' = count - 1
    /\ mu' = IF count = 1 THEN mu \ {"kMuReader"} ELSE mu
    /\ Released(t)
    /\ UNCHANGED <<waiters, cv, sem, waitp, blocked, wake_list, rest>>

\* UnlockSlow takes the spin bit when neither fast release applies.
UnlockSpin(t) ==
    /\ pc[t] = "unlock" /\ "kMuSpin" \notin mu
    /\ t \in requeue \/ /\ ~("kMuWriter" \in mu /\ mu \cap {"kMuWait", "kMuDesig"} # {"kMuWait"})
                        /\ mu \cap {"kMuReader", "kMuWait"} # {"kMuReader"}
    /\ mu' = mu \cup {"kMuSpin"}
    /\ local' = [local EXCEPT ![t].v = mu]
    /\ Goto(t, IF "kMuWait" \in mu THEN "waiters" ELSE "nowaiters")
    /\ UNCHANGED <<count, waiters, cv, sem, waitp, cv_word, blocked, requeue, wake_list, rest>>

\* The unlocker queues itself on q if it has a waitp for the mutex, on cv if for a CondVar.
SelfEnqueued(t, q, searching) ==
    IF t \in requeue \ cv_word THEN Enqueue(q, t, FALSE, searching) ELSE q
SelfCondVar(t) == cv' = IF t \in cv_word THEN Append(cv, t) ELSE cv

\* No waiters: the unlocker has a waitp; it becomes the only waiter, or goes to cv.
NoWaiters(t) ==
    /\ pc[t] = "nowaiters"
    /\ LET new_readers == IF count > 0 THEN count - 1 ELSE count
           clear == IF "kMuWriter" \notin mu /\ count = 1 THEN {"kMuReader"} ELSE {"kMuWriter"}
           nv == mu \ (clear \cup {"kMuWrWait", "kMuSpin"})
       IN IF t \in cv_word
            THEN mu' = nv /\ count' = new_readers /\ UNCHANGED <<queue, readers>>
            ELSE /\ mu' = nv \cup {"kMuWait"} /\ count' = 0
                 /\ queue' = <<t>> /\ readers' = new_readers
    /\ maybe_unlocking' = FALSE /\ wake' = wake \ {t}
    /\ SelfCondVar(t)
    /\ Released(t)
    /\ UNCHANGED <<sem, waitp, blocked, wake_list, rest>>

\* The search of UnlockSlow has found a writer to wake.
FoundWriter(t) == local[t].w # NoThread /\ how[local[t].w] = "kExclusive"

LastHolder == ~("kMuReader" \in mu /\ readers > 1)

\* A reader, but not the last.
NotLastReader(t) ==
    /\ pc[t] = "waiters" /\ ~LastHolder
    /\ readers' = readers - 1
    /\ queue' = SelfEnqueued(t, queue, maybe_unlocking)
    /\ wake' = wake \ (IF t \in requeue THEN {t} ELSE {})
    /\ mu' = local[t].v
    /\ SelfCondVar(t)
    /\ Released(t)
    /\ UNCHANGED <<count, maybe_unlocking, sem, waitp, blocked, wake_list, rest>>

\* The threads UnlockSlow will wake once it has settled on w: those marked from w on, up to
\* the first writer among them.
Wakeable(w) ==
    {i \in Position(queue, w)..Len(queue) :
        /\ queue[i] \in wake \cup {w}
        /\ \A j \in Position(queue, w)..(i - 1) :
             queue[j] \in wake \cup {w} => how[queue[j]] = "kShared"}

\* The word UnlockSlow stores when it wakes somebody.
ReleasedWord(left, wr_wait) ==
    {"kMuDesig"} \cup (IF left # <<>> THEN {"kMuWait"} \cup wr_wait ELSE {})

\* The subsequence of q at the positions in S, as the one element of a set.
SubsequenceAt(q, S) ==
    LET increasing == {f \in [1..Cardinality(S) -> S] :
                          \A i, j \in DOMAIN f : i < j => f[i] < f[j]}
    IN {[k \in DOMAIN f |-> q[f[k]]] : f \in increasing}

\* DequeueAllWakeable, then release the lock with kMuDesig set (INV1a).  If the last waiter
\* is dequeued, the maybe_unlocking seen by Enqueue is whatever the new last one has.
DequeueAndRelease(t, w, wr_wait) ==
    LET gone == Wakeable(w)
    IN /\ \E left \in SubsequenceAt(queue, DOMAIN queue \ gone),
             searching \in IF Len(queue) \in gone THEN BOOLEAN ELSE {maybe_unlocking} :
            queue' = SelfEnqueued(t, left, searching)
       /\ \E woken \in SubsequenceAt(queue, gone) :
            wake_list' = [wake_list EXCEPT ![t] = woken]
       /\ wake' = wake \ ({queue[i] : i \in gone} \cup (IF t \in requeue THEN {t} ELSE {}))
       /\ mu' = ReleasedWord(queue', wr_wait)
       /\ readers' = 0 /\ count' = 0 /\ maybe_unlocking' = FALSE
       /\ SelfCondVar(t)
       /\ Goto(t, "wake")
       /\ local' = [local EXCEPT ![t] = NoLocal]
       /\ UNCHANGED <<sem, waitp, cv_word, blocked, requeue, rest>>

\* The lock is becoming free and there is a waiter to wake: a writer without condition at
\* the front, or the one found by the search if that is over.
WakeWaiters(t) ==
    /\ pc[t] = "waiters" /\ LastHolder
    /\ LET w == local[t].w
       IN IF UnconditionalWriter(Head(queue))
            THEN DequeueAndRelease(t, Head(queue), {"kMuWrWait"})
            ELSE /\ w # NoThread /\ (FoundWriter(t) \/ Last(queue) = local[t].old_h)
                 /\ DequeueAndRelease(t, w, local[t].wr_wait)

\* Nobody to wake: the whole queue was searched and nothing is new.
WakeNobody(t) ==
    /\ pc[t] = "waiters" /\ LastHolder
    /\ ~UnconditionalWriter(Head(queue)) /\ local[t].w = NoThread
    /\ Last(queue) = local[t].old_h
    /\ readers' = 0 /\ maybe_unlocking' = FALSE /\ count' = 0
    /\ queue' = SelfEnqueued(t, queue, FALSE)
    /\ mu' = local[t].v \ {"kMuReader", "kMuWriter", "kMuWrWait"}
    /\ wake' = wake \ (IF t \in requeue THEN {t} ELSE {})
    /\ SelfCondVar(t)
    /\ Released(t)
    /\ UNCHANGED <<sem, waitp, blocked, wake_list, rest>>

\* The last waiter is remembered as old_h, and the spin bit released.
StartSearch(t) ==
    /\ pc[t] = "waiters" /\ LastHolder
    /\ ~UnconditionalWriter(Head(queue)) /\ Last(queue) # local[t].old_h
    /\ ~FoundWriter(t)
    /\ mu' = local[t].v
    /\ local' = [local EXCEPT ![t] = [@ EXCEPT
         !.old_h = Last(queue),
         !.from = IF local[t].old_h = NoThread THEN Head(queue)
                  ELSE queue[Position(queue, local[t].old_h) + 1]]]
    /\ Goto(t, "search")
    /\ UNCHANGED <<count, queue, readers, wake, cv, sem, waitp, cv_word, blocked, requeue, wake_list, rest>>

\* Mutant: the search does not announce itself to the threads that enqueue.
SearchSilently(t) == StartSearch(t) /\ UNCHANGED maybe_unlocking

\* Search the waiters that were not searched yet: announce it, release the spin bit...
Search(t) == StartSearch(t) /\ maybe_unlocking' = TRUE

\* ... and walk the path, evaluating the conditions.  The first waiter that may run is w;
\* if it is a reader all other readers that may run are woken too, and a writer that may
\* run is noted.
Walk(t) ==
    /\ pc[t] = "search"
    /\ LET l     == local[t]
           path  == SubSeq(queue, Position(queue, l.from), Position(queue, l.old_h))
           ready == {i \in DOMAIN path : Eval(cond[path[i]])}
           first == CHOOSE i \in ready : \A j \in ready : i <= j
           w     == IF l.w = NoThread /\ ready # {} THEN path[first] ELSE l.w
           bail  == l.w = NoThread /\ ready # {} /\ how[w] = "kExclusive"
           seen  == IF bail THEN 1..first ELSE DOMAIN path
           woken == {path[i] : i \in {i \in ready \cap seen : how[path[i]] = "kShared" \/ path[i] = w}}
       IN /\ wake' = (wake \ {path[i] : i \in seen}) \cup woken
          /\ local' = [local EXCEPT ![t] =
                [v |-> {}, w |-> w, old_h |-> l.old_h, from |-> NoThread,
                 wr_wait |-> IF \E i \in ready : how[path[i]] = "kExclusive"
                               THEN {"kMuWrWait"} ELSE l.wr_wait]]
    /\ Goto(t, "unlock")
    /\ UNCHANGED <<word, queue, readers, maybe_unlocking, cv, sem, waitp, cv_word, blocked, requeue, wake_list, rest>>

\* Wakeup: make the next thread of wake_list available...
Wakeup(t) ==
    /\ pc[t] = "wake"
    /\ wake_list' = [wake_list EXCEPT ![t] = Tail(@)]
    /\ local' = [local EXCEPT ![t].w = Head(wake_list[t])]
    /\ Goto(t, "post")
    /\ UNCHANGED <<word, waiters, cv, sem, waitp, cv_word, blocked, requeue, rest>>

\* ... and post to its semaphore.
Post(t) ==
    /\ pc[t] = "post"
    /\ sem' = [sem EXCEPT ![local[t].w] = @ + 1]
    /\ IF wake_list[t] # <<>>
         THEN Goto(t, "wake") /\ UNCHANGED <<cv_word, requeue, local>>
         ELSE Released(t)
    /\ UNCHANGED <<word, waiters, cv, waitp, blocked, wake_list, rest>>

\* Steps a thread inside the Mutex takes by itself, its unlock call included.
Step(t) ==
    \/ Fast(t) \/ FastFails(t) \/ SlowAcquire(t) \/ OnlyWaiter(t)
    \/ IncrementStart(t) \/ Increment(t) \/ EnqueueStart(t) \/ EnqueueEnd(t)
    \/ Unblocked(t) \/ DecrementSynchSem(t)
    \/ TryRemoveStart(t) \/ TryRemoveEnd(t) \/ TryRemoveFails(t) \/ RemoveAgain(t) \/ Removed(t)
    \/ Unlock(t) \/ FastWriterRelease(t) \/ FastReaderRelease(t)
    \/ UnlockSpin(t) \/ NoWaiters(t) \/ NotLastReader(t)
    \/ WakeWaiters(t) \/ WakeNobody(t) \/ Search(t) \/ Walk(t) \/ Wakeup(t) \/ Post(t)

\* Steps that are up to the caller and the clock.
Choice(t) == Call(t) \/ Await(t) \/ Write(t) \/ TimesOut(t)

Next == \E t \in Threads : Step(t) \/ Choice(t)

Spec == Init /\ [][Next]_vars
-----------------------------------------------------------------------------
\* The program counters, those of CondVar included.
Pcs == {"idle", "fast", "try", "slow", "increment", "enqueue", "block", "remove", "removing",
        "recheck", "cs", "unlock", "nowaiters", "waiters", "search", "wake", "post",
        "cvwait", "cvremove", "fer", "ferspin", "ferpost"}

\* What local holds for a thread.
LocalRecs == [v : SUBSET Bits, w : Threads \cup {NoThread}, old_h : Threads \cup {NoThread},
              from : Threads \cup {NoThread}, wr_wait : SUBSET {"kMuWrWait"}]

\* Every variable has its type.
TypeOK ==
    /\ mu \subseteq Bits /\ count \in Nat
    /\ queue \in Seq(Threads) /\ readers \in Nat
    /\ maybe_unlocking \in BOOLEAN /\ wake \subseteq Threads
    /\ cv \in Seq(Threads)
    /\ sem \in [Threads -> Nat]
    /\ pc \in [Threads -> Pcs]
    /\ how \in [Threads -> {"kShared", "kExclusive"}]
    /\ cond \in [Threads -> {"null", "set", "clear"}]
    /\ timed \in [Threads -> BOOLEAN]
    /\ cv_word \subseteq Threads /\ blocked \subseteq Threads /\ requeue \subseteq Threads
    /\ local \in [Threads -> LocalRecs]
    /\ wake_list \in [Threads -> Seq(Threads)]
    /\ flag \in BOOLEAN

Holding == {"cs", "unlock", "nowaiters", "waiters", "search"}
Writers == {t \in Threads : pc[t] = "removing" \/ (pc[t] \in Holding /\ how[t] = "kExclusive")}
Readers == {t \in Threads : pc[t] \in Holding \cup {"increment"} /\ how[t] = "kShared"}

\* One writer, or readers; a thread removing itself from the queue counts as a writer.
MutualExclusion == Cardinality(Writers) <= 1 /\ (Writers = {} \/ Readers = {})

\* The lock bits and the reader count, wherever it is kept, agree with the threads that
\* hold the lock; the count moves between the word and the last waiter without loss.  The
\* word passes CheckForMutexCorruption, and the spin bit has exactly one owner.
WordCountsHolders ==
    /\ "kMuWriter" \in mu <=> Writers # {}
    /\ "kMuReader" \in mu <=> Readers # {}
    /\ "kMuWait" \in mu <=> queue # <<>>
    /\ Cardinality({t \in Readers : pc[t] # "increment"}) =
           IF "kMuWait" \in mu THEN readers ELSE count
    /\ "kMuWrWait" \in mu => "kMuWait" \in mu
    /\ Cardinality({t \in Threads :
          pc[t] \in {"increment", "enqueue", "removing", "nowaiters", "waiters", "ferspin"}}) =
       IF "kMuSpin" \in mu THEN 1 ELSE 0

\* INVARIANT1: kMuDesig means that there is a thread that was blocked on the mutex, is no
\* longer, and has not yet acquired it or blocked again.
DesignatedWaker ==
    "kMuDesig" \in mu =>
        \E t \in Threads :
            \/ t \in blocked /\ pc[t] \in {"fast", "slow"}
            \/ /\ pc[t] \in {"block", "remove", "removing", "recheck", "cvwait", "cvremove"} \/ t \in requeue
               /\ pc[t] \notin Holding /\ t \notin Range(queue) \cup Range(cv)

\* The check "Mutex queue changed beneath us" of UnlockSlow never fails, and what it
\* searched before is still there.
SearchUndisturbed ==
    \A t \in Threads :
        pc[t] = "waiters" /\ LastHolder /\ local[t].old_h # NoThread =>
            /\ maybe_unlocking
            /\ local[t].old_h \in Range(queue)
            /\ local[t].w # NoThread => local[t].w \in Range(queue)

AtRest(t) == pc[t] = "idle" \/ (pc[t] \in {"block", "cvwait"} /\ Queued(t) /\ sem[t] = 0)

\* When every thread is idle or asleep, no sleeper could have the lock: nobody is left
\* waiting for a mutex that is free with a condition that is true.
NobodyStranded ==
    (\A t \in Threads : AtRest(t)) =>
        \A t \in Threads : t \in Range(queue) => ~Eval(cond[t])
=============================================================================

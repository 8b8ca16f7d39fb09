--------------------------- MODULE ThreadIdentity ---------------------------
(***************************************************************************)
(* The identities of threads and their reuse:                              *)
(* absl/synchronization/internal/create_thread_identity.cc, with the way   *)
(* Mutex blocks and wakes a thread through its identity (mutex.cc).        *)
(*                                                                         *)
(* The storage of an identity is never freed, because a thread that wakes  *)
(* another one posts to the other's semaphore last: by then the other may  *)
(* have seen its state, left Block(), exited, and its identity may be in   *)
(* use by a new thread.  Reuse resets everything but the semaphore.        *)
(***************************************************************************)
EXTENDS Naturals, Sequences, FiniteSets, SequencesExt

CONSTANTS
    Threads,
    Identities,        \* the memory that can be allocated for identities
    MaxWaits,          \* bound on the calls of Block
    Nil

VARIABLES
    freelist,          \* thread_identity_freelist, the head first
    fresh,             \* the identities not allocated yet
    current,           \* current[t]: the identity of t, or Nil
    state, queued,     \* state and next # nullptr of per_thread_synch: kQueued, on a queue
    sem,               \* the count of the PerThreadSem
    all_locks,         \* "null", "live" or "freed" memory
    pc, arg,           \* the step of t, and the identity it creates, reclaims or wakes
    queue,             \* the identities on the queue of a Mutex
    waits,
    timeout,           \* timeout[t]: t's wait has a timeout that did not pass yet
    ended              \* ended[t]: t's last wait was ended, by a waker or by its own TryRemove

vars == <<freelist, fresh, current, state, queued, sem, all_locks, pc, arg, queue, waits, timeout,
          ended>>
identityVars == <<state, queued, sem, all_locks>>

Goto(t, l) == pc' = [pc EXCEPT ![t] = l]

Init ==
    /\ freelist = <<>> /\ fresh = Identities /\ queue = {} /\ waits = 0
    /\ current = [t \in Threads |-> Nil] /\ arg = [t \in Threads |-> Nil]
    /\ pc = [t \in Threads |-> "none"] /\ ended = [t \in Threads |-> TRUE]
    /\ timeout = [t \in Threads |-> FALSE]
    \* Memory from LowLevelAlloc has any contents.
    /\ state = [i \in Identities |-> "kQueued"] /\ queued = [i \in Identities |-> TRUE]
    /\ sem = [i \in Identities |-> 1] /\ all_locks = [i \in Identities |-> "freed"]
-----------------------------------------------------------------------------
(* NewThreadIdentity and CreateThreadIdentity *)
TakeFromFreelist(t) ==
    /\ pc[t] = "none" /\ freelist # <<>>
    /\ arg' = [arg EXCEPT ![t] = Head(freelist)]
    /\ freelist' = Tail(freelist)
    /\ Goto(t, "reset")
    /\ UNCHANGED <<fresh, current, identityVars, queue, waits, timeout, ended>>

FindFreelistEmpty(t) ==
    /\ pc[t] = "none" /\ freelist = <<>> /\ fresh # {}
    /\ Goto(t, "allocate")
    /\ UNCHANGED <<freelist, fresh, current, identityVars, arg, queue, waits, timeout, ended>>

\* With OneTimeInitThreadIdentity.
Allocate(t) ==
    /\ pc[t] = "allocate"
    /\ \E i \in fresh :
          /\ fresh' = fresh \ {i}
          /\ arg' = [arg EXCEPT ![t] = i]
          /\ sem' = [sem EXCEPT ![i] = 0]
    /\ Goto(t, "reset")
    /\ UNCHANGED <<freelist, current, state, queued, all_locks, queue, waits, timeout, ended>>

\* ResetThreadIdentityBetweenReuse and SetCurrentThreadIdentity.
Reset(t) ==
    /\ pc[t] = "reset"
    /\ state' = [state EXCEPT ![arg[t]] = "kAvailable"]
    /\ queued' = [queued EXCEPT ![arg[t]] = FALSE]
    /\ all_locks' = [all_locks EXCEPT ![arg[t]] = "null"]
    /\ current' = [current EXCEPT ![t] = arg[t]]
    /\ arg' = [arg EXCEPT ![t] = Nil]
    /\ Goto(t, "running")
    /\ UNCHANGED <<freelist, fresh, sem, queue, waits, timeout, ended>>

(* ReclaimThreadIdentity, when t exits *)
Exit(t) ==
    /\ pc[t] = "running"
    /\ all_locks' = [all_locks EXCEPT ![current[t]] = IF @ = "null" THEN "null" ELSE "freed"]
    /\ arg' = [arg EXCEPT ![t] = current[t]]
    /\ current' = [current EXCEPT ![t] = Nil]
    /\ Goto(t, "reclaim")
    /\ UNCHANGED <<freelist, fresh, state, queued, sem, queue, waits, timeout, ended>>

\* Later destructors of t, or a new thread, may need another identity.
Reclaim(t) ==
    /\ pc[t] = "reclaim"
    /\ freelist' = <<arg[t]>> \o freelist
    /\ arg' = [arg EXCEPT ![t] = Nil]
    /\ Goto(t, "none")
    /\ UNCHANGED <<fresh, current, identityVars, queue, waits, timeout, ended>>
-----------------------------------------------------------------------------
Synch_GetAllLocks(t) ==
    /\ pc[t] = "running" /\ all_locks[current[t]] = "null"
    /\ all_locks' = [all_locks EXCEPT ![current[t]] = "live"]
    /\ UNCHANGED <<freelist, fresh, current, state, queued, sem, pc, arg, queue, waits, timeout, ended>>

\* Enqueue, on the way to Block.
Enqueue(t) ==
    /\ pc[t] = "running" /\ waits < MaxWaits
    /\ waits' = waits + 1
    /\ state' = [state EXCEPT ![current[t]] = "kQueued"]
    /\ queued' = [queued EXCEPT ![current[t]] = TRUE]
    /\ queue' = queue \cup {current[t]}
    /\ ended' = [ended EXCEPT ![t] = FALSE]
    /\ timeout' = [timeout EXCEPT ![t] = TRUE]
    /\ Goto(t, "block")
    /\ UNCHANGED <<freelist, fresh, current, sem, all_locks, arg>>

\* The test of the loop of Block.
Block(t) ==
    /\ pc[t] = "block"
    /\ Goto(t, IF state[current[t]] = "kQueued" THEN "sem" ELSE "running")
    /\ UNCHANGED <<freelist, fresh, current, identityVars, arg, queue, waits, timeout, ended>>

DecrementSynchSem(t) ==
    /\ pc[t] = "sem" /\ sem[current[t]] > 0
    /\ sem' = [sem EXCEPT ![current[t]] = @ - 1]
    /\ Goto(t, "block")
    /\ UNCHANGED <<freelist, fresh, current, state, queued, all_locks, arg, queue, waits, timeout, ended>>

TimesOut(t) ==
    /\ pc[t] = "sem" /\ timeout[t]
    /\ timeout' = [timeout EXCEPT ![t] = FALSE]
    /\ Goto(t, "remove")
    /\ UNCHANGED <<freelist, fresh, current, identityVars, arg, queue, waits, ended>>

\* TryRemove, when it gets the mutex, until the thread is on no queue.
TryRemove(t) ==
    /\ pc[t] = "remove" /\ current[t] \in queue
    /\ queue' = queue \ {current[t]}
    /\ queued' = [queued EXCEPT ![current[t]] = FALSE]
    /\ state' = [state EXCEPT ![current[t]] = "kAvailable"]
    /\ ended' = [ended EXCEPT ![t] = TRUE]
    /\ Goto(t, "block")
    /\ UNCHANGED <<freelist, fresh, current, sem, all_locks, arg, waits, timeout>>

FindRemoved(t) ==
    /\ pc[t] = "remove" /\ ~queued[current[t]]
    /\ Goto(t, "block")
    /\ UNCHANGED <<freelist, fresh, current, identityVars, arg, queue, waits, timeout, ended>>

(* Wakeup, by a thread that has taken a waiter off the queue *)
Dequeue(t) ==
    /\ pc[t] = "running"
    /\ \E w \in queue :
          /\ queue' = queue \ {w}
          /\ arg' = [arg EXCEPT ![t] = w]
    /\ Goto(t, "clear next")
    /\ UNCHANGED <<freelist, fresh, current, identityVars, waits, timeout, ended>>

ClearNext(t) ==
    /\ pc[t] = "clear next"
    /\ queued' = [queued EXCEPT ![arg[t]] = FALSE]
    /\ Goto(t, "set state")
    /\ UNCHANGED <<freelist, fresh, current, state, sem, all_locks, arg, queue, waits, timeout, ended>>

SetState(t) ==
    /\ pc[t] = "set state"
    /\ state' = [state EXCEPT ![arg[t]] = "kAvailable"]
    /\ ended' = [u \in Threads |-> ended[u] \/ current[u] = arg[t]]
    /\ Goto(t, "post")
    /\ UNCHANGED <<freelist, fresh, current, queued, sem, all_locks, arg, queue, waits, timeout>>

IncrementSynchSem(t) ==
    /\ pc[t] = "post"
    /\ sem' = [sem EXCEPT ![arg[t]] = @ + 1]
    /\ arg' = [arg EXCEPT ![t] = Nil]
    /\ Goto(t, "running")
    /\ UNCHANGED <<freelist, fresh, current, state, queued, all_locks, queue, waits, timeout, ended>>
-----------------------------------------------------------------------------
Next ==
    \E t \in Threads :
        \/ TakeFromFreelist(t) \/ FindFreelistEmpty(t) \/ Allocate(t) \/ Reset(t)
        \/ Exit(t) \/ Reclaim(t) \/ Synch_GetAllLocks(t)
        \/ Enqueue(t) \/ Block(t) \/ DecrementSynchSem(t) \/ TimesOut(t)
        \/ TryRemove(t) \/ FindRemoved(t)
        \/ Dequeue(t) \/ ClearNext(t) \/ SetState(t) \/ IncrementSynchSem(t)

Spec == Init /\ [][Next]_vars
-----------------------------------------------------------------------------
Waiting(t) == pc[t] \in {"block", "sem", "remove"}

\* An identity that was allocated has one place: it belongs to a thread, or is on the freelist
\* once, or on its way between the two; and the memory an owner has behind it was not freed.
IdentityHasOneOwner ==
    LET Owner(i, t) == current[t] = i \/ (arg[t] = i /\ pc[t] \in {"reset", "reclaim"})
    IN /\ \A i \in Identities :
             Cardinality({t \in Threads : Owner(i, t)})
                 + Cardinality({k \in DOMAIN freelist : freelist[k] = i})
                 = IF i \in fresh THEN 0 ELSE 1
       /\ \A t \in Threads : current[t] # Nil => all_locks[current[t]] # "freed"

\* What a waker writes to a PerThreadSynch it writes while the thread that it took off the
\* queue is still in Block(): all but the post, which may come to the next owner.
WakerWritesToWaiter ==
    \A t \in Threads : pc[t] \in {"clear next", "set state"} =>
        \E u \in Threads : current[u] = arg[t] /\ Waiting(u) /\ ~ended[u]

\* A thread that leaves Block() was taken off the queue in this wait: it is not fooled by a
\* post that was meant for the thread that had the identity before, or for its own last wait.
NotWokenByOthers ==
    \A t \in Threads : ~ended[t] => Waiting(t) /\ state[current[t]] = "kQueued"

\* A thread whose wait was ended does not sleep on: its post is there or on its way.
ReuseLosesNoWakeup ==
    \A t \in Threads : pc[t] = "sem" /\ ended[t] =>
        \/ sem[current[t]] > 0
        \/ \E u \in Threads : pc[u] = "post" /\ arg[u] = current[t]
=============================================================================

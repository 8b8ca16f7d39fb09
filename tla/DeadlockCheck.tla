---------------------------- MODULE DeadlockCheck ----------------------------
(***************************************************************************)
(* Deadlock detection of Mutex in debug mode: the graph of lock orders     *)
(* seen so far, under deadlock_graph_mu, and the locks each thread holds.  *)
(* The mutexes are exclusive locks; Mutex models their implementation.     *)
(***************************************************************************)
EXTENDS Naturals, Sequences, SequencesExt

CONSTANTS
    Threads, MaxMutexes,
    MaxNodes, MaxVersion,   \* bounds of the graph
    MaxHeld                 \* the length of SynchLocksHeld::locks

VARIABLES
    graph,          \* deadlock_graph
    owner,          \* the thread that holds a mutex, or 0
    locks, overflow,\* of a thread: SynchLocksHeld
    wants, id,      \* the mutex a thread has checked and is going to lock, or 0, and its id
    reported        \* 1 once a potential deadlock was reported; the program is dying then

vars == <<graph, owner, locks, overflow, wants, id, reported>>

Mutexes == 1..MaxMutexes
G == INSTANCE GraphCycles WITH MaxPtrs <- MaxMutexes, MaxReused <- MaxNodes, kept <- 0

\* Every mutex has an id, in some order, and no order has been seen.
Init ==
    /\ graph = FoldLeft(G!GetId, G!NewGraph, [m \in Mutexes |-> m]) /\ owner = [m \in Mutexes |-> 0]
    /\ locks = [t \in Threads |-> <<>>] /\ overflow = [t \in Threads |-> 0]
    /\ wants = [t \in Threads |-> 0] /\ id = [t \in Threads |-> 0]
    /\ reported = 0

\* The graph after an id for mu was asked for, and the id.
GetGraphId(m) == G!GetId(graph, m)
IdIn(g, m) == G!MakeId(g, G!IndexOf(g, m))

\* The graph with an edge from every lock of `held` that is not stale, up to one that is refused.
EdgesFrom(g, held, mu_id) ==
    FoldLeft(LAMBDA acc, lock :
                 IF acc.refused = 1 \/ G!Ptr(g, lock.id) = G!NoPtr THEN acc
                 ELSE IF G!Accepts(acc.g, lock.id, mu_id)
                 THEN [acc EXCEPT !.g = G!InsertEdge(acc.g, lock.id, mu_id)]
                 ELSE [acc EXCEPT !.refused = 1],
             [g |-> g, refused |-> 0], held)

\* Mutant of InsertEdges: only the lock acquired last is looked at.
InsertLastEdge(g, held, mu_id) ==
    EdgesFrom(g, IF held = <<>> THEN held ELSE <<held[Len(held)]>>, mu_id)

\* DeadlockCheck looks at every lock that is held.
InsertEdges(g, held, mu_id) == EdgesFrom(g, held, mu_id)

\* DeadlockCheck, before a lock() that may block.
DeadlockCheck(t, m) ==
    /\ wants[t] = 0 /\ G!CanGetId(graph, m)
    /\ LET g == GetGraphId(m)
           res == InsertEdges(g, locks[t], IdIn(g, m))
       IN  /\ graph' = res.g
           /\ reported' = IF res.refused = 1 THEN 1 ELSE reported
           /\ wants' = [wants EXCEPT ![t] = m] /\ id' = [id EXCEPT ![t] = IdIn(g, m)]
    /\ UNCHANGED <<owner, locks, overflow>>

\* LockEnter.  A thread has at most one entry of an id, for mutexes are exclusive here.  The id
\* is the one DeadlockCheck found, which is stale if the mutex was forgotten in between.
LockEnter(t, m, i) ==
    IF Len(locks[t]) = MaxHeld
    THEN overflow' = [overflow EXCEPT ![t] = 1] /\ UNCHANGED locks
    ELSE locks' = [locks EXCEPT ![t] = Append(@, [mu |-> m, id |-> i])] /\ UNCHANGED overflow

\* The lock is acquired.
Lock(t) ==
    /\ wants[t] # 0 /\ owner[wants[t]] = 0
    /\ owner' = [owner EXCEPT ![wants[t]] = t]
    /\ LockEnter(t, wants[t], id[t])
    /\ wants' = [wants EXCEPT ![t] = 0] /\ id' = [id EXCEPT ![t] = 0]
    /\ UNCHANGED <<graph, reported>>

\* try_lock cannot block, and is not checked.
TryLock(t, m) ==
    /\ wants[t] = 0 /\ owner[m] = 0 /\ G!CanGetId(graph, m)
    /\ owner' = [owner EXCEPT ![m] = t]
    /\ graph' = GetGraphId(m) /\ LockEnter(t, m, IdIn(graph', m))
    /\ UNCHANGED <<wants, id, reported>>

\* The entries after LockLeave: the one with this id is replaced by the last.  With none, the
\* list stays as it is, with the mutex under an id from before it was forgotten.
LockLeave(held, i) ==
    LET k == SelectInSeq(held, LAMBDA lock : lock.id = i)
        n == Len(held)
    IN  IF k = 0 THEN held ELSE SubSeq([held EXCEPT ![k] = held[n]], 1, n - 1)

Unlock(t, m) ==
    /\ wants[t] = 0 /\ owner[m] = t /\ G!CanGetId(graph, m)
    /\ graph' = GetGraphId(m)
    /\ locks' = [locks EXCEPT ![t] = LockLeave(@, IdIn(graph', m))]
    /\ owner' = [owner EXCEPT ![m] = 0]
    /\ UNCHANGED <<overflow, wants, id, reported>>

\* ForgetDeadlockInfo, which the destructor calls too.  Anybody may call it at any time, also
\* for a mutex that is held or waited for.
ForgetDeadlockInfo(m) ==
    /\ G!Known(graph, m)
    /\ graph' = G!RemoveNode(graph, m)
    /\ UNCHANGED <<owner, locks, overflow, wants, id, reported>>

\* OnDeadlockCycle::kAbort: nothing happens after a report.
Next ==
    /\ reported = 0
    /\ \/ \E t \in Threads :
             \/ Lock(t)
             \/ \E m \in Mutexes : DeadlockCheck(t, m) \/ TryLock(t, m) \/ Unlock(t, m)
       \/ \E m \in Mutexes : ForgetDeadlockInfo(m)

Spec == Init /\ [][Next]_vars
-----------------------------------------------------------------------------
\* Whether t waits for a mutex that was not forgotten since its holder locked it and t asked
\* for it: the holder has it under the id that t was given, and the id is not stale.
Remembered(t) ==
    /\ G!Ptr(graph, id[t]) = wants[t]
    /\ \E k \in DOMAIN locks[owner[wants[t]]] : locks[owner[wants[t]]][k].id = id[t]

\* Threads never come to wait for each other in a circle over mutexes that were not forgotten
\* meanwhile: the last of them to come is refused an edge and reports.  What is forgotten about
\* other mutexes, at any moment, takes nothing away from it.  (What a full list has lost is
\* not protected.)
DeadlocksReported ==
    \A C \in SUBSET Threads :
        /\ C # {} /\ \A t \in Threads : overflow[t] = 0
        /\ \A t \in C : wants[t] # 0 /\ owner[wants[t]] \in C /\ Remembered(t)
        => reported = 1

\* As long as nothing was lost in a full list, a thread has every mutex that it holds in its
\* list, also one that was forgotten, for LockLeave dies of "thread releasing lock it does not
\* hold" without it; and an entry that is not stale is a lock that the thread does hold, so
\* DeadlockCheck draws no edge from a lock that was released.
ListsHeldLocks ==
    \A t \in Threads : overflow[t] = 0 =>
        /\ {m \in Mutexes : owner[m] = t} \subseteq {locks[t][k].mu : k \in DOMAIN locks[t]}
        /\ \A k \in DOMAIN locks[t] :
              LET p == G!Ptr(graph, locks[t][k].id)
              IN  p = G!NoPtr \/ (p = locks[t][k].mu /\ owner[p] = t)
=============================================================================

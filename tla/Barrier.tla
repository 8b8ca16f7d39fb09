------------------------------- MODULE Barrier -------------------------------
(***************************************************************************)
(* absl::Barrier: as many threads as it was made for call Block(), and the *)
(* one that gets true deletes it.  The Mutex is a lock with an owner;      *)
(* Await lets go of it until the condition holds.                          *)
(***************************************************************************)
EXTENDS Integers, FiniteSets

CONSTANTS Threads, NoThread

VARIABLES lock, num_to_block, num_to_exit, pc, deleted

vars == <<lock, num_to_block, num_to_exit, pc, deleted>>

Init ==
    /\ lock = NoThread
    /\ num_to_block = Cardinality(Threads) /\ num_to_exit = Cardinality(Threads)
    /\ pc = [t \in Threads |-> "call"]
    /\ deleted = FALSE

\* Block(), up to Await, which returns at once if the count is 0.
Block(t) ==
    /\ pc[t] = "call" /\ lock = NoThread
    /\ num_to_block' = num_to_block - 1
    /\ lock' = IF num_to_block' = 0 THEN t ELSE NoThread
    /\ pc' = [pc EXCEPT ![t] = IF num_to_block' = 0 THEN "exit" ELSE "await"]
    /\ UNCHANGED <<num_to_exit, deleted>>

AwaitReturns(t) ==
    /\ pc[t] = "await" /\ num_to_block = 0 /\ lock = NoThread
    /\ lock' = t
    /\ pc' = [pc EXCEPT ![t] = "exit"]
    /\ UNCHANGED <<num_to_block, num_to_exit, deleted>>

Exit(t) ==
    /\ pc[t] = "exit"
    /\ num_to_exit' = num_to_exit - 1
    /\ pc' = [pc EXCEPT ![t] = IF num_to_exit' = 0 THEN "true" ELSE "false"]
    /\ UNCHANGED <<lock, num_to_block, deleted>>

\* The MutexLock is destroyed, and Block() returns.
Unlock(t) ==
    /\ pc[t] \in {"true", "false"} /\ lock = t
    /\ lock' = NoThread
    /\ pc' = [pc EXCEPT ![t] = IF pc[t] = "true" THEN "deleter" ELSE "returned"]
    /\ UNCHANGED <<num_to_block, num_to_exit, deleted>>

Delete(t) ==
    /\ pc[t] = "deleter"
    /\ pc' = [pc EXCEPT ![t] = "returned"]
    /\ deleted' = TRUE
    /\ UNCHANGED <<lock, num_to_block, num_to_exit>>

Step(t) == Block(t) \/ AwaitReturns(t) \/ Exit(t) \/ Unlock(t) \/ Delete(t)
Next == \E t \in Threads : Step(t)
Spec == Init /\ [][Next]_vars

\* Every thread calls Block() and runs on.
Fairness == \A t \in Threads : WF_vars(Step(t))
FairSpec == Spec /\ Fairness
-----------------------------------------------------------------------------
\* When a thread has been told that it may delete the barrier, no other thread is inside
\* Block() any more: they "have released the Mutex".
SafeToDelete ==
    \A t \in Threads : pc[t] = "deleter" \/ deleted => \A u \in Threads \ {t} : pc[u] \in {"returned", "deleter"}

\* Everybody gets out, and the barrier is deleted exactly once.
AllReturn == <>[](deleted /\ \A t \in Threads : pc[t] = "returned")
=============================================================================

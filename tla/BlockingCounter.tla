--------------------------- MODULE BlockingCounter ---------------------------
(***************************************************************************)
(* absl::BlockingCounter: workers count down, one thread waits for zero    *)
(* and then destroys the counter.  The count is atomic and not protected   *)
(* by the lock; done_ is.                                                  *)
(***************************************************************************)
EXTENDS Integers, FiniteSets

CONSTANTS
    Workers,    \* at least as many as initial_count
    NoThread, Waiter

VARIABLES count, done, num_waiting, lock, pc, destroyed

vars == <<count, done, num_waiting, lock, pc, destroyed>>
Parties == Workers \cup {Waiter}

\* initial_count workers have still to call DecrementCount; it may be 0.
Init ==
    /\ \E W \in SUBSET Workers :
          /\ count = Cardinality(W) /\ done = (W = {})
          /\ pc = [t \in Parties |-> IF t \in W \cup {Waiter} THEN "call" ELSE "returned"]
    /\ num_waiting = 0 /\ lock = NoThread /\ destroyed = FALSE

To(t, l) == pc' = [pc EXCEPT ![t] = l]

DecrementCount(t) ==
    /\ pc[t] = "call"
    /\ count' = count - 1
    /\ To(t, IF count' = 0 THEN "lock" ELSE "returned")
    /\ UNCHANGED <<done, num_waiting, lock, destroyed>>

SetDone(t) ==
    /\ pc[t] = "lock" /\ lock = NoThread
    /\ done' = TRUE
    /\ lock' = t
    /\ To(t, "unlock")
    /\ UNCHANGED <<count, num_waiting, destroyed>>

Unlock(t) ==
    /\ pc[t] = "unlock"
    /\ lock' = NoThread
    /\ To(t, IF t = Waiter THEN "destroy" ELSE "returned")
    /\ UNCHANGED <<count, done, num_waiting, destroyed>>

\* Wait(), up to Await.
Wait ==
    /\ pc[Waiter] = "call" /\ lock = NoThread /\ num_waiting = 0
    /\ num_waiting' = 1
    /\ lock' = IF done THEN Waiter ELSE NoThread
    /\ To(Waiter, IF done THEN "unlock" ELSE "await")
    /\ UNCHANGED <<count, done, destroyed>>

AwaitReturns ==
    /\ pc[Waiter] = "await" /\ done /\ lock = NoThread
    /\ lock' = Waiter
    /\ To(Waiter, "unlock")
    /\ UNCHANGED <<count, done, num_waiting, destroyed>>

Destroy ==
    /\ pc[Waiter] = "destroy"
    /\ destroyed' = TRUE
    /\ To(Waiter, "returned")
    /\ UNCHANGED <<count, done, num_waiting, lock>>

Next ==
    \/ \E t \in Workers : DecrementCount(t) \/ SetDone(t)
    \/ \E t \in Parties : Unlock(t)
    \/ Wait \/ AwaitReturns \/ Destroy

Spec == Init /\ [][Next]_vars

\* Every worker counts down, the waiter waits, and threads run on.
Fairness == WF_vars(Next)
FairSpec == Spec /\ Fairness
-----------------------------------------------------------------------------
\* "When Wait() returns, it is legal to destroy the BlockingCounter": no worker touches it
\* after that, not even the one that brought the count to zero before the lock was taken.
SafeToDestroy ==
    pc[Waiter] = "destroy" \/ destroyed => \A t \in Workers : pc[t] = "returned"

\* The waiter gets through.
WaitReturns == <>destroyed
=============================================================================

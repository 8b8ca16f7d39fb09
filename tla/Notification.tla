---------------------------- MODULE Notification ----------------------------
(***************************************************************************)
(* absl::Notification: one thread notifies, observers wait with or without *)
(* a timeout, and once they have all seen the event one of them destroys   *)
(* the object, possibly while Notify() is still running.                   *)
(***************************************************************************)
EXTENDS Naturals

CONSTANTS Observers, Notifier, NoThread

VARIABLES
    notified_yet,
    lock,
    pc,
    told,       \* observers that have been told: notified
    destroyed

vars == <<notified_yet, lock, pc, told, destroyed>>
Parties == Observers \cup {Notifier}

Init ==
    /\ notified_yet \in BOOLEAN /\ lock = NoThread
    /\ pc = [t \in Parties |-> IF t = Notifier /\ notified_yet THEN "out" ELSE "call"]
    /\ told = {} /\ destroyed = FALSE

To(t, l) == pc' = [pc EXCEPT ![t] = l]

Notify ==
    /\ pc[Notifier] = "call" /\ lock = NoThread
    /\ lock' = Notifier /\ To(Notifier, "store")
    /\ UNCHANGED <<notified_yet, told, destroyed>>

Store ==
    /\ pc[Notifier] = "store"
    /\ notified_yet' = TRUE
    /\ To(Notifier, "unlock")
    /\ UNCHANGED <<lock, told, destroyed>>

\* HasBeenNotified, or the first look of a wait: without the lock.
Look(t) ==
    /\ pc[t] = "call" /\ t \notin told
    /\ told' = IF notified_yet THEN told \cup {t} ELSE told
    /\ To(t, IF notified_yet THEN "call" ELSE "wait")
    /\ UNCHANGED <<notified_yet, lock, destroyed>>

\* Mutant: the result is that of the first look.
LockWhenUntold(t, timed) ==
    /\ pc[t] = "wait" /\ lock = NoThread /\ timed
    /\ lock' = t /\ To(t, "unlock")
    /\ UNCHANGED <<notified_yet, told, destroyed>>

\* LockWhen returns with the lock, and when it has a timeout perhaps without the event.
LockWhen(t, timed) ==
    /\ pc[t] = "wait" /\ lock = NoThread
    /\ notified_yet \/ timed
    /\ told' = IF notified_yet THEN told \cup {t} ELSE told
    /\ lock' = t /\ To(t, "unlock")
    /\ UNCHANGED <<notified_yet, destroyed>>

Unlock(t) ==
    /\ pc[t] = "unlock" /\ lock' = NoThread
    /\ To(t, IF t = Notifier THEN "out" ELSE "call")
    /\ UNCHANGED <<notified_yet, told, destroyed>>

Idle == ~destroyed /\ told = Observers /\ \A t \in Observers : pc[t] = "call"

\* ~Notification: it takes the lock and lets go of it again.
Destroy ==
    /\ Idle /\ lock = NoThread
    /\ destroyed' = TRUE
    /\ UNCHANGED <<notified_yet, lock, pc, told>>

Next ==
    \/ Notify \/ Store \/ Destroy
    \/ \E t \in Parties : Unlock(t)
    \/ \E t \in Observers : Look(t) \/ \E timed \in BOOLEAN : LockWhen(t, timed)

Spec == Init /\ [][Next]_vars

\* Parties run on, and a mutex that is free again and again is acquired in the end; a timeout
\* may or may not strike.
Fairness ==
    /\ SF_vars(Notify) /\ WF_vars(Store) /\ WF_vars(Destroy)
    /\ \A t \in Parties : WF_vars(Unlock(t))
    /\ \A t \in Observers : WF_vars(Look(t)) /\ SF_vars(LockWhen(t, FALSE))

FairSpec == Spec /\ Fairness
-----------------------------------------------------------------------------
\* "observers responding to a "notified" state of true can safely delete the notification
\* without interfering with the call to Notify() in the other thread".
SafeToDestroy == destroyed => pc[Notifier] = "out" /\ lock = NoThread

\* Every observer is told of the event, and the object can then be destroyed.
AllTold == <>destroyed
=============================================================================

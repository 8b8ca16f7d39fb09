--------------------------- MODULE OneShotProofs ---------------------------
(***************************************************************************)
(* The objects that are used once, for any number of threads.  call_once,  *)
(* with a function that may throw: it keeps its control word well-formed,  *)
(* invokes the function at most once, returns only after it completed, and *)
(* loses no wakeup.  Barrier, BlockingCounter, Notification and the mutex  *)
(* of a wait on a SimulatedClock: who may destroy the object is alone with *)
(* it.                                                                     *)
(***************************************************************************)
EXTENDS MCOneShot, FiniteSetTheorems, TLAPS
-----------------------------------------------------------------------------
(* call_once. *)

\* The thread between winning the word and publishing kOnceDone.
Runner(t) == pc[t] \in {"fn", "exchange"}

\* The function was not started while the word says kOnceInit.
InitMeansNotStarted ==
    control = "kOnceInit" => starts = 0 /\ finishes = 0 /\ \A t \in Threads : ~Runner(t)

\* Two threads never both run the function or publish its completion.
OneRunner == \A t, u \in Threads : Runner(t) /\ Runner(u) => t = u

\* kOnceDone and the steps after the function has returned imply that it finished.
DoneMeansFinished ==
    /\ control = "kOnceDone" => finishes = 1
    /\ \A t \in Threads : pc[t] \in {"exchange", "wake"} => finishes = 1 /\ t \in synced

\* A running function has neither completed nor been published.
RunnerMeansNotDone ==
    \A t \in Threads : /\ Runner(t) => control # "kOnceDone"
                       /\ pc[t] = "fn" => finishes = 0

\* What SpinLockWait read when it is about to compare-exchange or to sleep.
LocalValue ==
    \A t \in Threads :
        /\ pc[t] = "trans" => v[t] \in {"kOnceInit", "kOnceRunning"}
        /\ pc[t] = "delay" => v[t] = "kOnceWaiter"

\* The inductive invariant of call_once.
OnceInv ==
    /\ TypeOK
    /\ InvokedAtMostOnce
    /\ ReturnSeesCompletion
    /\ SleeperWillBeWoken
    /\ InitMeansNotStarted
    /\ OneRunner
    /\ DoneMeansFinished
    /\ RunnerMeansNotDone
    /\ LocalValue

\* The initial state, a zero once_flag that nobody has called yet, satisfies OnceInv.
LEMMA InitOnceInv == Init => OnceInv
  BY DEF Init, OnceInv, TypeOK, Control, PC, InvokedAtMostOnce, ReturnSeesCompletion,
         SleeperWillBeWoken, InitMeansNotStarted, OneRunner, Runner,
         DoneMeansFinished, RunnerMeansNotDone, LocalValue

\* Every step of every caller of call_once preserves OnceInv.
LEMMA NextOnceInv == OnceInv /\ [Next]_vars => OnceInv'
<1> SUFFICES ASSUME OnceInv, [Next]_vars PROVE OnceInv'
  BY Zenon
<1> USE DEF OnceInv, TypeOK, Control, PC, InvokedAtMostOnce, ReturnSeesCompletion,
            SleeperWillBeWoken, InitMeansNotStarted, OneRunner, Runner,
            DoneMeansFinished, RunnerMeansNotDone, LocalValue, Goto
<1>1. ASSUME NEW t \in Threads, Call(t) PROVE OnceInv'
  BY <1>1 DEF Call, AcquireDone
<1>2. ASSUME NEW t \in Threads, FirstCas(t) PROVE OnceInv'
  BY <1>2 DEF FirstCas, EnterFn
<1>3. ASSUME NEW t \in Threads, WaitLoad(t) PROVE OnceInv'
  BY <1>3 DEF WaitLoad, AcquireDone, Trans
<1>4. ASSUME NEW t \in Threads, WaitCas(t) PROVE OnceInv'
  BY <1>4 DEF WaitCas, EnterFn, Trans
<1>5. ASSUME NEW t \in Threads, Delay(t) PROVE OnceInv'
  BY Zenon, <1>5 DEF Delay
<1>6. ASSUME NEW t \in Threads, SpuriousWakeup(t) PROVE OnceInv'
  BY Zenon, <1>6 DEF SpuriousWakeup
<1>7. ASSUME NEW t \in Threads, FnReturns(t) PROVE OnceInv'
  BY <1>7 DEF FnReturns
<1>8. ASSUME NEW t \in Threads, FnThrows(t) PROVE OnceInv'
  BY Zenon, <1>8 DEF FnThrows
<1>9. ASSUME NEW t \in Threads, Exchange(t) PROVE OnceInv'
  BY Zenon, <1>9 DEF Exchange, NeedsWake
<1>10. ASSUME NEW t \in Threads, Wake(t) PROVE OnceInv'
  BY Zenon, <1>10 DEF Wake
<1>11. CASE UNCHANGED vars
  BY Zenon, <1>11 DEF vars
<1> QED
  BY Zenon, <1>1, <1>2, <1>3, <1>4, <1>5, <1>6, <1>7, <1>8, <1>9, <1>10, <1>11
     DEF Next, Step

\* The invariant holds of every execution.
LEMMA OnceAlways == Spec => []OnceInv
  BY InitOnceInv, NextOnceInv, PTL DEF Spec

\* call_once invokes the function at most once, whoever wins the opening compare-exchange or
\* a transition of SpinLockWait, and a sleeping caller will be woken.
THEOREM CallOnceCorrect == Spec => [](InvokedAtMostOnce /\ SleeperWillBeWoken)
<1>1. OnceInv => InvokedAtMostOnce /\ SleeperWillBeWoken
  BY Zenon DEF OnceInv
<1> QED
  BY <1>1, OnceAlways, PTL

\* A caller returns only after the function completed, and with its effects visible, whether
\* it ran the function, slept in SpinLockDelay or took the fast path.
THEOREM CallOnceReturnsAfter == Spec => []ReturnSeesCompletion
<1>1. OnceInv => ReturnSeesCompletion
  BY Zenon DEF OnceInv
<1> QED
  BY <1>1, OnceAlways, PTL

-----------------------------------------------------------------------------
(* Barrier.  The threads that have not counted themselves out, and the     *)
(* thread that counted to zero.                                            *)

InBlock == {t \in Team : b_pc[t] \in {"call", "await", "exit"}}
LastOut(t) == b_pc[t] \in {"true", "deleter"}

\* num_to_exit_ counts the threads that have not left; the lock is held from the end of Await
\* to the return; the thread that counts to zero is the only one and finds nobody who has
\* counted and not yet let go of the lock.
BarrierInv ==
    /\ b_pc \in [Team -> {"call", "await", "exit", "true", "false", "deleter", "returned"}]
    /\ b_to_exit = Cardinality(InBlock)
    /\ \A t \in Team : b_pc[t] \in {"exit", "true", "false"} => b_lock = t
    /\ \A t \in Team : LastOut(t) => InBlock = {}
    /\ \A t, u \in Team : LastOut(t) => b_pc[u] # "false" /\ (LastOut(u) => t = u)
    /\ b_deleted => \A t \in Team : b_pc[t] = "returned"

\* The cardinality that Barrier and BlockingCounter speak of.
LEMMA SameCardinality ==
    ASSUME NEW A
    PROVE  B!Cardinality(A) = Cardinality(A) /\ C!Cardinality(A) = Cardinality(A)
BY Zenon DEF B!Cardinality, C!Cardinality, Cardinality

\* Barrier's constructor.
LEMMA BarrierInit == B!Init => BarrierInv
<1> SUFFICES ASSUME B!Init PROVE BarrierInv
  BY Zenon
<1>1. InBlock = Team
  BY Zenon DEF B!Init, InBlock
<1> QED
  BY Zenon, <1>1, SameCardinality DEF B!Init, BarrierInv, LastOut

\* Every step of Barrier::Block and of the deletion.
LEMMA BarrierNext == BarrierInv /\ [B!Next]_bVars => BarrierInv'
<1> SUFFICES ASSUME BarrierInv, [B!Next]_bVars PROVE BarrierInv'
  BY Zenon
<1> USE DEF BarrierInv, LastOut
<1>1. CASE UNCHANGED bVars
  BY Zenon, <1>1 DEF bVars, InBlock
<1>2. ASSUME NEW t \in Team, B!Block(t) \/ B!AwaitReturns(t) PROVE BarrierInv'
  <2>1. \A u \in Team : ~LastOut(u)
    BY Zenon, <1>2 DEF B!Block, B!AwaitReturns, InBlock
  <2>2. InBlock' = InBlock
    BY Zenon, <1>2 DEF B!Block, B!AwaitReturns, InBlock
  <2>3. ~b_deleted
    BY Zenon, <1>2 DEF B!Block, B!AwaitReturns
  <2>4. CASE B!Block(t)
    BY Zenon, <2>1, <2>2, <2>3, <2>4, OneShotAssumption DEF B!Block
  <2>5. CASE B!AwaitReturns(t)
    BY Zenon, <2>1, <2>2, <2>3, <2>5, OneShotAssumption DEF B!AwaitReturns
  <2> QED
    BY Zenon, <1>2, <2>4, <2>5
<1>3. ASSUME NEW t \in Team, B!Exit(t) PROVE BarrierInv'
  <2>1. t \in InBlock /\ InBlock' = InBlock \ {t} /\ \A u \in Team : ~LastOut(u)
    BY Zenon, <1>3 DEF B!Exit, InBlock
  <2>2. IsFiniteSet(InBlock) /\ IsFiniteSet(InBlock')
    BY Zenon, <2>1, OneShotAssumption, FS_Subset DEF InBlock
  <2>3. b_to_exit' = Cardinality(InBlock')
    BY Zenon, <1>3, <2>1, <2>2, FS_RemoveElement DEF B!Exit
  <2>4. b_to_exit' = 0 => InBlock' = {}
    BY Zenon, <2>2, <2>3, FS_EmptySet
  <2> QED
    BY Zenon, <1>3, <2>1, <2>3, <2>4 DEF B!Exit
<1>4. ASSUME NEW t \in Team, B!Unlock(t) \/ B!Delete(t) PROVE BarrierInv'
  <2>1. InBlock' = InBlock
    BY Zenon, <1>4 DEF B!Unlock, B!Delete, InBlock
  <2>2. CASE B!Unlock(t)
    BY Zenon, <2>1, <2>2, OneShotAssumption DEF B!Unlock
  <2>3. CASE B!Delete(t)
    BY Zenon, <2>1, <2>3 DEF B!Delete, InBlock
  <2> QED
    BY Zenon, <1>4, <2>2, <2>3
<1> QED
  BY Zenon, <1>1, <1>2, <1>3, <1>4 DEF B!Next, B!Step

-----------------------------------------------------------------------------
(* BlockingCounter. *)

Counting == {t \in Team : c_pc[t] = "call"}
LastDown(t) == c_pc[t] \in {"lock", "unlock"}

\* count_ counts the workers that have still to call DecrementCount; the one that brings it to
\* zero is alone, and sets done_ under the lock before anybody gets out of Wait.
CounterInv ==
    /\ c_pc \in [Team \cup {Waiter} -> {"call", "await", "lock", "unlock", "destroy", "returned"}]
    /\ \A t \in Team : c_pc[t] \in {"call", "lock", "unlock", "returned"}
    /\ c_count = Cardinality(Counting)
    /\ \A t \in Team : LastDown(t) => Counting = {}
    /\ \A t, u \in Team : LastDown(t) /\ LastDown(u) => t = u
    /\ c_done => Counting = {} /\ \A t \in Team : c_pc[t] # "lock"
    /\ \A t \in Team \cup {Waiter} : c_pc[t] = "unlock" => c_lock = t
    /\ c_pc[Waiter] \in {"unlock", "destroy", "returned"} => \A t \in Team : c_pc[t] = "returned"
    /\ c_destroyed => c_pc[Waiter] = "returned"

\* The constructor, with any initial count.
LEMMA CounterInit == C!Init => CounterInv
<1> SUFFICES ASSUME C!Init PROVE CounterInv
  BY Zenon
<1>1. PICK W \in SUBSET Team :
         /\ c_count = Cardinality(W) /\ c_done = (W = {})
         /\ c_pc = [t \in Team \cup {Waiter} |-> IF t \in W \cup {Waiter} THEN "call" ELSE "returned"]
  BY Zenon, SameCardinality DEF C!Init, C!Parties
<1>2. Counting = W
  BY Zenon, <1>1, OneShotAssumption DEF Counting
<1> QED
  BY Zenon, <1>1, <1>2, OneShotAssumption DEF C!Init, CounterInv, LastDown

\* Every step of DecrementCount and Wait, and the destruction.
LEMMA CounterNext == CounterInv /\ [C!Next]_cVars => CounterInv'
<1> SUFFICES ASSUME CounterInv, [C!Next]_cVars PROVE CounterInv'
  BY Zenon
<1> USE OneShotAssumption DEF CounterInv, LastDown, C!To
<1>1. CASE UNCHANGED cVars
  BY Zenon, <1>1 DEF cVars, Counting
<1>2. ASSUME NEW t \in Team, C!DecrementCount(t) PROVE CounterInv'
  <2>1. t \in Counting /\ Counting' = Counting \ {t} /\ \A u \in Team : ~LastDown(u)
    BY <1>2 DEF C!DecrementCount, Counting
  <2>2. IsFiniteSet(Counting) /\ IsFiniteSet(Counting')
    BY Zenon, <2>1, FS_Subset DEF Counting
  <2>3. c_count' = Cardinality(Counting')
    BY Zenon, <1>2, <2>1, <2>2, FS_RemoveElement DEF C!DecrementCount
  <2>4. c_count' = 0 => Counting' = {}
    BY Zenon, <2>2, <2>3, FS_EmptySet
  <2> QED
    BY Zenon, <1>2, <2>1, <2>3, <2>4 DEF C!DecrementCount
<1>3. ASSUME NEW t \in Team, C!SetDone(t) PROVE CounterInv'
  <2>1. Counting' = Counting
    BY Zenon, <1>3 DEF C!SetDone, Counting
  <2> QED
    BY Zenon, <1>3, <2>1 DEF C!SetDone
<1>4. ASSUME NEW t \in Team \cup {Waiter}, C!Unlock(t) PROVE CounterInv'
  <2>1. Counting' = Counting
    BY Zenon, <1>4 DEF C!Unlock, Counting
  <2> QED
    BY Zenon, <1>4, <2>1 DEF C!Unlock
<1>5. CASE C!Wait \/ C!AwaitReturns
  <2>1. Counting' = Counting
    BY Zenon, <1>5 DEF C!Wait, C!AwaitReturns, Counting
  <2>2. c_done => \A t \in Team : c_pc[t] = "returned"
    BY Zenon, <1>5 DEF C!Wait, C!AwaitReturns, Counting
  <2> QED
    BY <1>5, <2>1, <2>2 DEF C!Wait, C!AwaitReturns
<1>6. CASE C!Destroy
  <2>1. Counting' = Counting
    BY Zenon, <1>6 DEF C!Destroy, Counting
  <2> QED
    BY Zenon, <1>6, <2>1 DEF C!Destroy
<1> QED
  BY Zenon, <1>1, <1>2, <1>3, <1>4, <1>5, <1>6 DEF C!Next, C!Parties

-----------------------------------------------------------------------------
(* Notification. *)

\* An observer is told only of an event that is stored, Notify() holds the lock from before the
\* store until it has let go of the object, and nobody uses the object after its destruction.
NotificationInv ==
    /\ n_pc \in [Threads \cup {Waiter} -> {"call", "wait", "store", "unlock", "out"}]
    /\ n_pc[Waiter] \in {"call", "store", "unlock", "out"}
    /\ \A t \in Threads : n_pc[t] \in {"call", "wait", "unlock"}
    /\ n_told # {} => n_notified
    /\ n_notified => n_pc[Waiter] \in {"unlock", "out"}
    /\ \A t \in Threads \cup {Waiter} : n_pc[t] \in {"store", "unlock"} => n_lock = t
    /\ n_destroyed => /\ n_told = Threads /\ \A t \in Threads : n_pc[t] = "call"
                      /\ n_pc[Waiter] = "out" /\ n_lock = NoThread

\* The constructor, also of a notification made notified.
LEMMA NotificationInit == N!Init => NotificationInv
BY Zenon, OneShotAssumption DEF N!Init, N!Parties, NotificationInv

\* Every step of Notify, of the looks and waits, and of the destructor.
LEMMA NotificationNext == NotificationInv /\ [N!Next]_nVars => NotificationInv'
<1> SUFFICES ASSUME NotificationInv, [N!Next]_nVars PROVE NotificationInv'
  BY Zenon
<1> USE OneShotAssumption DEF NotificationInv, N!To
<1>1. CASE UNCHANGED nVars
  BY Zenon, <1>1 DEF nVars
<1>2. CASE N!Notify
  BY Zenon, <1>2 DEF N!Notify
<1>3. CASE N!Store
  BY Zenon, <1>3 DEF N!Store
<1>4. CASE N!Destroy
  BY Zenon, <1>4 DEF N!Destroy, N!Idle
<1>5. ASSUME NEW t \in Threads \cup {Waiter}, N!Unlock(t) PROVE NotificationInv'
  BY Zenon, <1>5 DEF N!Unlock
<1>6. ASSUME NEW t \in Threads, N!Look(t) PROVE NotificationInv'
  BY Zenon, <1>6 DEF N!Look
<1>7. ASSUME NEW t \in Threads, NEW timed \in BOOLEAN, N!LockWhen(t, timed) PROVE NotificationInv'
  BY Zenon, <1>7 DEF N!LockWhen
<1> QED
  BY Zenon, <1>1, <1>2, <1>3, <1>4, <1>5, <1>6, <1>7 DEF N!Next, N!Parties

-----------------------------------------------------------------------------
(* SimulatedClock. *)

\* A caller that somebody is to wake, and one that somebody has begun to wake.
Listed(c) == c \in s_waiters \/ \E t \in Clocks : c \in s_calls[t]
BeingWoken(c) == \E t \in Clocks : s_waking[t] = c

\* A caller is in one list or in one thread's hands; wakeup_called_ is set exactly between the two
\* and wakeup_time_passed_ after them; a caller that returns is in nobody's hands and, if it is
\* still in a list, has cancelled.
ClockInv ==
    /\ s_pc \in [Sleepers \cup Clocks -> {"start", "call", "await", "blocked", "cancel",
                    "await_wakeup", "return", "returned", "wake", "waking"}]
    /\ s_waiters \subseteq Sleepers
    /\ s_calls \in [Clocks -> SUBSET Sleepers]
    /\ s_waking \in [Clocks -> Sleepers \cup {NoThread}]
    /\ s_passed \in [Sleepers -> 0..1] /\ s_cancelled \in [Sleepers -> 0..1]
    /\ s_called \in [Sleepers -> 0..1]
    /\ \A t \in Clocks : s_pc[t] = "waking" => s_waking[t] # NoThread
    /\ \A t, u \in Clocks : s_waking[t] = s_waking[u] /\ s_waking[t] # NoThread => t = u
    /\ \A t \in Clocks : s_calls[t] \cap s_waiters = {}
    /\ \A t, u \in Clocks : t # u => s_calls[t] \cap s_calls[u] = {}
    /\ \A c \in Sleepers :
          /\ Listed(c) => s_called[c] = 0 /\ s_passed[c] = 0
          /\ BeingWoken(c) => s_called[c] = 1 /\ s_passed[c] = 0
          /\ s_pc[c] \in {"start", "call"} =>
                ~Listed(c) /\ ~BeingWoken(c) /\ s_called[c] = 0 /\ s_passed[c] = 0
          /\ s_pc[c] \in {"return", "returned"} =>
                ~BeingWoken(c) /\ (Listed(c) => s_cancelled[c] = 1)
    /\ \A c \in s_destroyed : c \in Sleepers /\ s_pc[c] = "returned"

\* The clock is made and nobody waits.
LEMMA ClockInit == S!Init => ClockInv
BY OneShotAssumption DEF S!Init, ClockInv, Listed, BeingWoken

\* The steps of AwaitWithDeadline, and of the code that changes a condition.
LEMMA ClockCaller ==
    ASSUME ClockInv, NEW c \in Sleepers,
           S!Lock(c) \/ S!CallerStep(c) \/ \E x \in 0..1 : S!SetCond(c, x)
    PROVE  ClockInv'
<1> USE OneShotAssumption DEF ClockInv, S!To, S!clock, S!wake
<1>1. CASE S!Lock(c)
  BY <1>1 DEF S!Lock, Listed, BeingWoken
<1>2. CASE S!AwaitWithDeadline(c)
  BY <1>2 DEF S!AwaitWithDeadline, Listed, BeingWoken
<1>3. CASE S!Block(c)
  BY Zenon, <1>3 DEF S!Block, Listed, BeingWoken
<1>4. CASE S!AwaitConditionOrWakeUp(c)
  BY <1>4 DEF S!AwaitConditionOrWakeUp, Listed, BeingWoken
<1>5. CASE S!CancelOrAwaitWakeUp(c)
  BY <1>5 DEF S!CancelOrAwaitWakeUp, Listed, BeingWoken
<1>6. CASE S!AwaitWakeUp(c)
  BY <1>6 DEF S!AwaitWakeUp, Listed, BeingWoken
<1>7. CASE S!Return(c)
  BY <1>7 DEF S!Return, Listed, BeingWoken
<1>8. CASE \E x \in 0..1 : S!SetCond(c, x)
  <2>1. /\ UNCHANGED <<s_pc, s_waiters, s_calls, s_waking, s_passed, s_cancelled, s_called>>
        /\ UNCHANGED s_destroyed
    BY Zenon, <1>8 DEF S!SetCond
  <2> QED
    BY Zenon, <2>1 DEF Listed, BeingWoken
<1> QED
  BY Zenon, <1>1, <1>2, <1>3, <1>4, <1>5, <1>6, <1>7, <1>8 DEF S!CallerStep

\* The steps of UpdateTime, of the destructor and of WakeUp.
LEMMA ClockUpdater ==
    ASSUME ClockInv, NEW t \in Clocks,
           S!ClockStep(t) \/ S!Destruct(t) \/ \E x \in S!Times : S!UpdateTime(t, x)
    PROVE  ClockInv'
<1> USE OneShotAssumption DEF ClockInv, S!To, S!clock, S!wake
<1>1. CASE S!SetPassed(t)
  BY <1>1 DEF S!SetPassed, Listed, BeingWoken
<1>2. CASE S!Updated(t)
  BY <1>2 DEF S!Updated, Listed, BeingWoken
<1>3. ASSUME NEW c \in Sleepers, S!WakeUp(t, c) PROVE ClockInv'
  BY <1>3 DEF S!WakeUp, Listed, BeingWoken
<1>4. CASE S!Destruct(t)
  BY <1>4 DEF S!Destruct, Listed, BeingWoken
<1>5. ASSUME NEW x \in S!Times, S!UpdateTime(t, x) PROVE ClockInv'
  BY <1>5 DEF S!UpdateTime, Listed, BeingWoken
<1> QED
  BY Zenon, <1>1, <1>2, <1>3, <1>4, <1>5 DEF S!ClockStep

\* Every step of the clock's threads.
LEMMA ClockNext == ClockInv /\ [S!Next]_sVars => ClockInv'
<1> SUFFICES ASSUME ClockInv, [S!Next]_sVars PROVE ClockInv'
  BY Zenon
<1>1. CASE UNCHANGED sVars
  BY Zenon, <1>1 DEF ClockInv, sVars, Listed, BeingWoken
<1> QED
  BY Zenon, <1>1, ClockCaller, ClockUpdater DEF S!Next

-----------------------------------------------------------------------------
(* The four objects together. *)

ObjectsInv == BarrierInv /\ CounterInv /\ NotificationInv /\ ClockInv

\* One of the objects takes a step, or none.
LEMMA ObjectsNext == ObjectsInv /\ [AllNext]_allVars => ObjectsInv'
<1> SUFFICES ASSUME ObjectsInv, [AllNext]_allVars PROVE ObjectsInv'
  BY Zenon
<1>1. [B!Next]_bVars /\ [C!Next]_cVars /\ [N!Next]_nVars /\ [S!Next]_sVars
  BY Zenon DEF AllNext, allVars, bVars, cVars, nVars, sVars
<1> QED
  BY <1>1, BarrierNext, CounterNext, NotificationNext, ClockNext, Zenon DEF ObjectsInv

\* The thread that Barrier::Block returned true to, the one that BlockingCounter::Wait returned
\* to, observers that were told of a Notification and a caller back from
\* SimulatedClock::AwaitWithDeadline may destroy the object (the caller its mutex): no other
\* thread touches it any more.
THEOREM OneShotSafeToDestroy == AllSpec => []SafeToDestroy
<1>1. AllInit => ObjectsInv
  BY Zenon, BarrierInit, CounterInit, NotificationInit, ClockInit DEF AllInit, ObjectsInv
<1>2. BarrierInv => B!SafeToDelete
  BY Zenon DEF BarrierInv, LastOut, InBlock, B!SafeToDelete
<1>3. CounterInv => C!SafeToDestroy
  BY Zenon DEF CounterInv, C!SafeToDestroy
<1>4. NotificationInv => N!SafeToDestroy
  BY Zenon DEF NotificationInv, N!SafeToDestroy
<1>5. ClockInv => S!MutexOutlivesWakeUp
  BY Zenon DEF ClockInv, BeingWoken, S!MutexOutlivesWakeUp
<1>6. ObjectsInv => SafeToDestroy
  BY Zenon, <1>2, <1>3, <1>4, <1>5 DEF ObjectsInv, SafeToDestroy
<1> QED
  BY <1>1, <1>6, ObjectsNext, PTL DEF AllSpec
=============================================================================

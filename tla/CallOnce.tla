------------------------------ MODULE CallOnce ------------------------------
(***************************************************************************)
(* absl::call_once (absl/base/call_once.h) on one once_flag: the fast path *)
(* of call_once, CallOnceImpl, and the SpinLockWait loop it blocks in      *)
(* (absl/base/internal/spinlock_wait.cc).  Every atomic access to the      *)
(* control word is a step of its own.  SpinLockDelay / SpinLockWake are    *)
(* the futex pair of spinlock_linux.inc: a thread goes to sleep only if    *)
(* the word still has the value it read, and may wake up spuriously, which *)
(* also covers the sleeping and yielding versions on other platforms.      *)
(***************************************************************************)
EXTENDS Naturals

CONSTANT Threads    \* the callers of call_once

VARIABLES
    control,    \* once_flag::control_
    pc,         \* where each thread is in its call
    v,          \* SpinLockWait's local v
    starts,     \* history: how often the function was invoked
    finishes,   \* history: how often the function returned normally
    synced      \* history: threads that the function's effects happen before

vars == <<control, pc, v, starts, finishes, synced>>

Control == {"kOnceInit", "kOnceRunning", "kOnceWaiter", "kOnceDone"}

PC == {"idle", "cas", "load", "trans", "delay", "asleep",
       "fn", "exchange", "wake", "returned", "threw"}

\* The transition table `trans` of CallOnceImpl: where SpinLockWait goes from
\* each value that has an entry, and whether it stops there.  kOnceWaiter has none.
Trans == [kOnceInit    |-> [to |-> "kOnceRunning", done |-> TRUE],
          kOnceRunning |-> [to |-> "kOnceWaiter",  done |-> FALSE],
          kOnceDone    |-> [to |-> "kOnceDone",    done |-> TRUE]]

Goto(t, l) == pc' = [pc EXCEPT ![t] = l]

Init ==
    /\ control = "kOnceInit"
    /\ pc = [t \in Threads |-> "idle"]
    /\ v = [t \in Threads |-> "kOnceInit"]
    /\ starts = 0
    /\ finishes = 0
    /\ synced = {}

\* Mutant: the fast path reads the word with memory_order_relaxed.
RelaxedDone(t) == UNCHANGED synced

\* Reading kOnceDone with memory_order_acquire synchronizes with the release
\* exchange of the thread that ran the function.
AcquireDone(t) == synced' = synced \cup {t}

EnterFn(t) == Goto(t, "fn") /\ starts' = starts + 1

\* call_once, LowLevelCallOnce: one acquire load decides between returning at once
\* and CallOnceImpl.
Call(t) ==
    /\ pc[t] \in {"idle", "returned", "threw"}
    /\ IF control = "kOnceDone"
         THEN Goto(t, "returned") /\ AcquireDone(t)
         ELSE Goto(t, "cas") /\ UNCHANGED synced
    /\ UNCHANGED <<control, v, starts, finishes>>

\* Mutant: the word is tested and then stored, without a compare-exchange.
TestThenSet(t) ==
    /\ pc[t] = "cas"
    /\ control \in {"kOnceInit", "kOnceRunning"}
    /\ control' = "kOnceRunning" /\ EnterFn(t)
    /\ UNCHANGED <<v, finishes, synced>>

\* The relaxed compare_exchange_strong that opens CallOnceImpl.
FirstCas(t) ==
    /\ pc[t] = "cas"
    /\ IF control = "kOnceInit"
         THEN control' = "kOnceRunning" /\ EnterFn(t)
         ELSE Goto(t, "load") /\ UNCHANGED <<control, starts>>
    /\ UNCHANGED <<v, finishes, synced>>

\* The head of SpinLockWait's loop: load the word, look it up in trans[].
WaitLoad(t) ==
    /\ pc[t] = "load"
    /\ v' = [v EXCEPT ![t] = control]
    /\ CASE control \notin DOMAIN Trans -> Goto(t, "delay") /\ UNCHANGED synced
         [] control = "kOnceDone"       -> Goto(t, "returned") /\ AcquireDone(t)
         [] OTHER                       -> Goto(t, "trans") /\ UNCHANGED synced
    /\ UNCHANGED <<control, starts, finishes>>

\* SpinLockWait's compare_exchange_strong; a lost race goes round the loop.
WaitCas(t) ==
    /\ pc[t] = "trans"
    /\ IF control = v[t]
         THEN /\ control' = Trans[v[t]].to
              /\ IF Trans[v[t]].done THEN EnterFn(t)
                                     ELSE Goto(t, "load") /\ UNCHANGED starts
         ELSE Goto(t, "load") /\ UNCHANGED <<control, starts>>
    /\ UNCHANGED <<v, finishes, synced>>

\* SpinLockDelay: FUTEX_WAIT re-checks the word atomically with going to sleep.
Delay(t) ==
    /\ pc[t] = "delay"
    /\ Goto(t, IF control = v[t] THEN "asleep" ELSE "load")
    /\ UNCHANGED <<control, v, starts, finishes, synced>>

\* FUTEX_WAIT may return without a wake (signal, spurious wakeup).
SpuriousWakeup(t) ==
    /\ pc[t] = "asleep"
    /\ Goto(t, "load")
    /\ UNCHANGED <<control, v, starts, finishes, synced>>

FnReturns(t) ==
    /\ pc[t] = "fn"
    /\ Goto(t, "exchange")
    /\ finishes' = finishes + 1
    /\ synced' = synced \cup {t}
    /\ UNCHANGED <<control, v, starts>>

\* The exception leaves CallOnceImpl: nothing restores the control word.
FnThrows(t) ==
    /\ pc[t] = "fn"
    /\ Goto(t, "threw")
    /\ UNCHANGED <<control, v, starts, finishes, synced>>

\* Mutant: the exchange looks for kOnceRunning.
WakesRunning(old) == old = "kOnceRunning"

\* control->exchange(kOnceDone); only kOnceWaiter asks for a wake.
NeedsWake(old) == old = "kOnceWaiter"

\* The release exchange that publishes the function's completion.
Exchange(t) ==
    /\ pc[t] = "exchange"
    /\ control' = "kOnceDone"
    /\ Goto(t, IF NeedsWake(control) THEN "wake" ELSE "returned")
    /\ UNCHANGED <<v, starts, finishes, synced>>

\* SpinLockWake(control, true) wakes every sleeper.
Wake(t) ==
    /\ pc[t] = "wake"
    /\ pc' = [u \in Threads |-> IF u = t THEN "returned"
                                ELSE IF pc[u] = "asleep" THEN "load"
                                ELSE pc[u]]
    /\ UNCHANGED <<control, v, starts, finishes, synced>>

\* What a thread inside call_once does on its own.
Step(t) ==
    \/ FirstCas(t)
    \/ WaitLoad(t)
    \/ WaitCas(t)
    \/ Delay(t)
    \/ FnReturns(t)
    \/ FnThrows(t)
    \/ Exchange(t)
    \/ Wake(t)

Next == \E t \in Threads : Call(t) \/ SpuriousWakeup(t) \/ Step(t)

Spec == Init /\ [][Next]_vars

\* A thread inside call_once keeps being scheduled and the function terminates;
\* nobody is obliged to call, and spurious wakeups may never happen.
Fairness == \A t \in Threads : WF_vars(Step(t))

FairSpec == Spec /\ Fairness
-----------------------------------------------------------------------------
\* Every variable has its type; the control word holds one of the four values that
\* CallOnceImpl's debug check accepts.
TypeOK ==
    /\ control \in Control
    /\ pc \in [Threads -> PC]
    /\ v \in [Threads -> Control]
    /\ starts \in Nat
    /\ finishes \in Nat
    /\ synced \subseteq Threads

\* call_once invokes the function at most once across all threads, whatever the
\* interleaving of the opening compare-exchange and the SpinLockWait transitions.
InvokedAtMostOnce == starts <= 1

\* A caller that returns from call_once knows the function has run to completion and
\* sees its effects (it ran it, or acquired the release store of kOnceDone).
ReturnSeesCompletion ==
    \A t \in Threads : pc[t] = "returned" => finishes = 1 /\ t \in synced

\* No wakeup is lost: while a thread sleeps in SpinLockDelay, the word says
\* kOnceWaiter, so the exchange will see it, or the wake is already on its way.
SleeperWillBeWoken ==
    (\E t \in Threads : pc[t] = "asleep") =>
        \/ control = "kOnceWaiter"
        \/ \E u \in Threads : pc[u] = "wake"

\* The function threw: the word says that somebody runs it, and nobody does.
Poisoned == starts > finishes /\ \A t \in Threads : pc[t] # "fn"

\* Every call of call_once returns, sleeping callers included, unless the function threw.
EveryCallEnds ==
    \A t \in Threads : pc[t] = "cas" ~> pc[t] \in {"returned", "threw"} \/ Poisoned

\* call_once.h: "The first call to call_once() with a particular once_flag argument (that
\* does not throw an exception) will run the specified function": a call that throws is
\* not that first call, so every other call ends by returning or by throwing itself.
ThrowIsNoFirstCall ==
    \A t \in Threads : pc[t] = "cas" ~> pc[t] \in {"returned", "threw"}
=============================================================================

------------------------------ MODULE SpinLock ------------------------------
(***************************************************************************)
(* absl::base_internal::SpinLock (absl/base/internal/spinlock.h, .cc) with *)
(* the futex sleep of spinlock_linux.inc.  Every load, compare-exchange    *)
(* and exchange of lockword_ is a step of its own.  The lock word is a     *)
(* record of its fields; the constant kSpinLockCooperative bit is the      *)
(* constant Cooperative.  The 29-bit wait time keeps what the code tells   *)
(* apart: 0, the unit kSpinLockSleeper (1), and anything larger (2).       *)
(***************************************************************************)
EXTENDS Naturals

CONSTANTS
    Threads,
    Cooperative,    \* the SchedulingMode the lock was constructed with
    MayIdentify     \* the threads that may acquire a ThreadIdentity

ASSUME SpinLockAssumption == Cooperative \in BOOLEAN /\ MayIdentify \subseteq Threads

VARIABLES
    lockword,       \* lockword_
    pc,             \* where each thread is
    lock_value,     \* the local lock_value: the last value seen of the lock word
    wait_cycles,    \* the local wait_cycles of SlowLock
    identified,     \* the threads that have a ThreadIdentity
    depth           \* ThreadIdentity::scheduling_disabled_depth

vars == <<lockword, pc, lock_value, wait_cycles, identified, depth>>

Word == [held : {0, 1}, sched : {0, 1}, wait : 0..2]

FreeWord == [held |-> 0, sched |-> 0, wait |-> 0]

PC == {"idle", "try", "trylock", "spin", "attempt", "loop", "mark", "delay",
       "asleep", "respin", "held", "wake"}

Goto(t, l) == pc' = [pc EXCEPT ![t] = l]

Init ==
    /\ lockword = FreeWord
    /\ pc = [t \in Threads |-> "idle"]
    /\ lock_value = [t \in Threads |-> FreeWord]
    /\ wait_cycles = [t \in Threads |-> 0]
    /\ identified = {}
    /\ depth = [t \in Threads |-> 0]

\* A thread may acquire its ThreadIdentity at any time, also while it holds the lock.
CreateThreadIdentity(t) ==
    /\ t \in MayIdentify \ identified
    /\ identified' = identified \cup {t}
    /\ UNCHANGED <<lockword, pc, lock_value, wait_cycles, depth>>

\* What TryLockInternal gets from SchedulingGuard::DisableRescheduling.
DisableRescheduling(t) == IF ~Cooperative /\ t \in identified THEN 1 ELSE 0

\* The word stored by a successful TryLockInternal.
HeldWord(t, old, cycles) ==
    [held  |-> 1,
     sched |-> IF DisableRescheduling(t) = 1 THEN 1 ELSE old.sched,
     wait  |-> IF cycles > old.wait THEN cycles ELSE old.wait]

\* Mutant: rescheduling stays disabled when the compare-exchange is lost.
TryLockInternalLeaky(t, cycles, busy) ==
    IF lock_value[t].held = 1
      THEN Goto(t, busy) /\ UNCHANGED <<lockword, lock_value, depth>>
      ELSE /\ depth' = [depth EXCEPT ![t] = @ + DisableRescheduling(t)]
           /\ IF lockword = lock_value[t]
                THEN /\ lockword' = HeldWord(t, lock_value[t], cycles)
                     /\ Goto(t, "held")
                     /\ UNCHANGED lock_value
                ELSE /\ lock_value' = [lock_value EXCEPT ![t] = lockword]
                     /\ Goto(t, IF lockword.held = 1 THEN busy ELSE "held")
                     /\ UNCHANGED lockword

\* TryLockInternal(lock_value, cycles) and the test its callers make of the result: the
\* lock counts as acquired exactly if the returned value does not have kSpinLockHeld.
TryLockInternal(t, cycles, busy) ==
    IF lock_value[t].held = 1
      THEN Goto(t, busy) /\ UNCHANGED <<lockword, lock_value, depth>>
      ELSE IF lockword = lock_value[t]
             THEN /\ lockword' = HeldWord(t, lock_value[t], cycles)
                  /\ depth' = [depth EXCEPT ![t] = @ + DisableRescheduling(t)]
                  /\ Goto(t, "held")
                  /\ UNCHANGED lock_value
             ELSE /\ lock_value' = [lock_value EXCEPT ![t] = lockword]
                  /\ Goto(t, IF lockword.held = 1 THEN busy ELSE "held")
                  /\ UNCHANGED <<lockword, depth>>

\* lock(), try_lock(): TryLockImpl loads the word...
Call(t) ==
    /\ pc[t] = "idle"
    /\ lock_value' = [lock_value EXCEPT ![t] = lockword]
    /\ wait_cycles' = [wait_cycles EXCEPT ![t] = 0]
    /\ Goto(t, "try") \/ Goto(t, "trylock")
    /\ UNCHANGED <<lockword, identified, depth>>

\* ... and tries it once; on failure lock() enters SlowLock, try_lock() returns false.
TryLockImpl(t) ==
    /\ \/ pc[t] = "try" /\ TryLockInternal(t, 0, "spin")
       \/ pc[t] = "trylock" /\ TryLockInternal(t, 0, "idle")
    /\ UNCHANGED <<wait_cycles, identified>>

\* SpinLoop at the head of SlowLock: the last value it read.
SpinLoop(t) ==
    /\ pc[t] = "spin"
    /\ lock_value' = [lock_value EXCEPT ![t] = lockword]
    /\ Goto(t, "attempt")
    /\ UNCHANGED <<lockword, wait_cycles, identified, depth>>

\* The TryLockInternal calls inside SlowLock, with the cycles waited so far.
SlowTryLock(t) ==
    /\ pc[t] = "attempt"
    /\ TryLockInternal(t, wait_cycles[t], "loop")
    /\ UNCHANGED <<wait_cycles, identified>>

\* The head of SlowLock's while loop: mark the word first if nobody has.
Loop(t) ==
    /\ pc[t] = "loop"
    /\ Goto(t, IF lock_value[t].wait = 0 THEN "mark" ELSE "delay")
    /\ UNCHANGED <<lockword, lock_value, wait_cycles, identified, depth>>

\* The compare-exchange that sets kSpinLockSleeper, and the three ways it can fail:
\* the lock is free (try it), held and still unmarked (again), held and marked (sleep).
Mark(t) ==
    /\ pc[t] = "mark"
    /\ IF lockword = lock_value[t]
         THEN /\ lockword' = [lockword EXCEPT !.wait = 1]
              /\ lock_value' = [lock_value EXCEPT ![t].wait = 1]
              /\ Goto(t, "delay")
         ELSE /\ lock_value' = [lock_value EXCEPT ![t] = lockword]
              /\ Goto(t, IF lockword.held = 0 THEN "attempt"
                         ELSE IF lockword.wait = 0 THEN "loop"
                         ELSE "delay")
              /\ UNCHANGED lockword
    /\ UNCHANGED <<wait_cycles, identified, depth>>

\* SpinLockDelay: FUTEX_WAIT sleeps only if the word still is lock_value.
Delay(t) ==
    /\ pc[t] = "delay"
    /\ Goto(t, IF lockword = lock_value[t] THEN "asleep" ELSE "respin")
    /\ UNCHANGED <<lockword, lock_value, wait_cycles, identified, depth>>

SpuriousWakeup(t) ==
    /\ pc[t] = "asleep"
    /\ Goto(t, "respin")
    /\ UNCHANGED <<lockword, lock_value, wait_cycles, identified, depth>>

\* Mutant: a wait too short to measure is encoded as no wait at all.
EncodedZero == {0, 2}

\* What EncodeWaitCycles can return: never zero (see SpinLockCycles).
EncodeWaitCycles == {1, 2}

\* After the delay: SpinLoop again, and the time waited so far.
Respin(t) ==
    /\ pc[t] = "respin"
    /\ lock_value' = [lock_value EXCEPT ![t] = lockword]
    /\ \E c \in EncodeWaitCycles : wait_cycles' = [wait_cycles EXCEPT ![t] = c]
    /\ Goto(t, "attempt")
    /\ UNCHANGED <<lockword, identified, depth>>

\* Mutant: unlock() clears the held bit and keeps the others.
UnlockKeepsBits(t) ==
    /\ pc[t] = "held"
    /\ lockword' = [lockword EXCEPT !.held = 0]
    /\ depth' = [depth EXCEPT ![t] = @ - lockword.sched]
    /\ Goto(t, IF lockword.wait # 0 THEN "wake" ELSE "idle")
    /\ lock_value' = [lock_value EXCEPT ![t] = FreeWord]
    /\ wait_cycles' = [wait_cycles EXCEPT ![t] = 0]
    /\ UNCHANGED identified

\* Mutant: only a holder that waited itself wakes the next thread.
UnlockWakesIfWaited(t) ==
    /\ pc[t] = "held"
    /\ lockword' = FreeWord
    /\ depth' = [depth EXCEPT ![t] = @ - lockword.sched]
    /\ Goto(t, IF lockword.wait = 2 THEN "wake" ELSE "idle")
    /\ lock_value' = [lock_value EXCEPT ![t] = FreeWord]
    /\ wait_cycles' = [wait_cycles EXCEPT ![t] = 0]
    /\ UNCHANGED identified

\* unlock(): exchange the word for its cooperative bit, undo the scheduling guard the
\* word records, and call SlowUnlock if the word had wait bits.  SlowLock's locals are
\* gone by then.
Unlock(t) ==
    /\ pc[t] = "held"
    /\ lockword' = FreeWord
    /\ depth' = [depth EXCEPT ![t] = @ - lockword.sched]
    /\ Goto(t, IF lockword.wait # 0 THEN "wake" ELSE "idle")
    /\ lock_value' = [lock_value EXCEPT ![t] = FreeWord]
    /\ wait_cycles' = [wait_cycles EXCEPT ![t] = 0]
    /\ UNCHANGED identified

\* SlowUnlock: SpinLockWake(&lockword_, false) wakes one sleeper, if there is one.
SlowUnlock(t) ==
    /\ pc[t] = "wake"
    /\ \/ \E u \in Threads :
            /\ pc[u] = "asleep"
            /\ pc' = [pc EXCEPT ![t] = "idle", ![u] = "respin"]
       \/ /\ \A u \in Threads : pc[u] # "asleep"
          /\ Goto(t, "idle")
    /\ UNCHANGED <<lockword, lock_value, wait_cycles, identified, depth>>

\* The steps of a thread inside lock(), try_lock() or unlock(), and its unlock() call.
Step(t) ==
    \/ TryLockImpl(t)
    \/ SpinLoop(t)
    \/ SlowTryLock(t)
    \/ Loop(t)
    \/ Mark(t)
    \/ Delay(t)
    \/ Respin(t)
    \/ Unlock(t)
    \/ SlowUnlock(t)

Next == \E t \in Threads :
    Call(t) \/ CreateThreadIdentity(t) \/ SpuriousWakeup(t) \/ Step(t)

Spec == Init /\ [][Next]_vars

\* Threads inside the lock keep running and critical sections end.
Fairness == \A t \in Threads : WF_vars(Step(t))

FairSpec == Spec /\ Fairness
-----------------------------------------------------------------------------
\* Every variable has its type.
TypeOK ==
    /\ lockword \in Word
    /\ pc \in [Threads -> PC]
    /\ lock_value \in [Threads -> Word]
    /\ wait_cycles \in [Threads -> 0..2]
    /\ identified \subseteq Threads
    /\ depth \in [Threads -> {0, 1}]

\* At most one thread is past lock() or a successful try_lock(), although a caller takes
\* a returned value without kSpinLockHeld for success even if its compare-exchange failed.
MutualExclusion ==
    \A t, u \in Threads : pc[t] = "held" /\ pc[u] = "held" => t = u

\* spinlock.h: "if the lock is not held, the value is either 0 or kSpinLockCooperative".
FreeMeansClean == lockword.held = 0 => lockword = FreeWord

\* A thread that is responsible for the sleepers: it has waited, and will either mark the
\* word again or acquire the lock with wait bits that make its unlock() wake somebody.
Relay(t) ==
    \/ pc[t] = "respin"
    \/ pc[t] \in {"attempt", "loop", "mark", "delay"} /\ wait_cycles[t] # 0

\* While a thread sleeps, the holder's word has wait bits, or a wake is about to be made,
\* or a thread that was woken earlier will pass the wakeup on.
NoLostWakeup ==
    (\E t \in Threads : pc[t] = "asleep") =>
        \/ lockword.held = 1 /\ lockword.wait # 0
        \/ \E u \in Threads : pc[u] = "wake" \/ Relay(u)

\* DisableRescheduling and EnableRescheduling pair up through the word: a thread's depth
\* is what the word it holds says, and zero when it does not hold the lock, even if it
\* gets its identity while holding it.
SchedulingBalanced ==
    \A t \in Threads : depth[t] = IF pc[t] = "held" THEN lockword.sched ELSE 0

\* A sleeping thread is woken eventually, unless new callers keep arriving.
SleeperWakesUp ==
    \A t \in Threads :
        pc[t] = "asleep" ~>
            pc[t] # "asleep" \/ \E u \in Threads : pc[u] \in {"try", "trylock"}
=============================================================================

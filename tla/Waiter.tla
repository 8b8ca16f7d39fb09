------------------------------- MODULE Waiter -------------------------------
(***************************************************************************)
(* The semaphore of one thread, as PerThreadSem implements it on a futex   *)
(* (FutexWaiter), on a POSIX semaphore (SemWaiter) or on a mutex with a    *)
(* condition variable (PthreadWaiter, StdcppWaiter, Win32Waiter).  The     *)
(* owner waits, other threads post, and a ticker pokes the owner once it   *)
(* has waited so long that it should become idle.                          *)
(***************************************************************************)
EXTENDS Integers

CONSTANTS
    Impls,          \* the implementations considered: "futex", "sem", "condvar"
    Posters,        \* the threads that post
    IdlePeriods,    \* WaiterBase::kIdlePeriods
    MaxPosts,       \* bound: posts in all
    MaxSem          \* bound: sem_ is counted up to here

ASSUME WaiterAssumption ==
    /\ Impls \subseteq {"futex", "sem", "condvar"} /\ IdlePeriods \in Nat /\ MaxPosts \in Nat
    /\ MaxSem \in Nat \ {0}

VARIABLES
    impl,       \* Waiter::kMode, fixed when the library is built
    count,      \* futex_, wakeups_ or wakeup_count_
    sem,        \* the count of sem_ (SemWaiter)
    opc,        \* owner: "out", "check", "sleep" (found no wakeup), "asleep" (in the kernel)
    timed,      \* owner: "no", or the kind of its wait: "forever", "timed"
    first_pass, \* owner: "yes" until it has slept once
    waited,     \* ticker - wait_start, capped at IdlePeriods + 1
    is_idle,    \* "yes" or "no"
    blocked,    \* *blocked_count_ptr, the threads of the pool that are blocked
    ticked,     \* "no" while the ticker is still 0
    poster,     \* posters: "out", or "poke" between fetch_add and Poke()
    ticker,     \* the ticker: "out", or "poke" between its test and Poke()
    posts       \* posts so far

owner == <<opc, timed, first_pass, is_idle, blocked>>
semvars == <<impl, count, sem, owner, waited, ticked, poster, ticker, posts>>

SemInit ==
    /\ impl \in Impls
    /\ count = 0 /\ sem = 0 /\ posts = 0
    /\ opc = "out" /\ timed = "no" /\ first_pass = "yes"
    /\ waited = 0 /\ is_idle = "no" /\ blocked = 0 /\ ticked = "no"
    /\ poster = [p \in Posters |-> "out"] /\ ticker = "out"

\* AbslInternalPerThreadSemWait: wait_start is the ticker, or 1 if that is 0.
Wait ==
    /\ opc = "out" /\ opc' = "check"
    /\ timed' \in {"forever", "timed"}
    /\ first_pass' = "yes" /\ is_idle' = "no" /\ blocked' = blocked + 1
    /\ waited' = IF ticked = "no" THEN -1 ELSE 0
    /\ UNCHANGED <<count, sem, ticked, poster, ticker, posts>>

Return ==
    /\ opc' = "out" /\ timed' = "no" /\ is_idle' = "no" /\ first_pass' = "yes"
    /\ blocked' = blocked - 1

\* Mutant: the wait ends and the wakeup stays.
ConsumeNone ==
    /\ opc = "check" /\ count > 0
    /\ Return
    /\ UNCHANGED <<count, sem, waited, ticked, poster, ticker, posts>>

\* There is a wakeup: consume it.
Consume ==
    /\ opc = "check" /\ count > 0
    /\ count' = count - 1
    /\ Return
    /\ UNCHANGED <<sem, waited, ticked, poster, ticker, posts>>

MaybeBecomeIdle == IF first_pass = "no" /\ waited > IdlePeriods THEN "yes" ELSE is_idle

\* There is none. The owner goes on to sleep; a condition variable lets go of the mutex and
\* sleeps in one step.
FindNone ==
    /\ opc = "check" /\ count = 0
    /\ opc' = IF impl = "condvar" THEN "asleep" ELSE "sleep"
    /\ is_idle' = MaybeBecomeIdle
    /\ UNCHANGED <<count, sem, timed, first_pass, blocked, waited, ticked, poster, ticker, posts>>

Awake == opc' = "check" /\ first_pass' = "no" /\ UNCHANGED <<timed, is_idle, blocked>>

\* Mutant: the kernel is not told which value the owner has seen.
SleepBlindly ==
    /\ opc = "sleep" /\ opc' = "asleep"
    /\ UNCHANGED <<count, sem, timed, first_pass, is_idle, blocked, waited, ticked, poster, ticker, posts>>

\* The futex call compares futex_ with 0; sem_wait returns at once if there is a count.
Sleep ==
    /\ opc = "sleep"
    /\ IF impl = "futex" THEN count = 0 ELSE sem = 0
    /\ opc' = "asleep"
    /\ UNCHANGED <<count, sem, timed, first_pass, is_idle, blocked, waited, ticked, poster, ticker, posts>>

WouldBlock ==
    /\ impl = "futex" /\ opc = "sleep" /\ count # 0
    /\ Awake
    /\ UNCHANGED <<count, sem, waited, ticked, poster, ticker, posts>>

SemWait ==
    /\ impl = "sem" /\ opc \in {"sleep", "asleep"} /\ sem > 0
    /\ sem' = sem - 1
    /\ Awake
    /\ UNCHANGED <<count, waited, ticked, poster, ticker, posts>>

\* FUTEX_WAIT and condition variables may return without cause (EINTR); sem_wait is retried.
Spurious ==
    /\ impl # "sem" /\ opc = "asleep"
    /\ Awake
    /\ UNCHANGED <<count, sem, waited, ticked, poster, ticker, posts>>

TimesOut ==
    /\ opc = "asleep" /\ timed = "timed"
    /\ Return
    /\ UNCHANGED <<count, sem, waited, ticked, poster, ticker, posts>>

\* Poke(): one thread is woken, or the semaphore counts it.
Poke ==
    IF impl = "sem" THEN sem' = (IF sem < MaxSem THEN sem + 1 ELSE sem) /\ UNCHANGED owner
    ELSE /\ UNCHANGED sem
         /\ IF opc = "asleep" THEN Awake ELSE UNCHANGED owner

\* Post(): a poke follows if the count was 0; with a mutex it is the same critical section,
\* whatever the count, if the owner waits.
Post(p) ==
    /\ poster[p] = "out" /\ posts < MaxPosts
    /\ posts' = posts + 1 /\ count' = count + 1
    /\ poster' = [poster EXCEPT ![p] = IF count = 0 /\ impl # "condvar" THEN "poke" ELSE "out"]
    /\ IF impl = "condvar" THEN Poke ELSE UNCHANGED <<sem, owner>>
    /\ UNCHANGED <<waited, ticked, ticker>>

PostPokes(p) ==
    /\ poster[p] = "poke" /\ poster' = [poster EXCEPT ![p] = "out"]
    /\ Poke
    /\ UNCHANGED <<count, waited, ticked, ticker, posts>>

Cap(n) == IF n > IdlePeriods + 1 THEN IdlePeriods + 1 ELSE n

\* Mutant: a tick pokes in one tick only, the one that ends the period.
TickOnce ==
    /\ ticker = "out"
    /\ ticked' = "yes"
    /\ waited' = IF opc = "out" THEN waited ELSE Cap(waited + 1)
    /\ ticker' = IF opc # "out" /\ waited = IdlePeriods /\ is_idle = "no" THEN "poke" ELSE "out"
    /\ UNCHANGED <<count, sem, owner, poster, posts>>

\* PerThreadSem::Tick: the owner is poked when it waits and should become idle.
Tick ==
    /\ ticker = "out"
    /\ ticked' = "yes"
    /\ waited' = IF opc = "out" THEN waited ELSE Cap(waited + 1)
    /\ ticker' = IF opc # "out" /\ waited' > IdlePeriods /\ is_idle = "no" THEN "poke" ELSE "out"
    /\ UNCHANGED <<count, sem, owner, poster, posts>>

TickPokes ==
    /\ ticker = "poke" /\ ticker' = "out"
    /\ Poke
    /\ UNCHANGED <<count, waited, ticked, poster, posts>>

OwnerStep == Consume \/ FindNone \/ Sleep \/ WouldBlock \/ SemWait

SemNext ==
    /\ UNCHANGED impl
    /\ \/ Wait \/ OwnerStep \/ Spurious \/ TimesOut \/ Tick \/ TickPokes
       \/ \E p \in Posters : Post(p) \/ PostPokes(p)

SemSpec == SemInit /\ [][SemNext]_semvars

\* Running threads run on, and the ticker ticks forever.
SemFairSpec ==
    /\ SemSpec
    /\ WF_semvars(UNCHANGED impl /\ OwnerStep)
    /\ WF_semvars(UNCHANGED impl /\ (Tick \/ TickPokes))
    /\ \A p \in Posters : WF_semvars(UNCHANGED impl /\ PostPokes(p))
-----------------------------------------------------------------------------
SemTypeOK ==
    /\ impl \in {"futex", "sem", "condvar"}
    /\ count \in Nat /\ sem \in Nat /\ posts \in Nat
    /\ opc \in {"out", "check", "sleep", "asleep"}
    /\ blocked = IF opc = "out" THEN 0 ELSE 1
    /\ timed \in {"no", "forever", "timed"} /\ (timed = "no" <=> opc = "out")
    /\ waited \in Int /\ is_idle \in {"yes", "no"} /\ first_pass \in {"yes", "no"}
    /\ ticked \in {"yes", "no"} /\ ticker \in {"out", "poke"}
    /\ poster \in [Posters -> {"out", "poke"}]

\* Post() pokes only when it counts from 0 on: nevertheless the owner never sleeps on a
\* wakeup unless the poke is still to come.
NoMissedPost ==
    opc = "asleep" /\ count > 0 =>
        \/ \E p \in Posters : poster[p] = "poke"
        \/ impl = "sem" /\ sem > 0

\* Wait and Post are the operations of a semaphore: every Wait() that returns true has
\* taken one Post(), whatever the pokes, spurious wakeups and timeouts.
Abstract == INSTANCE Semaphore WITH waiting <- timed

ImplementsSemaphore == Abstract!Spec

\* An owner that keeps waiting becomes idle, although the poke of one tick may miss it.
BecomesIdle == [](opc # "out" ~> (opc = "out" \/ is_idle = "yes"))
=============================================================================

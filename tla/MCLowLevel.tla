----------------------------- MODULE MCLowLevel -----------------------------
(***************************************************************************)
(* What is below Mutex, and a flag's storage, for TLC.  SpinLock: a        *)
(* holder, a sleeper, and a third thread that arrives between the release  *)
(* and the wakeup.  Waiter: an owner, two posters and the ticker, for each *)
(* implementation.  A flag: the sequence lock of a trivially copyable      *)
(* value, and FlagImpl over a heap allocated one.  The times that waits    *)
(* measure and are given, at small widths: the wait-time encoding over     *)
(* every pair of clock readings, Duration and KernelTimeout.  They share   *)
(* no state, so the one called `which` runs and the others stay in their   *)
(* initial state.                                                          *)
(***************************************************************************)
EXTENDS SpinLock, Waiter, SequenceLock, Flag

CONSTANTS WordBits, kProfileTimestampShift, MaxTime,
          HiBits, LoBits, kTicksPerNanosecond, NanosPerSecond, FastNanos, SecondsPerMinute,
          TimeTBits, kNanosInMillis, NanosInMicro, DWordBits, Unset

VARIABLES
    which,
    wait_start_time, wait_end_time,
    d_value, d_exact,
    k_rep, k_steady, k_wall, k_deadline

C == INSTANCE SpinLockCycles

D == INSTANCE Duration WITH d <- d_value, exact <- d_exact

\* A time_t as wide as an int64_t.
K == INSTANCE KernelTimeout WITH TimeTBits <- HiBits, rep_ <- k_rep, steady <- k_steady,
        wall <- k_wall, deadline <- k_deadline

cVars == <<wait_start_time, wait_end_time>>
dVars == <<d_value, d_exact>>
kVars == <<k_rep, k_steady, k_wall, k_deadline>>
timeVars == <<cVars, dVars, kVars>>
flagStorage == <<seqvars, flagvars>>

AllInit ==
    /\ which \in {"SpinLock", "Waiter", "SequenceLock", "FlagImpl",
                  "wait cycles", "Duration", "KernelTimeout"}
    /\ Init /\ SemInit /\ SeqInit /\ FlagInit /\ C!Init /\ D!Init /\ K!Init
    /\ which # "Waiter" => impl = CHOOSE i \in Impls : TRUE
    /\ which # "wait cycles" => wait_start_time = 0

AllNext ==
    /\ UNCHANGED which
    /\ \/ which = "SpinLock" /\ Next /\ UNCHANGED <<semvars, flagStorage, timeVars>>
       \/ which = "Waiter" /\ SemNext /\ UNCHANGED <<vars, flagStorage, timeVars>>
       \/ which = "SequenceLock" /\ SeqNext /\ UNCHANGED <<vars, semvars, flagvars, timeVars>>
       \/ which = "FlagImpl" /\ FlagNext /\ UNCHANGED <<vars, semvars, seqvars, timeVars>>
       \/ /\ UNCHANGED <<vars, semvars, flagStorage>>
          /\ \/ which = "wait cycles" /\ C!Next /\ UNCHANGED <<dVars, kVars>>
             \/ which = "Duration" /\ D!Next /\ UNCHANGED <<cVars, kVars>>
             \/ which = "KernelTimeout" /\ K!Next /\ UNCHANGED <<cVars, dVars>>

\* The fairness of SpinLock, Waiter and Flag (Fairness, SemFairSpec, FlagFairness), each where
\* it runs, for the ticker of Waiter can tick in its initial state too.
AllFairness ==
    /\ \A t \in Threads : WF_vars(which = "SpinLock" /\ Step(t))
    /\ WF_semvars(which = "Waiter" /\ UNCHANGED impl /\ OwnerStep)
    /\ WF_semvars(which = "Waiter" /\ UNCHANGED impl /\ (Tick \/ TickPokes))
    /\ \A p \in Posters : WF_semvars(which = "Waiter" /\ UNCHANGED impl /\ PostPokes(p))
    /\ \A t \in Callers : WF_flagvars(which = "FlagImpl" /\ FlagStep(t))

AllSpec ==
    /\ AllInit /\ [][AllNext]_<<which, vars, semvars, flagStorage, timeVars>>
    /\ AllFairness
-----------------------------------------------------------------------------
\* EncodeWaitCycles and DecodeWaitCycles: a thread that waited always leaves wait bits in the
\* word, and only there, even when the clock ran backwards; a measured wait is never mistaken
\* for the bare kSpinLockSleeper; what is decoded is the elapsed time, within the field.
\* Duration: what the operators and the conversions compute is exact or saturated, after any
\* sequence of them.  KernelTimeout: the kernel is given the deadline that was asked for,
\* wherever the clocks have gone since: exactly in nanoseconds, rounded up by less than a unit
\* in milliseconds or INFINITE where a DWord cannot hold it, and cut off by less than a
\* microsecond, which is early, by ToChronoTimePoint.
TimesExact ==
    /\ which = "wait cycles" =>
          C!EncodingIsWaitBits /\ C!SleeperMeansUnmeasured /\ C!DecodedIsElapsed
    /\ which = "Duration" =>
          /\ D!ArithmeticExact /\ D!OrderExact /\ D!DivisionExact
          /\ D!RoundingExact /\ D!ConversionsExact
    /\ which = "KernelTimeout" => K!TimeoutsExact
=============================================================================

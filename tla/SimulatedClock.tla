---------------------------- MODULE SimulatedClock ----------------------------
(***************************************************************************)
(* SimulatedClock: AwaitWithDeadline by callers that each hold a mutex of  *)
(* their own, and UpdateTime (SetTime, AdvanceTime) and the destructor by  *)
(* threads that wake them.  A caller may destroy its mutex as soon as      *)
(* AwaitWithDeadline has returned.                                         *)
(***************************************************************************)
EXTENDS Naturals

CONSTANTS Callers, Clocks, None,
    MaxTime   \* bound on times

VARIABLES
    now_, waiters_, alive,             \* the clock: the callers in its list, whether it exists
    deadline, cond, mu, destroyed,     \* of a caller: arguments, holder of its mutex, the mutex gone
    passed, cancelled, called,         \* its WakeUpInfo, each 0 or 1
    pc,                                \* of callers and of the threads that update the clock
    wakeup_calls, waking               \* of an updating thread: callers to wake, the one at hand

vars == <<now_, waiters_, alive, deadline, cond, mu, destroyed, passed, cancelled, called,
          pc, wakeup_calls, waking>>
clock == <<now_, waiters_, alive>>
wake == <<passed, cancelled, called>>

Times == 0..MaxTime

Init ==
    /\ now_ = 0 /\ waiters_ = {} /\ alive = 1
    /\ deadline \in [Callers -> Times] /\ cond = [c \in Callers |-> 0]
    /\ mu = [c \in Callers |-> None] /\ destroyed = {}
    /\ passed = [c \in Callers |-> 0] /\ cancelled = [c \in Callers |-> 0]
    /\ called = [c \in Callers |-> 0]
    /\ pc = [t \in Callers \cup Clocks |-> "start"]
    /\ wakeup_calls = [t \in Clocks |-> {}] /\ waking = [t \in Clocks |-> None]

To(t, l) == pc' = [pc EXCEPT ![t] = l]
Ready(c) == passed[c] = 1 \/ cond[c] = 1

\* Somebody else makes the condition true or false, under the mutex.
SetCond(c, v) ==
    /\ mu[c] = None /\ c \notin destroyed /\ cond[c] # v
    /\ cond' = [cond EXCEPT ![c] = v]
    /\ UNCHANGED <<clock, deadline, mu, destroyed, wake, pc, wakeup_calls, waking>>

Lock(c) ==
    /\ pc[c] = "start" /\ alive = 1 /\ mu[c] = None
    /\ mu' = [mu EXCEPT ![c] = c] /\ To(c, "call")
    /\ UNCHANGED <<clock, deadline, cond, destroyed, wake, wakeup_calls, waking>>

\* AwaitWithDeadline up to the release of lock_.
AwaitWithDeadline(c) ==
    /\ pc[c] = "call"
    /\ IF deadline[c] <= now_ \/ cond[c] = 1
       THEN To(c, "return") /\ UNCHANGED waiters_
       ELSE To(c, "await") /\ waiters_' = waiters_ \cup {c}
    /\ UNCHANGED <<now_, alive, deadline, cond, mu, destroyed, wake, wakeup_calls, waking>>

\* Mutex::Await on a condition that is false gives the mutex up.
Block(c) ==
    /\ pc[c] = "await" /\ ~Ready(c)
    /\ mu' = [mu EXCEPT ![c] = None] /\ To(c, "blocked")
    /\ UNCHANGED <<clock, deadline, cond, destroyed, wake, wakeup_calls, waking>>

AwaitConditionOrWakeUp(c) ==
    /\ pc[c] \in {"await", "blocked"} /\ Ready(c) /\ mu[c] \in {c, None}
    /\ mu' = [mu EXCEPT ![c] = c] /\ To(c, "cancel")
    /\ UNCHANGED <<clock, deadline, cond, destroyed, wake, wakeup_calls, waking>>

\* Mutant of CancelOrAwaitWakeUp: a wakeup under way is not waited for.
CancelOnly(c) ==
    /\ pc[c] = "cancel"
    /\ cancelled' = [cancelled EXCEPT ![c] = 1]
    /\ To(c, "return") /\ UNCHANGED mu
    /\ UNCHANGED <<clock, deadline, cond, destroyed, passed, called, wakeup_calls, waking>>

\* CancelOrAwaitWakeUp; its Await gives the mutex up.
CancelOrAwaitWakeUp(c) ==
    /\ pc[c] = "cancel"
    /\ cancelled' = [cancelled EXCEPT ![c] = 1]
    /\ IF called[c] = 1 /\ passed[c] = 0
       THEN To(c, "await_wakeup") /\ mu' = [mu EXCEPT ![c] = None]
       ELSE To(c, "return") /\ UNCHANGED mu
    /\ UNCHANGED <<clock, deadline, cond, destroyed, passed, called, wakeup_calls, waking>>

AwaitWakeUp(c) ==
    /\ pc[c] = "await_wakeup" /\ passed[c] = 1 /\ mu[c] = None
    /\ mu' = [mu EXCEPT ![c] = c] /\ To(c, "return")
    /\ UNCHANGED <<clock, deadline, cond, destroyed, wake, wakeup_calls, waking>>

\* The caller unlocks its mutex and destroys it.
Return(c) ==
    /\ pc[c] = "return"
    /\ mu' = [mu EXCEPT ![c] = None] /\ destroyed' = destroyed \cup {c} /\ To(c, "returned")
    /\ UNCHANGED <<clock, deadline, cond, wake, wakeup_calls, waking>>

\* UpdateTime up to the release of lock_.
UpdateTime(t, time) ==
    /\ pc[t] = "start" /\ alive = 1
    /\ LET due == {c \in waiters_ : deadline[c] <= time}
       IN  waiters_' = waiters_ \ due /\ wakeup_calls' = [wakeup_calls EXCEPT ![t] = due]
    /\ now_' = time /\ To(t, "wake")
    /\ UNCHANGED <<alive, deadline, cond, mu, destroyed, wake, waking>>

\* The destructor, which nobody may call while somebody uses the clock: it takes all waiters.
Destruct(t) ==
    /\ pc[t] = "start" /\ alive = 1
    /\ \A c \in Callers : pc[c] # "call"
    /\ alive' = 0 /\ waiters_' = {} /\ wakeup_calls' = [wakeup_calls EXCEPT ![t] = waiters_]
    /\ To(t, "wake")
    /\ UNCHANGED <<now_, deadline, cond, mu, destroyed, wake, waking>>

\* WakeUpInfo::WakeUp, under cancellation_mu_ ...
WakeUp(t, c) ==
    /\ pc[t] = "wake" /\ c \in wakeup_calls[t]
    /\ wakeup_calls' = [wakeup_calls EXCEPT ![t] = @ \ {c}]
    /\ IF cancelled[c] = 1
       THEN UNCHANGED <<called, waking, pc>>
       ELSE /\ called' = [called EXCEPT ![c] = 1]
            /\ waking' = [waking EXCEPT ![t] = c] /\ To(t, "waking")
    /\ UNCHANGED <<clock, deadline, cond, mu, destroyed, passed, cancelled>>

\* ... and then under the caller's mutex.
SetPassed(t) ==
    /\ pc[t] = "waking" /\ mu[waking[t]] = None
    /\ passed' = [passed EXCEPT ![waking[t]] = 1]
    /\ waking' = [waking EXCEPT ![t] = None] /\ To(t, "wake")
    /\ UNCHANGED <<clock, deadline, cond, mu, destroyed, cancelled, called, wakeup_calls>>

\* The call is over and the thread may make another.
Updated(t) ==
    /\ pc[t] = "wake" /\ wakeup_calls[t] = {} /\ To(t, "start")
    /\ UNCHANGED <<clock, deadline, cond, mu, destroyed, wake, wakeup_calls, waking>>

CallerStep(c) ==
    \/ AwaitWithDeadline(c) \/ Block(c) \/ AwaitConditionOrWakeUp(c)
    \/ CancelOrAwaitWakeUp(c) \/ AwaitWakeUp(c) \/ Return(c)

ClockStep(t) == SetPassed(t) \/ Updated(t) \/ \E c \in Callers : WakeUp(t, c)

Next ==
    \/ \E c \in Callers : Lock(c) \/ CallerStep(c) \/ \E v \in 0..1 : SetCond(c, v)
    \/ \E t \in Clocks : ClockStep(t) \/ Destruct(t) \/ \E time \in Times : UpdateTime(t, time)

\* A thread in a call goes on.  Nobody has to make a call, or to change a condition.
Fairness ==
    /\ \A c \in Callers : SF_vars(CallerStep(c))
    /\ \A t \in Clocks : SF_vars(ClockStep(t))
-----------------------------------------------------------------------------
\* Whoever wakes a caller does not touch a mutex that the caller, back from AwaitWithDeadline,
\* has destroyed.
MutexOutlivesWakeUp == \A t \in Clocks : waking[t] # None => waking[t] \notin destroyed

\* A caller that is not, or not rightly, in the list returns or gets there: nobody whose time has
\* come, or whose clock has been destroyed, waits on.
AwaitReturns ==
    \A c \in Callers :
        LET waits == c \in waiters_ /\ deadline[c] > now_
        IN  pc[c] \notin {"start", "returned"} /\ ~waits ~> (pc[c] = "returned" \/ waits)
=============================================================================

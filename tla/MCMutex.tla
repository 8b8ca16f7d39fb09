------------------------------ MODULE MCMutex ------------------------------
(***************************************************************************)
(* Mutex and CondVar for TLC.  A scenario, fixed in the initial state,     *)
(* says which calls the threads make.                                      *)
(*                                                                         *)
(* Safety (AllSpec): locks of all kinds by four threads; waits that time   *)
(* out; waits on a CondVar, and these with locks that time out.  In all    *)
(* but the first, three of the four threads are active at any time.  The   *)
(* last scenario is the circular list of waiters with its skips alone.     *)
(*                                                                         *)
(* Liveness (LiveSpec): locks of all kinds; conditional locks that compete *)
(* by priority; waits on a CondVar.                                        *)
(***************************************************************************)
EXTENDS CondVar, TLC

VARIABLES
    scenario,
    q_q, q_waitp, q_true, q_phase, q_w, q_pw, q_old_h, q_w_walk, q_pw_walk

Op(h, c, t) == [how |-> h, cond |-> c, timed |-> t, try |-> FALSE]

Lock           == Op("kExclusive", "null", FALSE)
LockWhen       == Op("kExclusive", "set", FALSE)
LockUnless     == Op("kExclusive", "clear", FALSE)
TimedLock      == Op("kExclusive", "null", TRUE)
TimedLockWhen  == Op("kExclusive", "set", TRUE)
ReaderLock     == Op("kShared", "null", FALSE)
ReaderLockWhen == Op("kShared", "set", FALSE)
ReaderTryLock  == [ReaderLock EXCEPT !.try = TRUE]

PlainOps == {Lock, ReaderLock, LockWhen, ReaderLockWhen}
LiveOps == {Lock, ReaderLock, ReaderTryLock, TimedLockWhen, ReaderLockWhen}

EqualPriority == [t \in Threads |-> 0]
OneAbove == [t \in Threads |-> IF t = CHOOSE u \in Threads : TRUE THEN 1 ELSE 0]
Symmetry == Permutations(Threads)
-----------------------------------------------------------------------------
TimedCalls == INSTANCE CondVar WITH Ops <- {ReaderLock, TimedLockWhen}
CvCalls == INSTANCE CondVar WITH Ops <- {Lock, ReaderLockWhen}, MaxCalls <- MaxCalls + 1
TimedCvCalls == INSTANCE CondVar WITH Ops <- {TimedLock, ReaderLockWhen}

ThreeActive == "idle" \in {pc'[t] : t \in Threads}

\* Waiters for one condition, readers and writers, and unconditional writers of two priorities.
Params == [how : {"kShared", "kExclusive"}, cond : {"c"}, priority : {0}]
          \cup [how : {"kExclusive"}, cond : {"null"}, priority : {0, 1}]

Q == INSTANCE MuQueue WITH Waiters <- Threads, None <- NoThread, q <- q_q, waitp <- q_waitp,
        true <- q_true, phase <- q_phase, w <- q_w, pw <- q_pw, old_h <- q_old_h,
        w_walk <- q_w_walk, pw_walk <- q_pw_walk

qVars == <<q_q, q_waitp, q_true, q_phase, q_w, q_pw, q_old_h, q_w_walk, q_pw_walk>>

InitIn(scenarios) ==
    /\ Init /\ Q!Init /\ scenario \in scenarios
    /\ scenario # "queue" => q_waitp = [t \in Threads |-> CHOOSE p \in Params : TRUE]

AllInit == InitIn({"plain", "timed", "condvar", "timed condvar", "queue"})

AllNext ==
    /\ UNCHANGED scenario
    /\ \/ scenario = "plain" /\ Next /\ UNCHANGED qVars
       \/ scenario = "timed" /\ TimedCalls!Next /\ ThreeActive /\ UNCHANGED qVars
       \/ scenario = "condvar" /\ CvCalls!CvNext /\ ThreeActive /\ UNCHANGED qVars
       \/ scenario = "timed condvar" /\ TimedCvCalls!CvNext /\ ThreeActive /\ UNCHANGED qVars
       \/ scenario = "queue" /\ Q!Next /\ UNCHANGED vars

AllSpec == AllInit /\ [][AllNext]_<<vars, scenario, qVars>>

\* No ABSL_RAW_CHECK of the queue code ever fails, and no walk goes past its end although
\* others enqueue behind it.
NoCheckFails == Q!NoCheckFails

\* The invariant stated above Skip(): a skip leads to a waiter later in the queue, over
\* equivalent waiters only.
SkipInvariant == Q!SkipInvariant

\* The circular list, its skips and the search of UnlockSlow implement a plain queue: the
\* unlocker wakes exactly the waiters that queue promises, skips or no skips.  (This is
\* Q!ImplementsWaiterQueue: the other scenarios leave the list alone.)
ImplementsWaiterQueue ==
    /\ Q!Abstract!Init
    /\ [][scenario = "queue" => [Q!Abstract!Next]_(Q!Abstract!vars)]_qVars
-----------------------------------------------------------------------------
PriorityCalls == INSTANCE CondVar WITH Ops <- {Lock, LockUnless, ReaderLockWhen}, MaxCalls <- MaxCalls + 1
TimedSignals == INSTANCE CondVar WITH Ops <- {TimedLock}, MaxCalls <- MaxCalls + 2

LiveInit == InitIn({"plain", "priority", "condvar"})

LiveNext ==
    /\ UNCHANGED <<scenario, qVars>>
    /\ \/ scenario = "plain" /\ Next
       \/ scenario = "priority" /\ PriorityCalls!Next
       \/ scenario = "condvar" /\ TimedSignals!CvNext

LiveSpec == LiveInit /\ [][LiveNext]_<<vars, scenario, qVars>> /\ CvFairness
=============================================================================

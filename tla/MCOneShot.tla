----------------------------- MODULE MCOneShot -----------------------------
(***************************************************************************)
(* The objects that are used once, for TLC: call_once, Barrier,            *)
(* BlockingCounter, Notification and a wait on a SimulatedClock.  They     *)
(* share no code, so the one called `which` runs and the others stay in    *)
(* their initial state.                                                    *)
(***************************************************************************)
EXTENDS CallOnce, FiniteSets

CONSTANTS Team, Waiter, NoThread, Sleepers, Clocks, MaxTime

\* A finite team; a Notification has an observer; the threads that update a clock do not wait.
ASSUME OneShotAssumption ==
    /\ IsFiniteSet(Team) /\ Threads # {}
    /\ Waiter \notin Team \cup Threads /\ Sleepers \cap Clocks = {}
    /\ NoThread \notin {Waiter} \cup Team \cup Threads \cup Sleepers

VARIABLES
    which,
    b_lock, b_to_block, b_to_exit, b_pc, b_deleted,
    c_count, c_done, c_waiting, c_lock, c_pc, c_destroyed,
    n_notified, n_lock, n_pc, n_told, n_destroyed,
    s_now, s_waiters, s_alive, s_deadline, s_cond, s_mu, s_destroyed, s_passed, s_cancelled,
    s_called, s_pc, s_calls, s_waking

B == INSTANCE Barrier WITH Threads <- Team, lock <- b_lock, num_to_block <- b_to_block,
        num_to_exit <- b_to_exit, pc <- b_pc, deleted <- b_deleted

C == INSTANCE BlockingCounter WITH Workers <- Team, count <- c_count, done <- c_done,
        num_waiting <- c_waiting, lock <- c_lock, pc <- c_pc, destroyed <- c_destroyed

N == INSTANCE Notification WITH Observers <- Threads, Notifier <- Waiter,
        notified_yet <- n_notified, lock <- n_lock, pc <- n_pc, told <- n_told,
        destroyed <- n_destroyed

S == INSTANCE SimulatedClock WITH Callers <- Sleepers, None <- NoThread, now_ <- s_now,
        waiters_ <- s_waiters, alive <- s_alive, deadline <- s_deadline, cond <- s_cond,
        mu <- s_mu, destroyed <- s_destroyed, passed <- s_passed, cancelled <- s_cancelled,
        called <- s_called, pc <- s_pc, wakeup_calls <- s_calls, waking <- s_waking

bVars == <<b_lock, b_to_block, b_to_exit, b_pc, b_deleted>>
cVars == <<c_count, c_done, c_waiting, c_lock, c_pc, c_destroyed>>
nVars == <<n_notified, n_lock, n_pc, n_told, n_destroyed>>
sVars == <<s_now, s_waiters, s_alive, s_deadline, s_cond, s_mu, s_destroyed, s_passed,
           s_cancelled, s_called, s_pc, s_calls, s_waking>>
allVars == <<which, vars, bVars, cVars, nVars, sVars>>

AllInit ==
    /\ which \in {"call_once", "Barrier", "BlockingCounter", "Notification", "SimulatedClock"}
    /\ Init /\ B!Init /\ C!Init /\ N!Init /\ S!Init
    /\ which # "BlockingCounter" => c_count = 0
    /\ which # "Notification" => ~n_notified
    /\ which # "SimulatedClock" => s_deadline = [t \in Sleepers |-> 0]

AllNext ==
    /\ UNCHANGED which
    /\ \/ which = "call_once" /\ Next /\ UNCHANGED <<bVars, cVars, nVars, sVars>>
       \/ which = "Barrier" /\ B!Next /\ UNCHANGED <<vars, cVars, nVars, sVars>>
       \/ which = "BlockingCounter" /\ C!Next /\ UNCHANGED <<vars, bVars, nVars, sVars>>
       \/ which = "Notification" /\ N!Next /\ UNCHANGED <<vars, bVars, cVars, sVars>>
       \/ which = "SimulatedClock" /\ S!Next /\ UNCHANGED <<vars, bVars, cVars, nVars>>

\* The fairness of the component that runs; Fairness itself is that of call_once.
OneFairness ==
    /\ \A t \in Team : WF_bVars(which = "Barrier" /\ B!Step(t))
    /\ WF_cVars(which = "BlockingCounter" /\ C!Next)
    /\ SF_nVars(which = "Notification" /\ N!Notify)
    /\ WF_nVars(which = "Notification" /\ (N!Store \/ N!Destroy))
    /\ \A t \in N!Parties : WF_nVars(which = "Notification" /\ N!Unlock(t))
    /\ \A t \in Threads : /\ WF_nVars(which = "Notification" /\ N!Look(t))
                          /\ SF_nVars(which = "Notification" /\ N!LockWhen(t, FALSE))
    /\ \A t \in Sleepers : SF_sVars(which = "SimulatedClock" /\ S!CallerStep(t))
    /\ \A t \in Clocks : SF_sVars(which = "SimulatedClock" /\ S!ClockStep(t))

AllSpec == AllInit /\ [][AllNext]_allVars /\ Fairness /\ OneFairness
-----------------------------------------------------------------------------
\* Who may destroy the object may do so: the thread that Barrier::Block returned true to is
\* alone with it, "When Wait() returns, it is legal to destroy the BlockingCounter", and an
\* observer told of a Notification may destroy it although Notify() is still running.  A mutex
\* passed to SimulatedClock::AwaitWithDeadline "can be destroyed any time after" it returns.
SafeToDestroy == B!SafeToDelete /\ C!SafeToDestroy /\ N!SafeToDestroy /\ S!MutexOutlivesWakeUp

\* Everybody gets out of Barrier::Block and one thread deletes the barrier;
\* BlockingCounter::Wait returns; every observer of a Notification is told;
\* AwaitWithDeadline returns when its time has come or the clock is destroyed.
EverybodyReturns ==
    /\ which = "Barrier" => B!AllReturn
    /\ which = "BlockingCounter" => C!WaitReturns
    /\ which = "Notification" => N!AllTold
    /\ which = "SimulatedClock" => S!AwaitReturns
=============================================================================

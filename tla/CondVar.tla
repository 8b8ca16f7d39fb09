------------------------------- MODULE CondVar -------------------------------
(***************************************************************************)
(* absl::CondVar over the Mutex: Wait with and without timeout, Signal and *)
(* SignalAll, and the hand-over of a signalled waiter to the mutex queue   *)
(* (Mutex::Fer) and back (Mutex::Trans).  cv is the CondVar's list from    *)
(* its first to its last waiter.  kCvSpin protects only steps that touch   *)
(* nothing but the list, so each is one step here.  A signaller holds the  *)
(* threads it took off the list in its wake_list until Fer disposes of     *)
(* them.  It is a thread that does not hold the mutex; one that does is    *)
(* covered, since Fer only looks at the word.                              *)
(***************************************************************************)
EXTENDS Mutex

\* Wait, WaitWithTimeout: WaitCommon releases the mutex with a waitp that names the
\* CondVar; UnlockSlow queues the thread.
CvWait(t) ==
    /\ pc[t] = "cs" /\ calls < MaxCalls
    /\ timed' \in {[timed EXCEPT ![t] = op.timed] : op \in Ops}
    /\ requeue' = requeue \cup {t} /\ cv_word' = cv_word \cup {t}
    /\ calls' = calls + 1
    /\ Goto(t, "unlock")
    /\ UNCHANGED <<word, waiters, cv, sem, how, cond, blocked, local, wake_list, flag>>

\* Mutant: the mutex is taken again as by a thread that never waited.
ReacquireAfresh(t) ==
    /\ pc[t] = "cvwait" /\ ~Queued(t)
    /\ timed' = [timed EXCEPT ![t] = FALSE]
    /\ Goto(t, "fast")
    /\ UNCHANGED <<word, waiters, cv, sem, how, cond, cv_word, blocked, requeue, local, wake_list, rest>>

\* The waiter is no longer queued anywhere: Trans takes the mutex again.
Trans(t) ==
    /\ pc[t] = "cvwait" /\ ~Queued(t)
    /\ blocked' = blocked \cup {t}
    /\ timed' = [timed EXCEPT ![t] = FALSE]
    /\ Goto(t, "fast")
    /\ UNCHANGED <<word, waiters, cv, sem, how, cond, cv_word, requeue, local, wake_list, rest>>

\* DecrementSynchSem times out: no timeout from now on, and...
CvTimesOut(t) ==
    /\ pc[t] = "cvwait" /\ Queued(t) /\ timed[t]
    /\ timed' = [timed EXCEPT ![t] = FALSE]
    /\ Goto(t, "cvremove")
    /\ UNCHANGED <<word, waiters, cv, sem, how, cond, cv_word, blocked, requeue, local, wake_list, rest>>

\* ... CondVar::Remove takes the thread off the list, if it is still there.
CvRemove(t) ==
    /\ pc[t] = "cvremove"
    /\ cv' = RemoveFirst(cv, t)
    /\ Goto(t, "cvwait")
    /\ UNCHANGED <<word, waiters, sem, waitp, cv_word, blocked, requeue, local, wake_list, rest>>

\* Mutant: the signalled waiter stays on the list.
SignalKeeps(t) ==
    /\ pc[t] = "idle" /\ calls < MaxCalls /\ cv # <<>>
    /\ wake_list' = [wake_list EXCEPT ![t] = <<Head(cv)>>]
    /\ calls' = calls + 1
    /\ Goto(t, "fer")
    /\ UNCHANGED <<word, waiters, cv, sem, waitp, cv_word, blocked, requeue, local, flag>>

\* Signal takes the first waiter off the list, SignalAll all of them.
Signal(t) ==
    /\ pc[t] = "idle" /\ calls < MaxCalls /\ cv # <<>>
    /\ \/ cv' = Tail(cv) /\ wake_list' = [wake_list EXCEPT ![t] = <<Head(cv)>>]
       \/ cv' = <<>> /\ wake_list' = [wake_list EXCEPT ![t] = cv]
    /\ calls' = calls + 1
    /\ Goto(t, "fer")
    /\ UNCHANGED <<word, waiters, sem, waitp, cv_word, blocked, requeue, local, flag>>

\* The lock bits that keep the thread at the head of t's list from taking the mutex.
Conflicting(t) ==
    {"kMuWriter"} \cup (IF how[Head(wake_list[t])] = "kShared" THEN {} ELSE {"kMuReader"})

\* What the signaller does after it has disposed of one thread.
NextFer(t) ==
    /\ wake_list' = [wake_list EXCEPT ![t] = Tail(@)]
    /\ Goto(t, IF Tail(wake_list[t]) = <<>> THEN "idle" ELSE "fer")

\* Fer: nothing conflicts; make the thread available...
FerWake(t) ==
    /\ pc[t] = "fer" /\ mu \cap Conflicting(t) = {}
    /\ local' = [local EXCEPT ![t].w = Head(wake_list[t])]
    /\ wake_list' = [wake_list EXCEPT ![t] = Tail(@)]
    /\ Goto(t, "ferpost")
    /\ UNCHANGED <<word, waiters, cv, sem, waitp, cv_word, blocked, requeue, rest>>

\* ... and post to its semaphore.
FerPost(t) ==
    /\ pc[t] = "ferpost"
    /\ sem' = [sem EXCEPT ![local[t].w] = @ + 1]
    /\ local' = [local EXCEPT ![t] = NoLocal]
    /\ Goto(t, IF wake_list[t] = <<>> THEN "idle" ELSE "fer")
    /\ UNCHANGED <<word, waiters, cv, waitp, cv_word, blocked, requeue, wake_list, rest>>

\* Mutant: the thread becomes the only waiter without kMuWait being set.
FerOnlyWaiterUnlinked(t) ==
    /\ pc[t] = "fer" /\ mu \cap Conflicting(t) # {}
    /\ mu \cap {"kMuSpin", "kMuWait"} = {}
    /\ queue' = <<Head(wake_list[t])>> /\ readers' = count /\ count' = 0
    /\ maybe_unlocking' = FALSE /\ wake' = wake \ {Head(wake_list[t])}
    /\ NextFer(t)
    /\ UNCHANGED <<mu, cv, sem, waitp, cv_word, blocked, requeue, local, rest>>

\* Fer: the mutex is held and has no waiters; the thread becomes the only one.
FerOnlyWaiter(t) ==
    /\ pc[t] = "fer" /\ mu \cap Conflicting(t) # {}
    /\ mu \cap {"kMuSpin", "kMuWait"} = {}
    /\ queue' = <<Head(wake_list[t])>> /\ readers' = count /\ count' = 0
    /\ maybe_unlocking' = FALSE /\ wake' = wake \ {Head(wake_list[t])}
    /\ mu' = mu \cup {"kMuWait"}
    /\ NextFer(t)
    /\ UNCHANGED <<cv, sem, waitp, cv_word, blocked, requeue, local, rest>>

\* Mutant: the thread is queued on the mutex whether or not somebody holds it.
FerQueueAlways(t) ==
    /\ pc[t] = "fer"
    /\ "kMuSpin" \notin mu /\ "kMuWait" \in mu
    /\ mu' = mu \cup {"kMuSpin"}
    /\ Goto(t, "ferspin")
    /\ UNCHANGED <<count, waiters, cv, sem, waitp, cv_word, blocked, requeue, local, wake_list, rest>>

\* Fer: the mutex is held and has waiters; take the spin bit...
FerSpin(t) ==
    /\ pc[t] = "fer" /\ mu \cap Conflicting(t) # {}
    /\ "kMuSpin" \notin mu /\ "kMuWait" \in mu
    /\ mu' = mu \cup {"kMuSpin"}
    /\ Goto(t, "ferspin")
    /\ UNCHANGED <<count, waiters, cv, sem, waitp, cv_word, blocked, requeue, local, wake_list, rest>>

\* ... enqueue the thread, and release the spin bit.
FerEnqueue(t) ==
    /\ pc[t] = "ferspin"
    /\ queue' = Enqueue(queue, Head(wake_list[t]), FALSE, maybe_unlocking)
    /\ wake' = wake \ {Head(wake_list[t])}
    /\ mu' = (mu \ {"kMuSpin"}) \cup {"kMuWait"}
    /\ NextFer(t)
    /\ UNCHANGED <<count, readers, maybe_unlocking, cv, sem, waitp, cv_word, blocked, requeue, local, rest>>

CvStep(t) ==
    \/ Trans(t) \/ CvRemove(t) \/ FerWake(t) \/ FerPost(t)
    \/ FerOnlyWaiter(t) \/ FerSpin(t) \/ FerEnqueue(t)

CvNext ==
    \/ Next
    \/ \E t \in Threads : CvStep(t) \/ CvWait(t) \/ Signal(t) \/ CvTimesOut(t)

CvSpec == Init /\ [][CvNext]_vars

\* Threads inside the Mutex or the CondVar keep running and critical sections end.
CvFairness == \A t \in Threads : WF_vars(Step(t) \/ CvStep(t))
-----------------------------------------------------------------------------
\* A thread is on one queue at most, and once: Fer, Remove, TryRemove and the unlockers
\* never disagree about where it is.
OnOneQueue ==
    /\ IsInjective(queue) /\ IsInjective(cv) /\ Range(queue) \cap Range(cv) = {}
    /\ \A t \in Threads :
          /\ IsInjective(wake_list[t])
          /\ Range(wake_list[t]) \cap (Range(queue) \cup Range(cv)) = {}
          /\ \A u \in Threads \ {t} : Range(wake_list[t]) \cap Range(wake_list[u]) = {}

\* If callers stop calling, every thread returns, or waits on the CondVar for a signal, or
\* waits for a condition that is false: a signal is never lost between the two queues.
Settles ==
    <>[](\A t \in Threads :
            \/ pc[t] = "idle"
            \/ pc[t] = "cvwait" /\ t \in Range(cv)
            \/ pc[t] = "block" /\ ~Eval(cond[t]))
=============================================================================

-------------------------- MODULE MutexQueueProofs --------------------------
(***************************************************************************)
(* Where the waiters of a Mutex and of its CondVar are: on one queue at    *)
(* most, and never lost by kMuDesig.  QueueInv and DesigInv of MutexProofs *)
(* are inductive together with WordInv.                                    *)
(***************************************************************************)
EXTENDS MutexProofs

\* Where a thread waits, and where it has threads to wake or to hand over.
Waits == {"block", "remove", "removing", "recheck", "cvwait", "cvremove"}
Signals == {"fer", "ferspin", "ferpost"}
Wakers == {"wake", "post"} \cup Signals

\* The threads a step of t can move.
Reach(t) == Range(queue) \cup Range(cv) \cup Range(wake_list[t])

\* A step of t to l moves threads within its reach, and perhaps t itself.
QueueChange(t, l) ==
    /\ pc' = [pc EXCEPT ![t] = l]
    /\ \A u \in Threads \ {t} :
          /\ wake_list'[u] = wake_list[u]
          /\ (u \in requeue' <=> u \in requeue) /\ (u \in cv_word' <=> u \in cv_word)
    /\ IsInjective(queue') /\ IsInjective(cv') /\ IsInjective(wake_list'[t])
    /\ Range(queue') \cap Range(cv') = {} /\ Range(wake_list'[t]) \cap (Range(queue') \cup Range(cv')) = {}
    /\ Reach(t)' \subseteq Reach(t) \cup {t}
    /\ t \in Reach(t)' => t \in Reach(t) \/ ~Queued(t)
    /\ Queued(t)' => Parked(t)'
    /\ wake_list'[t] # <<>> => l \in Wakers
    /\ t \in cv_word' => t \in requeue'
    /\ t \in requeue' => l \in Holding \cup {"wake", "post"}

\* A step of t to l keeps the designated waker, if kMuDesig stays.
DesigChange(t, l) ==
    /\ "kMuDesig" \in mu' => "kMuDesig" \in mu
    /\ \A u \in Threads \ {t} : u \in blocked' <=> u \in blocked
    /\ Range(queue') \cup Range(cv') \subseteq
           Range(queue) \cup Range(cv) \cup {t} \cup (IF pc[t] \in Signals THEN Range(wake_list[t]) ELSE {})
    /\ l \in Signals => Range(wake_list'[t]) \subseteq IF pc[t] \in Signals THEN Range(wake_list[t]) ELSE Range(cv)
    /\ "kMuDesig" \in mu' /\ Designated(t) => Designated(t)'

\* A step that moves nobody, of a thread that has nobody to wake.
QuietMove(t, l) ==
    /\ pc' = [pc EXCEPT ![t] = l] /\ UNCHANGED <<queue, cv, wake_list>>
    /\ \A u \in Threads \ {t} :
          /\ (u \in requeue' <=> u \in requeue) /\ (u \in cv_word' <=> u \in cv_word)
          /\ u \in blocked' <=> u \in blocked
    /\ pc[t] \notin Wakers /\ l \notin Wakers
    /\ pc[t] \in Waits => (l \in Waits \/ (~Queued(t) /\ t \in blocked' /\ l \in {"fast", "slow"}))
    /\ t \in cv_word' => t \in requeue'
    /\ t \in requeue' => l \in Holding
    /\ "kMuDesig" \in mu' => "kMuDesig" \in mu
    /\ t \in blocked /\ pc[t] \in {"fast", "slow"} /\ "kMuDesig" \in mu' => t \in blocked' /\ l \in {"fast", "slow"}

\* A step that moves nobody and leaves blocked, requeue and cv_word alone, in which t goes
\* on waiting, holding the lock, or trying to obtain it.
StayMove(t, l) ==
    /\ pc' = [pc EXCEPT ![t] = l] /\ UNCHANGED <<queue, cv, wake_list, cv_word, requeue, blocked>>
    /\ "kMuDesig" \in mu' => "kMuDesig" \in mu
    /\ \/ pc[t] \in Waits /\ l \in Waits
       \/ pc[t] \in Holding /\ l \in Holding
       \/ pc[t] = "fast" /\ l = "slow"
       \/ pc[t] \in {"idle", "try"} /\ l \in {"idle", "try", "fast"}

\* A thread that does not wait yet goes onto a queue, or one that waits leaves it.
SelfMove(t, l) ==
    /\ pc' = [pc EXCEPT ![t] = l] /\ wake_list' = wake_list
    /\ \A u \in Threads \ {t} :
          /\ (u \in requeue' <=> u \in requeue) /\ (u \in cv_word' <=> u \in cv_word)
          /\ u \in blocked' <=> u \in blocked
    /\ t \notin requeue' /\ t \notin cv_word'
    /\ pc[t] \notin Wakers /\ l \notin Wakers /\ (pc[t] \in Waits => l \in Waits)
    /\ IsInjective(queue') /\ IsInjective(cv') /\ Range(queue') \cap Range(cv') = {}
    /\ Range(queue') \cup Range(cv') \subseteq
           Range(queue) \cup Range(cv) \cup (IF pc[t] \in Waits THEN {} ELSE {t})
    /\ t \in Range(queue') \cup Range(cv') => l \in Waits
    /\ "kMuDesig" \in mu' => "kMuDesig" \in mu /\ ~(t \in blocked /\ pc[t] \in {"fast", "slow"})

\* Threads go from the list of t, or from cv onto it.
WakerMove(t, l) ==
    /\ pc' = [pc EXCEPT ![t] = l] /\ pc[t] \in Wakers \cup {"idle"}
    /\ \A u \in Threads \ {t} :
          /\ wake_list'[u] = wake_list[u] /\ (u \in blocked' <=> u \in blocked)
          /\ (u \in requeue' <=> u \in requeue) /\ (u \in cv_word' <=> u \in cv_word)
    /\ IsInjective(queue') /\ IsInjective(cv') /\ IsInjective(wake_list'[t])
    /\ Range(queue') \cap Range(cv') = {} /\ Range(wake_list'[t]) \cap (Range(queue') \cup Range(cv')) = {}
    /\ Range(queue') \cup Range(cv') \subseteq
           Range(queue) \cup Range(cv) \cup (IF pc[t] \in Signals THEN Range(wake_list[t]) ELSE {})
    /\ Range(wake_list'[t]) \subseteq IF pc[t] = "idle" THEN Range(cv) ELSE Range(wake_list[t])
    /\ wake_list'[t] # <<>> => l \in Wakers
    /\ t \in cv_word' => t \in requeue'
    /\ t \in requeue' => l \in {"wake", "post"}
    /\ Parked(t) => Parked(t)'
    /\ l \in Signals => pc[t] \in Signals \cup {"idle"}
    /\ "kMuDesig" \in mu' => "kMuDesig" \in mu

\* At first every queue is empty.
LEMMA QueueInit == Init => QueueInv /\ DesigInv
<1> SUFFICES ASSUME Init PROVE QueueInv /\ DesigInv
  BY Zenon
<1>1. /\ queue = <<>> /\ cv = <<>> /\ mu = {} /\ cv_word = {} /\ requeue = {}
      /\ \A t \in Threads : wake_list[t] = <<>>
  BY Zenon DEF Init
<1>2. Range(<<>>) = {} /\ IsInjective(<<>>)
  BY DEF Range, IsInjective
<1> QED
  BY Zenon, <1>1, <1>2 DEF QueueInv, DesigInv, OnOneQueue, Queued

\* They are preserved by every step that preserves the types.  The first steps of the proof treat
\* the kinds of moves defined above, and show which actions are moves of which kind.
LEMMA QueueNext == WordInv /\ QueueInv /\ DesigInv /\ TypeOK' /\ [CvNext]_vars => QueueInv' /\ DesigInv'
(* Steps that move nobody. *)

\* Being queued is being within the reach of a thread.
<1>QueuedIs.
    ASSUME NEW u \in Threads, NEW t \in Threads
    PROVE  /\ Queued(u) <=> u \in Reach(t) \/ \E x \in Threads \ {t} : u \in Range(wake_list[x])
           /\ Queued(u)' <=> u \in Reach(t)' \/ \E x \in Threads \ {t} : u \in Range(wake_list'[x])
  BY Zenon, <1>QueuedIs DEF Queued, Reach

\* A QueueChange keeps every thread on one queue.
<1>QueueStep.
    ASSUME WordInv, QueueInv, TypeOK', NEW t \in Threads, NEW l, QueueChange(t, l)
    PROVE  QueueInv'
  <2> USE <1>QueueStep
  <2>1. TypeOK /\ OnOneQueue
    BY Zenon DEF WordInv, QueueInv
  <2>2. /\ \A u \in Threads \ {t} : pc'[u] = pc[u] /\ wake_list'[u] = wake_list[u]
        /\ pc'[t] = l
    BY Zenon, <2>1 DEF QueueChange, TypeOK
  <2>3. \A u \in Threads \ {t} : Range(wake_list[u]) \cap Reach(t)' = {}
    <3> SUFFICES ASSUME NEW u \in Threads \ {t}, NEW x \in Range(wake_list[u]), x \in Reach(t)' PROVE FALSE
      BY Zenon
    <3>1. x \notin Reach(t)
      BY Zenon, <2>1 DEF OnOneQueue, Reach
    <3>2. x = t /\ ~Queued(t)
      BY Zenon, <3>1 DEF QueueChange
    <3> QED
      BY Zenon, <3>2 DEF Queued
  <2>4. OnOneQueue'
    <3>1. ASSUME NEW x \in Threads
          PROVE  /\ IsInjective(wake_list'[x])
                 /\ Range(wake_list'[x]) \cap (Range(queue') \cup Range(cv')) = {}
                 /\ \A u \in Threads \ {x} : Range(wake_list'[x]) \cap Range(wake_list'[u]) = {}
      <4>1. CASE x = t
        BY Zenon, <2>2, <2>3, <4>1 DEF QueueChange, Reach
      <4>2. CASE x # t
        BY <2>1, <2>2, <2>3, <4>2 DEF OnOneQueue, Reach
      <4> QED
        BY Zenon, <4>1, <4>2
    <3>2. IsInjective(queue') /\ IsInjective(cv') /\ Range(queue') \cap Range(cv') = {}
      BY Zenon DEF QueueChange
    <3> QED
      BY Zenon, <3>1, <3>2 DEF OnOneQueue
  <2>5. ASSUME NEW u \in Threads, Queued(u)' PROVE Parked(u)'
    <3>1. CASE u = t
      BY Zenon, <2>5, <3>1 DEF QueueChange
    <3>2. CASE u # t
      <4>1. Queued(u)
        <5>1. u \in Reach(t)' => u \in Reach(t)
          BY Zenon, <3>2 DEF QueueChange
        <5> QED
          BY Zenon, <2>2, <2>5, <5>1, <1>QueuedIs
      <4>2. Parked(u)
        BY Zenon, <4>1 DEF QueueInv
      <4> QED
        BY Zenon, <2>2, <3>2, <4>2 DEF Parked, QueueChange
    <3> QED
      BY Zenon, <3>1, <3>2
  <2>6. ASSUME NEW u \in Threads, wake_list'[u] # <<>> PROVE pc'[u] \in Wakers
    BY Zenon, <2>2, <2>6 DEF QueueInv, QueueChange, Wakers, Signals
  <2>7. cv_word' \subseteq requeue'
    <3>1. ASSUME NEW u \in cv_word' PROVE u \in requeue'
      <4>1. u \in Threads
        BY Zenon, <3>1 DEF TypeOK
      <4> QED
        BY Zenon, <3>1, <4>1 DEF QueueInv, QueueChange
    <3> QED
      BY Zenon, <3>1
  <2>8. ASSUME NEW u \in requeue' PROVE pc'[u] \in Holding \cup {"wake", "post"}
    <3>1. u \in Threads
      BY Zenon, <2>8 DEF TypeOK
    <3> QED
      BY Zenon, <2>2, <2>8, <3>1 DEF QueueInv, QueueChange
  <2> QED
    BY Zenon, <2>4, <2>5, <2>6, <2>7, <2>8 DEF QueueInv, Wakers, Signals

\* After a DesigChange there still is a designated waker, if the word says so.
<1>DesigStep.
    ASSUME WordInv, DesigInv, NEW t \in Threads, NEW l, QueueChange(t, l), DesigChange(t, l)
    PROVE  DesigInv'
  <2> USE <1>DesigStep
  <2> SUFFICES ASSUME "kMuDesig" \in mu' PROVE \E u \in Threads : Designated(u)'
    BY Zenon DEF DesigInv
  <2>1. PICK d \in Threads : Designated(d)
    BY Zenon DEF DesigInv, DesigChange
  <2>2. CASE d = t
    BY Zenon, <2>1, <2>2 DEF DesigChange
  <2>3. CASE d # t
    <3>1. TypeOK
      BY Zenon DEF WordInv
    <3>2. pc'[t] = l /\ \A u \in Threads \ {t} : pc'[u] = pc[u] /\ wake_list'[u] = wake_list[u]
      BY Zenon, <3>1 DEF QueueChange, TypeOK
    <3>3. CASE d \in blocked /\ pc[d] \in {"fast", "slow"}
      BY Zenon, <2>3, <3>2, <3>3 DEF Designated, DesigChange
    <3>4. CASE ~(d \in blocked /\ pc[d] \in {"fast", "slow"})
      <4>1. /\ Parked(d) /\ d \notin Range(queue) \cup Range(cv)
            /\ \A u \in Threads : pc[u] \in Signals => d \notin Range(wake_list[u])
        BY Zenon, <2>1, <3>4 DEF Designated, Signals
      <4>2. Parked(d)'
        BY Zenon, <2>3, <3>2, <4>1 DEF Parked, QueueChange
      <4>3. d \notin Range(queue') \cup Range(cv')
        BY Zenon, <2>3, <4>1 DEF DesigChange
      <4>4. ASSUME NEW u \in Threads, pc'[u] \in Signals PROVE d \notin Range(wake_list'[u])
        <5>1. CASE u = t
          BY <3>2, <4>1, <4>4, <5>1 DEF DesigChange
        <5>2. CASE u # t
          BY <3>2, <4>1, <4>4, <5>2
        <5> QED
          BY Zenon, <5>1, <5>2
      <4> QED
        BY Zenon, <4>2, <4>3, <4>4 DEF Designated, Signals
    <3> QED
      BY Zenon, <3>3, <3>4
  <2> QED
    BY <2>2, <2>3

\* A QuietMove preserves the invariants.
<1>QuietQueueStep.
    ASSUME WordInv, QueueInv, DesigInv, TypeOK', NEW t \in Threads, NEW l, QuietMove(t, l)
    PROVE  QueueInv' /\ DesigInv'
  <2> USE <1>QuietQueueStep
  <2>1. TypeOK /\ OnOneQueue
    BY Zenon DEF WordInv, QueueInv
  <2>2. pc'[t] = l /\ wake_list' = wake_list /\ queue' = queue /\ cv' = cv
    BY Zenon, <2>1 DEF QuietMove, TypeOK
  <2>3. Reach(t)' = Reach(t) /\ (Queued(t)' <=> Queued(t))
    BY <2>2, <1>QueuedIs DEF Reach
  <2>4. Parked(t) => pc[t] \in Waits
    BY Zenon DEF Parked, QuietMove, Waits, Wakers
  <2>5. Queued(t) => l \in Waits
    BY Zenon, <2>4 DEF QueueInv, QuietMove
  <2>6. l \in Waits => Parked(t)'
    BY Zenon, <2>2 DEF Parked, Waits
  <2>7. wake_list[t] = <<>>
    BY Zenon DEF QueueInv, QuietMove, Wakers, Signals
  <2>8. QueueChange(t, l)
    <3>1. /\ IsInjective(queue') /\ IsInjective(cv') /\ IsInjective(wake_list'[t])
          /\ Range(queue') \cap Range(cv') = {} /\ Range(wake_list'[t]) \cap (Range(queue') \cup Range(cv')) = {}
      BY <2>1, <2>2, Zenon DEF OnOneQueue
    <3> QED
      BY <2>2, <2>3, <2>5, <2>6, <2>7, <3>1 DEF QueueChange, QuietMove
  <2>9. ASSUME "kMuDesig" \in mu', Designated(t) PROVE Designated(t)'
    <3>1. CASE t \in blocked /\ pc[t] \in {"fast", "slow"}
      BY <2>2, <2>9, <3>1 DEF Designated, QuietMove
    <3>2. CASE ~(t \in blocked /\ pc[t] \in {"fast", "slow"})
      <4>1. /\ Parked(t) /\ t \notin Range(queue) \cup Range(cv)
            /\ \A u \in Threads : pc[u] \in Signals => t \notin Range(wake_list[u])
        BY <2>9, <3>2 DEF Designated, Signals
      <4>2. l \in Waits \/ (t \in blocked' /\ l \in {"fast", "slow"})
        BY <2>4, <4>1 DEF QuietMove
      <4>3. \A u \in Threads : pc'[u] \in Signals => t \notin Range(wake_list'[u])
        <5>1. l \notin Signals /\ \A u \in Threads \ {t} : pc'[u] = pc[u]
          BY <2>1 DEF QuietMove, Wakers, TypeOK
        <5> QED
          BY <2>2, <4>1, <5>1
      <4> QED
        BY <2>2, <2>6, <4>1, <4>2, <4>3 DEF Designated, Signals
    <3> QED
      BY Zenon, <3>1, <3>2
  <2>10. DesigChange(t, l)
    BY <2>2, <2>9 DEF DesigChange, QuietMove, Wakers
  <2> QED
    BY <2>8, <2>10, <1>QueueStep, <1>DesigStep

\* A StayMove is quiet: a thread with a waitp holds the lock.
<1>StayIsQuiet.
    ASSUME QueueInv, NEW t \in Threads, NEW l, StayMove(t, l)
    PROVE  QuietMove(t, l)
  <2> USE <1>StayIsQuiet
  <2>1. cv_word \subseteq requeue /\ \A u \in requeue : pc[u] \in Holding \cup {"wake", "post"}
    BY Zenon DEF QueueInv
  <2>2. pc[t] \notin Wakers /\ l \notin Wakers
    BY Zenon DEF StayMove, Waits, Holding, Wakers, Signals
  <2>3. t \in requeue' => l \in Holding
    BY Zenon, <2>1 DEF StayMove, Waits, Holding
  <2>4. pc[t] \in Waits => l \in Waits
    BY Zenon DEF StayMove, Waits, Holding
  <2>5. pc[t] \in {"fast", "slow"} => l \in {"fast", "slow"}
    BY Zenon DEF StayMove, Waits, Holding
  <2> QED
    BY <2>1, <2>2, <2>3, <2>4, <2>5 DEF StayMove, QuietMove

\* The steps that only move t from one place to another of the same kind.
<1>StayMoves.
    ASSUME WordInv, NEW t \in Threads,
           \/ FastFails(t) \/ DecrementSynchSem(t) \/ TimesOut(t) \/ TryRemoveFails(t) \/ RemoveAgain(t) \/ Removed(t) \/ Write(t) \/ Unlock(t)
           \/ CvTimesOut(t) \/ Call(t) \/ TryRemoveStart(t) \/ UnlockSpin(t) \/ Search(t) \/ Walk(t)
    PROVE  \E l : StayMove(t, l)
  <2> USE <1>StayMoves
  <2>1. pc \in [Threads -> Pcs]
    BY DEF WordInv, TypeOK
  <2>2. CASE FastFails(t)
    <3>1. PICK l : /\ pc' = [pc EXCEPT ![t] = l]
                   /\ (pc[t] = "fast" /\ l = "slow") \/ (pc[t] = "try" /\ l = "idle")
      BY <2>2, Zenon DEF FastFails, Goto
    <3>2. StayMove(t, l)
      BY <2>2, <3>1 DEF StayMove, FastFails, word, waiters, Waits, Holding
    <3> QED
      BY <3>2
  <2>3. CASE DecrementSynchSem(t)
    <3>1. pc' = [pc EXCEPT ![t] = pc[t]]
      BY <2>1, <2>3 DEF DecrementSynchSem
    <3>2. StayMove(t, pc[t])
      BY <2>3, <3>1, Zenon DEF StayMove, DecrementSynchSem, word, waiters, Waits, Holding
    <3> QED
      BY <3>2
  <2>4. CASE TimesOut(t)
    <3>1. StayMove(t, "remove")
      BY <2>4 DEF StayMove, TimesOut, Goto, word, waiters, Waits, Holding
    <3> QED
      BY <3>1
  <2>5. CASE TryRemoveFails(t)
    <3>1. StayMove(t, "recheck")
      BY <2>5 DEF StayMove, TryRemoveFails, Goto, word, waiters, Waits, Holding
    <3> QED
      BY <3>1
  <2>6. CASE RemoveAgain(t)
    <3>1. StayMove(t, "remove")
      BY <2>6 DEF StayMove, RemoveAgain, Goto, word, waiters, Waits, Holding
    <3> QED
      BY Zenon, <3>1
  <2>7. CASE Removed(t)
    <3>1. StayMove(t, "block")
      BY <2>7 DEF StayMove, Removed, Goto, word, waiters, Waits, Holding
    <3> QED
      BY <3>1
  <2>8. CASE Write(t)
    <3>1. pc' = [pc EXCEPT ![t] = pc[t]]
      BY <2>1, <2>8 DEF Write
    <3>2. StayMove(t, pc[t])
      BY <2>8, <3>1, Zenon DEF StayMove, Write, word, waiters, Waits, Holding
    <3> QED
      BY Zenon, <3>2
  <2>9. CASE Unlock(t)
    <3>1. StayMove(t, "unlock")
      BY <2>9 DEF StayMove, Unlock, Goto, word, waiters, Waits, Holding
    <3> QED
      BY <3>1
  <2>10. CASE CvTimesOut(t)
    <3>1. StayMove(t, "cvremove")
      BY <2>10 DEF StayMove, CvTimesOut, Goto, word, waiters, Waits, Holding
    <3> QED
      BY <3>1
  <2>11. CASE Call(t)
    <3>1. PICK l \in {"try", "fast"} : pc' = [pc EXCEPT ![t] = l]
      BY <2>11, Zenon DEF Call, Goto
    <3>2. StayMove(t, l)
      BY <2>11, <3>1 DEF StayMove, Call, word, waiters, Waits, Holding
    <3> QED
      BY <3>2
  <2>12. CASE TryRemoveStart(t)
    <3>1. StayMove(t, "removing")
      BY <2>12 DEF StayMove, TryRemoveStart, Goto, word, waiters, Waits, Holding
    <3> QED
      BY <3>1
  <2>13. CASE UnlockSpin(t)
    <3>1. PICK l \in {"waiters", "nowaiters"} : pc' = [pc EXCEPT ![t] = l]
      BY <2>13, Zenon DEF UnlockSpin, Goto
    <3>2. StayMove(t, l)
      BY <2>13, <3>1 DEF StayMove, UnlockSpin, word, waiters, Waits, Holding
    <3> QED
      BY <3>2
  <2>14. CASE Search(t)
    <3>1. local[t].v = mu \ {"kMuSpin"}
      BY <2>14, WordInvHas DEF Search, StartSearch, LocalAt
    <3>2. StayMove(t, "search")
      BY <2>14, <3>1 DEF StayMove, Search, StartSearch, Goto, word, waiters, Waits, Holding
    <3> QED
      BY <3>2
  <2>15. CASE Walk(t)
    <3>1. StayMove(t, "unlock")
      BY <2>15, Zenon DEF StayMove, Walk, Goto, word, waiters, Waits, Holding
    <3> QED
      BY ZenonT(30), <3>1
  <2> QED
    BY <2>2, <2>3, <2>4, <2>5, <2>6, <2>7, <2>8, <2>9, <2>10, <2>11, <2>12, <2>13, <2>14, <2>15, SMTT(30)

\* The other steps that move nobody.
<1>QuietMoves.
    ASSUME WordInv, QueueInv, NEW t \in Threads,
           \/ Unblocked(t) \/ Trans(t) \/ Await(t) \/ CvWait(t) \/ IncrementStart(t) \/ EnqueueStart(t)
           \/ Fast(t) \/ SlowAcquire(t) \/ Increment(t) \/ FastWriterRelease(t) \/ FastReaderRelease(t)
    PROVE  \E l : QuietMove(t, l)
  <2> USE <1>QuietMoves
  <2>1. /\ TypeOK /\ cv_word \subseteq requeue
        /\ \A u \in requeue : pc[u] \in Holding \cup {"wake", "post"}
    BY DEF WordInv, QueueInv
  <2>2. pc[t] \in Holding \/ (t \notin requeue /\ t \notin cv_word) \/ pc[t] \in {"wake", "post"}
    BY <2>1
  <2>3. CASE Unblocked(t) \/ Trans(t)
    <3>1. PICK l \in {"slow", "fast"} : pc' = [pc EXCEPT ![t] = l] /\ blocked' = blocked \cup {t}
      BY <2>3, Zenon DEF Unblocked, Trans, Goto
    <3>2. /\ pc[t] \in {"block", "cvwait"} /\ ~Queued(t)
          /\ UNCHANGED <<mu, queue, cv, wake_list, cv_word, requeue>>
      BY <2>3 DEF Unblocked, Trans, word, waiters
    <3>3. QuietMove(t, l)
      BY <2>2, <3>1, <3>2 DEF QuietMove, Wakers, Signals, Holding
    <3> QED
      BY <3>3
  <2>4. CASE Await(t) \/ CvWait(t)
    <3>1. /\ pc[t] = "cs" /\ pc' = [pc EXCEPT ![t] = "unlock"]
          /\ requeue' = requeue \cup {t} /\ cv_word' \in {cv_word, cv_word \cup {t}}
          /\ UNCHANGED <<mu, queue, cv, wake_list, blocked>>
      BY <2>4 DEF Await, CvWait, Goto, word, waiters
    <3>2. QuietMove(t, "unlock")
      BY <2>1, <3>1 DEF QuietMove, Wakers, Signals, Waits, Holding
    <3> QED
      BY <3>2
  <2>5. CASE IncrementStart(t) \/ EnqueueStart(t)
    <3>1. PICK l \in {"increment", "enqueue"} : pc' = [pc EXCEPT ![t] = l]
      BY <2>5, Zenon DEF IncrementStart, EnqueueStart, Goto
    <3>2. /\ pc[t] = "slow" /\ UNCHANGED <<queue, cv, wake_list, cv_word, requeue, blocked>>
          /\ "kMuDesig" \in mu' => "kMuDesig" \in mu /\ t \notin blocked
      BY <2>5 DEF IncrementStart, EnqueueStart, ClearDesig, waiters
    <3>3. QuietMove(t, l)
      BY <2>2, <3>1, <3>2 DEF QuietMove, Wakers, Signals, Waits, Holding
    <3> QED
      BY <3>3
  <2>6. CASE Fast(t) \/ SlowAcquire(t) \/ Increment(t)
    <3>1. /\ Acquired(t) /\ pc[t] \in {"fast", "try", "slow", "increment"}
          /\ UNCHANGED <<queue, cv, cv_word, wake_list>>
      <4>1. CASE Fast(t)
        BY <4>1 DEF Fast, Acquire, waiters
      <4>2. CASE SlowAcquire(t)
        BY <4>2 DEF SlowAcquire, Acquire, waiters
      <4>3. CASE Increment(t)
        BY <4>3 DEF Increment
      <4> QED
        BY SMTT(30), <2>6, <4>1, <4>2, <4>3
    <3>2. "kMuDesig" \in mu' => "kMuDesig" \in mu /\ (t \notin blocked \/ pc[t] = "increment")
      <4>1. CASE Increment(t)
        BY <4>1 DEF Increment
      <4>2. CASE Fast(t) \/ SlowAcquire(t)
        <5>1. mu' = ClearDesig(t, mu) \cup fast_or[how[t]]
          BY <4>2, Zenon DEF Fast, SlowAcquire, Acquire
        <5>2. fast_or[how[t]] \in {{"kMuReader"}, {"kMuWriter"}}
          <6>1. how[t] \in {"kShared", "kExclusive"}
            BY Zenon, <2>1, HolderIs
          <6> QED
            BY <6>1 DEF fast_or
        <5> QED
          BY <5>1, <5>2 DEF ClearDesig
      <4> QED
        BY <2>6, <4>1, <4>2
    <3>3. PICK l \in {"cs", "unlock"} :
              /\ pc' = [pc EXCEPT ![t] = l]
              /\ blocked' \in {blocked, blocked \ {t}} /\ requeue' \in {requeue, requeue \cup {t}}
      <4>1. CASE Eval(cond[t])
        BY <3>1, <4>1 DEF Acquired, Goto
      <4>2. CASE ~Eval(cond[t])
        BY <3>1, <4>2 DEF Acquired, Goto
      <4> QED
        BY <4>1, <4>2
    <3>4. QuietMove(t, l)
      BY <2>2, <3>1, <3>2, <3>3 DEF QuietMove, Waits, Wakers, Signals, Holding
    <3> QED
      BY <3>4
  <2>7. CASE FastWriterRelease(t) \/ FastReaderRelease(t)
    <3>1. /\ Released(t) /\ pc[t] = "unlock" /\ t \notin requeue /\ t \notin cv_word
          /\ UNCHANGED <<queue, cv, blocked, wake_list>> /\ mu' \subseteq mu
      BY <2>1, <2>7 DEF FastWriterRelease, FastReaderRelease, waiters
    <3>2. pc' = [pc EXCEPT ![t] = "idle"] /\ cv_word' = cv_word \ {t} /\ requeue' = requeue \ {t}
      BY <3>1 DEF Released, Goto
    <3>3. QuietMove(t, "idle")
      BY <3>1, <3>2 DEF QuietMove, Waits, Wakers, Signals
    <3> QED
      BY <3>3
  <2> QED
    BY <2>3, <2>4, <2>5, <2>6, <2>7
(* A thread queues itself, or takes itself off a queue. *)

\* A SelfMove preserves the invariants.
<1>SelfQueueStep.
    ASSUME WordInv, QueueInv, DesigInv, TypeOK', NEW t \in Threads, NEW l, SelfMove(t, l)
    PROVE  QueueInv' /\ DesigInv'
  <2> USE <1>SelfQueueStep
  <2>1. TypeOK /\ OnOneQueue
    BY Zenon DEF WordInv, QueueInv
  <2>2. pc'[t] = l /\ wake_list' = wake_list
    BY <2>1 DEF SelfMove, TypeOK
  <2>3. wake_list[t] = <<>> /\ Range(wake_list[t]) = {}
    <3>1. wake_list[t] = <<>>
      BY DEF QueueInv, SelfMove, Wakers, Signals
    <3> QED
      BY <3>1 DEF Range
  <2>4. Queued(t) => pc[t] \in Waits
    BY Zenon DEF QueueInv, SelfMove, Parked, Waits, Wakers
  <2>5. l \in Waits => Parked(t)'
    BY <2>2 DEF Parked, Waits
  <2>6. Reach(t) = Range(queue) \cup Range(cv) /\ Reach(t)' = Range(queue') \cup Range(cv')
    BY <2>2, <2>3 DEF Reach
  <2>7. Queued(t)' => l \in Waits
    <3>1. t \in Reach(t)' => l \in Waits
      BY <2>6 DEF SelfMove
    <3>2. ASSUME NEW x \in Threads \ {t}, t \in Range(wake_list'[x]) PROVE l \in Waits
      <4>1. Queued(t)
        BY <2>2, <3>2, SMTT(30) DEF Queued
      <4> QED
        BY <2>4, <4>1 DEF SelfMove
    <3> QED
      BY <3>1, <3>2, <1>QueuedIs
  <2>8. QueueChange(t, l)
    <3>1. Reach(t)' \subseteq Reach(t) \cup {t} /\ (t \in Reach(t)' => t \in Reach(t) \/ ~Queued(t))
      BY <2>4, <2>6 DEF SelfMove
    <3>2. IsInjective(wake_list'[t])
      BY <2>2, <2>3 DEF IsInjective
    <3> QED
      BY <2>2, <2>3, <2>5, <2>7, <3>1, <3>2, SMTT(30) DEF QueueChange, SelfMove
  <2>9. ASSUME "kMuDesig" \in mu', Designated(t) PROVE Designated(t)'
    <3>1. /\ Parked(t) /\ t \notin Range(queue) \cup Range(cv)
          /\ \A u \in Threads : pc[u] \in Signals => t \notin Range(wake_list[u])
      BY <2>9 DEF Designated, Signals, SelfMove
    <3>2. pc[t] \in Waits
      BY <3>1 DEF Parked, SelfMove, Waits, Wakers
    <3>3. t \notin Range(queue') \cup Range(cv') /\ Parked(t)'
      BY <2>5, <3>1, <3>2 DEF SelfMove
    <3>4. \A u \in Threads : pc'[u] \in Signals => t \notin Range(wake_list'[u])
      <4>1. l \notin Signals /\ \A u \in Threads \ {t} : pc'[u] = pc[u]
        BY <2>1 DEF SelfMove, Wakers, TypeOK
      <4> QED
        BY <2>2, <3>1, <4>1, SMTT(30)
    <3> QED
      BY Zenon, <3>3, <3>4 DEF Designated, Signals
  <2>10. DesigChange(t, l)
    BY <2>9 DEF DesigChange, SelfMove, Wakers
  <2> QED
    BY ZenonT(30), <2>8, <2>10, <1>QueueStep, <1>DesigStep

\* Enqueueing a thread that is not on the queue.
<1>EnqueueOnce.
    ASSUME NEW q \in Seq(Threads), IsInjective(q), NEW e \in Threads, e \notin Range(q), NEW b, NEW s
    PROVE  IsInjective(Enqueue(q, e, b, s)) /\ Range(Enqueue(q, e, b, s)) = Range(q) \cup {e}
  <2> USE <1>EnqueueOnce
  <2>1. PICK i \in 1..(Len(q) + 1) : Inserted(Enqueue(q, e, b, s), q, e, i)
    BY EnqueueInserts, Zenon
  <2> QED
    BY <2>1, InsertedRange, Zenon

\* Likewise for appending, also to an empty queue.
<1>AppendOnce.
    ASSUME NEW q \in Seq(Threads), IsInjective(q), NEW e \in Threads, e \notin Range(q)
    PROVE  /\ IsInjective(Append(q, e)) /\ Range(Append(q, e)) = Range(q) \cup {e}
           /\ IsInjective(<<e>>) /\ Range(<<e>>) = {e}
  <2> USE <1>AppendOnce
  <2>1. Inserted(Append(q, e), q, e, Len(q) + 1)
    BY EndsInsert, Zenon
  <2>2. IsInjective(Append(q, e)) /\ Range(Append(q, e)) = Range(q) \cup {e}
    <3>1. Len(q) + 1 \in 1..(Len(q) + 1)
      OBVIOUS
    <3> QED
      BY <2>1, <3>1, InsertedRange, Zenon
  <2>3. IsInjective(<<e>>) /\ Range(<<e>>) = {e}
    BY DEF IsInjective, Range
  <2> QED
    BY <2>2, <2>3

\* The queues, and a thread that is on none of them.
<1>NotQueued.
    ASSUME WordInv, QueueInv, NEW t \in Threads
    PROVE  /\ queue \in Seq(Threads) /\ IsInjective(queue) /\ cv \in Seq(Threads) /\ IsInjective(cv)
           /\ Range(queue) \cap Range(cv) = {}
           /\ pc[t] \notin Waits \cup {"wake", "post"} =>
                 t \notin Range(queue) /\ t \notin Range(cv) /\ ~Queued(t)
           /\ pc[t] \notin Holding \cup {"wake", "post"} => t \notin requeue /\ t \notin cv_word
           /\ pc[t] \notin Wakers => wake_list[t] = <<>>
  <2> USE <1>NotQueued
  <2>1. TypeOK /\ OnOneQueue
    BY Zenon DEF WordInv, QueueInv
  <2>2. pc[t] \notin Waits \cup {"wake", "post"} => ~Queued(t)
    BY Zenon DEF QueueInv, Parked, Waits
  <2>3. Queued(t) <=> \/ t \in Range(queue) \cup Range(cv)
                      \/ \E u \in Threads : t \in Range(wake_list[u])
    BY Zenon DEF Queued
  <2>4. pc[t] \notin Holding \cup {"wake", "post"} => t \notin requeue /\ t \notin cv_word
    BY Zenon DEF QueueInv
  <2>5. pc[t] \notin Wakers => wake_list[t] = <<>>
    BY Zenon DEF QueueInv, Wakers, Signals
  <2> QED
    BY Zenon, <2>1, <2>2, <2>3, <2>4, <2>5 DEF OnOneQueue, TypeOK

\* LockSlowLoop queues the thread.
<1>EnqueueSelf.
    ASSUME WordInv, QueueInv, NEW t \in Threads, OnlyWaiter(t) \/ EnqueueEnd(t)
    PROVE  SelfMove(t, "block")
  <2> USE <1>EnqueueSelf
  <2>1. TypeOK /\ BitsInv
    BY Zenon DEF WordInv
  <2>2. /\ pc[t] \in {"slow", "enqueue"} /\ pc' = [pc EXCEPT ![t] = "block"]
        /\ UNCHANGED <<cv, cv_word, blocked, requeue, wake_list>>
    BY Zenon DEF OnlyWaiter, EnqueueEnd, Goto
  <2>3. /\ t \notin requeue /\ t \notin cv_word /\ t \notin Range(queue) /\ t \notin Range(cv)
        /\ queue \in Seq(Threads) /\ IsInjective(queue) /\ IsInjective(cv) /\ Range(queue) \cap Range(cv) = {}
    BY <2>2, <1>NotQueued DEF Waits, Holding
  <2>4. IsInjective(queue') /\ Range(queue') \subseteq Range(queue) \cup {t}
    <3>1. PICK b \in BOOLEAN : queue' = <<t>> \/ queue' = Enqueue(queue, t, b, maybe_unlocking)
      <4>1. (t \in blocked) \in BOOLEAN
        OBVIOUS
      <4> QED
        BY <4>1, Zenon DEF OnlyWaiter, EnqueueEnd
    <3>2. /\ IsInjective(Enqueue(queue, t, b, maybe_unlocking))
          /\ Range(Enqueue(queue, t, b, maybe_unlocking)) = Range(queue) \cup {t}
      BY <2>3, <1>EnqueueOnce, Zenon
    <3>3. CASE queue' = <<t>>
      <4>1. IsInjective(<<t>>) /\ Range(<<t>>) = {t}
        BY <2>3, <1>AppendOnce, Zenon
      <4> QED
        BY <3>3, <4>1
    <3>4. CASE queue' = Enqueue(queue, t, b, maybe_unlocking)
      BY <3>2, <3>4, Zenon
    <3> QED
      BY <3>1, <3>3, <3>4
  <2>5. "kMuDesig" \in mu' => "kMuDesig" \in mu /\ ~(t \in blocked /\ pc[t] \in {"fast", "slow"})
    <3>1. CASE OnlyWaiter(t)
      BY <3>1 DEF OnlyWaiter, ClearDesig
    <3>2. CASE EnqueueEnd(t)
      <4>1. local[t].wr_wait \in SUBSET {"kMuWrWait"}
        BY <2>1 DEF TypeOK, LocalRecs
      <4> QED
        BY <3>2, <4>1 DEF EnqueueEnd
    <3> QED
      BY <3>1, <3>2
  <2> QED
    BY <2>2, <2>3, <2>4, <2>5 DEF SelfMove, Waits, Wakers, Signals

\* A thread whose wait timed out removes itself, from the mutex or from the CondVar.
<1>RemoveSelf.
    ASSUME WordInv, QueueInv, NEW t \in Threads, TryRemoveEnd(t) \/ CvRemove(t)
    PROVE  \E l : SelfMove(t, l)
  <2> USE <1>RemoveSelf
  <2>1. PICK l \in {"recheck", "cvwait"} : pc' = [pc EXCEPT ![t] = l]
    BY Zenon DEF TryRemoveEnd, CvRemove, Goto
  <2>2. /\ pc[t] \in {"removing", "cvremove"} /\ UNCHANGED <<cv_word, blocked, requeue, wake_list>>
        /\ \/ queue' = RemoveFirst(queue, t) /\ cv' = cv
           \/ cv' = RemoveFirst(cv, t) /\ queue' = queue
        /\ "kMuDesig" \in mu' => "kMuDesig" \in mu
    <3>1. CASE TryRemoveEnd(t)
      BY Zenon, <3>1 DEF TryRemoveEnd
    <3>2. CASE CvRemove(t)
      BY <3>2 DEF CvRemove, word, waiters
    <3> QED
      BY <3>1, <3>2
  <2>3. /\ t \notin requeue /\ t \notin cv_word /\ cv \in Seq(Threads)
        /\ queue \in Seq(Threads) /\ IsInjective(queue) /\ IsInjective(cv) /\ Range(queue) \cap Range(cv) = {}
    BY <2>2, <1>NotQueued DEF Holding
  <2>4. /\ IsInjective(queue') /\ IsInjective(cv')
        /\ Range(queue') \subseteq Range(queue) /\ Range(cv') \subseteq Range(cv)
    <3>1. \A q \in {queue, cv} : IsInjective(RemoveFirst(q, t)) /\ Range(RemoveFirst(q, t)) \subseteq Range(q)
      BY <2>3, RemoveFirstRemoves, Zenon
    <3> QED
      BY <2>2, <2>3, <3>1
  <2>5. SelfMove(t, l)
    BY <2>1, <2>2, <2>3, <2>4 DEF SelfMove, Waits, Wakers, Signals
  <2> QED
    BY <2>5

\* UnlockSlow queues the thread that releases the lock, if it has a waitp, on one of the
\* queues; q is what is left of the mutex queue.
<1>SelfEnqueuedOnce.
    ASSUME WordInv, QueueInv, NEW t \in Threads, pc[t] \in Holding, SelfCondVar(t),
           NEW q \in Seq(Threads), IsInjective(q), Range(q) \subseteq Range(queue), NEW s,
           queue' = SelfEnqueued(t, q, s)
    PROVE  /\ IsInjective(queue') /\ IsInjective(cv') /\ Range(queue') \cap Range(cv') = {}
           /\ Range(queue') \cup Range(cv') \subseteq
                 Range(q) \cup Range(cv) \cup (IF t \in requeue THEN {t} ELSE {})
  <2> USE <1>SelfEnqueuedOnce
  <2>1. /\ cv \in Seq(Threads) /\ IsInjective(cv) /\ Range(queue) \cap Range(cv) = {}
        /\ t \notin Range(queue) /\ t \notin Range(cv) /\ t \notin Range(q)
    BY <1>NotQueued DEF Waits, Holding
  <2>2. cv_word \subseteq requeue
    BY Zenon DEF QueueInv
  <2>3. /\ IsInjective(Enqueue(q, t, FALSE, s)) /\ Range(Enqueue(q, t, FALSE, s)) = Range(q) \cup {t}
    BY <2>1, <1>EnqueueOnce, Zenon
  <2>4. /\ IsInjective(Append(cv, t)) /\ Range(Append(cv, t)) = Range(cv) \cup {t}
    BY <2>1, <1>AppendOnce, Zenon
  <2>5. CASE t \in cv_word
    <3>1. queue' = q /\ cv' = Append(cv, t) /\ t \in requeue
      BY <2>2, <2>5 DEF SelfEnqueued, SelfCondVar
    <3> QED
      BY <2>1, <2>4, <3>1
  <2>6. CASE t \in requeue \ cv_word
    <3>1. queue' = Enqueue(q, t, FALSE, s) /\ cv' = cv
      BY <2>6 DEF SelfEnqueued, SelfCondVar
    <3>2. IsInjective(queue') /\ Range(queue') = Range(q) \cup {t}
      BY <2>3, <3>1, Zenon
    <3> QED
      BY <2>1, <2>6, <3>1, <3>2, Zenon
  <2>7. CASE t \notin requeue /\ t \notin cv_word
    <3>1. queue' = q /\ cv' = cv
      BY <2>7 DEF SelfEnqueued, SelfCondVar
    <3> QED
      BY <2>1, <2>7, <3>1
  <2> QED
    BY SMTT(30), <2>5, <2>6, <2>7

\* UnlockSlow releases the lock and wakes nobody.
<1>ReleaseSelf.
    ASSUME WordInv, QueueInv, NEW t \in Threads, NoWaiters(t) \/ NotLastReader(t) \/ WakeNobody(t)
    PROVE  \E l : SelfMove(t, l)
  <2> USE <1>ReleaseSelf
  <2>1. TypeOK /\ BitsInv /\ LocalAt(t) /\ cv_word \subseteq requeue
    BY WordInvHas DEF QueueInv
  <2>2. /\ pc[t] \in {"nowaiters", "waiters"} /\ pc[t] \in Holding /\ SelfCondVar(t) /\ Released(t)
        /\ UNCHANGED <<blocked, wake_list>>
    BY Zenon DEF NoWaiters, NotLastReader, WakeNobody, Holding
  <2>3. /\ queue \in Seq(Threads) /\ IsInjective(queue) /\ Range(queue) \subseteq Range(queue)
        /\ t \notin Range(queue) /\ t \notin Range(cv) /\ queue \in Seq(Threads)
    BY <2>2, <1>NotQueued DEF Waits, Holding
  <2>4. PICK s : queue' = SelfEnqueued(t, queue, s) \/ (queue' = <<t>> /\ queue = <<>> /\ t \in requeue \ cv_word)
    <3>1. CASE NoWaiters(t)
      <4>1. queue = <<>> /\ t \in requeue
        BY <2>1, <3>1 DEF NoWaiters, LocalAt, BitsInv
      <4>2. CASE t \in cv_word
        <5>1. queue' = queue /\ SelfEnqueued(t, queue, FALSE) = queue
          BY <3>1, <4>2 DEF NoWaiters, SelfEnqueued
        <5> QED
          BY <5>1, Zenon
      <4>3. CASE t \notin cv_word
        <5>1. queue' = <<t>>
          BY <3>1, <4>3 DEF NoWaiters
        <5> QED
          BY <4>1, <4>3, <5>1
      <4> QED
        BY <4>2, <4>3, SMTT(30)
    <3>2. CASE NotLastReader(t) \/ WakeNobody(t)
      BY <3>2, Zenon DEF NotLastReader, WakeNobody
    <3> QED
      BY <3>1, <3>2
  <2>5. /\ IsInjective(queue') /\ IsInjective(cv') /\ Range(queue') \cap Range(cv') = {}
        /\ Range(queue') \cup Range(cv') \subseteq
              Range(queue) \cup Range(cv) \cup (IF t \in requeue THEN {t} ELSE {})
    <3>1. CASE queue' = SelfEnqueued(t, queue, s)
      BY <2>2, <2>3, <3>1, <1>SelfEnqueuedOnce, Zenon
    <3>2. CASE queue' = <<t>> /\ queue = <<>> /\ t \in requeue \ cv_word
      <4>1. cv' = cv /\ IsInjective(cv)
        BY <2>2, <3>2, <1>NotQueued DEF SelfCondVar
      <4>2. IsInjective(<<t>>) /\ Range(<<t>>) = {t}
        BY <2>3, <1>AppendOnce, Zenon
      <4> QED
        BY SMTT(30), <2>3, <3>2, <4>1, <4>2
    <3> QED
      BY <2>4, <3>1, <3>2
  <2>6. "kMuDesig" \in mu' => "kMuDesig" \in mu
    <3>1. CASE NoWaiters(t)
      BY <3>1 DEF NoWaiters
    <3>2. CASE NotLastReader(t) \/ WakeNobody(t)
      <4>1. mu' \subseteq local[t].v /\ pc[t] = "waiters"
        BY Zenon, <3>2 DEF NotLastReader, WakeNobody
      <4> QED
        BY Zenon, <2>1, <4>1 DEF LocalAt
    <3> QED
      BY <3>1, <3>2
  <2>7. PICK l : /\ pc' = [pc EXCEPT ![t] = l] /\ l \in {"cvwait", "block", "idle"}
                 /\ t \in requeue => l \in {"cvwait", "block"}
    <3>1. pc' = [pc EXCEPT ![t] = IF t \in cv_word THEN "cvwait" ELSE IF t \in requeue THEN "block" ELSE "idle"]
      BY <2>2 DEF Released, Goto
    <3> QED
      BY <3>1, Zenon
  <2>8. requeue' = requeue \ {t} /\ cv_word' = cv_word \ {t}
    BY <2>2 DEF Released
  <2>9. SelfMove(t, l)
    BY SMTT(30), <2>2, <2>3, <2>5, <2>6, <2>7, <2>8 DEF SelfMove, Waits, Wakers, Signals
  <2> QED
    BY <2>9
(* A thread that has others to wake, or to hand over to the mutex. *)

\* A WakerMove preserves the invariants.
<1>WakerQueueStep.
    ASSUME WordInv, QueueInv, DesigInv, TypeOK', NEW t \in Threads, NEW l, WakerMove(t, l)
    PROVE  QueueInv' /\ DesigInv'
  <2> USE <1>WakerQueueStep
  <2>1. TypeOK
    BY Zenon DEF WordInv
  <2>2. pc'[t] = l /\ \A u \in Threads \ {t} : pc'[u] = pc[u] /\ wake_list'[u] = wake_list[u]
    BY <2>1 DEF WakerMove, TypeOK
  <2>3. "idle" \notin Signals /\ Signals \subseteq Wakers
    BY Zenon DEF Signals, Wakers
  <2>4. Reach(t)' \subseteq Reach(t)
    <3>1. /\ Range(queue') \cup Range(cv') \subseteq Range(queue) \cup Range(cv) \cup Range(wake_list[t])
          /\ Range(wake_list'[t]) \subseteq Range(cv) \cup Range(wake_list[t])
      BY Zenon DEF WakerMove
    <3> QED
      BY Zenon, <3>1 DEF Reach
  <2>5. Queued(t)' => Parked(t)'
    <3>1. Queued(t)' => Queued(t)
      BY <2>2, <2>4, <1>QueuedIs, SMTT(30)
    <3>2. Queued(t) => Parked(t)
      BY Zenon DEF QueueInv
    <3>3. Parked(t) => Parked(t)'
      BY Zenon DEF WakerMove
    <3> QED
      BY Zenon, <3>1, <3>2, <3>3
  <2>6. QueueChange(t, l)
    BY <2>4, <2>5, Zenon DEF QueueChange, WakerMove
  <2>7. ASSUME Designated(t) PROVE Designated(t)'
    <3>1. pc[t] \notin {"fast", "slow"}
      BY Zenon DEF WakerMove, Wakers, Signals
    <3>2. /\ Parked(t) /\ t \notin Range(queue) \cup Range(cv)
          /\ \A u \in Threads : pc[u] \in Signals => t \notin Range(wake_list[u])
      BY <2>7, <3>1, SMTT(30) DEF Designated, Signals
    <3>3. t \notin Range(queue') \cup Range(cv') /\ Parked(t)'
      BY <3>2 DEF WakerMove
    <3>4. ASSUME NEW u \in Threads, pc'[u] \in Signals PROVE t \notin Range(wake_list'[u])
      <4>1. CASE u = t
        BY <2>2, <2>3, <3>2, <3>4, <4>1, SMTT(30) DEF WakerMove
      <4>2. CASE u # t
        BY <2>2, <3>2, <3>4, <4>2, SMTT(30)
      <4> QED
        BY <4>1, <4>2, SMTT(30)
    <3> QED
      BY <3>3, <3>4 DEF Designated, Signals
  <2>8. DesigChange(t, l)
    BY <2>3, <2>7 DEF DesigChange, WakerMove
  <2> QED
    BY Zenon, <2>6, <2>8, <1>QueueStep, <1>DesigStep

\* Taking the first thread off a list.
<1>TailOnce.
    ASSUME NEW q \in Seq(Threads), IsInjective(q), q # <<>>
    PROVE  /\ IsInjective(Tail(q)) /\ Range(q) = {Head(q)} \cup Range(Tail(q))
           /\ Head(q) \notin Range(Tail(q)) /\ Head(q) \in Threads
           /\ IsInjective(<<Head(q)>>) /\ Range(<<Head(q)>>) = {Head(q)}
  <2> USE <1>TailOnce
  <2>1. Head(q) \in Threads /\ Tail(q) \in Seq(Threads) /\ Range(q) = {Head(q)} \cup Range(Tail(q))
    BY Zenon, HeadAndTail
  <2>2. /\ Len(q) \in Nat /\ Len(q) > 0 /\ Len(Tail(q)) = Len(q) - 1
        /\ \A i \in 1..Len(Tail(q)) : Tail(q)[i] = q[i + 1]
        /\ \A i, j \in 1..Len(q) : q[i] = q[j] => i = j
        /\ Head(q) = q[1]
    BY DEF IsInjective
  <2>3. IsInjective(Tail(q))
    <3>1. ASSUME NEW i \in 1..Len(Tail(q)), NEW j \in 1..Len(Tail(q)), Tail(q)[i] = Tail(q)[j] PROVE i = j
      BY <2>2, <3>1
    <3> QED
      BY <2>1, <3>1 DEF IsInjective
  <2>4. Head(q) \notin Range(Tail(q))
    <3>1. ASSUME NEW i \in 1..Len(Tail(q)), Tail(q)[i] = q[1] PROVE FALSE
      BY <2>2, <3>1
    <3> QED
      BY <2>1, <2>2, <3>1 DEF Range
  <2>5. IsInjective(<<Head(q)>>) /\ Range(<<Head(q)>>) = {Head(q)}
    BY DEF IsInjective, Range
  <2> QED
    BY <2>1, <2>3, <2>4, <2>5

\* The lists before a step of a waker.
<1>ListsAre.
    ASSUME WordInv, QueueInv, NEW t \in Threads
    PROVE  /\ wake_list[t] \in Seq(Threads) /\ IsInjective(wake_list[t])
           /\ Range(wake_list[t]) \cap (Range(queue) \cup Range(cv)) = {}
           /\ IsInjective(queue) /\ IsInjective(cv) /\ Range(queue) \cap Range(cv) = {}
           /\ queue \in Seq(Threads) /\ cv \in Seq(Threads)
           /\ (t \in cv_word => t \in requeue) /\ (t \in requeue => pc[t] \in Holding \cup {"wake", "post"})
           /\ pc[t] \in {"wake", "fer", "ferspin"} => wake_list[t] # <<>>
  <2> USE <1>ListsAre
  <2>1. TypeOK /\ OnOneQueue /\ LocalAt(t)
    BY WordInvHas DEF QueueInv
  <2>2. cv_word \subseteq requeue /\ \A u \in requeue : pc[u] \in Holding \cup {"wake", "post"}
    BY DEF QueueInv
  <2>3. /\ wake_list[t] \in Seq(Threads) /\ queue \in Seq(Threads) /\ cv \in Seq(Threads)
    BY <2>1 DEF TypeOK
  <2>4. /\ IsInjective(wake_list[t]) /\ Range(wake_list[t]) \cap (Range(queue) \cup Range(cv)) = {}
        /\ IsInjective(queue) /\ IsInjective(cv) /\ Range(queue) \cap Range(cv) = {}
    BY <2>1, Zenon DEF OnOneQueue
  <2> QED
    BY <2>1, <2>2, <2>3, <2>4, SMTT(30) DEF LocalAt

\* Signal and SignalAll.
<1>SignalMove.
    ASSUME WordInv, QueueInv, NEW t \in Threads, Signal(t)
    PROVE  WakerMove(t, "fer")
  <2> USE <1>SignalMove
  <2>1. /\ cv \in Seq(Threads) /\ IsInjective(queue) /\ IsInjective(cv) /\ Range(queue) \cap Range(cv) = {}
        /\ pc[t] = "idle" => t \notin cv_word /\ t \notin requeue
    BY <1>ListsAre DEF Holding
  <2>2. /\ pc[t] = "idle" /\ cv # <<>> /\ pc' = [pc EXCEPT ![t] = "fer"]
        /\ UNCHANGED <<mu, queue, cv_word, blocked, requeue>>
    BY DEF Signal, Goto, word, waiters
  <2>3. PICK x \in Seq(Threads) : /\ wake_list' = [wake_list EXCEPT ![t] = x]
                                  /\ (cv' = Tail(cv) /\ x = <<Head(cv)>>) \/ (cv' = <<>> /\ x = cv)
    <3>1. <<Head(cv)>> \in Seq(Threads)
      BY SMTT(30), <2>1, <2>2, HeadAndTail
    <3> QED
      BY <2>1, <3>1, Zenon DEF Signal
  <2>4. /\ IsInjective(x) /\ IsInjective(cv') /\ Range(cv') \subseteq Range(cv) /\ Range(x) \subseteq Range(cv)
        /\ Range(x) \cap Range(cv') = {}
    <3>1. CASE cv' = Tail(cv) /\ x = <<Head(cv)>>
      BY <2>1, <2>2, <3>1, <1>TailOnce
    <3>2. CASE cv' = <<>> /\ x = cv
      <4>1. IsInjective(<<>>) /\ Range(<<>>) = {}
        BY DEF IsInjective, Range
      <4> QED
        BY <2>1, <3>2, <4>1
    <3> QED
      BY <2>3, <3>1, <3>2
  <2>5. wake_list'[t] = x /\ \A u \in Threads \ {t} : wake_list'[u] = wake_list[u]
    BY <2>3, WordInvHas DEF TypeOK
  <2>6. ~Parked(t)
    BY <2>2 DEF Parked
  <2> QED
    BY <2>1, <2>2, <2>4, <2>5, <2>6, SMTT(30) DEF WakerMove, Signals, Wakers

\* Waking the first of the list; it is no longer queued anywhere.
<1>WakeMove.
    ASSUME WordInv, QueueInv, NEW t \in Threads, Wakeup(t) \/ FerWake(t)
    PROVE  \E l : WakerMove(t, l)
  <2> USE <1>WakeMove
  <2>1. PICK l \in {"post", "ferpost"} :
           pc' = [pc EXCEPT ![t] = l] /\ ((pc[t] = "wake" /\ l = "post") \/ (pc[t] = "fer" /\ l = "ferpost"))
    BY Zenon DEF Wakeup, FerWake, Goto
  <2>2. /\ UNCHANGED <<mu, queue, cv, cv_word, blocked, requeue>>
        /\ wake_list' = [wake_list EXCEPT ![t] = Tail(wake_list[t])]
    BY DEF Wakeup, FerWake, word, waiters
  <2>3. /\ wake_list[t] \in Seq(Threads) /\ IsInjective(wake_list[t]) /\ wake_list[t] # <<>>
        /\ Range(wake_list[t]) \cap (Range(queue) \cup Range(cv)) = {}
        /\ IsInjective(queue) /\ IsInjective(cv) /\ Range(queue) \cap Range(cv) = {}
        /\ (t \in cv_word => t \in requeue) /\ (t \in requeue => pc[t] \in Holding \cup {"wake", "post"})
    BY <2>1, <1>ListsAre
  <2>4. /\ wake_list'[t] = Tail(wake_list[t])
        /\ \A u \in Threads \ {t} : wake_list'[u] = wake_list[u]
        /\ pc'[t] = l
    BY <2>1, <2>2, WordInvHas DEF TypeOK
  <2>5. IsInjective(wake_list'[t]) /\ Range(wake_list'[t]) \subseteq Range(wake_list[t])
    <3>1. /\ IsInjective(Tail(wake_list[t]))
          /\ Range(wake_list[t]) = {Head(wake_list[t])} \cup Range(Tail(wake_list[t]))
      BY <2>3, <1>TailOnce, Zenon
    <3> QED
      BY <2>4, <3>1
  <2>6. Parked(t) => Parked(t)'
    BY <2>1, <2>2, <2>4, SMTT(30) DEF Parked
  <2>7. WakerMove(t, l)
    BY <2>1, <2>2, <2>3, <2>4, <2>5, <2>6, SMTT(30) DEF WakerMove, Signals, Wakers, Holding
  <2> QED
    BY <2>7

\* Fer hands the first of the list over to the mutex.
<1>FerMove.
    ASSUME WordInv, QueueInv, NEW t \in Threads, FerOnlyWaiter(t) \/ FerEnqueue(t)
    PROVE  \E l : WakerMove(t, l)
  <2> USE <1>FerMove
  <2> DEFINE x == Head(wake_list[t])
  <2>1. /\ TypeOK /\ BitsInv
    BY Zenon DEF WordInv
  <2>2. /\ pc[t] \in {"fer", "ferspin"} /\ NextFer(t) /\ UNCHANGED <<cv, cv_word, blocked, requeue>>
        /\ "kMuDesig" \in mu' => "kMuDesig" \in mu
    BY Zenon DEF FerOnlyWaiter, FerEnqueue
  <2>3. /\ wake_list[t] \in Seq(Threads) /\ IsInjective(wake_list[t]) /\ wake_list[t] # <<>>
        /\ Range(wake_list[t]) \cap (Range(queue) \cup Range(cv)) = {} /\ queue \in Seq(Threads)
        /\ IsInjective(queue) /\ IsInjective(cv) /\ Range(queue) \cap Range(cv) = {}
        /\ t \notin cv_word /\ t \notin requeue
    BY <2>2, <1>ListsAre DEF Holding
  <2>4. PICK l \in {"idle", "fer"} :
           pc' = [pc EXCEPT ![t] = l] /\ (Tail(wake_list[t]) # <<>> => l = "fer")
    BY <2>2, Zenon DEF NextFer, Goto
  <2>5. wake_list' = [wake_list EXCEPT ![t] = Tail(wake_list[t])]
    BY <2>2 DEF NextFer
  <2>6. /\ wake_list'[t] = Tail(wake_list[t])
        /\ \A u \in Threads \ {t} : wake_list'[u] = wake_list[u]
    BY <2>1, <2>5 DEF TypeOK
  <2>7. /\ IsInjective(Tail(wake_list[t])) /\ x \in Threads /\ x \notin Range(Tail(wake_list[t]))
        /\ Range(wake_list[t]) = {x} \cup Range(Tail(wake_list[t]))
    BY <2>3, <1>TailOnce, ZenonT(30)
  <2>8. x \notin Range(queue) /\ x \notin Range(cv)
    BY <2>3, <2>7
  <2> HIDE DEF x
  <2>9. IsInjective(queue') /\ Range(queue') \subseteq Range(queue) \cup {x}
    <3>1. queue' = <<x>> \/ queue' = Enqueue(queue, x, FALSE, maybe_unlocking)
      BY Zenon DEF FerOnlyWaiter, FerEnqueue, x
    <3>2. CASE queue' = <<x>>
      <4>1. IsInjective(<<x>>) /\ Range(<<x>>) = {x}
        BY <2>3, <2>7, <2>8, <1>AppendOnce, Zenon
      <4> QED
        BY <3>2, <4>1
    <3>3. CASE queue' = Enqueue(queue, x, FALSE, maybe_unlocking)
      <4>1. queue \in Seq(Threads) /\ IsInjective(queue) /\ x \in Threads /\ x \notin Range(queue)
        BY <2>3, <2>7, <2>8
      <4>2. /\ IsInjective(Enqueue(queue, x, FALSE, maybe_unlocking))
            /\ Range(Enqueue(queue, x, FALSE, maybe_unlocking)) = Range(queue) \cup {x}
        BY <4>1, <1>EnqueueOnce, Zenon
      <4> QED
        BY <3>3, <4>2, Zenon
    <3> QED
      BY <3>1, <3>2, <3>3, Zenon
  <2>10. ~Parked(t)
    BY <2>2, <2>3, SMTT(30) DEF Parked
  <2>11. WakerMove(t, l)
    <3>1. /\ Range(queue') \cap Range(cv') = {}
          /\ Range(wake_list'[t]) \cap (Range(queue') \cup Range(cv')) = {}
          /\ Range(queue') \cup Range(cv') \subseteq Range(queue) \cup Range(cv) \cup Range(wake_list[t])
          /\ Range(wake_list'[t]) \subseteq Range(wake_list[t])
      BY <2>2, <2>3, <2>6, <2>7, <2>8, <2>9, SMTT(30)
    <3> QED
      BY <2>2, <2>3, <2>4, <2>6, <2>7, <2>9, <2>10, <3>1, ZenonT(30) DEF WakerMove, Signals, Wakers
  <2> QED
    BY <2>11

\* The steps of a waker that move nobody.
<1>WakerStays.
    ASSUME WordInv, QueueInv, NEW t \in Threads, Post(t) \/ FerPost(t) \/ FerSpin(t)
    PROVE  \E l : WakerMove(t, l)
  <2> USE <1>WakerStays
  <2>1. /\ wake_list[t] \in Seq(Threads) /\ IsInjective(wake_list[t])
        /\ Range(wake_list[t]) \cap (Range(queue) \cup Range(cv)) = {}
        /\ IsInjective(queue) /\ IsInjective(cv) /\ Range(queue) \cap Range(cv) = {}
        /\ (t \in cv_word => t \in requeue) /\ (t \in requeue => pc[t] \in Holding \cup {"wake", "post"})
    BY <1>ListsAre
  <2>2. TypeOK
    BY Zenon DEF WordInv
  <2>3. /\ UNCHANGED <<queue, cv, blocked, wake_list>> /\ ("kMuDesig" \in mu' => "kMuDesig" \in mu)
        /\ pc[t] \in {"post", "ferpost", "fer"}
    BY DEF Post, FerPost, FerSpin, word, waiters
  <2>4. CASE Post(t) /\ wake_list[t] = <<>>
    <3>1. /\ cv_word' = cv_word \ {t} /\ requeue' = requeue \ {t} /\ pc[t] = "post"
          /\ pc' = [pc EXCEPT ![t] = IF t \in cv_word THEN "cvwait" ELSE IF t \in requeue THEN "block" ELSE "idle"]
      BY <2>4 DEF Post, Released, Goto
    <3>2. PICK l : /\ pc' = [pc EXCEPT ![t] = l] /\ l \in {"cvwait", "block", "idle"}
                   /\ t \in requeue => l \in {"cvwait", "block"}
      BY <2>1, <3>1, Zenon
    <3>3. Parked(t) => Parked(t)'
      BY <2>2, <3>1, <3>2 DEF Parked, TypeOK
    <3>4. WakerMove(t, l)
      BY <2>1, <2>3, <2>4, <3>1, <3>2, <3>3, Zenon DEF WakerMove, Wakers, Signals
    <3> QED
      BY Zenon, <3>4
  <2>5. CASE Post(t) /\ wake_list[t] # <<>>
    <3>1. pc[t] = "post" /\ pc' = [pc EXCEPT ![t] = "wake"] /\ UNCHANGED <<cv_word, requeue>>
      BY Zenon, <2>5 DEF Post, Goto
    <3>2. Parked(t) => Parked(t)'
      <4>1. DOMAIN pc = Threads
        BY Zenon, <2>2 DEF TypeOK
      <4>2. pc'[t] = "wake" /\ cv_word' = cv_word /\ requeue' = requeue
        BY ZenonT(30), <3>1, <4>1
      <4> QED
        BY Zenon, <3>1, <4>2 DEF Parked
    <3>3. WakerMove(t, "wake")
      BY <2>1, <2>3, <3>1, <3>2 DEF WakerMove, Wakers, Signals
    <3> QED
      BY Zenon, <3>3
  <2>6. CASE FerPost(t) \/ FerSpin(t)
    <3>1. PICK l \in {"idle", "fer", "ferspin"} :
             pc' = [pc EXCEPT ![t] = l] /\ (wake_list[t] # <<>> => l \in {"fer", "ferspin"})
      <4>1. CASE FerPost(t)
        BY <4>1, Zenon DEF FerPost, Goto
      <4>2. CASE FerSpin(t)
        BY ZenonT(30), <4>2 DEF FerSpin, Goto
      <4> QED
        BY <2>6, <4>1, <4>2
    <3>2. pc[t] \in {"ferpost", "fer"} /\ UNCHANGED <<cv_word, requeue>>
      BY <2>6, Zenon DEF FerPost, FerSpin
    <3>3. t \notin cv_word /\ t \notin requeue /\ ~Parked(t)
      BY <2>1, <3>2, SMTT(30) DEF Holding, Parked
    <3>4. WakerMove(t, l)
      BY <2>1, <2>3, <3>1, <3>2, <3>3, Zenon DEF WakerMove, Wakers, Signals
    <3> QED
      BY Zenon, <3>4
  <2> QED
    BY <2>4, <2>5, <2>6, SMTT(30)
(* UnlockSlow takes waiters off the queue to wake them. *)

\* The queue is divided into those that stay and those to be woken.
<1>DequeueDivides.
    ASSUME WordInv, QueueInv, NEW t \in Threads, NEW w \in Range(queue), NEW wr_wait,
           DequeueAndRelease(t, w, wr_wait)
    PROVE  \E left \in Seq(Threads), woken \in Seq(Threads), s \in BOOLEAN :
              /\ queue' = SelfEnqueued(t, left, s) /\ wake_list' = [wake_list EXCEPT ![t] = woken]
              /\ woken # <<>> /\ IsInjective(left) /\ IsInjective(woken)
              /\ Range(left) \subseteq Range(queue) /\ Range(woken) \subseteq Range(queue)
              /\ Range(left) \cap Range(woken) = {}
  <2> USE <1>DequeueDivides
  <2>1. queue \in Seq(Threads) /\ IsInjective(queue)
    BY Zenon, <1>ListsAre
  <2>2. /\ Wakeable(w) \in SUBSET DOMAIN queue /\ Wakeable(w) # {}
        /\ DOMAIN queue \ Wakeable(w) \in SUBSET DOMAIN queue
    BY Zenon, <2>1, WakeableHas
  <2>3. PICK left \in SubsequenceAt(queue, DOMAIN queue \ Wakeable(w)),
             s \in IF Len(queue) \in Wakeable(w) THEN BOOLEAN ELSE {maybe_unlocking} :
           queue' = SelfEnqueued(t, left, s)
    BY Zenon DEF DequeueAndRelease
  <2>4. PICK woken \in SubsequenceAt(queue, Wakeable(w)) : wake_list' = [wake_list EXCEPT ![t] = woken]
    BY Zenon DEF DequeueAndRelease
  <2>5. /\ left \in Seq(Threads) /\ IsInjective(left)
        /\ Range(left) = {queue[i] : i \in DOMAIN queue \ Wakeable(w)}
    <3> DEFINE stay == DOMAIN queue \ Wakeable(w)
    <3>1. stay \in SUBSET DOMAIN queue /\ left \in SubsequenceAt(queue, stay)
      BY Zenon, <2>2
    <3> HIDE DEF stay
    <3>2. left \in Seq(Threads)
      BY <2>1, <3>1, SubsequenceHas, Zenon
    <3>3. queue \in Seq(Threads)
      BY <2>1
    <3>4. Range(left) = {queue[i] : i \in stay}
      BY <3>1, <3>3, SubsequenceHas
    <3>5. IsInjective(left)
      BY <2>1, <3>1, SubsequenceHas, Zenon
    <3> QED
      BY <3>2, <3>4, <3>5 DEF stay
  <2>6. /\ woken \in Seq(Threads) /\ woken # <<>> /\ IsInjective(woken)
        /\ Range(woken) = {queue[i] : i \in Wakeable(w)}
    BY <2>1, <2>2, SubsequenceHas, Zenon
  <2>7. Range(left) \subseteq Range(queue) /\ Range(woken) \subseteq Range(queue)
    BY <2>2, <2>5, <2>6, Zenon DEF Range
  <2>8. Range(left) \cap Range(woken) = {}
    <3> SUFFICES ASSUME NEW i \in DOMAIN queue \ Wakeable(w), NEW j \in Wakeable(w), queue[i] = queue[j]
                 PROVE  FALSE
      BY SMTT(30), <2>5, <2>6
    <3>1. i = j
      BY <2>1, <2>2 DEF IsInjective
    <3> QED
      BY Zenon, <3>1
  <2>9. s \in BOOLEAN
    <3>1. maybe_unlocking \in BOOLEAN
      BY Zenon DEF WordInv, TypeOK
    <3> QED
      BY <3>1, Zenon
  <2> QED
    BY <2>3, <2>4, <2>5, <2>6, <2>7, <2>8, <2>9, Zenon

\* The threads woken become the designated waker.
<1>WakeQueueStep.
    ASSUME WordInv, QueueInv, TypeOK', NEW t \in Threads, WakeWaiters(t)
    PROVE  QueueInv' /\ DesigInv'
  <2> USE <1>WakeQueueStep
  <2>1. TypeOK /\ OnOneQueue /\ pc[t] = "waiters" /\ pc[t] \in Holding
    <3>1. pc[t] = "waiters"
      BY Zenon DEF WakeWaiters
    <3> QED
      BY Zenon, <3>1 DEF WordInv, QueueInv, Holding
  <2>2. PICK w \in Range(queue), wr_wait \in SUBSET {"kMuWrWait"} : DequeueAndRelease(t, w, wr_wait)
    BY WakesWaiter, Zenon
  <2>3. /\ pc' = [pc EXCEPT ![t] = "wake"] /\ SelfCondVar(t) /\ UNCHANGED <<cv_word, blocked, requeue>>
    BY <2>2, Zenon DEF DequeueAndRelease, Goto
  <2>4. PICK left \in Seq(Threads), woken \in Seq(Threads), s \in BOOLEAN :
            /\ queue' = SelfEnqueued(t, left, s) /\ wake_list' = [wake_list EXCEPT ![t] = woken]
            /\ woken # <<>> /\ IsInjective(left) /\ IsInjective(woken)
            /\ Range(left) \subseteq Range(queue) /\ Range(woken) \subseteq Range(queue)
            /\ Range(left) \cap Range(woken) = {}
    BY <2>2, <1>DequeueDivides, Zenon
  <2>5. /\ IsInjective(queue') /\ IsInjective(cv') /\ Range(queue') \cap Range(cv') = {}
        /\ Range(queue') \cup Range(cv') \subseteq
              Range(left) \cup Range(cv) \cup (IF t \in requeue THEN {t} ELSE {})
    BY <2>1, <2>3, <2>4, <1>SelfEnqueuedOnce, ZenonT(30)
  <2>6. /\ pc'[t] = "wake" /\ wake_list'[t] = woken
        /\ \A u \in Threads \ {t} : pc'[u] = pc[u] /\ wake_list'[u] = wake_list[u]
    BY SMTT(30), <2>1, <2>3, <2>4 DEF TypeOK
  <2>7. /\ t \notin Range(queue) /\ t \notin Range(cv) /\ ~Queued(t) /\ wake_list[t] = <<>>
        /\ Range(queue) \cap Range(cv) = {}
    BY <2>1, <1>NotQueued, Zenon DEF Waits, Wakers, Signals
  <2>8. Range(woken) \cap (Range(queue') \cup Range(cv')) = {}
    BY SMTT(30), <2>4, <2>5, <2>7
  <2>9. Reach(t)' \subseteq Reach(t) \cup (IF t \in requeue THEN {t} ELSE {})
    BY SMTT(30), <2>4, <2>5, <2>6 DEF Reach
  <2>10. Queued(t)' => Parked(t)'
    <3>1. ~\E x \in Threads \ {t} : t \in Range(wake_list'[x])
      BY SMTT(30), <2>6, <2>7 DEF Queued
    <3>2. t \notin Reach(t)
      BY SMTT(30), <2>7, <1>QueuedIs
    <3>3. Queued(t)' => t \in requeue
      BY <2>9, <3>1, <3>2, <1>QueuedIs, SMTT(30)
    <3> QED
      BY SMTT(30), <2>3, <2>6, <3>3 DEF Parked
  <2>11. QueueChange(t, "wake")
    <3>1. t \in cv_word => t \in requeue
      BY Zenon, <1>ListsAre
    <3> QED
      BY <2>3, <2>4, <2>5, <2>6, <2>7, <2>8, <2>9, <2>10, <3>1, SMTT(30) DEF QueueChange, Wakers
  <2>12. QueueInv'
    BY Zenon, <2>11, <1>QueueStep
  <2>13. PICK x : x \in Range(woken)
    BY Zenon, <2>4, ListHas
  <2>14. x \in Range(queue) /\ x \in Threads /\ x # t
    <3>1. x \in Range(queue) /\ x # t
      BY Zenon, <2>4, <2>7, <2>13
    <3>2. queue \in Seq(Threads)
      BY Zenon, <2>1 DEF TypeOK
    <3> QED
      BY Zenon, <3>1, <3>2, ListHas
  <2>15. Designated(x)'
    <3>1. Parked(x)
      BY Zenon, <2>14 DEF QueueInv, Queued
    <3>2. Parked(x)'
      BY Zenon, <2>3, <2>6, <2>14, <3>1 DEF Parked
    <3>3. x \notin Range(queue') \cup Range(cv')
      BY Zenon, <2>8, <2>13
    <3>4. ASSUME NEW u \in Threads, pc'[u] \in Signals PROVE x \notin Range(wake_list'[u])
      <4>1. u # t
        BY Zenon, <2>6, <3>4 DEF Signals
      <4> QED
        BY Zenon, <2>1, <2>6, <2>14, <4>1 DEF OnOneQueue
    <3> QED
      BY Zenon, <3>2, <3>3, <3>4 DEF Designated, Signals
  <2> QED
    BY SMTT(30), <2>12, <2>14, <2>15 DEF DesigInv

\* The invariants say nothing of the other variables.
<1>QueueStutters.
    QueueInv /\ DesigInv /\ UNCHANGED vars => QueueInv' /\ DesigInv'
  <2> SUFFICES ASSUME QueueInv, DesigInv, UNCHANGED vars PROVE QueueInv' /\ DesigInv'
    BY Zenon
  <2>1. /\ queue' = queue /\ cv' = cv /\ mu' = mu /\ cv_word' = cv_word /\ requeue' = requeue
        /\ wake_list' = wake_list /\ pc' = pc /\ blocked' = blocked
    BY Zenon DEF vars, word, waiters, waitp, rest
  <2>2. QueueInv'
    BY <2>1, Zenon DEF QueueInv, OnOneQueue, Queued, Parked
  <2>3. DesigInv'
    BY <2>1, Zenon DEF DesigInv, Designated, Parked
  <2> QED
    BY Zenon, <2>2, <2>3
<1> SUFFICES ASSUME WordInv, QueueInv, DesigInv, TypeOK', [CvNext]_vars PROVE QueueInv' /\ DesigInv'
  BY Zenon
<1>1. CASE UNCHANGED vars
  BY Zenon, <1>1, <1>QueueStutters
<1>2. ASSUME NEW t \in Threads,
             \/ FastFails(t) \/ DecrementSynchSem(t) \/ TimesOut(t) \/ TryRemoveFails(t) \/ RemoveAgain(t) \/ Removed(t) \/ Write(t) \/ Unlock(t)
             \/ CvTimesOut(t) \/ Call(t) \/ TryRemoveStart(t) \/ UnlockSpin(t) \/ Search(t) \/ Walk(t)
      PROVE  QueueInv' /\ DesigInv'
  <2>1. PICK l : StayMove(t, l)
    BY <1>2, <1>StayMoves, Zenon
  <2>2. QuietMove(t, l)
    BY <2>1, <1>StayIsQuiet, Zenon
  <2> QED
    BY <2>2, <1>QuietQueueStep, Zenon
<1>3. ASSUME NEW t \in Threads,
             \/ Unblocked(t) \/ Trans(t) \/ Await(t) \/ CvWait(t) \/ IncrementStart(t) \/ EnqueueStart(t)
             \/ Fast(t) \/ SlowAcquire(t) \/ Increment(t) \/ FastWriterRelease(t) \/ FastReaderRelease(t)
      PROVE  QueueInv' /\ DesigInv'
  <2>1. PICK l : QuietMove(t, l)
    BY <1>3, <1>QuietMoves, Zenon
  <2> QED
    BY <2>1, <1>QuietQueueStep, Zenon
<1>4. ASSUME NEW t \in Threads,
             \/ OnlyWaiter(t) \/ EnqueueEnd(t) \/ TryRemoveEnd(t) \/ CvRemove(t)
             \/ NoWaiters(t) \/ NotLastReader(t) \/ WakeNobody(t)
      PROVE  QueueInv' /\ DesigInv'
  <2>1. PICK l : SelfMove(t, l)
    <3>1. CASE OnlyWaiter(t) \/ EnqueueEnd(t)
      BY <3>1, <1>EnqueueSelf, Zenon
    <3>2. CASE TryRemoveEnd(t) \/ CvRemove(t)
      BY <3>2, <1>RemoveSelf, Zenon
    <3>3. CASE NoWaiters(t) \/ NotLastReader(t) \/ WakeNobody(t)
      BY <3>3, <1>ReleaseSelf, Zenon
    <3> QED
      BY <1>4, <3>1, <3>2, <3>3, Zenon
  <2> QED
    BY <2>1, <1>SelfQueueStep, Zenon
<1>5. ASSUME NEW t \in Threads,
             \/ Signal(t) \/ Wakeup(t) \/ FerWake(t) \/ FerOnlyWaiter(t) \/ FerEnqueue(t)
             \/ Post(t) \/ FerPost(t) \/ FerSpin(t)
      PROVE  QueueInv' /\ DesigInv'
  <2>1. PICK l : WakerMove(t, l)
    <3>1. CASE Signal(t)
      BY <3>1, <1>SignalMove, Zenon
    <3>2. CASE Wakeup(t) \/ FerWake(t)
      BY <3>2, <1>WakeMove, Zenon
    <3>3. CASE FerOnlyWaiter(t) \/ FerEnqueue(t)
      BY <3>3, <1>FerMove, Zenon
    <3>4. CASE Post(t) \/ FerPost(t) \/ FerSpin(t)
      BY <3>4, <1>WakerStays, Zenon
    <3> QED
      BY <1>5, <3>1, <3>2, <3>3, <3>4, Zenon
  <2> QED
    BY <2>1, <1>WakerQueueStep, Zenon
<1>6. ASSUME NEW t \in Threads, WakeWaiters(t) PROVE QueueInv' /\ DesigInv'
  BY <1>6, <1>WakeQueueStep, Zenon
<1>7. ASSUME NEW t \in Threads, Step(t) PROVE QueueInv' /\ DesigInv'
  BY <1>2, <1>3, <1>4, <1>5, <1>6, <1>7, Zenon DEF Step
<1>8. ASSUME NEW t \in Threads, Choice(t) PROVE QueueInv' /\ DesigInv'
  BY <1>2, <1>3, <1>8, Zenon DEF Choice
<1>9. ASSUME NEW t \in Threads, CvStep(t) \/ CvWait(t) \/ Signal(t) \/ CvTimesOut(t) PROVE QueueInv' /\ DesigInv'
  BY <1>2, <1>3, <1>4, <1>5, <1>9, Zenon DEF CvStep
<1> QED
  BY <1>1, <1>7, <1>8, <1>9, Zenon DEF CvNext, Next
=============================================================================

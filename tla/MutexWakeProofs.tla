-------------------------- MODULE MutexWakeProofs ---------------------------
(***************************************************************************)
(* No waiter of a Mutex is left behind.  StrandInv of MutexProofs is       *)
(* inductive together with WordInv and QueueInv; and what the layers of    *)
(* the invariant say of the waiters in every behaviour of a Mutex and its  *)
(* CondVar: they are on one queue at most, kMuDesig always has a thread    *)
(* behind it, and nobody sleeps in front of a free lock.                   *)
(***************************************************************************)
EXTENDS MutexWordProofs, MutexQueueProofs

-----------------------------------------------------------------------------
(* Nobody is stranded: TendInv, RequeueInv and SearchInv. *)

\* A step of t to l changes nobody else's condition, and if t is to queue itself its
\* condition is false.
RequeueMove(t, l) ==
    /\ pc' = [pc EXCEPT ![t] = l] /\ flag' = flag
    /\ \A u \in Threads \ {t} :
          /\ cond'[u] = cond[u]
          /\ (u \in requeue' => u \in requeue) /\ (u \in cv_word => u \in cv_word')
    /\ t \in requeue' => l # "cs" /\ (l \in Holding /\ t \notin cv_word' => ~Eval(cond[t])')

\* Such a step keeps RequeueInv.
LEMMA RequeueStep ==
    ASSUME TypeOK, TypeOK', RequeueInv, NEW t \in Threads, NEW l, RequeueMove(t, l)
    PROVE  RequeueInv'
<1>1. pc'[t] = l /\ \A u \in Threads \ {t} : pc'[u] = pc[u]
  BY Zenon DEF TypeOK, RequeueMove
<1> SUFFICES ASSUME NEW u \in requeue'
             PROVE  pc'[u] # "cs" /\ (pc'[u] \in Holding /\ u \notin cv_word' => ~Eval(cond[u])')
  BY Zenon DEF RequeueInv
<1>2. u \in Threads
  BY Zenon DEF TypeOK
<1>3. CASE u = t
  BY Zenon, <1>1, <1>3 DEF RequeueMove
<1>4. CASE u # t
  BY Zenon, <1>1, <1>2, <1>4 DEF RequeueInv, RequeueMove, Eval
<1> QED
  BY Zenon, <1>3, <1>4

\* A step of t to l leaves the queue alone, and what t remembers of a search.
StrandMove(t, l) ==
    /\ RequeueMove(t, l) /\ queue' = queue
    /\ \A u \in Threads \ {t} : how'[u] = how[u] /\ local'[u] = local[u]
    /\ t \in Range(queue) => cond'[t] = cond[t] /\ how'[t] = how[t]
    /\ local'[t].old_h # NoThread =>
          /\ local'[t].old_h = local[t].old_h /\ local'[t].w = local[t].w
          /\ pc[t] # "search" /\ l # "search"
    /\ \/ Tended'
       \/ /\ l \notin {"enqueue", "ferspin"} /\ ("kMuWrWait" \in mu' => "kMuWrWait" \in mu)
          /\ (Tended => Tended') \/ "kMuWait" \notin mu

\* The conditions of the waiters are what they were.
LEMMA SameConditions ==
    ASSUME TypeOK, NEW t \in Threads, NEW l, StrandMove(t, l), NEW u \in Range(queue)
    PROVE  /\ u \in Threads /\ (Eval(cond[u])' <=> Eval(cond[u]))
           /\ UnconditionalWriter(u)' <=> UnconditionalWriter(u)
<1>1. u \in Threads
  BY DEF TypeOK, Range
<1>2. cond'[u] = cond[u] /\ how'[u] = how[u] /\ flag' = flag
  BY Zenon, <1>1 DEF StrandMove, RequeueMove
<1> QED
  BY Zenon, <1>1, <1>2 DEF Eval, UnconditionalWriter

\* Where there is nobody in the queue, nothing can be stranded.
LEMMA EmptyTended ==
    ASSUME WordInv, "kMuWait" \notin mu
    PROVE  /\ queue = <<>> /\ Range(queue) = {} /\ "kMuWrWait" \notin mu
           /\ \A u \in Threads : pc[u] \notin {"enqueue", "ferspin"} /\ local[u].old_h = NoThread
<1>1. queue = <<>> /\ "kMuWrWait" \notin mu
  BY Zenon DEF WordInv, BitsInv
<1>2. Range(queue) = {}
  BY <1>1 DEF Range
<1>3. ASSUME NEW u \in Threads PROVE pc[u] \notin {"enqueue", "ferspin"} /\ local[u].old_h = NoThread
  BY Zenon, <1>2, WordInvHas DEF LocalAt, SearchAt
<1> QED
  BY Zenon, <1>1, <1>2, <1>3

\* It preserves the invariant.
LEMMA StrandStep ==
    ASSUME WordInv, StrandInv, TypeOK', NEW t \in Threads, NEW l, StrandMove(t, l)
    PROVE  StrandInv'
<1>1. TypeOK /\ TendInv /\ RequeueInv /\ SearchInv
  BY Zenon DEF WordInv, StrandInv
<1>2. pc'[t] = l /\ \A u \in Threads \ {t} : pc'[u] = pc[u]
  BY Zenon, <1>1 DEF TypeOK, StrandMove, RequeueMove
<1>3. RequeueInv'
  BY Zenon, <1>1, RequeueStep DEF StrandMove
<1>4. \A u \in Range(queue) : Eval(cond[u])' <=> Eval(cond[u])
  BY Zenon, <1>1, SameConditions
<1>5. TendInv'
  <2>1. CASE Tended'
    BY Zenon, <2>1 DEF TendInv
  <2>2. CASE ~Tended' /\ (Tended => Tended')
    <3>1. ~Tended
      BY Zenon, <2>2
    <3>2. \A u \in Range(queue) : ~Eval(cond[u])
      BY Zenon, <1>1, <3>1 DEF TendInv
    <3>3. \A u \in Threads : pc'[u] \notin {"enqueue", "ferspin"}
      BY Zenon, <1>1, <1>2, <2>2, <3>1 DEF TendInv, StrandMove
    <3>4. "kMuWrWait" \notin mu'
      BY Zenon, <1>1, <2>2, <3>1 DEF TendInv, StrandMove
    <3>5. queue' = queue
      BY Zenon DEF StrandMove
    <3>6. \A u \in Range(queue') : ~Eval(cond[u])'
      BY Zenon, <1>4, <3>2, <3>5
    <3> QED
      BY Zenon, <3>3, <3>4, <3>6 DEF TendInv
  <2>3. CASE ~Tended' /\ "kMuWait" \notin mu
    <3>1. /\ Range(queue) = {} /\ "kMuWrWait" \notin mu /\ queue' = queue
          /\ \A u \in Threads : pc[u] \notin {"enqueue", "ferspin"}
      BY Zenon, <2>3, EmptyTended DEF StrandMove
    <3>2. l \notin {"enqueue", "ferspin"} /\ "kMuWrWait" \notin mu'
      BY Zenon, <2>3, <3>1 DEF StrandMove
    <3>3. \A u \in Threads : pc'[u] \notin {"enqueue", "ferspin"}
      BY Zenon, <1>2, <3>1, <3>2
    <3> QED
      BY Zenon, <3>1, <3>2, <3>3 DEF TendInv
  <2> QED
    BY Zenon, <2>1, <2>2, <2>3 DEF StrandMove
<1>6. SearchInv'
  <2> SUFFICES ASSUME NEW u \in Threads, local'[u].old_h # NoThread, local'[u].w = NoThread,
                      ~UnconditionalWriter(Head(queue))',
                      NEW i \in Searched(u)'
               PROVE  ~Eval(cond[queue[i]])'
    BY Zenon DEF SearchInv
  <2>1. /\ local[u].old_h = local'[u].old_h /\ local[u].w = NoThread /\ queue' = queue
        /\ pc[u] = "search" <=> pc'[u] = "search"
        /\ pc[u] = "search" => local[u].from = local'[u].from
    BY Zenon, <1>2 DEF StrandMove
  <2>2. i \in Searched(u) /\ i \in DOMAIN queue
    BY Zenon, <2>1 DEF Searched
  <2>3. queue[i] \in Range(queue) /\ Head(queue) \in Range(queue)
    <3>1. queue \in Seq(Threads)
      BY Zenon, <1>1 DEF TypeOK
    <3>2. i \in 1..Len(queue)
      BY <2>2, <3>1
    <3> QED
      BY <2>2, <3>1, <3>2 DEF Range
  <2>4. ~UnconditionalWriter(Head(queue))
    BY Zenon, <1>1, <2>1, <2>3, SameConditions
  <2>5. ~Eval(cond[queue[i]])
    BY Zenon, <1>1, <2>1, <2>2, <2>4 DEF SearchInv
  <2> QED
    BY Zenon, <1>4, <2>1, <2>3, <2>5
<1> QED
  BY Zenon, <1>3, <1>5, <1>6 DEF StrandInv

\* What the invariants say of a thread by its program counter.
LEMMA StrandAt ==
    ASSUME WordInv, QueueInv, RequeueInv, NEW t \in Threads
    PROVE  /\ t \in requeue => pc[t] \in {"unlock", "nowaiters", "waiters", "search", "wake", "post"}
           /\ t \in cv_word => t \in requeue
           /\ local[t].old_h # NoThread => pc[t] \in {"search", "unlock", "waiters"}
           /\ t \in Range(queue) =>
                 pc[t] \in {"block", "remove", "removing", "recheck", "cvwait", "cvremove", "wake", "post"} /\ Queued(t)
<1>1. t \in requeue => pc[t] \in {"unlock", "nowaiters", "waiters", "search", "wake", "post"}
  BY Zenon DEF QueueInv, RequeueInv, Holding
<1>2. local[t].old_h # NoThread => pc[t] \in {"search", "unlock", "waiters"}
  BY Zenon, WordInvHas DEF SearchAt
<1>3. t \in Range(queue) =>
         pc[t] \in {"block", "remove", "removing", "recheck", "cvwait", "cvremove", "wake", "post"} /\ Queued(t)
  BY Zenon DEF QueueInv, Queued, Parked
<1> QED
  BY Zenon, <1>1, <1>2, <1>3 DEF QueueInv

\* Who tends the queue after a step of t to l.
LEMMA TendStep ==
    ASSUME TypeOK, NEW t \in Threads, NEW l, pc' = [pc EXCEPT ![t] = l]
    PROVE  /\ l \in Holding \cup {"increment"} => Tended'
           /\ (\E u \in Threads \ {t} : pc[u] \in Holding) => Tended'
           /\ "kMuDesig" \in mu' => Tended'
           /\ (pc[t] \notin Holding \cup {"increment"} /\ ("kMuDesig" \in mu => "kMuDesig" \in mu')) =>
                 (Tended => Tended')
<1>1. pc'[t] = l /\ \A u \in Threads \ {t} : pc'[u] = pc[u]
  BY Zenon DEF TypeOK
<1> QED
  BY Zenon, <1>1 DEF Tended, Free

\* A lock bit without the spin bit: some thread holds the lock.
LEMMA ConflictTends ==
    ASSUME WordInv, "kMuSpin" \notin mu, "kMuWriter" \in mu \/ "kMuReader" \in mu
    PROVE  \E u \in Threads : pc[u] \in Holding
<1>1. PICK u : u \in Writers \/ u \in Readers
  BY Zenon DEF WordInv, BitsInv
<1>2. u \in Threads /\ pc[u] \in Holding \cup {"removing", "increment"}
  BY Zenon, <1>1 DEF Writers, Readers
<1>3. pc[u] \notin {"removing", "increment"}
  BY Zenon, <1>2 DEF WordInv, SpinInv, Spinning
<1> QED
  BY Zenon, <1>2, <1>3

\* A step of t that only moves t, which is not unlocking.
AsideMove(t, l) ==
    /\ pc' = [pc EXCEPT ![t] = l] /\ UNCHANGED <<queue, flag, how, cond, requeue, cv_word, local>>
    /\ pc[t] \notin {"unlock", "nowaiters", "waiters", "search", "wake", "post"}
    /\ \/ Tended'
       \/ /\ l \notin {"enqueue", "ferspin"} /\ ("kMuWrWait" \in mu' => "kMuWrWait" \in mu)
          /\ Tended => Tended'

\* Nobody is stranded by a step that leaves the queue alone.
LEMMA AsideStep ==
    ASSUME WordInv, QueueInv, StrandInv, TypeOK', NEW t \in Threads, NEW l, AsideMove(t, l)
    PROVE  StrandInv'
<1>1. t \notin requeue /\ local[t].old_h = NoThread
  BY Zenon, StrandAt DEF AsideMove, StrandInv
<1>2. RequeueMove(t, l)
  BY Zenon, <1>1 DEF AsideMove, RequeueMove
<1>3. StrandMove(t, l)
  BY Zenon, <1>1, <1>2 DEF AsideMove, StrandMove
<1> QED
  BY Zenon, <1>3, StrandStep

\* Such steps.
LEMMA Asides ==
    ASSUME WordInv, QueueInv, StrandInv, TypeOK', NEW t \in Threads,
           \/ FastFails(t) \/ Unblocked(t) \/ DecrementSynchSem(t) \/ TimesOut(t) \/ TryRemoveFails(t) \/ RemoveAgain(t)
           \/ Unlock(t) \/ TryRemoveStart(t) \/ IncrementStart(t) \/ FerSpin(t) \/ Trans(t) \/ CvRemove(t) \/ CvTimesOut(t) \/ Signal(t)
    PROVE  StrandInv'
<1>1. TypeOK
  BY Zenon DEF WordInv
<1>2. ASSUME NEW l, pc' = [pc EXCEPT ![t] = l], l \notin {"enqueue", "ferspin"},
             pc[t] \notin Holding \cup {"increment", "wake", "post"},
             UNCHANGED <<queue, flag, how, cond, requeue, cv_word, local>>,
             mu' \in {mu, mu \cup {"kMuSpin", "kMuWriter"}}
      PROVE  StrandInv'
  <2>1. Tended => Tended'
    BY <1>1, <1>2, TendStep, Zenon
  <2>2. AsideMove(t, l)
    BY Zenon, <1>2, <2>1 DEF AsideMove, Holding
  <2> QED
    BY <2>2, AsideStep, Zenon
<1>3. ASSUME NEW l, pc' = [pc EXCEPT ![t] = l], Tended',
             pc[t] \notin {"unlock", "nowaiters", "waiters", "search", "wake", "post"},
             UNCHANGED <<queue, flag, how, cond, requeue, cv_word, local>>
      PROVE  StrandInv'
  <2>1. AsideMove(t, l)
    BY <1>3, Zenon DEF AsideMove
  <2> QED
    BY <2>1, AsideStep, Zenon
<1>4. CASE FastFails(t) \/ Unblocked(t) \/ TimesOut(t) \/ TryRemoveFails(t) \/ RemoveAgain(t) \/ TryRemoveStart(t)
  <2>1. PICK l \in {"slow", "idle", "remove", "recheck", "removing"} : pc' = [pc EXCEPT ![t] = l]
    BY <1>4, Zenon DEF FastFails, Unblocked, TimesOut, TryRemoveFails, RemoveAgain, TryRemoveStart, Goto
  <2>2. pc[t] \notin Holding \cup {"increment", "wake", "post"}
    BY Zenon, <1>4 DEF FastFails, Unblocked, TimesOut, TryRemoveFails, RemoveAgain, TryRemoveStart, Holding
  <2>3. /\ UNCHANGED <<queue, flag, how, cond, requeue, cv_word, local>>
        /\ mu' \in {mu, mu \cup {"kMuSpin", "kMuWriter"}}
    BY Zenon, <1>4 DEF FastFails, Unblocked, TimesOut, TryRemoveFails, RemoveAgain, TryRemoveStart, word, waiters, waitp, rest
  <2> QED
    BY <1>2, <2>1, <2>2, <2>3, Zenon
<1>5. CASE Trans(t) \/ CvRemove(t) \/ CvTimesOut(t) \/ Signal(t)
  <2>1. PICK l \in {"fast", "cvwait", "cvremove", "fer"} : pc' = [pc EXCEPT ![t] = l]
    BY <1>5, Zenon DEF Trans, CvRemove, CvTimesOut, Signal, Goto
  <2>2. pc[t] \notin Holding \cup {"increment", "wake", "post"}
    BY Zenon, <1>5 DEF Trans, CvRemove, CvTimesOut, Signal, Holding
  <2>3. UNCHANGED <<mu, queue, flag, how, cond, requeue, cv_word, local>>
    BY Zenon, <1>5 DEF Trans, CvRemove, CvTimesOut, Signal, word, waiters, waitp, rest
  <2> QED
    BY <1>2, <2>1, <2>2, <2>3, Zenon
<1>6. CASE DecrementSynchSem(t)
  <2>1. pc' = [pc EXCEPT ![t] = pc[t]]
    BY Zenon, <1>1, <1>6 DEF DecrementSynchSem, TypeOK
  <2>2. /\ pc[t] \in {"block", "cvwait"} /\ UNCHANGED <<mu, queue, flag, how, cond, requeue, cv_word, local>>
    BY Zenon, <1>6 DEF DecrementSynchSem, word, waiters, waitp, rest
  <2> QED
    BY <1>2, <2>1, <2>2, Zenon DEF Holding
<1>7. CASE Unlock(t) \/ IncrementStart(t)
  <2>1. PICK l \in {"unlock", "increment"} : pc' = [pc EXCEPT ![t] = l]
    BY <1>7, Zenon DEF Unlock, IncrementStart, Goto
  <2>2. pc[t] \in {"cs", "slow"} /\ UNCHANGED <<queue, flag, how, cond, requeue, cv_word, local>>
    BY <1>7, Zenon DEF Unlock, IncrementStart, word, waiters, waitp, rest
  <2>3. Tended'
    BY <1>1, <2>1, TendStep, Zenon DEF Holding
  <2> QED
    BY <1>3, <2>1, <2>2, <2>3, Zenon
<1>8. CASE FerSpin(t)
  <2>1. /\ pc[t] = "fer" /\ pc' = [pc EXCEPT ![t] = "ferspin"]
        /\ UNCHANGED <<queue, flag, how, cond, requeue, cv_word, local>>
    BY Zenon, <1>8 DEF FerSpin, Goto, waiters, waitp, rest
  <2>2. "kMuSpin" \notin mu /\ ("kMuWriter" \in mu \/ "kMuReader" \in mu)
    BY Zenon, <1>8 DEF FerSpin, Conflicting
  <2>3. Tended'
    BY <1>1, <2>1, <2>2, ConflictTends, TendStep, Zenon DEF Holding
  <2> QED
    BY <1>3, <2>1, <2>3, Zenon
<1> QED
  BY <1>4, <1>5, <1>6, <1>7, <1>8, Zenon

\* The lock is obtained: the thread holds it, and if it is to wait again its condition is false.
LEMMA AcquireStrand ==
    ASSUME WordInv, QueueInv, StrandInv, TypeOK', NEW t \in Threads,
           Fast(t) \/ SlowAcquire(t) \/ Increment(t)
    PROVE  StrandInv'
<1>1. TypeOK
  BY Zenon DEF WordInv
<1>2. /\ Acquired(t) /\ pc[t] \in {"fast", "try", "slow", "increment"}
      /\ UNCHANGED <<queue, cv_word, local, flag>>
  <2>1. CASE Fast(t)
    BY <2>1, Zenon DEF Fast, Acquire, waiters, rest
  <2>2. CASE SlowAcquire(t)
    BY <2>2, Zenon DEF SlowAcquire, Acquire, waiters, rest
  <2>3. CASE Increment(t)
    BY <2>3, Zenon DEF Increment, rest
  <2> QED
    BY <2>1, <2>2, <2>3, Zenon
<1>3. t \notin requeue /\ t \notin cv_word /\ local[t].old_h = NoThread /\ t \notin Range(queue)
  BY Zenon, <1>2, StrandAt DEF StrandInv
<1>4. CASE Eval(cond[t])
  <2>1. /\ pc' = [pc EXCEPT ![t] = "cs"] /\ requeue' = requeue /\ how' = how
        /\ cond' = [cond EXCEPT ![t] = "null"]
    BY <1>2, <1>4, Zenon DEF Acquired, Goto
  <2>2. \A u \in Threads \ {t} : cond'[u] = cond[u]
    BY Zenon, <1>1, <2>1 DEF TypeOK
  <2>3. Tended'
    BY <1>1, <2>1, TendStep, Zenon DEF Holding
  <2>4. RequeueMove(t, "cs")
    BY Zenon, <1>2, <1>3, <2>1, <2>2 DEF RequeueMove
  <2>5. StrandMove(t, "cs")
    BY Zenon, <1>2, <1>3, <2>1, <2>3, <2>4 DEF StrandMove
  <2> QED
    BY <2>5, StrandStep, Zenon
<1>5. CASE ~Eval(cond[t])
  <2>1. /\ pc' = [pc EXCEPT ![t] = "unlock"] /\ requeue' = requeue \cup {t} /\ how' = how
        /\ cond' = cond
    BY <1>2, <1>5, Zenon DEF Acquired, Goto, waitp
  <2>2. ~Eval(cond[t])'
    BY Zenon, <1>2, <1>5, <2>1 DEF Eval
  <2>3. Tended'
    BY <1>1, <2>1, TendStep, Zenon DEF Holding
  <2>4. RequeueMove(t, "unlock")
    BY Zenon, <1>2, <1>3, <2>1, <2>2 DEF RequeueMove
  <2>5. StrandMove(t, "unlock")
    BY Zenon, <1>2, <1>3, <2>1, <2>3, <2>4 DEF StrandMove
  <2> QED
    BY <2>5, StrandStep, Zenon
<1> QED
  BY Zenon, <1>4, <1>5

\* A call starts, waits for a condition, or stops waiting for it: its own condition changes.
LEMMA CallStrand ==
    ASSUME WordInv, QueueInv, StrandInv, TypeOK', NEW t \in Threads,
           Call(t) \/ Await(t) \/ CvWait(t) \/ Removed(t)
    PROVE  StrandInv'
<1>1. TypeOK
  BY Zenon DEF WordInv
<1>2. CASE Call(t)
  <2>1. PICK op \in Ops, l \in {"try", "fast"} :
           /\ how' = [how EXCEPT ![t] = op.how] /\ cond' = [cond EXCEPT ![t] = op.cond]
           /\ pc' = [pc EXCEPT ![t] = l]
    BY <1>2, Zenon DEF Call, Goto
  <2>2. pc[t] = "idle" /\ UNCHANGED <<mu, queue, cv_word, requeue, local, flag>>
    BY <1>2, Zenon DEF Call, word, waiters
  <2>3. t \notin requeue /\ local[t].old_h = NoThread /\ t \notin Range(queue)
    BY Zenon, <2>2, StrandAt DEF StrandInv
  <2>4. \A u \in Threads \ {t} : cond'[u] = cond[u] /\ how'[u] = how[u]
    BY Zenon, <1>1, <2>1 DEF TypeOK
  <2>5. Tended => Tended'
    BY <1>1, <2>1, <2>2, TendStep, Zenon DEF Holding
  <2>6. RequeueMove(t, l)
    BY Zenon, <2>1, <2>2, <2>3, <2>4 DEF RequeueMove
  <2>7. StrandMove(t, l)
    BY Zenon, <2>2, <2>3, <2>4, <2>5, <2>6 DEF StrandMove
  <2> QED
    BY <2>7, StrandStep, Zenon
<1>3. CASE Await(t)
  <2>1. PICK op \in Ops : cond' = [cond EXCEPT ![t] = op.cond] /\ ~Eval(op.cond)
    BY <1>3, Zenon DEF Await
  <2>2. /\ pc[t] = "cs" /\ pc' = [pc EXCEPT ![t] = "unlock"] /\ requeue' = requeue \cup {t}
        /\ UNCHANGED <<mu, queue, how, cv_word, local, flag>>
    BY <1>3, Zenon DEF Await, Goto, word, waiters
  <2>3. local[t].old_h = NoThread /\ t \notin Range(queue)
    BY Zenon, <2>2, StrandAt DEF StrandInv
  <2>4. cond'[t] = op.cond /\ \A u \in Threads \ {t} : cond'[u] = cond[u]
    BY Zenon, <1>1, <2>1 DEF TypeOK
  <2>5. ~Eval(cond[t])'
    BY Zenon, <2>1, <2>2, <2>4 DEF Eval
  <2>6. Tended'
    BY <1>1, <2>2, TendStep, Zenon DEF Holding
  <2>7. RequeueMove(t, "unlock")
    BY Zenon, <2>2, <2>4, <2>5 DEF RequeueMove
  <2>8. StrandMove(t, "unlock")
    BY Zenon, <2>2, <2>3, <2>6, <2>7 DEF StrandMove
  <2> QED
    BY <2>8, StrandStep, Zenon
<1>4. CASE CvWait(t)
  <2>1. /\ pc[t] = "cs" /\ pc' = [pc EXCEPT ![t] = "unlock"]
        /\ requeue' = requeue \cup {t} /\ cv_word' = cv_word \cup {t}
        /\ UNCHANGED <<queue, how, cond, local, flag>>
    BY <1>4, Zenon DEF CvWait, Goto, waiters
  <2>2. local[t].old_h = NoThread
    BY Zenon, <2>1, StrandAt DEF StrandInv
  <2>3. Tended'
    BY <1>1, <2>1, TendStep, Zenon DEF Holding
  <2>4. RequeueMove(t, "unlock")
    BY Zenon, <2>1 DEF RequeueMove
  <2>5. StrandMove(t, "unlock")
    BY Zenon, <2>1, <2>2, <2>3, <2>4 DEF StrandMove
  <2> QED
    BY <2>5, StrandStep, Zenon
<1>5. CASE Removed(t)
  <2>1. /\ pc[t] = "recheck" /\ ~Queued(t) /\ pc' = [pc EXCEPT ![t] = "block"]
        /\ cond' = [cond EXCEPT ![t] = "null"] /\ UNCHANGED <<mu, queue, how, cv_word, requeue, local, flag>>
    BY <1>5, Zenon DEF Removed, Goto, word, waiters, rest
  <2>2. t \notin requeue /\ local[t].old_h = NoThread /\ t \notin Range(queue)
    BY Zenon, <2>1, StrandAt DEF StrandInv
  <2>3. \A u \in Threads \ {t} : cond'[u] = cond[u]
    BY Zenon, <1>1, <2>1 DEF TypeOK
  <2>4. Tended => Tended'
    BY <1>1, <2>1, TendStep, Zenon DEF Holding
  <2>5. RequeueMove(t, "block")
    BY Zenon, <2>1, <2>2, <2>3 DEF RequeueMove
  <2>6. StrandMove(t, "block")
    BY Zenon, <2>1, <2>2, <2>4, <2>5 DEF StrandMove
  <2> QED
    BY <2>6, StrandStep, Zenon
<1> QED
  BY Zenon, <1>2, <1>3, <1>4, <1>5

\* A thread that will queue itself has seen a holder, or a writer that readers wait for.
LEMMA EnqueueStartStrand ==
    ASSUME WordInv, QueueInv, StrandInv, TypeOK', NEW t \in Threads, EnqueueStart(t)
    PROVE  StrandInv'
<1>1. TypeOK
  BY Zenon DEF WordInv
<1>2. /\ pc[t] = "slow" /\ pc' = [pc EXCEPT ![t] = "enqueue"] /\ "kMuSpin" \notin mu
      /\ mu' = ClearDesig(t, mu) \cup {"kMuSpin", "kMuWait"}
      /\ UNCHANGED <<queue, how, cond, cv_word, requeue, flag>>
  BY Zenon DEF EnqueueStart, Goto, waiters, waitp, rest
<1>3. \E wr_wait : local' = [local EXCEPT ![t].wr_wait = wr_wait]
  BY Zenon DEF EnqueueStart
<1>4. \A u \in Threads : local'[u].old_h = local[u].old_h /\ (u # t => local'[u] = local[u])
  BY <1>1, <1>3 DEF TypeOK, LocalRecs
<1>5. t \notin requeue /\ local[t].old_h = NoThread
  BY Zenon, <1>2, StrandAt DEF StrandInv
<1>6. Tended'
  <2>1. CASE "kMuWriter" \in mu \/ "kMuReader" \in mu
    <3>1. PICK u \in Threads : pc[u] \in Holding
      BY <1>2, <2>1, ConflictTends, Zenon
    <3>2. u # t
      BY Zenon, <1>2, <3>1 DEF Holding
    <3> QED
      BY <1>1, <1>2, <3>1, <3>2, TendStep, Zenon
  <2>2. CASE "kMuWriter" \notin mu /\ "kMuReader" \notin mu
    <3>1. how[t] = "kShared"
      <4>1. mu \cap slow_need_zero[how[t]] # {} /\ how[t] \in {"kShared", "kExclusive"}
        BY <1>1, HolderIs, Zenon DEF EnqueueStart
      <4> QED
        BY <2>2, <4>1 DEF slow_need_zero, fast_need_zero
    <3>2. ~MayIncrement(t)
      BY Zenon DEF EnqueueStart
    <3>3. "kMuWrWait" \in mu /\ t \notin blocked
      BY <1>2, <2>2, <3>1, <3>2 DEF MayIncrement, IgnoreWaitingWriters, slow_inc_need_zero
    <3>4. Tended
      BY Zenon, <3>3 DEF StrandInv, TendInv
    <3>5. mu' = mu \cup {"kMuSpin", "kMuWait"}
      BY Zenon, <1>2, <3>3 DEF ClearDesig
    <3> QED
      BY <1>1, <1>2, <3>4, <3>5, TendStep, Zenon DEF Holding
  <2> QED
    BY Zenon, <2>1, <2>2
<1>7. RequeueMove(t, "enqueue")
  BY Zenon, <1>2, <1>5 DEF RequeueMove
<1>8. StrandMove(t, "enqueue")
  BY Zenon, <1>2, <1>4, <1>5, <1>6, <1>7 DEF StrandMove
<1> QED
  BY <1>8, StrandStep, Zenon

\* A fast release: there are no waiters, or a designated waker.
LEMMA FastReleaseStrand ==
    ASSUME WordInv, QueueInv, StrandInv, TypeOK', NEW t \in Threads,
           FastWriterRelease(t) \/ FastReaderRelease(t)
    PROVE  StrandInv'
<1>1. TypeOK
  BY Zenon DEF WordInv
<1>2. /\ Released(t) /\ pc[t] = "unlock" /\ t \notin requeue
      /\ UNCHANGED <<queue, how, cond, flag>> /\ mu' \subseteq mu
  BY Zenon DEF FastWriterRelease, FastReaderRelease, waiters, waitp, rest
<1>3. /\ pc' = [pc EXCEPT ![t] = "idle"] /\ cv_word' = cv_word \ {t} /\ requeue' = requeue \ {t}
      /\ local' = [local EXCEPT ![t] = NoLocal]
  BY <1>2, Zenon DEF Released, Goto, QueueInv
<1>4. local'[t].old_h = NoThread /\ \A u \in Threads \ {t} : local'[u] = local[u]
  BY Zenon, <1>1, <1>3 DEF TypeOK, NoLocal
<1>5. "kMuWait" \notin mu \/ "kMuDesig" \in mu'
  BY DEF FastWriterRelease, FastReaderRelease
<1>6. "kMuWait" \notin mu \/ Tended'
  BY <1>1, <1>3, <1>5, TendStep, Zenon
<1>7. t \notin Range(queue)
  BY Zenon, <1>2, StrandAt DEF StrandInv
<1>8. RequeueMove(t, "idle")
  BY Zenon, <1>2, <1>3 DEF RequeueMove
<1>9. StrandMove(t, "idle")
  BY Zenon, <1>2, <1>4, <1>6, <1>7, <1>8 DEF StrandMove
<1> QED
  BY <1>9, StrandStep, Zenon

\* UnlockSlow takes the spin bit.
LEMMA UnlockSpinStrand ==
    ASSUME WordInv, QueueInv, StrandInv, TypeOK', NEW t \in Threads, UnlockSpin(t)
    PROVE  StrandInv'
<1>1. TypeOK
  BY Zenon DEF WordInv
<1>2. /\ pc[t] = "unlock" /\ local' = [local EXCEPT ![t].v = mu]
      /\ UNCHANGED <<queue, how, cond, cv_word, requeue, flag>>
  BY Zenon DEF UnlockSpin, waiters, waitp, rest
<1>3. PICK l \in {"waiters", "nowaiters"} : pc' = [pc EXCEPT ![t] = l]
  BY Zenon DEF UnlockSpin, Goto
<1>4. /\ local'[t].old_h = local[t].old_h /\ local'[t].w = local[t].w
      /\ \A u \in Threads \ {t} : local'[u] = local[u]
  BY Zenon, <1>1, <1>2 DEF TypeOK, LocalRecs
<1>5. t \in requeue /\ t \notin cv_word => ~Eval(cond[t])'
  BY Zenon, <1>2 DEF StrandInv, RequeueInv, Holding, Eval
<1>6. Tended'
  BY <1>1, <1>3, TendStep, Zenon DEF Holding
<1>7. RequeueMove(t, l)
  BY Zenon, <1>2, <1>3, <1>5 DEF RequeueMove
<1>8. StrandMove(t, l)
  BY Zenon, <1>2, <1>3, <1>4, <1>6, <1>7 DEF StrandMove
<1> QED
  BY <1>8, StrandStep, Zenon

\* A thread wakes others, or has woken them.
LEMMA WakerStrand ==
    ASSUME WordInv, QueueInv, StrandInv, TypeOK', NEW t \in Threads,
           Wakeup(t) \/ Post(t) \/ FerWake(t) \/ FerPost(t)
    PROVE  StrandInv'
<1>1. TypeOK
  BY Zenon DEF WordInv
<1>2. pc[t] \in {"wake", "post", "fer", "ferpost"} /\ UNCHANGED <<mu, queue, how, cond, flag>>
  BY Zenon DEF Wakeup, Post, FerWake, FerPost, word, waiters, waitp, rest
<1>3. local[t].old_h = NoThread
  BY Zenon, <1>2, StrandAt DEF StrandInv
<1>4. PICK l \in {"post", "wake", "cvwait", "block", "idle", "ferpost", "fer"} : pc' = [pc EXCEPT ![t] = l]
  BY Zenon DEF Wakeup, Post, FerWake, FerPost, Released, Goto
<1>5. \E w : local' = [local EXCEPT ![t].w = w] \/ local' = [local EXCEPT ![t] = NoLocal] \/ local' = local
  BY Zenon DEF Wakeup, Post, FerWake, FerPost, Released
<1>6. local'[t].old_h = NoThread /\ \A u \in Threads \ {t} : local'[u] = local[u]
  <2>1. local \in [Threads -> LocalRecs]
    BY Zenon, <1>1 DEF TypeOK
  <2>2. CASE \E w : local' = [local EXCEPT ![t].w = w]
    BY <1>3, <2>1, <2>2 DEF LocalRecs
  <2>3. CASE local' = [local EXCEPT ![t] = NoLocal]
    BY <2>1, <2>3 DEF NoLocal
  <2> QED
    BY Zenon, <1>3, <1>5, <2>2, <2>3
<1>7. \/ requeue' = requeue /\ cv_word' = cv_word
      \/ requeue' = requeue \ {t} /\ cv_word' = cv_word \ {t}
  BY Zenon DEF Wakeup, Post, FerWake, FerPost, Released
<1>8. Tended => Tended'
  BY <1>1, <1>2, <1>4, TendStep, Zenon DEF Holding
<1>9. RequeueMove(t, l)
  BY Zenon, <1>2, <1>4, <1>7 DEF RequeueMove, Holding
<1>10. StrandMove(t, l)
  BY Zenon, <1>2, <1>4, <1>6, <1>8, <1>9 DEF StrandMove
<1> QED
  BY <1>10, StrandStep, Zenon

\* Appending a waiter leaves the others where they are.
LEMMA AppendKeeps ==
    ASSUME NEW q \in Seq(Threads), IsInjective(q), NEW x \in Threads, x \notin Range(q),
           NEW r, Inserted(r, q, x, Len(q) + 1), NEW e \in Range(q)
    PROVE  Position(r, e) = Position(q, e) /\ Position(q, e) \in 1..Len(q)
<1>1. Position(q, e) \in 1..Len(q) /\ q[Position(q, e)] = e /\ Len(q) \in Nat
  BY PositionOf
<1>2. r \in Seq(Threads) /\ IsInjective(r) /\ Range(r) = Range(q) \cup {x}
  <2>1. Len(q) + 1 \in 1..(Len(q) + 1)
    BY <1>1
  <2> QED
    BY <2>1, InsertedRange, Zenon
<1>3. Position(r, e) \in 1..Len(r) /\ r[Position(r, e)] = e
  BY Zenon, <1>2, PositionOf
<1>4. Position(q, e) \in 1..Len(r) /\ r[Position(q, e)] = e
  BY <1>1 DEF Inserted
<1> QED
  BY <1>1, <1>2, <1>3, <1>4 DEF IsInjective

\* A step of t puts a waiter on the queue while somebody tends it.
QueuerMove(t, l) ==
    /\ RequeueMove(t, l) /\ Tended' /\ UNCHANGED <<how, cond>>
    /\ local'[t].old_h = NoThread /\ \A u \in Threads \ {t} : local'[u] = local[u]
    /\ \E x \in Threads \ Range(queue) : \E b : queue' = Enqueue(queue, x, b, maybe_unlocking)

\* The waiter does not get between those that an unlocker has searched.
LEMMA QueuerSearch ==
    ASSUME WordInv, QueueInv, SearchInv, NEW t \in Threads, NEW l, QueuerMove(t, l)
    PROVE  SearchInv'
<1> SUFFICES ASSUME NEW u \in Threads, local'[u].old_h # NoThread, local'[u].w = NoThread,
                    ~UnconditionalWriter(Head(queue))', NEW i \in Searched(u)'
             PROVE  ~Eval(cond[queue[i]])'
  BY Zenon DEF SearchInv
<1>1. TypeOK /\ IsInjective(queue) /\ queue \in Seq(Threads) /\ Len(queue) \in Nat
  BY DEF WordInv, QueueInv, OnOneQueue, TypeOK
<1>2. u # t /\ local'[u] = local[u] /\ pc'[u] = pc[u] /\ flag' = flag /\ how' = how /\ cond' = cond
  BY Zenon, <1>1 DEF QueuerMove, RequeueMove, TypeOK
<1>3. /\ maybe_unlocking /\ local[u].old_h \in Range(queue)
      /\ pc[u] = "search" => local[u].from \in Range(queue)
  BY Zenon, <1>2, WordInvHas DEF SearchAt
<1>4. PICK x \in Threads \ Range(queue) : \E b : queue' = Enqueue(queue, x, b, maybe_unlocking)
  BY Zenon DEF QueuerMove
<1>5. PICK b : queue' = Enqueue(queue, x, b, maybe_unlocking)
  BY <1>4, Zenon
<1>6. PICK j \in 1..(Len(queue) + 1) :
          /\ Inserted(Enqueue(queue, x, b, maybe_unlocking), queue, x, j)
          /\ maybe_unlocking => j = Len(queue) + 1 \/ (j = 1 /\ UnconditionalWriter(x))
  BY <1>1, <1>4, EnqueueInserts, Zenon
<1>7. Inserted(queue', queue, x, j)
  BY <1>5, <1>6, Zenon
<1>8. CASE j = 1 /\ UnconditionalWriter(x)
  <2>1. Head(queue') = x
    BY <1>1, <1>7, <1>8 DEF Inserted
  <2> QED
    BY Zenon, <1>2, <1>8, <2>1 DEF UnconditionalWriter
<1>9. CASE j = Len(queue) + 1
  <2>1. \A e \in Range(queue) : Position(queue', e) = Position(queue, e) /\ Position(queue, e) \in 1..Len(queue)
    <3> TAKE e \in Range(queue)
    <3>1. Inserted(queue', queue, x, Len(queue) + 1)
      BY <1>7, <1>9, Zenon
    <3>2. x \in Threads /\ x \notin Range(queue)
      BY Zenon, <1>4
    <3> QED
      BY <1>1, <3>1, <3>2, AppendKeeps, Zenon
  <2>2. Position(queue', local[u].old_h) = Position(queue, local[u].old_h) /\ Position(queue, local[u].old_h) \in 1..Len(queue)
    BY Zenon, <1>3, <2>1
  <2>3. pc[u] = "search" =>
           Position(queue', local[u].from) = Position(queue, local[u].from) /\ Position(queue, local[u].from) \in 1..Len(queue)
    BY Zenon, <1>3, <2>1
  <2>4. i \in DOMAIN queue' /\ DOMAIN queue' = 1..Len(queue') /\ DOMAIN queue = 1..Len(queue)
    BY <1>1, <1>7 DEF Inserted, Searched
  <2>5. /\ pc[u] = "search" => i < Position(queue, local[u].from)
        /\ pc[u] # "search" => i <= Position(queue, local[u].old_h)
    BY Zenon, <1>2, <2>2, <2>3 DEF Searched
  <2>6. i \in 1..Len(queue) /\ i \in Searched(u)
    BY SMTT(30), <1>1, <2>2, <2>3, <2>4, <2>5 DEF Searched
  <2>7. queue'[i] = queue[i] /\ Head(queue') = Head(queue)
    BY SMTT(30), <1>1, <1>7, <1>9, <2>4, <2>6 DEF Inserted
  <2>8. ~UnconditionalWriter(Head(queue))
    BY Zenon, <1>2, <2>7 DEF UnconditionalWriter
  <2>9. ~Eval(cond[queue[i]])
    BY Zenon, <1>2, <2>6, <2>8 DEF SearchInv
  <2> QED
    BY Zenon, <1>2, <2>7, <2>9 DEF Eval
<1> QED
  BY Zenon, <1>3, <1>6, <1>8, <1>9

\* Nobody is stranded by a step in which a thread queues itself or another waiter.
LEMMA QueuerStep ==
    ASSUME WordInv, QueueInv, StrandInv, TypeOK', NEW t \in Threads, NEW l, QueuerMove(t, l)
    PROVE  StrandInv'
<1>1. TypeOK /\ RequeueInv /\ SearchInv
  BY Zenon DEF WordInv, StrandInv
<1>2. SearchInv'
  BY <1>1, QueuerSearch, Zenon
<1>3. RequeueInv'
  BY <1>1, RequeueStep, Zenon DEF QueuerMove
<1>4. TendInv'
  BY Zenon DEF QueuerMove, TendInv
<1> QED
  BY Zenon, <1>2, <1>3, <1>4 DEF StrandInv

\* A reader that is not the last leaves another one behind.
LEMMA NotLastReaderTends ==
    ASSUME WordInv, NEW t \in Threads, NotLastReader(t)
    PROVE  \E u \in Threads \ {t} : pc[u] \in Holding
<1>1. TypeOK /\ BitsInv /\ CountInv /\ LocalAt(t)
  BY Zenon, WordInvHas
<1>2. pc[t] = "waiters" /\ ~LastHolder
  BY Zenon DEF NotLastReader
<1>3. "kMuReader" \in mu /\ "kMuWait" \in mu /\ readers \in Nat /\ readers > 1
  BY Zenon, <1>1, <1>2 DEF LastHolder, LocalAt, TypeOK
<1>4. t \in Counted
  BY Zenon, <1>2, <1>3, UnlockerHolds DEF Holding
<1>5. Cardinality(Counted) = readers /\ Cardinality(Counted \ {t}) = Cardinality(Counted) - 1
  BY Zenon, <1>1, <1>3, <1>4, CountedFinite DEF CountInv
<1>6. Counted \ {t} = {} => Cardinality(Counted \ {t}) = 0
  BY FS_EmptySet, Zenon
<1>7. PICK u : u \in Counted \ {t}
  BY <1>3, <1>5, <1>6
<1> QED
  BY Zenon, <1>1, <1>7, HolderIs DEF Counted, Readers

\* A thread queues itself, or a signaller queues one.
LEMMA QueuersStrand ==
    ASSUME WordInv, QueueInv, StrandInv, TypeOK', NEW t \in Threads,
           EnqueueEnd(t) \/ FerEnqueue(t) \/ (NotLastReader(t) /\ t \in requeue \ cv_word)
    PROVE  StrandInv'
<1>1. TypeOK
  BY Zenon DEF WordInv
<1>2. CASE EnqueueEnd(t)
  <2>1. /\ pc[t] = "enqueue" /\ pc' = [pc EXCEPT ![t] = "block"]
        /\ queue' = Enqueue(queue, t, t \in blocked, maybe_unlocking)
        /\ mu' = (mu \ {"kMuSpin"}) \cup {"kMuWait"} \cup local[t].wr_wait
        /\ local' = [local EXCEPT ![t] = NoLocal]
        /\ UNCHANGED <<how, cond, cv_word, requeue, flag>>
    BY <1>2, Zenon DEF EnqueueEnd, Goto, waitp, rest
  <2>2. t \notin requeue /\ t \notin Range(queue)
    BY Zenon, <2>1, StrandAt DEF StrandInv
  <2>3. local'[t].old_h = NoThread /\ \A u \in Threads \ {t} : local'[u] = local[u]
    BY Zenon, <1>1, <2>1 DEF TypeOK, NoLocal
  <2>4. Tended /\ ("kMuDesig" \in mu => "kMuDesig" \in mu')
    BY Zenon, <2>1 DEF StrandInv, TendInv
  <2>5. Tended'
    BY <1>1, <2>1, <2>4, TendStep, Zenon DEF Holding
  <2>6. RequeueMove(t, "block")
    BY Zenon, <2>1, <2>2 DEF RequeueMove
  <2>7. \E x \in Threads \ Range(queue) : \E b : queue' = Enqueue(queue, x, b, maybe_unlocking)
    BY <2>1, <2>2, Zenon
  <2>8. QueuerMove(t, "block")
    BY <2>1, <2>3, <2>5, <2>6, <2>7, Zenon DEF QueuerMove
  <2> QED
    BY <2>8, QueuerStep, Zenon
<1>3. CASE FerEnqueue(t)
  <2> DEFINE x == Head(wake_list[t])
  <2>1. /\ pc[t] = "ferspin" /\ NextFer(t) /\ queue' = Enqueue(queue, x, FALSE, maybe_unlocking)
        /\ mu' = (mu \ {"kMuSpin"}) \cup {"kMuWait"}
        /\ UNCHANGED <<how, cond, cv_word, requeue, flag, local>>
    BY <1>3, Zenon DEF FerEnqueue, waitp, rest
  <2>2. t \notin requeue /\ local[t].old_h = NoThread
    BY Zenon, <2>1, StrandAt DEF StrandInv
  <2>3. PICK l \in {"idle", "fer"} : pc' = [pc EXCEPT ![t] = l]
    BY <2>1, Zenon DEF NextFer, Goto
  <2>4. x \in Threads /\ x \notin Range(queue)
    <3>1. wake_list[t] \in Seq(Threads) /\ wake_list[t] # <<>>
      BY Zenon, <1>1, <2>1, WordInvHas DEF LocalAt, TypeOK
    <3>2. x \in Threads /\ x \in Range(wake_list[t])
      BY Zenon, <3>1, HeadAndTail
    <3>3. Range(wake_list[t]) \cap Range(queue) = {}
      BY Zenon DEF QueueInv, OnOneQueue
    <3> QED
      BY Zenon, <3>2, <3>3
  <2>5. Tended /\ ("kMuDesig" \in mu => "kMuDesig" \in mu')
    BY Zenon, <2>1 DEF StrandInv, TendInv
  <2>6. Tended'
    BY <1>1, <2>1, <2>3, <2>5, TendStep, Zenon DEF Holding
  <2>7. RequeueMove(t, l)
    BY Zenon, <2>1, <2>2, <2>3 DEF RequeueMove
  <2>8. \E y \in Threads \ Range(queue) : \E b : queue' = Enqueue(queue, y, b, maybe_unlocking)
    BY <2>1, <2>4, Zenon
  <2>9. QueuerMove(t, l)
    BY <2>1, <2>2, <2>6, <2>7, <2>8, Zenon DEF QueuerMove
  <2> QED
    BY <2>9, QueuerStep, Zenon
<1>4. CASE NotLastReader(t) /\ t \in requeue \ cv_word
  <2>1. /\ pc[t] = "waiters" /\ Released(t) /\ UNCHANGED <<how, cond, flag>>
        /\ queue' = Enqueue(queue, t, FALSE, maybe_unlocking)
    BY <1>4, Zenon DEF NotLastReader, SelfEnqueued, waitp, rest
  <2>2. /\ pc' = [pc EXCEPT ![t] = "block"] /\ cv_word' = cv_word \ {t} /\ requeue' = requeue \ {t}
        /\ local' = [local EXCEPT ![t] = NoLocal]
    BY Zenon, <1>4, <2>1 DEF Released, Goto
  <2>3. t \notin Range(queue)
    BY Zenon, <2>1, StrandAt DEF StrandInv
  <2>4. local'[t].old_h = NoThread /\ \A u \in Threads \ {t} : local'[u] = local[u]
    BY Zenon, <1>1, <2>2 DEF TypeOK, NoLocal
  <2>5. Tended'
    BY <1>1, <1>4, <2>2, NotLastReaderTends, TendStep, Zenon
  <2>6. RequeueMove(t, "block")
    BY Zenon, <2>1, <2>2 DEF RequeueMove
  <2>7. \E x \in Threads \ Range(queue) : \E b : queue' = Enqueue(queue, x, b, maybe_unlocking)
    BY <2>1, <2>3, Zenon
  <2>8. QueuerMove(t, "block")
    BY <2>1, <2>4, <2>5, <2>6, <2>7, Zenon DEF QueuerMove
  <2> QED
    BY <2>8, QueuerStep, Zenon
<1> QED
  BY Zenon, <1>2, <1>3, <1>4

\* A reader that is not the last releases the lock and does not queue itself on the mutex.
LEMMA ReaderLeavesStrand ==
    ASSUME WordInv, QueueInv, StrandInv, TypeOK', NEW t \in Threads, NotLastReader(t), t \notin requeue \ cv_word
    PROVE  StrandInv'
<1>1. TypeOK
  BY Zenon DEF WordInv
<1>2. /\ pc[t] = "waiters" /\ Released(t) /\ UNCHANGED <<how, cond, flag>> /\ queue' = queue
  BY Zenon DEF NotLastReader, SelfEnqueued, waitp, rest
<1>3. PICK l \in {"cvwait", "block", "idle"} : pc' = [pc EXCEPT ![t] = l]
  BY <1>1, <1>2, ReleasedIs, Zenon
<1>4. cv_word' = cv_word \ {t} /\ requeue' = requeue \ {t} /\ local' = [local EXCEPT ![t] = NoLocal]
  BY <1>2, Zenon DEF Released
<1>5. local'[t].old_h = NoThread /\ \A u \in Threads \ {t} : local'[u] = local[u]
  BY Zenon, <1>1, <1>4 DEF TypeOK, NoLocal
<1>6. Tended'
  BY <1>1, <1>3, NotLastReaderTends, TendStep, Zenon
<1>7. RequeueMove(t, l)
  BY Zenon, <1>2, <1>3, <1>4 DEF RequeueMove
<1>8. StrandMove(t, l)
  BY Zenon, <1>2, <1>5, <1>6, <1>7 DEF StrandMove
<1> QED
  BY <1>8, StrandStep, Zenon

\* A step after which no unlocker remembers a search.
LEMMA LoneStep ==
    ASSUME WordInv, StrandInv, TypeOK', NEW t \in Threads, NEW l, RequeueMove(t, l), TendInv',
           \A u \in Threads : local'[u].old_h = NoThread
    PROVE  StrandInv'
<1>1. TypeOK /\ RequeueInv
  BY Zenon DEF WordInv, StrandInv
<1>2. RequeueInv'
  BY <1>1, RequeueStep, Zenon
<1>3. SearchInv'
  BY Zenon DEF SearchInv
<1> QED
  BY Zenon, <1>2, <1>3 DEF StrandInv

\* The first waiter is queued while somebody holds the lock.
LEMMA FirstWaiterStrand ==
    ASSUME WordInv, QueueInv, StrandInv, TypeOK', NEW t \in Threads, OnlyWaiter(t) \/ FerOnlyWaiter(t)
    PROVE  StrandInv'
<1>1. TypeOK
  BY Zenon DEF WordInv
<1>2. /\ pc[t] \in {"slow", "fer"} /\ "kMuSpin" \notin mu /\ "kMuWait" \notin mu
      /\ UNCHANGED <<how, cond, cv_word, requeue, local, flag>>
  BY Zenon DEF OnlyWaiter, FerOnlyWaiter, waitp, rest
<1>3. PICK l \in {"block", "idle", "fer"} : pc' = [pc EXCEPT ![t] = l]
  BY Zenon DEF OnlyWaiter, FerOnlyWaiter, NextFer, Goto
<1>4. "kMuWriter" \in mu \/ "kMuReader" \in mu
  <2>1. CASE OnlyWaiter(t)
    <3>1. mu \cap slow_need_zero[how[t]] # {} /\ how[t] \in {"kShared", "kExclusive"}
      BY <1>1, <2>1, HolderIs, Zenon DEF OnlyWaiter
    <3> QED
      BY <1>2, <3>1 DEF slow_need_zero, fast_need_zero
  <2>2. CASE FerOnlyWaiter(t)
    BY Zenon, <2>2 DEF FerOnlyWaiter, Conflicting
  <2> QED
    BY Zenon, <2>1, <2>2
<1>5. Tended'
  <2>1. PICK u \in Threads : pc[u] \in Holding
    BY <1>2, <1>4, ConflictTends, Zenon
  <2>2. u # t
    BY Zenon, <1>2, <2>1 DEF Holding
  <2> QED
    BY <1>1, <1>3, <2>1, <2>2, TendStep, Zenon
<1>6. TendInv'
  BY <1>5, Zenon DEF TendInv
<1>7. \A u \in Threads : local'[u].old_h = NoThread
  BY Zenon, <1>2, EmptyTended
<1>8. t \notin requeue
  BY Zenon, <1>2, StrandAt DEF StrandInv
<1>9. RequeueMove(t, l)
  BY Zenon, <1>2, <1>3, <1>8 DEF RequeueMove
<1> QED
  BY <1>6, <1>7, <1>9, LoneStep, Zenon

\* The owner of the spin bit is the only thread that may be about to queue a waiter.
LEMMA NoQueuer ==
    ASSUME WordInv, NEW t \in Threads, pc[t] \in Spinning, NEW l, pc' = [pc EXCEPT ![t] = l],
           l \notin {"enqueue", "ferspin"}
    PROVE  \A u \in Threads : pc'[u] \notin {"enqueue", "ferspin"}
<1>1. TypeOK /\ SpinInv
  BY Zenon DEF WordInv
<1>2. pc'[t] = l /\ \A u \in Threads \ {t} : pc'[u] = pc[u]
  BY Zenon, <1>1 DEF TypeOK
<1>3. \A u \in Threads \ {t} : pc[u] \notin Spinning
  BY Zenon, <1>1 DEF SpinInv
<1> QED
  BY Zenon, <1>2, <1>3 DEF Spinning

\* An unlocker that finds no waiters is the only one, if it waits on the mutex.
LEMMA NoWaitersStrand ==
    ASSUME WordInv, QueueInv, StrandInv, TypeOK', NEW t \in Threads, NoWaiters(t)
    PROVE  StrandInv'
<1>1. TypeOK /\ LocalAt(t)
  BY Zenon, WordInvHas
<1>2. /\ pc[t] = "nowaiters" /\ Released(t) /\ UNCHANGED <<how, cond, flag>>
  BY Zenon DEF NoWaiters, waitp, rest
<1>3. (t \in cv_word /\ queue' = queue) \/ (t \notin cv_word /\ queue' = <<t>>)
  BY Zenon DEF NoWaiters
<1>4. "kMuWrWait" \notin mu'
  BY DEF NoWaiters
<1>5. PICK l \in {"cvwait", "block", "idle"} : pc' = [pc EXCEPT ![t] = l]
  BY <1>1, <1>2, ReleasedIs, Zenon
<1>6. "kMuWait" \notin mu /\ t \in requeue
  BY Zenon, <1>1, <1>2 DEF LocalAt
<1>7. cv_word' = cv_word \ {t} /\ requeue' = requeue \ {t} /\ local' = [local EXCEPT ![t] = NoLocal]
  BY <1>2, Zenon DEF Released
<1>8. \A u \in Threads : local'[u].old_h = NoThread
  BY Zenon, <1>1, <1>6, <1>7, EmptyTended DEF TypeOK, NoLocal
<1>9. t \notin cv_word => ~Eval(cond[t])
  BY Zenon, <1>2, <1>6 DEF StrandInv, RequeueInv, Holding
<1>10. \A u \in Range(queue') : ~Eval(cond[u])'
  <2>1. Range(queue) = {}
    BY Zenon, <1>6, EmptyTended
  <2>2. CASE t \in cv_word
    BY Zenon, <1>3, <2>1, <2>2
  <2>3. CASE t \notin cv_word
    <3>1. Range(queue') = {t}
      BY <1>3, <2>3 DEF Range
    <3> QED
      BY Zenon, <1>2, <1>9, <2>3, <3>1 DEF Eval
  <2> QED
    BY Zenon, <2>2, <2>3
<1>11. TendInv'
  <2>1. \A u \in Threads : pc'[u] \notin {"enqueue", "ferspin"}
    BY <1>2, <1>5, NoQueuer, Zenon DEF Spinning
  <2> QED
    BY <1>4, <1>10, <2>1, Zenon DEF TendInv
<1>12. RequeueMove(t, l)
  BY Zenon, <1>2, <1>5, <1>7 DEF RequeueMove
<1> QED
  BY <1>8, <1>11, <1>12, LoneStep, Zenon

\* A thread takes itself off the queue: the others stay untended only if they were.
LEMMA TryRemoveEndStrand ==
    ASSUME WordInv, QueueInv, StrandInv, TypeOK', NEW t \in Threads, TryRemoveEnd(t)
    PROVE  StrandInv'
<1>1. TypeOK /\ TendInv
  BY Zenon DEF WordInv, StrandInv
<1>2. /\ pc[t] = "removing" /\ pc' = [pc EXCEPT ![t] = "recheck"] /\ queue' = RemoveFirst(queue, t)
      /\ UNCHANGED <<how, cond, cv_word, requeue, local, flag>>
  BY Zenon DEF TryRemoveEnd, Goto, waitp, rest
<1>3. "kMuWrWait" \notin mu' /\ ("kMuDesig" \in mu => "kMuDesig" \in mu')
  BY Zenon DEF TryRemoveEnd
<1>4. t \notin requeue /\ local[t].old_h = NoThread
  BY Zenon, <1>2, StrandAt DEF StrandInv
<1>5. \A u \in Threads : local'[u].old_h = NoThread
  <2>1. t \in Writers
    BY Zenon, <1>1, <1>2, HolderIs
  <2>2. \A u \in Threads \ {t} : local[u].old_h = NoThread
    BY Zenon, <2>1, SoleHolder
  <2> QED
    BY Zenon, <1>2, <1>4, <2>2
<1>6. Range(queue') \subseteq Range(queue)
  <2>1. queue \in Seq(Threads)
    BY Zenon, <1>1 DEF TypeOK
  <2> QED
    BY Zenon, <1>2, <2>1, RemoveFirstRemoves
<1>7. Tended => Tended'
  BY <1>1, <1>2, <1>3, TendStep, Zenon DEF Holding
<1>8. TendInv'
  <2>1. \A u \in Threads : pc'[u] \notin {"enqueue", "ferspin"}
    BY <1>2, NoQueuer, Zenon DEF Spinning
  <2>2. ~Tended' => \A u \in Range(queue') : ~Eval(cond[u])'
    BY Zenon, <1>1, <1>2, <1>6, <1>7 DEF TendInv, Eval
  <2> QED
    BY Zenon, <1>3, <2>1, <2>2 DEF TendInv
<1>9. RequeueMove(t, "recheck")
  BY Zenon, <1>2, <1>4 DEF RequeueMove
<1> QED
  BY <1>5, <1>8, <1>9, LoneStep, Zenon

\* Waiters are woken: they are the designated waker.
LEMMA WakeWaitersStrand ==
    ASSUME WordInv, StrandInv, TypeOK', NEW t \in Threads, WakeWaiters(t)
    PROVE  StrandInv'
<1>1. TypeOK /\ pc[t] = "waiters" /\ LastHolder
  BY Zenon DEF WordInv, WakeWaiters
<1>2. PICK w \in Range(queue), wr_wait \in SUBSET {"kMuWrWait"} : DequeueAndRelease(t, w, wr_wait)
  BY WakesWaiter, Zenon
<1>3. /\ pc' = [pc EXCEPT ![t] = "wake"] /\ local' = [local EXCEPT ![t] = NoLocal]
      /\ UNCHANGED <<how, cond, cv_word, requeue, flag>>
  BY <1>2, Zenon DEF DequeueAndRelease, Goto, waitp, rest
<1>4. "kMuDesig" \in mu'
  BY <1>2, Zenon DEF DequeueAndRelease, ReleasedWord
<1>5. Tended'
  BY Zenon, <1>4 DEF Tended
<1>6. TendInv'
  BY <1>5, Zenon DEF TendInv
<1>7. \A u \in Threads : local'[u].old_h = NoThread
  <2>1. \A u \in Threads \ {t} : local[u].old_h = NoThread
    BY Zenon, <1>1, SoleHolder
  <2> QED
    BY Zenon, <1>1, <1>3, <2>1 DEF TypeOK, NoLocal
<1>8. RequeueMove(t, "wake")
  BY Zenon, <1>3 DEF RequeueMove, Holding
<1> QED
  BY <1>6, <1>7, <1>8, LoneStep, Zenon

\* On a queue every thread has one position.
LEMMA PositionAt ==
    ASSUME NEW q \in Seq(Threads), IsInjective(q), NEW i \in 1..Len(q)
    PROVE  Position(q, q[i]) = i /\ q[i] \in Range(q)
<1>1. q[i] \in Range(q)
  BY DEF Range
<1>2. Position(q, q[i]) \in 1..Len(q) /\ q[Position(q, q[i])] = q[i]
  BY Zenon, <1>1, PositionOf
<1> QED
  BY <1>1, <1>2 DEF IsInjective

\* The lock is released and nobody woken: the whole queue was searched, and no condition
\* was true, that of the unlocker included.
LEMMA WakeNobodyStrand ==
    ASSUME WordInv, QueueInv, StrandInv, TypeOK', NEW t \in Threads, WakeNobody(t)
    PROVE  StrandInv'
<1>1. TypeOK /\ BitsInv /\ LocalAt(t) /\ SearchInv /\ IsInjective(queue) /\ queue \in Seq(Threads)
  BY Zenon, WordInvHas DEF StrandInv, QueueInv, OnOneQueue, TypeOK
<1>2. /\ pc[t] = "waiters" /\ LastHolder /\ ~UnconditionalWriter(Head(queue)) /\ local[t].w = NoThread
      /\ Last(queue) = local[t].old_h /\ Released(t) /\ queue' = SelfEnqueued(t, queue, FALSE)
      /\ mu' = local[t].v \ {"kMuReader", "kMuWriter", "kMuWrWait"}
      /\ UNCHANGED <<how, cond, flag>>
  BY Zenon DEF WakeNobody, waitp, rest
<1>3. queue # <<>> /\ Len(queue) \in 1..Len(queue)
  <2>1. queue # <<>>
    BY <1>1, <1>2, Zenon DEF BitsInv, LocalAt
  <2> QED
    BY <1>1, <2>1
<1>4. local[t].old_h # NoThread /\ Position(queue, local[t].old_h) = Len(queue)
  <2>1. Last(queue) = queue[Len(queue)] /\ queue[Len(queue)] \in Threads
    BY <1>1, <1>3 DEF Last
  <2>2. Position(queue, queue[Len(queue)]) = Len(queue)
    BY <1>1, <1>3, PositionAt, Zenon
  <2> QED
    BY Zenon, <1>2, <2>1, <2>2, MutexAssumption
<1>5. \A u \in Range(queue) : ~Eval(cond[u])
  <2>1. \A i \in Searched(t) : ~Eval(cond[queue[i]])
    BY Zenon, <1>1, <1>2, <1>4 DEF SearchInv
  <2>2. Searched(t) = DOMAIN queue
    BY <1>1, <1>2, <1>4 DEF Searched
  <2> QED
    BY Zenon, <2>1, <2>2 DEF Range
<1>6. \A u \in Range(queue') : ~Eval(cond[u])
  <2>1. CASE t \in requeue \ cv_word
    <3>1. ~Eval(cond[t])
      BY Zenon, <1>2, <2>1 DEF StrandInv, RequeueInv, Holding
    <3>2. queue' = Enqueue(queue, t, FALSE, FALSE)
      BY <1>2, <2>1, Zenon DEF SelfEnqueued
    <3>3. Range(Enqueue(queue, t, FALSE, FALSE)) = Range(queue) \cup {t}
      BY <1>1, EnqueueHas, Zenon
    <3>4. Range(queue') = Range(queue) \cup {t}
      BY <3>2, <3>3, Zenon
    <3> QED
      BY Zenon, <1>5, <3>1, <3>4
  <2>2. CASE t \notin requeue \ cv_word
    BY <1>2, <1>5, <2>2, Zenon DEF SelfEnqueued
  <2> QED
    BY Zenon, <2>1, <2>2
<1>7. PICK l \in {"cvwait", "block", "idle"} : pc' = [pc EXCEPT ![t] = l]
  BY <1>1, <1>2, ReleasedIs, Zenon
<1>8. cv_word' = cv_word \ {t} /\ requeue' = requeue \ {t} /\ local' = [local EXCEPT ![t] = NoLocal]
  BY <1>2, Zenon DEF Released
<1>9. \A u \in Threads : local'[u].old_h = NoThread
  <2>1. \A u \in Threads \ {t} : local[u].old_h = NoThread
    BY Zenon, <1>2, SoleHolder
  <2> QED
    BY Zenon, <1>1, <1>8, <2>1 DEF TypeOK, NoLocal
<1>10. TendInv'
  <2>1. \A u \in Threads : pc'[u] \notin {"enqueue", "ferspin"}
    BY <1>2, <1>7, NoQueuer, Zenon DEF Spinning
  <2>2. "kMuWrWait" \notin mu'
    BY Zenon, <1>2
  <2>3. \A u \in Range(queue') : ~Eval(cond[u])'
    BY <1>2, <1>6, Zenon DEF Eval
  <2> QED
    BY <2>1, <2>2, <2>3, Zenon DEF TendInv
<1>11. RequeueMove(t, l)
  BY Zenon, <1>2, <1>7, <1>8 DEF RequeueMove
<1> QED
  BY <1>9, <1>10, <1>11, LoneStep, Zenon

\* A step of an unlocker that goes on searching.
SearcherMove(t, l) ==
    /\ pc[t] \in {"waiters", "search"} /\ l \in {"search", "unlock"}
    /\ pc' = [pc EXCEPT ![t] = l] /\ UNCHANGED <<queue, how, cond, cv_word, requeue, flag>>
    /\ \A u \in Threads \ {t} : local'[u] = local[u]

\* Nobody is stranded by a step of the search of UnlockSlow.
LEMMA SearcherStep ==
    ASSUME WordInv, StrandInv, TypeOK', NEW t \in Threads, NEW l, SearcherMove(t, l),
           local'[t].w = NoThread =>
              UnconditionalWriter(Head(queue)) \/ \A i \in Searched(t)' : ~Eval(cond[queue[i]])
    PROVE  StrandInv'
<1>1. TypeOK /\ RequeueInv /\ SearchInv
  BY Zenon DEF WordInv, StrandInv
<1>2. pc'[t] = l /\ \A u \in Threads \ {t} : pc'[u] = pc[u]
  BY Zenon, <1>1 DEF TypeOK, SearcherMove
<1>3. Tended'
  BY <1>1, TendStep, Zenon DEF SearcherMove, Holding
<1>4. TendInv'
  BY <1>3, Zenon DEF TendInv
<1>5. RequeueMove(t, l)
  <2>1. t \in requeue /\ t \notin cv_word => ~Eval(cond[t])
    BY Zenon, <1>1 DEF RequeueInv, SearcherMove, Holding
  <2>2. t \in requeue' /\ t \notin cv_word' => ~Eval(cond[t])'
    BY Zenon, <2>1 DEF SearcherMove, Eval
  <2> QED
    BY Zenon, <2>2 DEF RequeueMove, SearcherMove
<1>6. RequeueInv'
  BY <1>1, <1>5, RequeueStep, Zenon
<1>7. queue' = queue /\ cond' = cond /\ how' = how /\ flag' = flag
  BY Zenon DEF SearcherMove
<1>8. SearchInv'
  <2> SUFFICES ASSUME NEW u \in Threads, local'[u].old_h # NoThread, local'[u].w = NoThread
               PROVE  UnconditionalWriter(Head(queue)) \/ \A i \in Searched(u)' : ~Eval(cond[queue[i]])
    BY <1>7, Zenon DEF SearchInv, UnconditionalWriter, Eval
  <2>1. CASE u = t
    BY Zenon, <2>1
  <2>2. CASE u # t
    <3>1. Searched(u)' = Searched(u)
      BY Zenon, <1>2, <2>2 DEF Searched, SearcherMove
    <3> QED
      BY SMTT(30), <1>1, <2>2, <3>1 DEF SearchInv, SearcherMove
  <2> QED
    BY Zenon, <2>1, <2>2
<1> QED
  BY Zenon, <1>4, <1>6, <1>8 DEF StrandInv

\* A search goes on where the last one ended.
LEMMA SearchStrand ==
    ASSUME WordInv, QueueInv, StrandInv, TypeOK', NEW t \in Threads, Search(t)
    PROVE  StrandInv'
<1> DEFINE old == local[t].old_h
           from == IF old = NoThread THEN Head(queue) ELSE queue[Position(queue, old) + 1]
<1> HIDE DEF old, from
<1>1. /\ TypeOK /\ BitsInv /\ LocalAt(t) /\ SearchAt(t) /\ SearchInv
      /\ IsInjective(queue) /\ queue \in Seq(Threads) /\ Len(queue) \in Nat
  <2>1. TypeOK /\ BitsInv /\ LocalAt(t) /\ SearchAt(t)
    BY Zenon, WordInvHas
  <2>2. SearchInv /\ IsInjective(queue)
    BY Zenon DEF StrandInv, QueueInv, OnOneQueue
  <2>3. queue \in Seq(Threads)
    BY Zenon, <2>1 DEF TypeOK
  <2> QED
    BY SMTT(30), <2>1, <2>2, <2>3
<1> USE DEF old, from
<1>2. /\ pc[t] = "waiters" /\ ~UnconditionalWriter(Head(queue)) /\ Last(queue) # old
      /\ pc' = [pc EXCEPT ![t] = "search"] /\ UNCHANGED <<queue, how, cond, cv_word, requeue, flag>>
      /\ local' = [local EXCEPT ![t] = [@ EXCEPT !.old_h = Last(queue), !.from = from]]
  BY Zenon DEF Search, StartSearch, Goto, waitp, rest
<1> HIDE DEF old, from
<1>3. /\ local'[t].w = local[t].w /\ local'[t].from = from
      /\ \A u \in Threads \ {t} : local'[u] = local[u]
  BY SMTT(30), <1>1, <1>2 DEF TypeOK, LocalRecs
<1>4. SearcherMove(t, "search")
  BY Zenon, <1>2, <1>3 DEF SearcherMove
<1>5. queue # <<>> /\ 1 \in 1..Len(queue) /\ Head(queue) = queue[1]
  BY <1>1, <1>2 DEF BitsInv, LocalAt
<1>6. ASSUME local'[t].w = NoThread, NEW i \in Searched(t)' PROVE ~Eval(cond[queue[i]])
  <2>1. i \in 1..Len(queue) /\ i < Position(queue, from)
    <3>1. pc'[t] = "search" /\ DOMAIN queue = 1..Len(queue)
      BY SMTT(30), <1>1, <1>2 DEF TypeOK
    <3> QED
      BY Zenon, <1>2, <1>3, <1>6, <3>1 DEF Searched
  <2>2. CASE old = NoThread
    <3>1. Position(queue, queue[1]) = 1
      BY <1>1, <1>5, PositionAt, Zenon
    <3>2. from = queue[1]
      BY Zenon, <1>5, <2>2 DEF from
    <3> QED
      BY <2>1, <3>1, <3>2
  <2>3. CASE old # NoThread
    <3>1. Position(queue, old) \in 1..Len(queue) /\ queue[Position(queue, old)] = old
      BY Zenon, <1>1, <2>3, PositionOf DEF SearchAt, old
    <3>2. Position(queue, old) + 1 \in 1..Len(queue)
      BY <1>1, <1>2, <3>1 DEF Last
    <3>3. from = queue[Position(queue, old) + 1]
      BY Zenon, <2>3 DEF from
    <3>4. Position(queue, queue[Position(queue, old) + 1]) = Position(queue, old) + 1
      BY <1>1, <3>2, PositionAt, Zenon
    <3>5. i <= Position(queue, old)
      BY SMTT(30), <2>1, <3>1, <3>3, <3>4
    <3>6. i \in Searched(t)
      BY Zenon, <1>1, <1>2, <2>1, <3>5 DEF Searched, old
    <3> QED
      BY Zenon, <1>1, <1>2, <1>3, <1>6, <2>3, <3>6 DEF SearchInv, old
  <2> QED
    BY Zenon, <2>2, <2>3
<1> QED
  BY Zenon, <1>4, <1>6, SearcherStep

\* A walk that finds nobody has seen false conditions only.
LEMMA WalkStrand ==
    ASSUME WordInv, QueueInv, StrandInv, TypeOK', NEW t \in Threads, Walk(t)
    PROVE  StrandInv'
<1>1. /\ TypeOK /\ SearchAt(t) /\ SearchInv /\ queue \in Seq(Threads) /\ Len(queue) \in Nat
  <2>1. TypeOK /\ SearchAt(t) /\ SearchInv
    BY WordInvHas, Zenon DEF StrandInv
  <2> QED
    BY <2>1 DEF TypeOK
<1>2. /\ pc[t] = "search" /\ pc' = [pc EXCEPT ![t] = "unlock"]
      /\ UNCHANGED <<queue, how, cond, cv_word, requeue, flag>>
  BY Zenon DEF Walk, Goto, waitp, rest
<1>3. PICK w \in Threads \cup {NoThread}, wr_wait \in SUBSET {"kMuWrWait"} :
          /\ local' = [local EXCEPT ![t] = [v |-> {}, w |-> w, old_h |-> local[t].old_h,
                                            from |-> NoThread, wr_wait |-> wr_wait]]
          /\ w = NoThread =>
                local[t].w = NoThread /\ \A i \in DOMAIN SearchPath(t) : ~Eval(cond[SearchPath(t)[i]])
  BY <1>1, WalkIs, Zenon
<1>4. /\ local'[t].w = w /\ local'[t].old_h = local[t].old_h
      /\ \A u \in Threads \ {t} : local'[u] = local[u]
  BY Zenon, <1>1, <1>3 DEF TypeOK
<1>5. SearcherMove(t, "unlock")
  BY Zenon, <1>2, <1>4 DEF SearcherMove
<1> DEFINE a == Position(queue, local[t].from)
           b == Position(queue, local[t].old_h)
<1>6. local[t].old_h # NoThread /\ a \in 1..Len(queue) /\ b \in 1..Len(queue)
  BY Zenon, <1>1, <1>2, PositionOf DEF SearchAt
<1>7. SearchPath(t) = SubSeq(queue, a, b)
  BY Zenon DEF SearchPath
<1> HIDE DEF a, b
<1>8. ASSUME local'[t].w = NoThread, ~UnconditionalWriter(Head(queue)), NEW i \in Searched(t)'
      PROVE  ~Eval(cond[queue[i]])
  <2>1. i \in 1..Len(queue) /\ i <= b
    <3>1. pc'[t] = "unlock" /\ DOMAIN queue = 1..Len(queue)
      BY <1>1, <1>2 DEF TypeOK
    <3> QED
      BY Zenon, <1>2, <1>4, <1>8, <3>1 DEF Searched, b
  <2>2. CASE i < a
    <3>1. i \in Searched(t)
      BY Zenon, <1>1, <1>2, <2>1, <2>2 DEF Searched, a
    <3> QED
      BY Zenon, <1>1, <1>3, <1>4, <1>6, <1>8, <3>1 DEF SearchInv
  <2>3. CASE a <= i
    <3>1. /\ i - a + 1 \in DOMAIN SubSeq(queue, a, b)
          /\ SubSeq(queue, a, b)[i - a + 1] = queue[i]
      BY SMTT(30), <1>1, <1>6, <2>1, <2>3
    <3> QED
      BY <1>3, <1>4, <1>7, <1>8, <3>1, Zenon
  <2> QED
    BY <1>6, <2>1, <2>2, <2>3
<1> QED
  BY Zenon, <1>5, <1>8, SearcherStep

\* A writer changes what the conditions are about while it holds the lock.
LEMMA WriteStrand ==
    ASSUME WordInv, QueueInv, StrandInv, TypeOK', NEW t \in Threads, Write(t)
    PROVE  StrandInv'
<1>1. TypeOK /\ RequeueInv
  BY Zenon DEF WordInv, StrandInv
<1>2. pc[t] = "cs" /\ how[t] = "kExclusive" /\ UNCHANGED <<pc, cv_word, requeue, local>>
  BY Zenon DEF Write
<1>3. t \in Writers
  BY Zenon, <1>1, <1>2, HolderIs DEF Holding
<1>4. \A u \in Threads \ {t} : pc[u] \notin Holding /\ local[u].old_h = NoThread
  BY Zenon, <1>3, SoleHolder
<1>5. t \notin requeue /\ local[t].old_h = NoThread
  BY Zenon, <1>2, StrandAt DEF StrandInv
<1>6. Tended'
  BY Zenon, <1>2 DEF Tended, Free, Holding
<1>7. TendInv'
  BY <1>6, Zenon DEF TendInv
<1>8. RequeueInv'
  <2>1. requeue \subseteq Threads \ {t}
    BY Zenon, <1>1, <1>5 DEF TypeOK
  <2> QED
    BY Zenon, <1>2, <1>4, <2>1 DEF RequeueInv, Holding
<1>9. \A u \in Threads : local'[u].old_h = NoThread
  BY Zenon, <1>2, <1>4, <1>5
<1>10. SearchInv'
  BY <1>9, Zenon DEF SearchInv
<1> QED
  BY Zenon, <1>7, <1>8, <1>10 DEF StrandInv

\* At first nobody waits.
LEMMA StrandInit == Init => StrandInv
<1> SUFFICES ASSUME Init PROVE StrandInv
  BY Zenon
<1>1. /\ queue = <<>> /\ mu = {} /\ requeue = {}
      /\ \A t \in Threads : pc[t] = "idle" /\ local[t] = NoLocal
  BY Zenon DEF Init
<1>2. Range(<<>>) = {} /\ NoLocal.old_h = NoThread
  BY DEF Range, NoLocal
<1>3. TendInv
  BY Zenon, <1>1, <1>2 DEF TendInv
<1>4. RequeueInv /\ SearchInv
  BY Zenon, <1>1, <1>2 DEF RequeueInv, SearchInv
<1> QED
  BY Zenon, <1>3, <1>4 DEF StrandInv

\* Every step preserves the invariant, given the others.
LEMMA StrandNext == WordInv /\ QueueInv /\ StrandInv /\ TypeOK' /\ [CvNext]_vars => StrandInv'
<1> SUFFICES ASSUME WordInv, QueueInv, StrandInv, TypeOK', [CvNext]_vars PROVE StrandInv'
  BY Zenon
<1>1. CASE UNCHANGED vars
  <2>1. /\ mu' = mu /\ queue' = queue /\ pc' = pc /\ how' = how /\ cond' = cond /\ cv_word' = cv_word
        /\ requeue' = requeue /\ local' = local /\ flag' = flag
    BY Zenon, <1>1 DEF vars, word, waiters, waitp, rest
  <2>2. TendInv'
    BY <2>1, Zenon DEF StrandInv, TendInv, Tended, Free, Eval
  <2>3. RequeueInv'
    BY <2>1, Zenon DEF StrandInv, RequeueInv, Eval
  <2>4. SearchInv'
    BY <2>1, Zenon DEF StrandInv, SearchInv, Searched, UnconditionalWriter, Eval
  <2> QED
    BY Zenon, <2>2, <2>3, <2>4 DEF StrandInv
<1>2. ASSUME NEW t \in Threads,
             \/ FastFails(t) \/ Unblocked(t) \/ DecrementSynchSem(t) \/ TimesOut(t) \/ TryRemoveFails(t) \/ RemoveAgain(t)
             \/ Unlock(t) \/ TryRemoveStart(t) \/ IncrementStart(t) \/ FerSpin(t) \/ Trans(t) \/ CvRemove(t) \/ CvTimesOut(t) \/ Signal(t)
      PROVE  StrandInv'
  BY <1>2, Asides, Zenon
<1>3. ASSUME NEW t \in Threads, Fast(t) \/ SlowAcquire(t) \/ Increment(t) PROVE StrandInv'
  BY <1>3, AcquireStrand, Zenon
<1>4. ASSUME NEW t \in Threads, Call(t) \/ Await(t) \/ CvWait(t) \/ Removed(t) PROVE StrandInv'
  BY <1>4, CallStrand, Zenon
<1>5. ASSUME NEW t \in Threads, EnqueueStart(t) PROVE StrandInv'
  BY <1>5, EnqueueStartStrand, Zenon
<1>6. ASSUME NEW t \in Threads, FastWriterRelease(t) \/ FastReaderRelease(t) PROVE StrandInv'
  BY <1>6, FastReleaseStrand, Zenon
<1>7. ASSUME NEW t \in Threads, UnlockSpin(t) PROVE StrandInv'
  BY <1>7, UnlockSpinStrand, Zenon
<1>8. ASSUME NEW t \in Threads, Wakeup(t) \/ Post(t) \/ FerWake(t) \/ FerPost(t) PROVE StrandInv'
  BY <1>8, WakerStrand, Zenon
<1>9. ASSUME NEW t \in Threads, EnqueueEnd(t) \/ FerEnqueue(t) \/ NotLastReader(t) PROVE StrandInv'
  BY <1>9, QueuersStrand, ReaderLeavesStrand, Zenon
<1>10. ASSUME NEW t \in Threads, OnlyWaiter(t) \/ FerOnlyWaiter(t) PROVE StrandInv'
  BY <1>10, FirstWaiterStrand, Zenon
<1>11. ASSUME NEW t \in Threads, NoWaiters(t) PROVE StrandInv'
  BY <1>11, NoWaitersStrand, Zenon
<1>12. ASSUME NEW t \in Threads, TryRemoveEnd(t) PROVE StrandInv'
  BY <1>12, TryRemoveEndStrand, Zenon
<1>13. ASSUME NEW t \in Threads, WakeWaiters(t) PROVE StrandInv'
  BY <1>13, WakeWaitersStrand, Zenon
<1>14. ASSUME NEW t \in Threads, WakeNobody(t) PROVE StrandInv'
  BY <1>14, WakeNobodyStrand, Zenon
<1>15. ASSUME NEW t \in Threads, Search(t) PROVE StrandInv'
  BY <1>15, SearchStrand, Zenon
<1>16. ASSUME NEW t \in Threads, Walk(t) PROVE StrandInv'
  BY <1>16, WalkStrand, Zenon
<1>17. ASSUME NEW t \in Threads, Write(t) PROVE StrandInv'
  BY <1>17, WriteStrand, Zenon
<1>18. ASSUME NEW t \in Threads, Step(t) PROVE StrandInv'
  BY <1>2, <1>3, <1>4, <1>5, <1>6, <1>7, <1>8, <1>9, <1>10, <1>11, <1>12, <1>13, <1>14, <1>15, <1>16, <1>18, Zenon DEF Step
<1>19. ASSUME NEW t \in Threads, Choice(t) PROVE StrandInv'
  BY <1>2, <1>4, <1>17, <1>19, Zenon DEF Choice
<1>20. ASSUME NEW t \in Threads, CvStep(t) \/ CvWait(t) \/ Signal(t) \/ CvTimesOut(t) PROVE StrandInv'
  BY <1>2, <1>4, <1>8, <1>9, <1>10, <1>20, Zenon DEF CvStep
<1> QED
  BY <1>1, <1>18, <1>19, <1>20, Zenon DEF CvNext, Next

-----------------------------------------------------------------------------
(* The theorems. *)

\* The layers of the invariant hold in every reachable state.
LEMMA LayersAlways == CvSpec => [](WordInv /\ QueueInv /\ DesigInv /\ StrandInv)
<1>1. Init => WordInv /\ QueueInv /\ DesigInv /\ StrandInv
  BY Zenon, WordInit, QueueInit, StrandInit
<1>2. WordInv' => TypeOK'
  BY Zenon DEF WordInv
<1>3. WordInv /\ QueueInv /\ DesigInv /\ StrandInv /\ [CvNext]_vars
        => (WordInv /\ QueueInv /\ DesigInv /\ StrandInv)'
  BY Zenon, <1>2, WordNext, QueueNext, StrandNext
<1> QED
  BY <1>1, <1>3, PTL DEF CvSpec

\* A waiter is on the queue of the Mutex, or on that of the CondVar, or in the hands of one
\* thread that is waking it, and only once (Fer, Remove, TryRemove, UnlockSlow).
THEOREM WaiterOnOneQueue == CvSpec => []OnOneQueue
<1>1. WordInv /\ QueueInv /\ DesigInv /\ StrandInv => OnOneQueue
  BY Zenon DEF QueueInv
<1> QED
  BY <1>1, LayersAlways, PTL

\* While kMuDesig is set, some thread has been woken, or is about to be, and will try to
\* obtain the lock: no wakeup is suppressed on behalf of a waker that does not exist.
THEOREM DesignatedWakerExists == CvSpec => []DesignatedWaker
<1>1. ASSUME NEW t \in Threads, Parked(t) PROVE pc[t] \notin Holding
  BY Zenon, <1>1 DEF Parked, Holding
<1>2. WordInv /\ QueueInv /\ DesigInv /\ StrandInv => DesignatedWaker
  BY <1>1, Zenon DEF DesigInv, DesignatedWaker, Designated, Parked
<1> QED
  BY <1>2, LayersAlways, PTL

\* When every thread is idle or asleep without a wakeup on its way, every waiter on the
\* queue of the Mutex waits for a condition that is false: no order of releases, searches,
\* removals, timeouts and signals loses the wakeup that somebody needs.
THEOREM NobodyIsStranded == CvSpec => []NobodyStranded
<1>1. ASSUME WordInv, QueueInv, DesigInv, StrandInv, \A t \in Threads : AtRest(t)
      PROVE  \A t \in Range(queue) : ~Eval(cond[t])
  <2>1. \A t \in Threads : pc[t] \in {"idle", "block", "cvwait"} /\ (pc[t] # "idle" => Queued(t))
    BY <1>1, Zenon DEF AtRest
  <2>2. \A t \in Threads : wake_list[t] = <<>> /\ Range(wake_list[t]) = {}
    <3>1. \A t \in Threads : wake_list[t] = <<>>
      BY Zenon, <1>1, <2>1 DEF QueueInv
    <3>2. Range(<<>>) = {}
      BY DEF Range
    <3> QED
      BY Zenon, <3>1, <3>2
  <2>3. Free
    BY Zenon, <2>1 DEF Free, Holding
  <2>4. \A t \in Threads : ~Designated(t)
    <3> SUFFICES ASSUME NEW t \in Threads, Designated(t) PROVE FALSE
      BY Zenon
    <3>1. Parked(t) /\ t \notin Range(queue) \cup Range(cv)
      BY Zenon, <2>1 DEF Designated
    <3>2. ~Queued(t)
      BY Zenon, <2>2, <3>1 DEF Queued
    <3>3. pc[t] # "idle"
      BY Zenon, <3>1 DEF Parked
    <3> QED
      BY Zenon, <2>1, <3>2, <3>3
  <2>5. ~Tended
    BY Zenon, <1>1, <2>3, <2>4 DEF DesigInv, Tended
  <2> QED
    BY Zenon, <1>1, <2>5 DEF StrandInv, TendInv
<1>2. WordInv /\ QueueInv /\ DesigInv /\ StrandInv => NobodyStranded
  BY <1>1, Zenon DEF NobodyStranded
<1> QED
  BY <1>2, LayersAlways, PTL
=============================================================================

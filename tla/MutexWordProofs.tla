--------------------------- MODULE MutexWordProofs ---------------------------
(***************************************************************************)
(* Every step of the Mutex and the CondVar preserves WordInv: the steps    *)
(* that join the readers, leave the queue, release the lock or search the  *)
(* queue, and the theorems MutualExclusion, WordCountsHolders and          *)
(* SearchUndisturbed rest on.                                              *)
(***************************************************************************)
EXTENDS MutexProofs
\* A mutex that nobody has used.
LEMMA WordInit == Init => WordInv
<1> SUFFICES ASSUME Init PROVE WordInv
  BY Zenon
<1>1. TypeOK
  <2>1. NoLocal \in LocalRecs
    BY Zenon DEF NoLocal, LocalRecs, Bits
  <2>2. /\ pc \in [Threads -> Pcs] /\ local \in [Threads -> LocalRecs]
        /\ how \in [Threads -> {"kShared", "kExclusive"}]
        /\ cond \in [Threads -> {"null", "set", "clear"}]
    BY Zenon, <2>1 DEF Init, Pcs
  <2>3. timed \in [Threads -> BOOLEAN] /\ maybe_unlocking \in BOOLEAN /\ flag \in BOOLEAN
    BY Zenon DEF Init
  <2>4. /\ sem \in [Threads -> Nat] /\ wake_list \in [Threads -> Seq(Threads)]
        /\ queue \in Seq(Threads) /\ cv \in Seq(Threads) /\ count \in Nat /\ readers \in Nat
    BY DEF Init
  <2>5. mu \subseteq Bits /\ wake \subseteq Threads /\ cv_word \subseteq Threads
        /\ blocked \subseteq Threads /\ requeue \subseteq Threads
    BY Zenon DEF Init
  <2> QED
    BY Zenon, <2>2, <2>3, <2>4, <2>5 DEF TypeOK
<1>2. \A t \in Threads : pc[t] = "idle" /\ local[t] = NoLocal
  BY Zenon DEF Init
<1>3. Writers = {} /\ Readers = {} /\ Counted = {}
  BY Zenon, <1>2 DEF Writers, Readers, Counted, Holding
<1>4. Cardinality(Counted) = 0
  BY <1>3, FS_EmptySet, Zenon
<1>5. Exclusive /\ BitsInv /\ CountInv
  BY Zenon, <1>3, <1>4 DEF Init, Exclusive, BitsInv, CountInv
<1>6. SpinInv
  BY Zenon, <1>2 DEF Init, SpinInv, Spinning
<1>7. ThreadsInv
  <2>1. \A t \in Threads : pc[t] = "idle" /\ local[t].old_h = NoThread /\ local[t].w = NoThread
    BY <1>2 DEF NoLocal
  <2> QED
    BY Zenon, <2>1 DEF ThreadsInv, LocalAt, SearchAt
<1> QED
  BY Zenon, <1>1, <1>5, <1>6, <1>7 DEF WordInv

\* WordInv is inductive.  The first steps of the proof treat the kinds of steps that change the
\* word and the queue together.
LEMMA WordNext == WordInv /\ [CvNext]_vars => WordInv'
(* A reader joins the readers counted in the last waiter; a thread removes itself. *)

\* A reader takes the spin bit and kMuReader.
<1>IncrementStartWord.
    ASSUME WordInv, NEW t \in Threads, IncrementStart(t)
    PROVE  WordInv'
  <2> USE <1>IncrementStartWord
  <2>1. /\ TypeOK /\ Exclusive /\ BitsInv /\ CountInv /\ SpinInv /\ ThreadsInv
        /\ LocalAt(t) /\ SearchAt(t)
    BY Zenon, WordInvHas
  <2>2. /\ pc[t] = "slow" /\ pc' = [pc EXCEPT ![t] = "increment"]
        /\ mu' = ClearDesig(t, mu) \cup {"kMuSpin", "kMuReader"}
        /\ UNCHANGED <<count, waiters, cv, sem, waitp, cv_word, blocked, requeue, local, wake_list, rest>>
    BY Zenon DEF IncrementStart, Goto
  <2>3. how[t] = "kShared" /\ "kMuSpin" \notin mu /\ "kMuWriter" \notin mu /\ "kMuWait" \in mu
    <3>1. mu \cap {"kMuSpin", "kMuWait"} # {} /\ mu \cap IgnoreWaitingWriters(t, slow_inc_need_zero[how[t]]) = {}
      BY Zenon DEF IncrementStart, MayIncrement
    <3>2. CASE how[t] = "kShared"
      <4>1. slow_inc_need_zero[how[t]] = {"kMuSpin", "kMuWriter", "kMuWrWait"}
        BY <3>2 DEF slow_inc_need_zero
      <4> QED
        BY <3>1, <3>2, <4>1 DEF IgnoreWaitingWriters
    <3>3. CASE how[t] = "kExclusive"
      <4>1. slow_inc_need_zero[how[t]] = Bits
        BY <3>3 DEF slow_inc_need_zero
      <4> QED
        BY Zenon, <3>1, <4>1 DEF IgnoreWaitingWriters, Bits
    <3> QED
      BY Zenon, <2>1, <3>2, <3>3 DEF TypeOK
  <2>4. /\ mu' \subseteq Bits /\ "kMuSpin" \in mu' /\ "kMuReader" \in mu'
        /\ \A b \in {"kMuWait", "kMuWriter", "kMuWrWait"} : b \in mu' <=> b \in mu
    <3>1. mu \subseteq Bits /\ ClearDesig(t, mu) \subseteq mu
      BY Zenon, <2>1, ClearDesigIs DEF TypeOK
    <3>2. \A b : b # "kMuDesig" => (b \in ClearDesig(t, mu) <=> b \in mu)
      BY Zenon, ClearDesigIs
    <3>3. {"kMuSpin", "kMuReader"} \subseteq Bits
      BY Zenon DEF Bits
    <3>4. mu' \subseteq Bits
      BY <2>2, <3>1, <3>3, Zenon
    <3> QED
      BY Zenon, <2>2, <3>2, <3>4
  <2>5. TypeOK'
    <3>1. pc' \in [Threads -> Pcs]
      BY Zenon, <2>1, <2>2 DEF TypeOK, Pcs
    <3> QED
      BY Zenon, <2>1, <2>2, <2>4, <3>1 DEF TypeOK, waiters, waitp, rest
  <2>6. HoldersChange(t, "increment", how[t])
    BY <2>1, <2>2, HoldersStepHow, Zenon DEF waitp
  <2>7. t \notin Writers /\ t \notin Readers /\ t \notin Counted
    BY Zenon, <2>1, <2>2, HolderIs DEF Holding
  <2>8. Writers' = Writers /\ Writers = {} /\ Readers' = Readers \cup {t} /\ Counted' = Counted
    BY Zenon, <2>1, <2>3, <2>6, <2>7 DEF HoldersChange, BitsInv, Holding
  <2>9. Exclusive' /\ BitsInv' /\ CountInv'
    BY Zenon, <2>1, <2>2, <2>4, <2>8 DEF Exclusive, BitsInv, CountInv, waiters
  <2>10. pc'[t] = "increment" /\ local'[t] = local[t] /\ how'[t] = how[t]
    BY Zenon, <2>1, <2>2 DEF TypeOK, waitp
  <2>11. LocalAt(t)' /\ SearchAt(t)'
    BY Zenon, <2>1, <2>2, <2>3, <2>4, <2>10 DEF LocalAt, SearchAt
  <2>12. OthersRelyOn(t)
    BY Zenon, <2>2, <2>3, RelyAlone DEF waiters
  <2>13. WordChange(t, "increment")
    BY Zenon, <2>2, <2>3, <2>4, <2>12 DEF WordChange, OthersSame, waitp, Spinning
  <2> QED
    BY Zenon, <2>5, <2>9, <2>11, <2>13, WordStep

\* It counts itself and releases the spin bit.
<1>IncrementWord.
    ASSUME WordInv, NEW t \in Threads, Increment(t)
    PROVE  WordInv'
  <2> USE <1>IncrementWord
  <2>1. /\ TypeOK /\ Exclusive /\ BitsInv /\ CountInv /\ SpinInv /\ ThreadsInv
        /\ LocalAt(t) /\ SearchAt(t)
    BY Zenon, WordInvHas
  <2>2. /\ pc[t] = "increment" /\ Acquired(t) /\ readers' = readers + 1
        /\ mu' = (mu \ {"kMuSpin"}) \cup {"kMuReader"}
        /\ UNCHANGED <<count, queue, maybe_unlocking, wake, cv, sem, cv_word, local, wake_list, rest>>
    BY Zenon DEF Increment
  <2>3. how[t] = "kShared" /\ "kMuWait" \in mu
    BY Zenon, <2>1, <2>2 DEF LocalAt
  <2>4. PICK l \in {"cs", "unlock"} : pc' = [pc EXCEPT ![t] = l]
    BY Zenon, <2>1, <2>2, AcquiredIs
  <2>5. /\ how' = how
        /\ \A u \in Threads \ {t} : u \in requeue' <=> u \in requeue
        /\ blocked' \subseteq Threads /\ requeue' \subseteq Threads
        /\ cond' \in [Threads -> {"null", "set", "clear"}] /\ timed' \in [Threads -> BOOLEAN]
    BY Zenon, <2>1, <2>2, AcquiredIs
  <2>6. mu' \subseteq Bits
    BY Zenon, <2>1, <2>2 DEF TypeOK, Bits
  <2>7. TypeOK'
    <3>1. pc' \in [Threads -> Pcs]
      BY Zenon, <2>1, <2>4 DEF TypeOK, Pcs
    <3>2. UNCHANGED <<count, queue, maybe_unlocking, wake, cv, sem, cv_word, local, wake_list, rest>> /\ readers' \in Nat
      BY <2>1, <2>2 DEF TypeOK
    <3> QED
      BY Zenon, <2>1, <2>5, <2>6, <3>1, <3>2 DEF TypeOK, rest
  <2>8. /\ pc'[t] = l /\ l \in Holding /\ l \notin Spinning /\ l # "removing" /\ l # "increment"
        /\ pc[t] \in Spinning
    BY Zenon, <2>1, <2>2, <2>4 DEF TypeOK, Holding, Spinning
  <2>9. HoldersChange(t, l, how[t])
    BY <2>1, <2>4, <2>5, HoldersStepHow, Zenon
  <2>10. t \notin Writers /\ t \in Readers /\ t \notin Counted
    BY Zenon, <2>1, <2>2, <2>3, HolderIs DEF Holding
  <2>11. Writers' = Writers /\ Readers' = Readers /\ Counted' = Counted \cup {t}
    BY Zenon, <2>3, <2>8, <2>9, <2>10 DEF HoldersChange
  <2>12. Cardinality(Counted') = readers + 1
    BY Zenon, <2>1, <2>3, <2>10, <2>11, CountedFinite DEF CountInv
  <2>13. Exclusive' /\ BitsInv' /\ CountInv'
    BY Zenon, <2>1, <2>2, <2>3, <2>10, <2>11, <2>12 DEF Exclusive, BitsInv, CountInv
  <2>14. LocalAt(t)' /\ SearchAt(t)'
    <3>1. local'[t] = local[t] /\ wake_list'[t] = wake_list[t] /\ queue' = queue /\ maybe_unlocking' = maybe_unlocking
      BY Zenon, <2>2
    <3> QED
      BY Zenon, <2>1, <2>2, <2>4, <2>8, <3>1 DEF LocalAt, SearchAt
  <2>15. OthersRelyOn(t)
    BY Zenon, <2>2, <2>8, RelyAlone
  <2>16. WordChange(t, l)
    BY Zenon, <2>2, <2>4, <2>5, <2>8, <2>15 DEF WordChange, OthersSame
  <2> QED
    BY Zenon, <2>7, <2>13, <2>14, <2>16, WordStep

\* TryRemove takes the lock and the spin bit.
<1>TryRemoveStartWord.
    ASSUME WordInv, NEW t \in Threads, TryRemoveStart(t)
    PROVE  WordInv'
  <2> USE <1>TryRemoveStartWord
  <2>1. /\ TypeOK /\ Exclusive /\ BitsInv /\ CountInv /\ SpinInv /\ ThreadsInv
        /\ LocalAt(t) /\ SearchAt(t)
    BY Zenon, WordInvHas
  <2>2. /\ pc[t] = "remove" /\ pc' = [pc EXCEPT ![t] = "removing"]
        /\ mu' = mu \cup {"kMuSpin", "kMuWriter"}
        /\ UNCHANGED <<count, waiters, cv, sem, waitp, cv_word, blocked, requeue, local, wake_list, rest>>
    BY Zenon DEF TryRemoveStart, Goto
  <2>3. "kMuSpin" \notin mu /\ "kMuWriter" \notin mu /\ "kMuReader" \notin mu /\ "kMuWait" \in mu
    BY DEF TryRemoveStart
  <2>4. TypeOK'
    <3>1. pc' \in [Threads -> Pcs]
      BY Zenon, <2>1, <2>2 DEF TypeOK, Pcs
    <3>2. mu' \subseteq Bits
      BY Zenon, <2>1, <2>2 DEF TypeOK, Bits
    <3> QED
      BY <2>1, <2>2, <3>1, <3>2, Zenon DEF TypeOK, waiters, waitp, rest
  <2>5. HoldersChange(t, "removing", how[t])
    BY <2>1, <2>2, HoldersStepHow, Zenon DEF waitp
  <2>6. t \notin Writers /\ t \notin Readers /\ t \notin Counted
    BY Zenon, <2>1, <2>2, HolderIs DEF Holding
  <2>7. Writers' = {t} /\ Readers = {} /\ Readers' = {} /\ Counted' = Counted
    BY Zenon, <2>1, <2>3, <2>5, <2>6 DEF HoldersChange, BitsInv, Holding
  <2>8. Exclusive' /\ BitsInv' /\ CountInv'
    BY Zenon, <2>1, <2>2, <2>3, <2>7 DEF Exclusive, BitsInv, CountInv, waiters
  <2>9. pc'[t] = "removing" /\ local'[t] = local[t]
    BY Zenon, <2>1, <2>2 DEF TypeOK
  <2>10. LocalAt(t)' /\ SearchAt(t)'
    BY <2>1, <2>2, <2>3, <2>9, Zenon DEF LocalAt, SearchAt
  <2>11. OthersRelyOn(t)
    BY Zenon, <2>2, <2>3, RelyAlone DEF waiters
  <2>12. WordChange(t, "removing")
    BY Zenon, <2>2, <2>3, <2>11 DEF WordChange, OthersSame, waitp, Spinning
  <2> QED
    BY Zenon, <2>4, <2>8, <2>10, <2>12, WordStep

\* TryRemove removes the thread and releases both.
<1>TryRemoveEndWord.
    ASSUME WordInv, NEW t \in Threads, TryRemoveEnd(t)
    PROVE  WordInv'
  <2> USE <1>TryRemoveEndWord
  <2>1. /\ TypeOK /\ Exclusive /\ BitsInv /\ CountInv /\ SpinInv /\ ThreadsInv
        /\ LocalAt(t) /\ SearchAt(t)
    BY Zenon, WordInvHas
  <2>2. /\ pc[t] = "removing" /\ pc' = [pc EXCEPT ![t] = "recheck"]
        /\ queue' = RemoveFirst(queue, t) /\ wake' = wake \ {t}
        /\ readers' = 0 /\ count' = 0 /\ maybe_unlocking' = FALSE
        /\ UNCHANGED <<cv, sem, waitp, cv_word, blocked, requeue, local, wake_list, rest>>
    BY Zenon DEF TryRemoveEnd, Goto
  <2>3. queue' \in Seq(Threads)
    BY Zenon, <2>1, <2>2, RemoveFirstRemoves DEF TypeOK
  <2>4. /\ mu' \subseteq Bits /\ mu' \cap {"kMuSpin", "kMuWriter", "kMuReader", "kMuWrWait"} = {}
        /\ "kMuWait" \in mu' <=> queue' # <<>>
    BY Zenon DEF TryRemoveEnd, Bits
  <2>5. TypeOK'
    <3>1. pc' \in [Threads -> Pcs]
      BY Zenon, <2>1, <2>2 DEF TypeOK, Pcs
    <3>2. readers' \in Nat /\ count' \in Nat /\ wake' \subseteq Threads
      BY Zenon, <2>1, <2>2 DEF TypeOK
    <3>3. maybe_unlocking' \in BOOLEAN
      BY <2>2, Zenon
    <3>4. UNCHANGED <<cv, sem, waitp, cv_word, blocked, requeue, local, wake_list, rest>> /\ mu' \subseteq Bits
      BY Zenon, <2>2, <2>4
    <3> QED
      BY Zenon, <2>1, <2>3, <3>1, <3>2, <3>3, <3>4 DEF TypeOK, waitp, rest
  <2>6. HoldersChange(t, "recheck", how[t])
    BY <2>1, <2>2, HoldersStepHow, Zenon DEF waitp
  <2>7. t \in Writers
    BY Zenon, <2>1, <2>2, HolderIs
  <2>8. Writers' = {} /\ Readers' = {} /\ Counted' = {}
    <3>1. Writers \ {t} = {} /\ Readers = {} /\ Counted = {}
      BY Zenon, <2>1, <2>7 DEF Exclusive, Counted
    <3> QED
      BY Zenon, <2>6, <3>1 DEF HoldersChange, Holding
  <2>9. Cardinality(Counted') = 0
    BY Zenon, <2>8, FS_EmptySet
  <2>10. Exclusive' /\ BitsInv' /\ CountInv'
    BY Zenon, <2>2, <2>4, <2>8, <2>9 DEF Exclusive, BitsInv, CountInv
  <2>11. pc'[t] = "recheck" /\ local'[t] = local[t]
    BY Zenon, <2>1, <2>2 DEF TypeOK
  <2>12. LocalAt(t)' /\ SearchAt(t)'
    BY <2>1, <2>2, <2>11, Zenon DEF LocalAt, SearchAt
  <2>13. OthersRelyOn(t)
    <3>1. \A u \in Threads \ {t} : local[u].old_h = NoThread
      BY Zenon, <2>7, SoleHolder
    <3> QED
      BY Zenon, <2>2, <3>1, RelyAlone DEF Spinning
  <2>14. WordChange(t, "recheck")
    BY <2>2, <2>4, <2>13, Zenon DEF WordChange, OthersSame, waitp, Spinning
  <2> QED
    BY Zenon, <2>5, <2>10, <2>12, <2>14, WordStep
(* Giving up the lock. *)

\* The locals and the program counter of a thread that has released the lock.
<1>ReleasedAt.
    ASSUME TypeOK, TypeOK', NEW t \in Threads, Released(t), wake_list' = wake_list
    PROVE  LocalAt(t)' /\ SearchAt(t)' /\ OthersSame(t)
  <2> USE <1>ReleasedAt
  <2>1. PICK l \in {"cvwait", "block", "idle"} : pc' = [pc EXCEPT ![t] = l]
    BY Zenon, ReleasedIs
  <2>2. pc'[t] \in {"cvwait", "block", "idle"}
    BY Zenon, <2>1 DEF TypeOK
  <2>3. local'[t].old_h = NoThread /\ local'[t].w = NoThread
    BY ReleasedIs DEF NoLocal
  <2>4. OthersSame(t)
    BY Zenon, ReleasedIs DEF OthersSame
  <2> QED
    BY Zenon, <2>2, <2>3, <2>4 DEF LocalAt, SearchAt

\* The holders without t, once it has released the lock.
<1>ReleasedHolders.
    ASSUME TypeOK, NEW t \in Threads, NEW l \in {"cvwait", "block", "idle", "wake"},
           pc' = [pc EXCEPT ![t] = l], how' = how
    PROVE  /\ Writers' = Writers \ {t} /\ Readers' = Readers \ {t} /\ Counted' = Counted \ {t}
           /\ l \notin Spinning /\ l \notin Holding
  <2> USE <1>ReleasedHolders
  <2>1. HoldersChange(t, l, how[t])
    BY HoldersStepHow, Zenon
  <2>2. l \notin Spinning /\ l \notin Holding /\ l # "removing" /\ l # "increment"
    BY Zenon DEF Spinning, Holding
  <2> QED
    BY Zenon, <2>1, <2>2 DEF HoldersChange

\* Type correctness of the releases that leave the queue alone.
<1>FastReleaseType.
    ASSUME TypeOK, NEW t \in Threads, Released(t), mu' \subseteq Bits, count' \in Nat,
           UNCHANGED <<waiters, cv, sem, waitp, blocked, wake_list, rest>>
    PROVE  TypeOK'
  <2> USE <1>FastReleaseType
  <2>1. PICK l \in {"cvwait", "block", "idle"} : pc' = [pc EXCEPT ![t] = l]
    BY Zenon, ReleasedIs
  <2>2. pc' \in [Threads -> Pcs]
    BY Zenon, <2>1 DEF TypeOK, Pcs
  <2>3. cv_word' \subseteq Threads /\ requeue' \subseteq Threads /\ local' \in [Threads -> LocalRecs]
    BY Zenon, ReleasedIs
  <2> QED
    BY Zenon, <2>2, <2>3 DEF TypeOK, waiters, waitp, rest

\* The fast release of a writer.
<1>FastWriterReleaseWord.
    ASSUME WordInv, NEW t \in Threads, FastWriterRelease(t)
    PROVE  WordInv'
  <2> USE <1>FastWriterReleaseWord
  <2>1. /\ TypeOK /\ Exclusive /\ BitsInv /\ CountInv /\ SpinInv /\ ThreadsInv
        /\ LocalAt(t) /\ SearchAt(t)
    BY Zenon, WordInvHas
  <2>2. /\ pc[t] = "unlock" /\ "kMuWriter" \in mu /\ mu' = mu \ {"kMuWriter", "kMuWrWait"} /\ Released(t)
        /\ UNCHANGED <<count, waiters, cv, sem, waitp, blocked, wake_list, rest>>
    BY Zenon DEF FastWriterRelease
  <2>3. TypeOK'
    <3>1. mu' \subseteq Bits /\ count' \in Nat
      BY Zenon, <2>1, <2>2 DEF TypeOK
    <3> QED
      BY Zenon, <2>1, <2>2, <3>1, <1>FastReleaseType
  <2>4. PICK l \in {"cvwait", "block", "idle"} : pc' = [pc EXCEPT ![t] = l]
    BY Zenon, <2>1, <2>2, ReleasedIs
  <2>5. /\ Writers' = Writers \ {t} /\ Readers' = Readers \ {t} /\ Counted' = Counted \ {t}
        /\ l \notin Spinning /\ pc[t] \notin Spinning
    <3>1. how' = how /\ pc[t] \notin Spinning /\ l \in {"cvwait", "block", "idle", "wake"}
      BY Zenon, <2>2 DEF waitp, Spinning
    <3> QED
      BY <2>1, <2>4, <3>1, <1>ReleasedHolders, Zenon
  <2>6. t \in Writers /\ t \notin Counted /\ Readers = {} /\ "kMuReader" \notin mu
    BY Zenon, <2>2, UnlockerHolds DEF Holding
  <2>7. Writers' = {} /\ Readers' = {} /\ Counted' = Counted
    BY Zenon, <2>1, <2>5, <2>6 DEF Exclusive
  <2>8. Exclusive' /\ BitsInv' /\ CountInv'
    BY Zenon, <2>1, <2>2, <2>6, <2>7 DEF Exclusive, BitsInv, CountInv, waiters
  <2>9. LocalAt(t)' /\ SearchAt(t)' /\ OthersSame(t)
    BY Zenon, <2>1, <2>2, <2>3, <1>ReleasedAt
  <2>10. OthersRelyOn(t)
    <3>1. \A u \in Threads \ {t} : pc[u] \notin Holding /\ local[u].old_h = NoThread
      BY Zenon, <2>6, SoleHolder
    <3> QED
      BY Zenon, <2>2, <3>1 DEF OthersRelyOn, Holding
  <2>11. WordChange(t, l)
    BY Zenon, <2>2, <2>4, <2>5, <2>9, <2>10 DEF WordChange, waitp
  <2> QED
    BY Zenon, <2>3, <2>8, <2>9, <2>11, WordStep

\* The fast release of a reader.
<1>FastReaderReleaseWord.
    ASSUME WordInv, NEW t \in Threads, FastReaderRelease(t)
    PROVE  WordInv'
  <2> USE <1>FastReaderReleaseWord
  <2>1. /\ TypeOK /\ Exclusive /\ BitsInv /\ CountInv /\ SpinInv /\ ThreadsInv
        /\ LocalAt(t) /\ SearchAt(t)
    BY Zenon, WordInvHas
  <2>2. /\ pc[t] = "unlock" /\ "kMuReader" \in mu /\ "kMuWait" \notin mu /\ Released(t)
        /\ count' = count - 1 /\ mu' = IF count = 1 THEN mu \ {"kMuReader"} ELSE mu
        /\ UNCHANGED <<waiters, cv, sem, waitp, blocked, wake_list, rest>>
    BY DEF FastReaderRelease
  <2>3. t \in Readers /\ t \in Counted /\ Writers = {} /\ "kMuWriter" \notin mu
    BY Zenon, <2>2, UnlockerHolds DEF Holding
  <2>4. count \in Nat /\ count = Cardinality(Counted) /\ count # 0
    BY Zenon, <2>1, <2>2, <2>3, CountedFinite DEF TypeOK, CountInv
  <2>5. TypeOK'
    <3>1. mu' \subseteq Bits /\ count' \in Nat
      BY <2>1, <2>2, <2>4 DEF TypeOK
    <3> QED
      BY Zenon, <2>1, <2>2, <3>1, <1>FastReleaseType
  <2>6. PICK l \in {"cvwait", "block", "idle"} : pc' = [pc EXCEPT ![t] = l]
    BY Zenon, <2>1, <2>2, ReleasedIs
  <2>7. /\ Writers' = Writers \ {t} /\ Readers' = Readers \ {t} /\ Counted' = Counted \ {t}
        /\ l \notin Spinning /\ pc[t] \notin Spinning
    <3>1. how' = how /\ pc[t] \notin Spinning /\ l \in {"cvwait", "block", "idle", "wake"}
      BY Zenon, <2>2 DEF waitp, Spinning
    <3> QED
      BY <2>1, <2>6, <3>1, <1>ReleasedHolders, Zenon
  <2>8. Counted = Readers
    <3>1. \A u \in Threads : pc[u] # "increment"
      BY <2>1, <2>2, Zenon DEF ThreadsInv, LocalAt
    <3> QED
      BY Zenon, <3>1 DEF Counted, Readers
  <2>9. "kMuReader" \in mu' <=> Readers' # {}
    <3>1. CASE count = 1
      <4>1. Readers' = {}
        BY Zenon, <2>3, <2>4, <2>7, <2>8, <3>1, CountedFinite
      <4> QED
        BY Zenon, <2>2, <3>1, <4>1
    <3>2. CASE count # 1
      <4>1. Cardinality(Counted \ {t}) # 0
        BY <2>3, <2>4, <3>2, CountedFinite
      <4>2. Counted \ {t} # {}
        BY Zenon, <4>1, FS_EmptySet
      <4> QED
        BY Zenon, <2>2, <2>7, <2>8, <3>2, <4>2
    <3> QED
      BY Zenon, <3>1, <3>2
  <2>10. /\ mu' \subseteq mu
         /\ \A b \in {"kMuWait", "kMuWriter", "kMuWrWait", "kMuSpin"} : b \in mu' <=> b \in mu
    BY Zenon, <2>2
  <2>11. Cardinality(Counted') = count - 1
    BY Zenon, <2>3, <2>4, <2>7, CountedFinite
  <2>12. Exclusive' /\ BitsInv' /\ CountInv'
    BY Zenon, <2>1, <2>2, <2>3, <2>7, <2>9, <2>10, <2>11 DEF Exclusive, BitsInv, CountInv, waiters
  <2>13. LocalAt(t)' /\ SearchAt(t)' /\ OthersSame(t)
    BY Zenon, <2>1, <2>2, <2>5, <1>ReleasedAt
  <2>14. OthersRelyOn(t)
    <3>1. \A u \in Threads : pc[u] # "waiters" /\ (local[u].old_h # NoThread => maybe_unlocking)
      BY Zenon, <2>1, <2>2 DEF ThreadsInv, LocalAt, SearchAt
    <3> QED
      BY Zenon, <2>2, <2>10, <3>1 DEF OthersRelyOn, waiters
  <2>15. WordChange(t, l)
    BY Zenon, <2>2, <2>6, <2>7, <2>10, <2>13, <2>14 DEF WordChange, waitp
  <2> QED
    BY Zenon, <2>5, <2>12, <2>13, <2>15, WordStep
(* UnlockSlow. *)

\* UnlockSlow takes the spin bit.
<1>UnlockSpinWord.
    ASSUME WordInv, NEW t \in Threads, UnlockSpin(t)
    PROVE  WordInv'
  <2> USE <1>UnlockSpinWord
  <2>1. /\ TypeOK /\ Exclusive /\ BitsInv /\ CountInv /\ SpinInv /\ ThreadsInv
        /\ LocalAt(t) /\ SearchAt(t)
    BY Zenon, WordInvHas
  <2>2. /\ pc[t] = "unlock" /\ "kMuSpin" \notin mu /\ mu' = mu \cup {"kMuSpin"}
        /\ local' = [local EXCEPT ![t] = [local[t] EXCEPT !.v = mu]]
        /\ UNCHANGED <<count, waiters, cv, sem, waitp, cv_word, blocked, requeue, wake_list, rest>>
    BY Zenon DEF UnlockSpin
  <2>3. PICK l \in {"waiters", "nowaiters"} :
            pc' = [pc EXCEPT ![t] = l] /\ (l = "waiters" <=> "kMuWait" \in mu)
    BY Zenon DEF UnlockSpin, Goto
  <2>4. "kMuWait" \notin mu => t \in requeue
    BY Zenon, <2>2, UnlockerHolds DEF UnlockSpin, Holding
  <2>5. /\ local' \in [Threads -> LocalRecs] /\ \A u \in Threads \ {t} : local'[u] = local[u]
        /\ local'[t].v = mu /\ local'[t].old_h = local[t].old_h /\ local'[t].w = local[t].w
    <3>1. local \in [Threads -> LocalRecs] /\ [local[t] EXCEPT !.v = mu] \in LocalRecs
      <4>1. mu \in SUBSET Bits
        BY Zenon, <2>1 DEF TypeOK
      <4> QED
        BY <2>1, <4>1, LocalSet, Zenon
    <3>2. /\ local' \in [Threads -> LocalRecs] /\ \A u \in Threads \ {t} : local'[u] = local[u]
          /\ local'[t] = [local[t] EXCEPT !.v = mu]
      BY <2>2, <3>1, Zenon
    <3>3. local'[t].v = mu /\ local'[t].old_h = local[t].old_h /\ local'[t].w = local[t].w
      BY Zenon, <3>1, <3>2 DEF LocalRecs
    <3> QED
      BY <3>2, <3>3, Zenon
  <2>6. TypeOK'
    <3>1. pc' \in [Threads -> Pcs]
      BY Zenon, <2>1, <2>3 DEF TypeOK, Pcs
    <3>2. mu' \subseteq Bits
      BY Zenon, <2>1, <2>2 DEF TypeOK, Bits
    <3>3. local' \in [Threads -> LocalRecs]
      BY Zenon, <2>5
    <3>4. UNCHANGED <<count, waiters, cv, sem, waitp, cv_word, blocked, requeue, wake_list, rest>>
      BY Zenon, <2>2
    <3> QED
      BY Zenon, <2>1, <3>1, <3>2, <3>3, <3>4 DEF TypeOK, waiters, waitp, rest
  <2>7. pc'[t] = l
    BY Zenon, <2>1, <2>3 DEF TypeOK
  <2>8. LocalAt(t)'
    <3>1. local'[t].v = mu' \ {"kMuSpin"} /\ ("kMuWait" \in mu' <=> "kMuWait" \in mu) /\ requeue' = requeue
      BY Zenon, <2>2, <2>5
    <3> QED
      BY Zenon, <2>3, <2>4, <2>7, <3>1 DEF LocalAt
  <2>9. SearchAt(t)'
    <3>1. queue' = queue /\ maybe_unlocking' = maybe_unlocking
      BY Zenon, <2>2 DEF waiters
    <3>2. local[t].old_h # NoThread => l = "waiters"
      BY <2>1, <2>3 DEF SearchAt, BitsInv, Range
    <3> QED
      BY Zenon, <2>1, <2>2, <2>3, <2>5, <2>7, <3>1, <3>2 DEF SearchAt
  <2>10. OthersRelyOn(t)
    BY Zenon, <2>2, RelyAlone DEF waiters
  <2>11. WordChange(t, l)
    BY Zenon, <2>2, <2>3, <2>5, <2>10 DEF WordChange, OthersSame, waitp, Spinning
  <2>12. Count' = Count /\ ("kMuWait" \in mu' <=> queue' # <<>>) /\ ("kMuWrWait" \in mu' => "kMuWait" \in mu')
    BY Zenon, <2>1, <2>2 DEF Count, BitsInv, waiters
  <2>13. /\ l \in Holding <=> pc[t] \in Holding
         /\ l \notin {"increment", "removing"} /\ pc[t] \notin {"increment", "removing"}
         /\ ("kMuWriter" \in mu' <=> "kMuWriter" \in mu) /\ ("kMuReader" \in mu' <=> "kMuReader" \in mu)
    BY Zenon, <2>2, <2>3 DEF Holding
  <2> QED
    BY Zenon, <2>6, <2>8, <2>9, <2>11, <2>12, <2>13, KeepStep

\* No waiters: the unlocker becomes the only one, or goes to the CondVar.
<1>NoWaitersWord.
    ASSUME WordInv, NEW t \in Threads, NoWaiters(t)
    PROVE  WordInv'
  <2> USE <1>NoWaitersWord
  <2>1. /\ TypeOK /\ Exclusive /\ BitsInv /\ CountInv /\ SpinInv /\ ThreadsInv
        /\ LocalAt(t) /\ SearchAt(t)
    BY Zenon, WordInvHas
  <2>2. /\ pc[t] = "nowaiters" /\ maybe_unlocking' = FALSE /\ wake' = wake \ {t} /\ SelfCondVar(t) /\ Released(t)
        /\ UNCHANGED <<sem, waitp, blocked, wake_list, rest>>
    BY Zenon DEF NoWaiters
  <2>3. /\ "kMuWait" \notin mu /\ queue = <<>> /\ "kMuWrWait" \notin mu
        /\ count \in Nat /\ readers \in Nat /\ count = Cardinality(Counted)
    BY Zenon, <2>1, <2>2 DEF LocalAt, BitsInv, CountInv, TypeOK
  <2>4. \A u \in Threads : pc[u] # "increment" /\ local[u].old_h = NoThread
    <3>1. Range(queue) = {}
      BY <2>3 DEF Range
    <3> QED
      BY Zenon, <2>1, <2>3, <3>1 DEF ThreadsInv, LocalAt, SearchAt
  <2>5. Counted = Readers
    BY Zenon, <2>4 DEF Counted, Readers
  <2> DEFINE new_readers == IF count > 0 THEN count - 1 ELSE count
             clear == IF "kMuWriter" \notin mu /\ count = 1 THEN {"kMuReader"} ELSE {"kMuWriter"}
             nv == mu \ (clear \cup {"kMuWrWait", "kMuSpin"})
  <2>6. \/ mu' = nv /\ count' = new_readers /\ queue' = queue /\ readers' = readers
        \/ mu' = nv \cup {"kMuWait"} /\ count' = 0 /\ queue' = <<t>> /\ readers' = new_readers
    BY Zenon DEF NoWaiters
  <2>7. /\ new_readers \in Nat /\ new_readers = Cardinality(Counted \ {t})
        /\ "kMuWriter" \notin nv /\ Writers \ {t} = {}
        /\ "kMuReader" \in nv <=> Readers \ {t} # {}
    <3>1. CASE t \in Writers
      <4>1. Readers = {} /\ "kMuWriter" \in mu /\ "kMuReader" \notin mu /\ Counted = {} /\ Writers \ {t} = {}
        BY Zenon, <2>1, <2>2, <2>5, <3>1, UnlockerHolds DEF Holding, Exclusive
      <4>2. count = 0 /\ Cardinality(Counted \ {t}) = 0
        BY Zenon, <2>3, <4>1, FS_EmptySet
      <4> QED
        BY <4>1, <4>2
    <3>2. CASE t \notin Writers
      <4>1. t \in Counted /\ Writers = {} /\ "kMuReader" \in mu /\ "kMuWriter" \notin mu
        BY Zenon, <2>2, <3>2, UnlockerHolds DEF Holding
      <4>2. count # 0 /\ Cardinality(Counted \ {t}) = count - 1
        BY Zenon, <2>3, <4>1, CountedFinite
      <4>3. count = 1 <=> Counted \ {t} = {}
        <5>1. count = 1 => Counted \ {t} = {}
          BY Zenon, <2>3, <4>1, CountedFinite
        <5>2. Counted \ {t} = {} => count = 1
          <6>1. Cardinality({}) = 0
            BY Zenon, FS_EmptySet
          <6>2. Counted \ {t} = {} => Cardinality(Counted \ {t}) = 0
            BY <6>1, Zenon
          <6> QED
            BY <2>3, <4>2, <6>2
        <5> QED
          BY Zenon, <5>1, <5>2
      <4> QED
        BY <2>3, <2>5, <4>1, <4>2, <4>3
    <3> QED
      BY Zenon, <3>1, <3>2
  <2>8. nv \subseteq mu \ {"kMuWrWait", "kMuSpin"}
    BY Zenon
  <2> HIDE DEF new_readers, nv
  <2>9. /\ mu' \subseteq Bits /\ count' \in Nat /\ queue' \in Seq(Threads) /\ readers' \in Nat
        /\ "kMuSpin" \notin mu' /\ "kMuWrWait" \notin mu' /\ "kMuWriter" \notin mu'
        /\ "kMuReader" \in mu' <=> Readers \ {t} # {}
        /\ "kMuWait" \in mu' <=> queue' # <<>>
        /\ new_readers = IF "kMuWait" \in mu' THEN readers' ELSE count'
    <3>1. CASE mu' = nv /\ count' = new_readers /\ queue' = queue /\ readers' = readers
      BY Zenon, <2>1, <2>3, <2>7, <2>8, <3>1 DEF TypeOK
    <3>2. CASE mu' = nv \cup {"kMuWait"} /\ count' = 0 /\ queue' = <<t>> /\ readers' = new_readers
      BY <2>1, <2>3, <2>7, <2>8, <3>2 DEF TypeOK, Bits
    <3> QED
      BY Zenon, <2>6, <3>1, <3>2
  <2>10. PICK l \in {"cvwait", "block", "idle"} : pc' = [pc EXCEPT ![t] = l]
    BY Zenon, <2>1, <2>2, ReleasedIs
  <2>11. TypeOK'
    <3>1. pc' \in [Threads -> Pcs]
      BY Zenon, <2>1, <2>10 DEF TypeOK, Pcs
    <3>2. cv_word' \subseteq Threads /\ requeue' \subseteq Threads /\ local' \in [Threads -> LocalRecs]
      BY Zenon, <2>1, <2>2, ReleasedIs
    <3>3. cv' \in Seq(Threads)
      BY <2>1, <2>2, SelfCondVarType, Zenon
    <3>4. maybe_unlocking' \in BOOLEAN
      BY <2>2, Zenon
    <3>5. UNCHANGED <<sem, waitp, blocked, wake_list, rest>> /\ wake' \subseteq Threads
      BY Zenon, <2>1, <2>2 DEF TypeOK
    <3>6. mu' \subseteq Bits /\ count' \in Nat /\ queue' \in Seq(Threads) /\ readers' \in Nat
      BY Zenon, <2>9
    <3> QED
      BY Zenon, <2>1, <3>1, <3>2, <3>3, <3>4, <3>5, <3>6 DEF TypeOK, waitp, rest
  <2>12. /\ Writers' = Writers \ {t} /\ Readers' = Readers \ {t} /\ Counted' = Counted \ {t}
         /\ l \notin Spinning /\ pc[t] \in Spinning
    <3>1. how' = how /\ pc[t] \in Spinning /\ l \in {"cvwait", "block", "idle", "wake"}
      BY Zenon, <2>2 DEF waitp, Spinning
    <3> QED
      BY <2>1, <2>10, <3>1, <1>ReleasedHolders, Zenon
  <2>13. Exclusive' /\ BitsInv' /\ CountInv'
    BY Zenon, <2>7, <2>9, <2>12 DEF Exclusive, BitsInv, CountInv
  <2>14. LocalAt(t)' /\ SearchAt(t)' /\ OthersSame(t)
    BY Zenon, <2>1, <2>2, <2>11, <1>ReleasedAt
  <2>15. OthersRelyOn(t)
    BY Zenon, <2>4, <2>12, RelyAlone
  <2>16. WordChange(t, l)
    BY Zenon, <2>2, <2>9, <2>10, <2>12, <2>14, <2>15 DEF WordChange, waitp
  <2> QED
    BY Zenon, <2>11, <2>13, <2>14, <2>16, WordStep

\* Type correctness of the releases that may change the queue.
<1>SlowReleaseType.
    ASSUME TypeOK, NEW t \in Threads, Released(t), SelfCondVar(t), mu' \subseteq Bits, count' \in Nat,
           queue' \in Seq(Threads), readers' \in Nat, maybe_unlocking' \in BOOLEAN, wake' \subseteq Threads,
           UNCHANGED <<sem, waitp, blocked, wake_list, rest>>
    PROVE  TypeOK'
  <2> USE <1>SlowReleaseType
  <2>1. PICK l \in {"cvwait", "block", "idle"} : pc' = [pc EXCEPT ![t] = l]
    BY Zenon, ReleasedIs
  <2>2. pc' \in [Threads -> Pcs]
    BY Zenon, <2>1 DEF TypeOK, Pcs
  <2>3. cv_word' \subseteq Threads /\ requeue' \subseteq Threads /\ local' \in [Threads -> LocalRecs]
    BY Zenon, ReleasedIs
  <2>4. cv' \in Seq(Threads)
    BY SelfCondVarType, Zenon
  <2> QED
    BY Zenon, <2>2, <2>3, <2>4 DEF TypeOK, waitp, rest

\* A reader that is not the last leaves its count with the last waiter.
<1>NotLastReaderWord.
    ASSUME WordInv, NEW t \in Threads, NotLastReader(t)
    PROVE  WordInv'
  <2> USE <1>NotLastReaderWord
  <2>1. /\ TypeOK /\ Exclusive /\ BitsInv /\ CountInv /\ SpinInv /\ ThreadsInv
        /\ LocalAt(t) /\ SearchAt(t)
    BY Zenon, WordInvHas
  <2>2. /\ pc[t] = "waiters" /\ ~LastHolder /\ readers' = readers - 1
        /\ queue' = SelfEnqueued(t, queue, maybe_unlocking)
        /\ wake' = wake \ (IF t \in requeue THEN {t} ELSE {})
        /\ mu' = local[t].v /\ SelfCondVar(t) /\ Released(t)
        /\ UNCHANGED <<count, maybe_unlocking, sem, waitp, blocked, wake_list, rest>>
    BY Zenon DEF NotLastReader
  <2>3. mu' = mu \ {"kMuSpin"} /\ "kMuWait" \in mu /\ queue # <<>>
    BY Zenon, <2>1, <2>2 DEF LocalAt, BitsInv
  <2>4. "kMuReader" \in mu /\ readers \in Nat /\ readers > 1
    BY Zenon, <2>1, <2>2 DEF LastHolder, TypeOK
  <2>5. queue' \in Seq(Threads) /\ Range(queue) \subseteq Range(queue') /\ queue' # <<>>
    <3>1. queue \in Seq(Threads)
      BY Zenon, <2>1 DEF TypeOK
    <3> QED
      BY <2>2, <2>3, <3>1, SelfQueued, Zenon
  <2>6. TypeOK'
    <3>1. mu' \subseteq Bits /\ wake' \subseteq Threads /\ readers' \in Nat /\ count' \in Nat
      <4>1. wake' \subseteq wake /\ count' = count
        BY Zenon, <2>2
      <4> QED
        BY <2>1, <2>2, <2>3, <2>4, <4>1 DEF TypeOK
    <3>2. maybe_unlocking' \in BOOLEAN /\ UNCHANGED <<sem, waitp, blocked, wake_list, rest>>
      BY <2>1, <2>2, Zenon DEF TypeOK
    <3> QED
      BY <2>1, <2>2, <2>5, <3>1, <3>2, <1>SlowReleaseType, Zenon
  <2>7. PICK l \in {"cvwait", "block", "idle"} : pc' = [pc EXCEPT ![t] = l]
    BY Zenon, <2>1, <2>2, ReleasedIs
  <2>8. /\ Writers' = Writers \ {t} /\ Readers' = Readers \ {t} /\ Counted' = Counted \ {t}
        /\ l \notin Spinning /\ pc[t] \in Spinning /\ how' = how
    <3>1. how' = how /\ pc[t] \in Spinning /\ l \in {"cvwait", "block", "idle", "wake"}
      BY Zenon, <2>2 DEF waitp, Spinning
    <3> QED
      BY <2>1, <2>7, <3>1, <1>ReleasedHolders, Zenon
  <2>9. t \in Counted /\ Writers = {} /\ "kMuWriter" \notin mu
    BY Zenon, <2>1, <2>2, <2>4, UnlockerHolds DEF Holding
  <2>10. /\ Cardinality(Counted) = readers /\ Cardinality(Counted \ {t}) = readers - 1
         /\ Counted \ {t} # {}
    <3>1. Cardinality(Counted) = readers
      BY Zenon, <2>1, <2>3 DEF CountInv
    <3>2. Cardinality(Counted \ {t}) = readers - 1
      BY Zenon, <2>9, <3>1, CountedFinite
    <3>3. Counted \ {t} = {} => Cardinality(Counted \ {t}) = 0
      BY FS_EmptySet, Zenon
    <3> QED
      BY <2>4, <3>1, <3>2, <3>3
  <2>11. Readers \ {t} # {}
    BY Zenon, <2>10 DEF Counted
  <2>12. Exclusive' /\ BitsInv' /\ CountInv'
    <3>1. /\ "kMuWriter" \notin mu' /\ "kMuReader" \in mu' /\ "kMuWait" \in mu'
          /\ Writers' = {} /\ Readers' # {} /\ Cardinality(Counted') = readers'
      BY Zenon, <2>2, <2>3, <2>4, <2>8, <2>9, <2>10, <2>11
    <3> QED
      BY Zenon, <2>5, <3>1 DEF Exclusive, BitsInv, CountInv
  <2>13. LocalAt(t)' /\ SearchAt(t)' /\ OthersSame(t)
    BY <2>1, <2>2, <2>6, <1>ReleasedAt, Zenon
  <2>14. OthersRelyOn(t)
    BY Zenon, <2>2, <2>5, <2>8, RelyAlone
  <2>15. WordChange(t, l)
    BY Zenon, <2>3, <2>7, <2>8, <2>13, <2>14 DEF WordChange
  <2> QED
    BY Zenon, <2>6, <2>12, <2>13, <2>15, WordStep

\* When the last holder is gone the lock is free.
<1>LastHolderGone.
    ASSUME WordInv, NEW t \in Threads, pc[t] = "waiters", LastHolder,
           NEW l \in {"cvwait", "block", "idle", "wake"}, pc' = [pc EXCEPT ![t] = l], how' = how
    PROVE  /\ Writers' = {} /\ Readers' = {} /\ Counted' = {} /\ Cardinality(Counted') = 0
           /\ l \notin Spinning /\ pc[t] \in Spinning /\ OthersRelyOn(t)
  <2> USE <1>LastHolderGone
  <2>1. TypeOK /\ pc[t] \in Spinning
    BY Zenon DEF WordInv, Spinning
  <2>2. /\ Writers' = Writers \ {t} /\ Readers' = Readers \ {t} /\ Counted' = Counted \ {t}
        /\ l \notin Spinning
    BY <2>1, <1>ReleasedHolders, Zenon
  <2>3. \A u \in Threads \ {t} :
           pc[u] \notin Holding \cup {"increment", "removing"} /\ local[u].old_h = NoThread
    BY Zenon, SoleHolder
  <2>4. Writers \ {t} = {} /\ Readers \ {t} = {} /\ Counted \ {t} = {}
    BY Zenon, <2>3 DEF Writers, Readers, Counted
  <2>5. OthersRelyOn(t)
    BY Zenon, <2>1, <2>3, RelyAlone
  <2> QED
    BY Zenon, <2>1, <2>2, <2>4, <2>5, FS_EmptySet

\* The search found nobody: the lock is released and nobody woken.
<1>WakeNobodyWord.
    ASSUME WordInv, NEW t \in Threads, WakeNobody(t)
    PROVE  WordInv'
  <2> USE <1>WakeNobodyWord
  <2>1. /\ TypeOK /\ Exclusive /\ BitsInv /\ CountInv /\ SpinInv /\ ThreadsInv
        /\ LocalAt(t) /\ SearchAt(t)
    BY Zenon, WordInvHas
  <2>2. /\ pc[t] = "waiters" /\ LastHolder /\ readers' = 0 /\ maybe_unlocking' = FALSE /\ count' = 0
        /\ queue' = SelfEnqueued(t, queue, FALSE)
        /\ mu' = local[t].v \ {"kMuReader", "kMuWriter", "kMuWrWait"}
        /\ wake' = wake \ (IF t \in requeue THEN {t} ELSE {})
        /\ SelfCondVar(t) /\ Released(t)
        /\ UNCHANGED <<sem, waitp, blocked, wake_list, rest>>
    BY Zenon DEF WakeNobody
  <2>3. /\ mu' = mu \ {"kMuSpin", "kMuReader", "kMuWriter", "kMuWrWait"}
        /\ "kMuWait" \in mu /\ queue # <<>>
    BY Zenon, <2>1, <2>2 DEF LocalAt, BitsInv
  <2>4. queue' \in Seq(Threads) /\ queue' # <<>>
    <3>1. queue \in Seq(Threads)
      BY Zenon, <2>1 DEF TypeOK
    <3> QED
      BY <2>2, <2>3, <3>1, SelfQueued, Zenon
  <2>5. TypeOK'
    <3>1. mu' \subseteq Bits /\ wake' \subseteq Threads /\ readers' \in Nat /\ count' \in Nat
      BY <2>1, <2>2, <2>3, Zenon DEF TypeOK
    <3>2. maybe_unlocking' \in BOOLEAN
      BY <2>2, Zenon
    <3> QED
      BY <2>1, <2>2, <2>4, <3>1, <3>2, <1>SlowReleaseType, Zenon
  <2>6. PICK l \in {"cvwait", "block", "idle"} : pc' = [pc EXCEPT ![t] = l]
    BY <2>1, <2>2, ReleasedIs, Zenon
  <2>7. /\ Writers' = {} /\ Readers' = {} /\ Counted' = {} /\ Cardinality(Counted') = 0
        /\ l \notin Spinning /\ pc[t] \in Spinning /\ OthersRelyOn(t)
    <3>1. how' = how /\ l \in {"cvwait", "block", "idle", "wake"}
      BY <2>2, Zenon DEF waitp
    <3> QED
      BY <2>2, <2>6, <3>1, <1>LastHolderGone, Zenon
  <2>8. Exclusive' /\ BitsInv' /\ CountInv'
    <3>1. /\ "kMuWriter" \notin mu' /\ "kMuReader" \notin mu' /\ "kMuWait" \in mu' /\ readers' = 0
      BY Zenon, <2>2, <2>3
    <3> QED
      BY Zenon, <2>4, <2>7, <3>1 DEF Exclusive, BitsInv, CountInv
  <2>9. LocalAt(t)' /\ SearchAt(t)' /\ OthersSame(t)
    BY Zenon, <2>1, <2>2, <2>5, <1>ReleasedAt
  <2>10. WordChange(t, l)
    BY <2>2, <2>3, <2>6, <2>7, <2>9, Zenon DEF WordChange, waitp
  <2> QED
    BY Zenon, <2>5, <2>8, <2>9, <2>10, WordStep

\* The lock is released and some waiters are taken off the queue to be woken.
<1>WakeWaitersWord.
    ASSUME WordInv, NEW t \in Threads, WakeWaiters(t)
    PROVE  WordInv'
  <2> USE <1>WakeWaitersWord
  <2>1. /\ TypeOK /\ Exclusive /\ BitsInv /\ CountInv /\ SpinInv /\ ThreadsInv
        /\ LocalAt(t) /\ SearchAt(t)
    BY Zenon, WordInvHas
  <2>2. pc[t] = "waiters" /\ LastHolder
    BY Zenon DEF WakeWaiters
  <2>3. PICK w \in Range(queue), wr_wait \in SUBSET {"kMuWrWait"} : DequeueAndRelease(t, w, wr_wait)
    BY WakesWaiter, Zenon
  <2>4. /\ mu' = ReleasedWord(queue', wr_wait)
        /\ readers' = 0 /\ count' = 0 /\ maybe_unlocking' = FALSE
        /\ SelfCondVar(t) /\ pc' = [pc EXCEPT ![t] = "wake"]
        /\ local' = [local EXCEPT ![t] = NoLocal]
        /\ UNCHANGED <<sem, waitp, cv_word, blocked, requeue, rest>>
    BY <2>3, Zenon DEF DequeueAndRelease, Goto
  <2>5. wake' \subseteq wake
    <3>1. \E s : wake' = wake \ s
      BY <2>3, Zenon DEF DequeueAndRelease
    <3> QED
      BY Zenon, <3>1
  <2>6. queue' \in Seq(Threads)
    BY <2>1, <2>3, Dequeues, Zenon
  <2>7. PICK woken \in Seq(Threads) : woken # <<>> /\ wake_list' = [wake_list EXCEPT ![t] = woken]
    BY <2>1, <2>3, Dequeues, Zenon
  <2>8. /\ mu' \subseteq Bits /\ "kMuSpin" \notin mu' /\ "kMuWriter" \notin mu' /\ "kMuReader" \notin mu'
        /\ ("kMuWait" \in mu' <=> queue' # <<>>) /\ ("kMuWrWait" \in mu' => "kMuWait" \in mu')
    BY Zenon, <2>3, <2>4 DEF ReleasedWord, Bits
  <2>9. TypeOK'
    <3>1. pc' \in [Threads -> Pcs]
      BY Zenon, <2>1, <2>4 DEF TypeOK, Pcs
    <3>2. wake_list' \in [Threads -> Seq(Threads)]
      BY Zenon, <2>1, <2>7 DEF TypeOK
    <3>3. local' \in [Threads -> LocalRecs]
      <4>1. NoLocal \in LocalRecs
        BY Zenon DEF NoLocal, LocalRecs, Bits
      <4> QED
        BY Zenon, <2>1, <2>4, <4>1 DEF TypeOK
    <3>4. cv' \in Seq(Threads)
      BY <2>1, <2>4, SelfCondVarType, Zenon
    <3>5. maybe_unlocking' \in BOOLEAN
      BY <2>4, Zenon
    <3>6. readers' \in Nat /\ count' \in Nat /\ UNCHANGED <<sem, waitp, cv_word, blocked, requeue, rest>>
      BY Zenon, <2>4
    <3>7. mu' \subseteq Bits /\ wake' \subseteq Threads
      BY Zenon, <2>1, <2>5, <2>8 DEF TypeOK
    <3> QED
      BY SMTT(30), <2>1, <2>6, <3>1, <3>2, <3>3, <3>4, <3>5, <3>6, <3>7 DEF TypeOK, waitp, rest
  <2>10. /\ Writers' = {} /\ Readers' = {} /\ Counted' = {} /\ Cardinality(Counted') = 0
         /\ "wake" \notin Spinning /\ pc[t] \in Spinning /\ OthersRelyOn(t)
    <3>1. how' = how /\ "wake" \in {"cvwait", "block", "idle", "wake"}
      BY Zenon, <2>4 DEF waitp
    <3> QED
      BY <2>2, <2>4, <3>1, <1>LastHolderGone, Zenon
  <2>11. Exclusive' /\ BitsInv' /\ CountInv'
    <3>1. readers' = 0 /\ count' = 0
      BY Zenon, <2>4
    <3> QED
      BY Zenon, <2>8, <2>10, <3>1 DEF Exclusive, BitsInv, CountInv
  <2>12. /\ pc'[t] = "wake" /\ wake_list'[t] # <<>> /\ local'[t] = NoLocal
         /\ \A u \in Threads \ {t} : local'[u] = local[u] /\ wake_list'[u] = wake_list[u]
    BY Zenon, <2>1, <2>4, <2>7 DEF TypeOK
  <2>13. LocalAt(t)' /\ SearchAt(t)'
    <3>1. local'[t].old_h = NoThread /\ local'[t].w = NoThread
      BY <2>12 DEF NoLocal
    <3> QED
      BY Zenon, <2>12, <3>1 DEF LocalAt, SearchAt
  <2>14. WordChange(t, "wake")
    BY Zenon, <2>4, <2>8, <2>10, <2>12 DEF WordChange, waitp, OthersSame
  <2> QED
    BY Zenon, <2>9, <2>11, <2>13, <2>14, WordStep

\* The queue is searched without the spin bit; maybe_unlocking says so.
<1>SearchWord.
    ASSUME WordInv, NEW t \in Threads, Search(t)
    PROVE  WordInv'
  <2> USE <1>SearchWord
  <2>1. /\ TypeOK /\ Exclusive /\ BitsInv /\ CountInv /\ SpinInv /\ ThreadsInv
        /\ LocalAt(t) /\ SearchAt(t)
    BY Zenon, WordInvHas
  <2> DEFINE last == Last(queue)
             from == IF local[t].old_h = NoThread THEN Head(queue)
                     ELSE queue[Position(queue, local[t].old_h) + 1]
  <2>2. /\ pc[t] = "waiters" /\ LastHolder /\ last # local[t].old_h /\ mu' = local[t].v
        /\ pc' = [pc EXCEPT ![t] = "search"] /\ maybe_unlocking' = TRUE
        /\ local' = [local EXCEPT ![t] = [local[t] EXCEPT !.old_h = last, !.from = from]]
        /\ UNCHANGED <<count, queue, readers, wake, cv, sem, waitp, cv_word, blocked, requeue, wake_list, rest>>
    BY Zenon DEF Search, StartSearch, Goto
  <2>3. mu' = mu \ {"kMuSpin"} /\ "kMuWait" \in mu /\ queue # <<>> /\ queue \in Seq(Threads)
    BY Zenon, <2>1, <2>2 DEF LocalAt, BitsInv, TypeOK
  <2>4. last \in Range(queue) /\ last \in Threads
    BY <2>3 DEF Last, Range
  <2>5. from \in Range(queue) /\ from \in Threads
    <3>1. CASE local[t].old_h = NoThread
      BY <2>3, <3>1 DEF Range
    <3>2. CASE local[t].old_h # NoThread
      <4>1. /\ Position(queue, local[t].old_h) \in 1..Len(queue)
            /\ queue[Position(queue, local[t].old_h)] = local[t].old_h
        BY Zenon, <2>1, <2>3, <3>2, PositionOf DEF SearchAt
      <4>2. Position(queue, local[t].old_h) # Len(queue)
        BY Zenon, <2>2, <4>1 DEF Last
      <4> QED
        BY <2>3, <3>2, <4>1, <4>2 DEF Range
    <3> QED
      BY Zenon, <3>1, <3>2
  <2> HIDE DEF last, from
  <2>6. /\ local' \in [Threads -> LocalRecs] /\ \A u \in Threads \ {t} : local'[u] = local[u]
        /\ local'[t].old_h = last /\ local'[t].from = from /\ local'[t].w = local[t].w
    <3>1. local \in [Threads -> LocalRecs]
      BY Zenon, <2>1 DEF TypeOK
    <3> DEFINE rec == [local[t] EXCEPT !.old_h = last, !.from = from]
    <3>2. rec \in LocalRecs /\ rec.old_h = last /\ rec.from = from /\ rec.w = local[t].w
      <4>1. local[t] \in LocalRecs
        BY Zenon, <3>1
      <4> QED
        BY <2>4, <2>5, <4>1, Zenon DEF LocalRecs
    <3>3. local' = [local EXCEPT ![t] = rec]
      BY Zenon, <2>2, <3>1
    <3> HIDE DEF rec
    <3> QED
      BY Zenon, <3>1, <3>2, <3>3
  <2>7. TypeOK'
    <3>1. pc' \in [Threads -> Pcs]
      BY Zenon, <2>1, <2>2 DEF TypeOK, Pcs
    <3>2. mu' \subseteq Bits
      BY Zenon, <2>1, <2>3 DEF TypeOK
    <3>3. maybe_unlocking' \in BOOLEAN
      BY <2>2, Zenon
    <3>4. local' \in [Threads -> LocalRecs]
      BY Zenon, <2>6
    <3>5. UNCHANGED <<count, queue, readers, wake, cv, sem, waitp, cv_word, blocked, requeue, wake_list, rest>>
      BY Zenon, <2>2
    <3> QED
      BY Zenon, <2>1, <3>1, <3>2, <3>3, <3>4, <3>5 DEF TypeOK, waitp, rest
  <2>8. pc'[t] = "search" /\ queue' = queue /\ maybe_unlocking'
    BY Zenon, <2>1, <2>2 DEF TypeOK
  <2>9. LocalAt(t)'
    BY Zenon, <2>8 DEF LocalAt
  <2>10. SearchAt(t)'
    <3>1. last # NoThread /\ (local[t].w # NoThread => local[t].w \in Range(queue))
      BY Zenon, <2>1, <2>2, <2>4, MutexAssumption DEF SearchAt
    <3> QED
      BY <2>4, <2>5, <2>6, <2>8, <3>1, Zenon DEF SearchAt
  <2>11. OthersRelyOn(t)
    <3>1. pc[t] \in Spinning /\ \A u \in Threads \ {t} : local[u].old_h = NoThread
      BY Zenon, <2>2, SoleHolder DEF Spinning
    <3> QED
      BY Zenon, <3>1, RelyAlone
  <2>12. WordChange(t, "search")
    BY Zenon, <2>2, <2>3, <2>6, <2>11 DEF WordChange, OthersSame, waitp, Spinning
  <2>13. /\ "search" \in Holding <=> pc[t] \in Holding
         /\ "search" \notin {"increment", "removing"} /\ pc[t] \notin {"increment", "removing"}
         /\ ("kMuWriter" \in mu' <=> "kMuWriter" \in mu) /\ ("kMuReader" \in mu' <=> "kMuReader" \in mu)
         /\ ("kMuWait" \in mu' <=> queue' # <<>>) /\ ("kMuWrWait" \in mu' => "kMuWait" \in mu')
         /\ Count' = Count
    BY Zenon, <2>1, <2>2, <2>3 DEF Holding, Count, BitsInv
  <2> QED
    BY Zenon, <2>7, <2>9, <2>10, <2>12, <2>13, KeepStep
<1>1. ASSUME WordInv, UNCHANGED vars PROVE WordInv'
  <2>1. /\ mu' = mu /\ count' = count /\ queue' = queue /\ readers' = readers
        /\ maybe_unlocking' = maybe_unlocking /\ wake' = wake /\ cv' = cv /\ sem' = sem /\ pc' = pc
        /\ how' = how /\ cond' = cond /\ timed' = timed /\ cv_word' = cv_word /\ blocked' = blocked
        /\ requeue' = requeue /\ local' = local /\ wake_list' = wake_list /\ flag' = flag
    BY Zenon, <1>1 DEF vars, word, waiters, waitp, rest
  <2>2. Writers' = Writers /\ Readers' = Readers /\ Counted' = Counted
    BY <2>1, Zenon DEF Writers, Readers, Counted
  <2>3. TypeOK' /\ Exclusive' /\ SpinInv'
    BY <1>1, <2>1, <2>2, Zenon DEF WordInv, TypeOK, Exclusive, SpinInv
  <2>4. BitsInv' /\ CountInv'
    BY <1>1, <2>1, <2>2, Zenon DEF WordInv, BitsInv, CountInv
  <2>5. ThreadsInv'
    BY <1>1, <2>1, Zenon DEF WordInv, ThreadsInv, LocalAt, SearchAt
  <2> QED
    BY Zenon, <2>3, <2>4, <2>5 DEF WordInv
<1>2. ASSUME WordInv, NEW t \in Threads, Step(t) PROVE WordInv'
  <2>1. CASE Fast(t) \/ SlowAcquire(t)
    BY Zenon, <1>2, <2>1, AcquireWord
  <2>2. CASE OnlyWaiter(t)
    BY Zenon, <1>2, <2>2, OnlyWaiterWord
  <2>3. CASE IncrementStart(t)
    BY Zenon, <1>2, <2>3, <1>IncrementStartWord
  <2>4. CASE Increment(t)
    BY SMTT(30), <1>2, <2>4, <1>IncrementWord
  <2>5. CASE EnqueueStart(t)
    BY Zenon, <1>2, <2>5, EnqueueStartWord
  <2>6. CASE EnqueueEnd(t)
    BY Zenon, <1>2, <2>6, EnqueueEndWord
  <2>7. CASE TryRemoveStart(t)
    BY Zenon, <1>2, <2>7, <1>TryRemoveStartWord
  <2>8. CASE TryRemoveEnd(t)
    BY Zenon, <1>2, <2>8, <1>TryRemoveEndWord
  <2>9. CASE FastFails(t) \/ Unblocked(t) \/ DecrementSynchSem(t) \/ TryRemoveFails(t) \/ RemoveAgain(t)
             \/ Removed(t) \/ Unlock(t)
    BY SMTT(30), <1>2, <2>9, PlainSteps
  <2>10. CASE FastWriterRelease(t)
    BY Zenon, <1>2, <2>10, <1>FastWriterReleaseWord
  <2>11. CASE FastReaderRelease(t)
    BY Zenon, <1>2, <2>11, <1>FastReaderReleaseWord
  <2>12. CASE UnlockSpin(t)
    BY Zenon, <1>2, <2>12, <1>UnlockSpinWord
  <2>13. CASE NoWaiters(t)
    BY Zenon, <1>2, <2>13, <1>NoWaitersWord
  <2>14. CASE NotLastReader(t)
    BY Zenon, <1>2, <2>14, <1>NotLastReaderWord
  <2>15. CASE WakeWaiters(t)
    BY Zenon, <1>2, <2>15, <1>WakeWaitersWord
  <2>16. CASE WakeNobody(t)
    BY Zenon, <1>2, <2>16, <1>WakeNobodyWord
  <2>17. CASE Search(t)
    BY Zenon, <1>2, <2>17, <1>SearchWord
  <2>18. CASE Walk(t)
    BY Zenon, <1>2, <2>18, WalkWord
  <2>19. CASE Wakeup(t)
    BY Zenon, <1>2, <2>19, HandOverWord
  <2>20. CASE Post(t)
    BY Zenon, <1>2, <2>20, PostWord
  <2> QED
    BY SMTT(30), <1>2, <2>1, <2>2, <2>3, <2>4, <2>5, <2>6, <2>7, <2>8, <2>9, <2>10, <2>11, <2>12, <2>13, <2>14,
       <2>15, <2>16, <2>17, <2>18, <2>19, <2>20 DEF Step
<1>3. ASSUME WordInv, NEW t \in Threads, Choice(t) PROVE WordInv'
  BY Zenon, <1>3, PlainSteps DEF Choice
<1>4. ASSUME WordInv, NEW t \in Threads, CvStep(t) \/ CvWait(t) \/ Signal(t) \/ CvTimesOut(t) PROVE WordInv'
  <2>1. CASE Trans(t) \/ CvRemove(t) \/ CvWait(t) \/ CvTimesOut(t)
    BY Zenon, <1>4, <2>1, PlainSteps
  <2>2. CASE FerWake(t)
    BY Zenon, <1>4, <2>2, HandOverWord
  <2>3. CASE FerPost(t)
    BY Zenon, <1>4, <2>3, PostWord
  <2>4. CASE FerOnlyWaiter(t)
    BY Zenon, <1>4, <2>4, OnlyWaiterWord
  <2>5. CASE FerSpin(t)
    BY Zenon, <1>4, <2>5, EnqueueStartWord
  <2>6. CASE FerEnqueue(t)
    BY Zenon, <1>4, <2>6, EnqueueEndWord
  <2>7. CASE Signal(t)
    BY Zenon, <1>4, <2>7, SignalWord
  <2> QED
    BY Zenon, <1>4, <2>1, <2>2, <2>3, <2>4, <2>5, <2>6, <2>7 DEF CvStep
<1> QED
  BY <1>1, <1>2, <1>3, <1>4, Zenon DEF CvNext, Next

\* The invariant holds of the Mutex together with the CondVar, for any number of threads.
LEMMA WordAlways == CvSpec => []WordInv
  BY WordInit, WordNext, PTL DEF CvSpec

\* The mutex excludes: at most one writer, or readers, whatever the number of threads, their
\* priorities and the calls they make, with the waiters a CondVar hands to it.
THEOREM MutexExcludes == CvSpec => []MutualExclusion
<1>1. WordInv => MutualExclusion
  <2> SUFFICES ASSUME WordInv PROVE MutualExclusion
    BY Zenon
  <2>1. Exclusive
    BY Zenon DEF WordInv
  <2>2. Cardinality(Writers) <= 1
    <3>1. CASE Writers = {}
      BY <3>1, FS_EmptySet
    <3>2. CASE Writers # {}
      <4>1. PICK t : t \in Writers
        BY Zenon, <3>2
      <4>2. Writers = {t}
        BY Zenon, <2>1, <4>1 DEF Exclusive
      <4> QED
        BY <4>2, FS_Singleton
    <3> QED
      BY Zenon, <3>1, <3>2
  <2> QED
    BY Zenon, <2>1, <2>2 DEF MutualExclusion, Exclusive
<1> QED
  BY <1>1, WordAlways, PTL

\* The word never lies about its holders: the writer and reader bits, the waiter bit, the spin
\* bit and the reader count, in the word or in the last waiter, agree with what the threads do.
THEOREM MutexCounts == CvSpec => []WordCountsHolders
<1>1. WordInv => WordCountsHolders
  <2> SUFFICES ASSUME WordInv PROVE WordCountsHolders
    BY Zenon
  <2>1. BitsInv /\ CountInv /\ SpinInv
    BY Zenon DEF WordInv
  <2> DEFINE owners == {t \in Threads : pc[t] \in {"increment", "enqueue", "removing", "nowaiters",
                                                   "waiters", "ferspin"}}
  <2>2. Cardinality(owners) = IF "kMuSpin" \in mu THEN 1 ELSE 0
    <3>1. CASE "kMuSpin" \notin mu
      <4>1. owners = {}
        BY Zenon, <2>1, <3>1 DEF SpinInv, Spinning
      <4> HIDE DEF owners
      <4> QED
        BY Zenon, <3>1, <4>1, FS_EmptySet
    <3>2. CASE "kMuSpin" \in mu
      <4>1. PICK t \in Threads : owners = {t}
        BY Zenon, <2>1, <3>2 DEF SpinInv, Spinning
      <4> HIDE DEF owners
      <4> QED
        BY Zenon, <3>2, <4>1, FS_Singleton
    <3> QED
      BY Zenon, <3>1, <3>2
  <2> QED
    BY <2>1, <2>2, Zenon DEF WordCountsHolders, BitsInv, CountInv, Counted
<1> QED
  BY <1>1, WordAlways, PTL

\* While an unlocker searches the queue without the spin bit, nobody removes what it remembers:
\* the waiters it has seen are still queued when it takes the spin bit again.
THEOREM MutexSearchUndisturbed == CvSpec => []SearchUndisturbed
<1>1. WordInv => SearchUndisturbed
  BY Zenon DEF WordInv, ThreadsInv, SearchAt, SearchUndisturbed
<1> QED
  BY <1>1, WordAlways, PTL
=============================================================================

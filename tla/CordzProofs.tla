---------------------------- MODULE CordzProofs -----------------------------
(***************************************************************************)
(* Sampled cords and the profilers that walk them without a lock, for any  *)
(* number of cords, infos, trees and snapshots: every CordzInfo that was   *)
(* made will be deleted, and a profiler meets neither a deleted info nor a *)
(* tree that is freed or being written.                                    *)
(***************************************************************************)
EXTENDS SharedProofs
-----------------------------------------------------------------------------
(* Cordz: what the infos know of the cords, and who deletes them. *)

\* Cord c gets the fresh info i.
NewInfo(c, i) ==
    /\ used' = used \cup {i} /\ info' = [info EXCEPT ![c] = i] /\ rep_' = [rep_ EXCEPT ![i] = root'[c]]
    /\ head' = i /\ ci_next' = [ci_next EXCEPT ![i] = head]
    /\ ci_prev' = [j \in Infos |-> IF j = head THEN i ELSE ci_prev[j]]

\* The three operations that may track a cord.
Tracks(c) ==
    \/ \E sampled \in BOOLEAN : Emplace(c, sampled)
    \/ \E d \in Cords : Copy(c, d)
    \/ Untracked(c)

\* What they have in common.
LEMMA Tracking ==
    ASSUME OwnInv, NEW c \in Cords, Tracks(c)
    PROVE  /\ UNCHANGED <<mutex_, dq, freed, prof>> /\ pc' = [pc EXCEPT ![c] = "idle"]
           /\ retrack' \in {retrack, retrack \ {c}} /\ pc[c] \in {"idle", "untracked"}
           /\ \A d \in Cords \ {c} : old'[d] = old[d] /\ root'[d] = root[d]
           /\ UNCHANGED <<info, rep_, used, list>> \/ \E i \in Infos \ used : NewInfo(c, i)
<1> USE DEF OwnInv, CordzTypes
<1>1. ASSUME NEW r, Track(c, r), r = root'[c], Room \/ c \in retrack
      PROVE  \E i \in Infos \ used : NewInfo(c, i)
  BY Zenon, <1>1, FreshInfo DEF Track, NewInfo
<1>2. CASE \E sampled \in BOOLEAN : Emplace(c, sampled)
  <2>1. PICK sampled \in BOOLEAN : Emplace(c, sampled)
    BY Zenon, <1>2
  <2>2. (Track(c, NewRoot) /\ Room) \/ UNCHANGED <<info, rep_, used, list>>
    BY Zenon, <2>1 DEF Emplace
  <2>3. root'[c] = NewRoot
    BY Zenon, <2>1 DEF Emplace
  <2> QED
    BY Zenon, <1>1, <2>1, <2>2, <2>3 DEF Emplace
<1>3. CASE \E d \in Cords : Copy(c, d)
  <2>1. PICK d \in Cords : Copy(c, d)
    BY Zenon, <1>3
  <2>2. (Track(c, root[d]) /\ Room) \/ UNCHANGED <<info, rep_, used, list>>
    BY Zenon, <2>1 DEF Copy
  <2>3. root'[c] = root[d]
    BY Zenon, <2>1 DEF Copy
  <2> QED
    BY Zenon, <1>1, <2>1, <2>2, <2>3 DEF Copy
<1>4. CASE Untracked(c)
  <2>1. (Track(c, root[c]) /\ c \in retrack) \/ UNCHANGED <<info, rep_, used, list>>
    BY Zenon, <1>4 DEF Untracked
  <2>2. root' = root
    BY Zenon, <1>4 DEF Untracked
  <2> QED
    BY Zenon, <1>1, <1>4, <2>1, <2>2 DEF Untracked, To
<1> QED
  BY Zenon, <1>2, <1>3, <1>4 DEF Tracks

\* The other steps of a cord.
Steps(c) ==
    \/ \E d \in Cords : Assign(c, d)
    \/ Clear(c) \/ Lock(c) \/ InPlace(c) \/ Replace(c) \/ \E r \in Roots \cup {Null} : SetTree(c, r)
    \/ Unlock(c) \/ Delist(c) \/ LookAtQueue(c) \/ ExtendLife(c)
    \/ DeleteUnseen(c) \/ Delete(c) \/ DeleteUnqueued(c)

\* A step is a step of a cord or of a profiler.
LEMMA ByWhom ==
    ASSUME Next
    PROVE  \/ \E c \in Cords : Tracks(c) \/ Steps(c)
           \/ \E s \in Snapshots : ProfilerStep(s)
<1>1. ASSUME NEW c \in Cords, CordStep(c) PROVE Tracks(c) \/ Steps(c)
  BY Zenon, <1>1 DEF CordStep, Tracks, Steps
<1>2. ASSUME NEW c \in Cords, NEW d \in Cords, Copy(c, d) \/ Assign(c, d) PROVE Tracks(c) \/ Steps(c)
  BY Zenon, <1>2 DEF Tracks, Steps
<1>3. ASSUME NEW c \in Cords, \E sampled \in BOOLEAN : Emplace(c, sampled) PROVE Tracks(c)
  BY Zenon, <1>3 DEF Tracks
<1> QED
  BY Zenon, <1>1, <1>2, <1>3 DEF Next

\* What a step of cord c leaves as it is.
OthersKept(c) ==
    \A d \in Cords \ {c} :
        /\ info'[d] = info[d] /\ pc'[d] = pc[d] /\ root'[d] = root[d] /\ old'[d] = old[d]
        /\ d \in retrack' <=> d \in retrack
        /\ info[d] # Null => rep_'[info[d]] = rep_[info[d]] /\ (info[d] \in mutex_' <=> info[d] \in mutex_)

\* A step of cord c concerns no other cord.
LEMMA Others ==
    ASSUME OwnInv, NEW c \in Cords, Tracks(c) \/ Steps(c)
    PROVE  OthersKept(c) /\ made' \in {made, made + 1}
<1> USE DEF OwnInv, CordzTypes
<1>1. CASE Tracks(c)
  <2>1. made' \in {made, made + 1}
    BY Zenon, <1>1 DEF Tracks, Emplace, Copy, Untracked, NewRoot
  <2>2. CASE UNCHANGED <<info, rep_, used, list>>
    BY <1>1, <2>1, <2>2, Tracking DEF OthersKept
  <2>3. ASSUME NEW i \in Infos \ used, NewInfo(c, i) PROVE OthersKept(c)
    <3>1. \A d \in Cords : info[d] # Null => info[d] # i
      BY Zenon DEF InfosOwned
    <3> QED
      BY <1>1, <2>3, <3>1, Tracking DEF OthersKept, NewInfo
  <2> QED
    BY Zenon, <1>1, <2>1, <2>2, <2>3, Tracking
<1>2. CASE \/ \E d \in Cords : Assign(c, d)
           \/ Clear(c) \/ InPlace(c) \/ Replace(c) \/ Delist(c) \/ LookAtQueue(c) \/ ExtendLife(c)
  BY Zenon, <1>2 DEF Assign, Clear, InPlace, Replace, Delist, LookAtQueue, ExtendLife, To, OthersKept
<1>3. CASE Lock(c) \/ Unlock(c) \/ \E r \in Roots \cup {Null} : SetTree(c, r)
  <2>1. \A d \in Cords \ {c} : info[d] # Null => info[d] # info[c] /\ info[d] \in Infos
    BY Zenon DEF InfosOwned
  <2>2. CASE Lock(c) \/ Unlock(c)
    BY Zenon, <2>1, <2>2 DEF Lock, Unlock, To, OthersKept
  <2>3. CASE \E r \in Roots \cup {Null} : SetTree(c, r)
    BY Zenon, <2>1, <2>3 DEF SetTree, To, OthersKept, NewRoot
  <2> QED
    BY Zenon, <1>3, <2>2, <2>3
<1>4. CASE DeleteUnseen(c) \/ Delete(c) \/ DeleteUnqueued(c)
  <2>1. \A d \in Cords \ {c} : info[d] # Null => info[d] # info[c] /\ info[d] \in Infos
    BY Zenon DEF InfosOwned
  <2>2. CASE DeleteUnseen(c) \/ DeleteUnqueued(c)
    BY Zenon, <2>1, <2>2 DEF DeleteUnseen, DeleteUnqueued, Free, To, OthersKept
  <2>3. CASE Delete(c)
    BY Zenon, <2>1, <2>3 DEF Delete, To, OthersKept
  <2> QED
    BY <1>4, <2>2, <2>3
<1> QED
  BY Zenon, <1>1, <1>2, <1>3, <1>4 DEF Steps

\* What cord c and its info agree on: an info knows the root of its cord except while the cord
\* replaces it under mutex_, and that of an info which leaves the list is still counted.
RootOf(c) ==
    /\ pc[c] \in {"idle", "scope", "write", "unlock"} /\ info[c] # Null => rep_[info[c]] = root[c]
    /\ pc[c] \in {"idle", "scope", "write"} /\ info[c] # Null => root[c] # Null
    /\ pc[c] \in Leaving => rep_[info[c]] \in {Null, old[c]}
    /\ c \in retrack => root[c] # Null /\ pc[c] \in Leaving \cup {"untracked"}
    /\ pc[c] \in Scope => info[c] \in mutex_

RootInv ==
    /\ made \in Nat /\ \A c \in Cords : RootOf(c)
    /\ \A i \in mutex_ : \E c \in Cords : info[c] = i /\ pc[c] \in Scope

\* A cord that is tracked has no info before.
LEMMA UntrackedBefore == ASSUME OwnInv, RootInv, NEW c \in Cords, Tracks(c) PROVE info[c] = Null
BY Zenon DEF Tracks, Emplace, Copy, Untracked, RootInv, RootOf, OwnInv, InHand

\* A step of a cord keeps the agreement of cords and infos on the roots.
LEMMA RootCord ==
    ASSUME OwnInv, RootInv, NEW c \in Cords, Tracks(c) \/ Steps(c)
    PROVE  RootInv'
<1> USE DEF CordzTypes
<1>1. OthersKept(c) /\ made' \in Nat /\ \A d \in Cords : RootOf(d)
  BY Others DEF RootInv
<1>2. \A d \in Cords \ {c} : RootOf(d)'
  BY <1>1 DEF OthersKept, RootOf, OwnInv, InHand, Scope, Leaving
<1>3. Null \notin Infos /\ Null \notin Roots
  BY Zenon, CordzAssumption DEF Roots
<1>4. CASE Tracks(c)
  <2>1. root'[c] # Null \/ UNCHANGED <<info, rep_, used, list>>
    <3>1. CASE \E sampled \in BOOLEAN : Emplace(c, sampled)
      BY <3>1, <1>3, CordzAssumption DEF Emplace, OwnInv, NewRoot, Roots, RootInv
    <3>2. CASE \E d \in Cords : Copy(c, d)
      BY Zenon, <3>2 DEF Copy, OwnInv
    <3>3. CASE Untracked(c)
      BY Zenon, <1>1, <3>3 DEF Untracked, RootOf
    <3> QED
      BY Zenon, <1>4, <3>1, <3>2, <3>3 DEF Tracks
  <2>2. UNCHANGED <<mutex_, dq, freed, prof>> /\ pc' = [pc EXCEPT ![c] = "idle"] /\ c \notin retrack'
    <3>1. c \notin retrack'
      BY Zenon, <1>1, <1>4 DEF Tracks, Emplace, Copy, Untracked, RootOf, Leaving
    <3> QED
      BY Zenon, <1>4, <3>1, Tracking
  <2>3. info[c] = Null
    BY Zenon, <1>4, UntrackedBefore
  <2>4. \A j \in mutex_' : \E d \in Cords : info'[d] = j /\ pc'[d] \in Scope
    <3>1. \A j \in mutex_' : \E d \in Cords \ {c} : info[d] = j /\ pc[d] \in Scope
      BY Zenon, <2>2, <2>3, <1>4, Tracking DEF RootInv, Scope
    <3> QED
      BY <1>1, <3>1 DEF OthersKept
  <2>5. CASE UNCHANGED <<info, rep_, used, list>>
    <3>1. RootOf(c)'
      BY Zenon, <2>2, <2>3, <2>5 DEF RootOf, OwnInv, Scope, Leaving
    <3> QED
      BY Zenon, <1>1, <1>2, <2>4, <3>1 DEF RootInv
  <2>6. ASSUME NEW i \in Infos \ used, NewInfo(c, i), root'[c] # Null PROVE RootInv'
    <3>1. RootOf(c)'
      BY Zenon, <1>3, <2>2, <2>6 DEF NewInfo, RootOf, OwnInv, Scope, Leaving
    <3> QED
      BY <1>1, <1>2, <2>4, <3>1 DEF RootInv
  <2> QED
    BY Zenon, <1>4, <2>1, <2>5, <2>6, Tracking
<1>5. ASSUME Steps(c) PROVE RootOf(c)'
  <2> USE <1>1 DEF RootOf, OwnInv, To, InHand, Scope, Leaving, InfosOwned
  <2>1. CASE \E d \in Cords : Assign(c, d)
    BY <2>1 DEF Assign
  <2>2. CASE Clear(c)
    BY Zenon, <2>2 DEF Clear
  <2>3. CASE Lock(c) \/ InPlace(c) \/ Replace(c)
    BY <2>3 DEF Lock, InPlace, Replace
  <2>4. CASE \E r \in Roots \cup {Null} : SetTree(c, r)
    BY <2>4 DEF SetTree
  <2>5. CASE Unlock(c)
    BY Zenon, <2>5 DEF Unlock
  <2>6. CASE Delist(c) \/ LookAtQueue(c) \/ ExtendLife(c)
    BY <2>6 DEF Delist, LookAtQueue, ExtendLife
  <2>7. CASE DeleteUnseen(c) \/ Delete(c) \/ DeleteUnqueued(c)
    BY <2>7 DEF DeleteUnseen, Delete, DeleteUnqueued
  <2> QED
    BY <1>5, <2>1, <2>2, <2>3, <2>4, <2>5, <2>6, <2>7, Zenon DEF Steps
<1>6. ASSUME Steps(c) PROVE \A j \in mutex_' : \E d \in Cords : info'[d] = j /\ pc'[d] \in Scope
  <2>1. \A j \in mutex_ : (\E d \in Cords \ {c} : info'[d] = j /\ pc'[d] \in Scope) \/ (info[c] = j /\ pc[c] \in Scope)
    BY <1>1 DEF OthersKept, RootInv
  <2>2. CASE Lock(c)
    BY Zenon, <2>1, <2>2 DEF Lock, Scope, To, OwnInv
  <2>3. CASE Unlock(c)
    BY Zenon, <2>1, <2>3 DEF Unlock
  <2>4. CASE ~(Lock(c) \/ Unlock(c))
    <3>1. mutex_' = mutex_ /\ (pc[c] \in Scope => pc'[c] \in Scope /\ info'[c] = info[c])
      BY Zenon, <1>6, <2>4 DEF Steps, Assign, Clear, InPlace, Replace, SetTree, Delist, LookAtQueue, ExtendLife,
         DeleteUnseen, Delete, DeleteUnqueued, Scope, To, OwnInv
    <3> QED
      BY Zenon, <2>1, <3>1
  <2> QED
    BY Zenon, <2>2, <2>3, <2>4
<1> QED
  BY Zenon, <1>1, <1>2, <1>4, <1>5, <1>6 DEF RootInv

\* A profiler does not touch what cords and infos agree on.
LEMMA RootProfiler ==
    ASSUME OwnInv, RootInv, NEW s \in Snapshots, ProfilerStep(s)
    PROVE  RootInv'
<1>1. UNCHANGED <<cord, mutex_, made>>
  BY Zenon DEF ProfilerStep, TakeSnapshot, Head_, Next_, RefCordRep, Unref, DestroySnapshot, DeleteHandle, cord
<1>2. \A c \in Cords : info[c] # Null => rep_'[info[c]] = rep_[info[c]]
  <2>1. CASE rep_' = rep_
    BY Zenon, <2>1
  <2>2. CASE rep_' # rep_
    <3>1. PICK i \in Infos : DeleteHandle(s, i)
      BY Zenon, <2>2 DEF ProfilerStep, TakeSnapshot, Head_, Next_, RefCordRep, Unref, DestroySnapshot
    <3>2. Garbage(i) /\ rep_' = [rep_ EXCEPT ![i] = Null]
      BY Zenon, <3>1 DEF DeleteHandle, Free, Garbage
    <3> QED
      BY Zenon, <3>2 DEF OwnInv, InfosOwned, CordzTypes
  <2> QED
    BY Zenon, <2>1, <2>2
<1> QED
  BY <1>1, <1>2 DEF RootInv, RootOf, cord, OwnInv, InHand, Scope, Leaving

\* Every step keeps the agreement of cords and infos on the roots.
LEMMA RootNext == ASSUME OwnInv, RootInv, [Next]_vars PROVE RootInv'
<1>1. CASE UNCHANGED vars
  BY Zenon, <1>1 DEF vars, cord, RootInv, RootOf
<1>2. CASE Next
  BY SMTT(30), <1>2, ByWhom, RootCord, RootProfiler
<1> QED
  BY Zenon, <1>1, <1>2

-----------------------------------------------------------------------------
(* Cordz: the delete queue. *)

Active == {"head", "walk", "analyze", "seen"}

\* A handle is queued once and no longer when it is about to be deleted, the snapshots in the
\* queue are those in use, and the oldest handle is one of them.
QueueInv ==
    /\ \A j, k \in DOMAIN dq : dq[j] = dq[k] => j = k
    /\ dq # <<>> => dq[1] \in Snapshots
    /\ \A s \in Snapshots : InList(s) <=> spc[s] \in Active
    /\ \A h : InList(h) => ~Garbage(h)
    /\ \A s \in Snapshots : to_delete[s] \subseteq Infos
    /\ \A s \in Snapshots : cur[s] # Null => spc[s] \in Active
    /\ DOMAIN cur = Snapshots

\* What remains of the queue when a snapshot leaves it.
LEMMA DestroyQueue ==
    ASSUME OwnInv, QueueInv, NEW s \in Snapshots, DestroySnapshot(s)
    PROVE  /\ \A j, k \in DOMAIN dq' : dq'[j] = dq'[k] => j = k
           /\ dq' # <<>> => dq'[1] \in Snapshots
           /\ \A h : InList(h)' <=> InList(h) /\ h # s /\ h \notin to_delete'[s]
           /\ to_delete' = [to_delete EXCEPT ![s] = to_delete'[s]] /\ to_delete'[s] \subseteq Infos
           /\ \A t \in Snapshots \ {s} : \A i \in Infos : Behind(t, i) => Behind(t, i)'
<1> USE DEF CordzTypes
<1>1. PICK n \in DOMAIN dq : \E m \in (n + 1)..(Len(dq) + 1) :
         /\ dq[n] = s /\ IF n = 1 THEN EndsRun(n, m) ELSE m = n + 1
         /\ to_delete' = [to_delete EXCEPT ![s] = {dq[k] : k \in (n + 1)..(m - 1)}]
         /\ dq' = Cut(dq, n, m)
  BY Zenon DEF DestroySnapshot, Cut
<1>2. PICK m \in (n + 1)..(Len(dq) + 1) :
         /\ dq[n] = s /\ IF n = 1 THEN EndsRun(n, m) ELSE m = n + 1
         /\ to_delete' = [to_delete EXCEPT ![s] = {dq[k] : k \in (n + 1)..(m - 1)}]
         /\ dq' = Cut(dq, n, m)
  BY Zenon, <1>1
<1>3. Len(dq) \in Nat /\ DOMAIN dq = 1..Len(dq) /\ n \in 1..Len(dq) /\ n \in Nat /\ m \in Nat /\ dq \in Seq(Infos \cup Snapshots)
  BY <1>2 DEF OwnInv
<1>4. /\ dq' \in Seq(Infos \cup Snapshots) /\ DOMAIN dq' = 1..(Len(dq) - m + n)
      /\ \A k \in 1..(n - 1) : dq'[k] = dq[k]
      /\ \A k \in n..(Len(dq) - m + n) : dq'[k] = dq[k - n + m]
  <2>1. IsCut(Infos \cup Snapshots, dq, n, m, Cut(dq, n, m))
    BY <1>3, CutAt, Zenon
  <2>2. IsCut(Infos \cup Snapshots, dq, n, m, dq')
    BY Zenon, <1>2, <2>1
  <2> QED
    BY Zenon, <2>2 DEF IsCut
<1>5. \A k \in (n + 1)..(m - 1) : k \in DOMAIN dq /\ dq[k] \in Infos
  BY <1>2, <1>3 DEF EndsRun
<1>6. Infos \cap Snapshots = {}
  BY Zenon, CordzAssumption DEF Snapshots
<1> DEFINE was(k) == IF k < n THEN k ELSE k - n + m
           is(k) == IF k < n THEN k ELSE k - m + n
<1>7. \A k \in DOMAIN dq' : was(k) \in DOMAIN dq /\ was(k) \notin n..(m - 1) /\ dq'[k] = dq[was(k)]
  <2> SUFFICES ASSUME NEW k \in DOMAIN dq'
               PROVE  was(k) \in DOMAIN dq /\ was(k) \notin n..(m - 1) /\ dq'[k] = dq[was(k)]
    BY Zenon
  <2>1. CASE k < n
    BY <1>3, <1>4, <2>1
  <2>2. CASE k >= n
    <3>1. k \in n..(Len(dq) - m + n) /\ was(k) = k - n + m
      BY <1>3, <1>4, <2>2
    <3>2. dq'[k] = dq[was(k)]
      BY Zenon, <1>4, <3>1
    <3> QED
      BY <1>3, <3>1, <3>2
  <2> QED
    BY <1>3, <1>4, <2>1, <2>2
<1>8. \A k \in DOMAIN dq : k \notin n..(m - 1) => is(k) \in DOMAIN dq' /\ dq'[is(k)] = dq[k]
  <2> SUFFICES ASSUME NEW k \in DOMAIN dq, k \notin n..(m - 1) PROVE is(k) \in DOMAIN dq' /\ dq'[is(k)] = dq[k]
    BY Zenon
  <2>1. CASE k < n
    BY <1>3, <1>4, <2>1
  <2>2. CASE k >= m
    <3>1. k - m + n \in n..(Len(dq) - m + n) /\ (k - m + n) - n + m = k /\ is(k) = k - m + n
      BY <1>3, <2>2
    <3>2. dq'[k - m + n] = dq[k]
      BY Zenon, <1>4, <3>1
    <3> QED
      BY SMTT(30), <1>3, <1>4, <3>1, <3>2
  <2> QED
    BY <1>3, <2>1, <2>2
<1>9. /\ \A j, k \in DOMAIN dq' : was(j) = was(k) => j = k
      /\ \A j, k \in DOMAIN dq : j \notin n..(m - 1) /\ k \notin n..(m - 1) /\ j < k => is(j) < is(k)
  <2>1. DOMAIN dq' \subseteq Nat /\ DOMAIN dq \subseteq Nat /\ n < m
    BY <1>3, <1>4
  <2>2. \A j, k \in DOMAIN dq' : was(j) = was(k) => j = k
    BY <1>3, <2>1
  <2>3. \A j, k \in DOMAIN dq : j \notin n..(m - 1) /\ k \notin n..(m - 1) /\ j < k => is(j) < is(k)
    BY <1>3, <2>1
  <2> QED
    BY Zenon, <2>2, <2>3
<1> HIDE DEF was, is
<1>10. \A j, k \in DOMAIN dq' : dq'[j] = dq'[k] => j = k
  BY Zenon, <1>7, <1>9 DEF QueueInv
<1>11. ASSUME dq' # <<>> PROVE dq'[1] \in Snapshots
  <2>1. 1 \in DOMAIN dq' /\ dq # <<>>
    BY <1>3, <1>4, <1>11
  <2>2. CASE n = 1
    <3>1. m <= Len(dq) /\ dq'[1] = dq[m]
      BY <1>3, <1>4, <2>1, <2>2
    <3> QED
      BY Zenon, <1>2, <2>2, <3>1 DEF EndsRun
  <2>3. CASE n # 1
    BY SMTT(30), <1>3, <1>4, <2>1, <2>3 DEF QueueInv
  <2> QED
    BY Zenon, <2>2, <2>3
<1>12. \A h : InList(h)' <=> InList(h) /\ h # s /\ h \notin to_delete'[s]
  <2>1. \A h : InList(h) <=> \E k \in DOMAIN dq : dq[k] = h
    BY Zenon DEF InList, Range
  <2>2. \A h : InList(h)' <=> \E k \in DOMAIN dq' : dq'[k] = h
    BY Zenon DEF InList, Range
  <2>3. \A h : h = s \/ h \in to_delete'[s] <=> \E k \in n..(m - 1) : dq[k] = h
    <3>1. to_delete'[s] = {dq[k] : k \in (n + 1)..(m - 1)}
      BY Zenon, <1>2 DEF OwnInv
    <3>2. \A k : k \in n..(m - 1) <=> k = n \/ k \in (n + 1)..(m - 1)
      BY <1>3
    <3> QED
      BY Zenon, <1>2, <3>1, <3>2
  <2>4. n..(m - 1) \subseteq DOMAIN dq
    BY <1>3
  <2> QED
    BY SMTT(30), <1>7, <1>8, <2>1, <2>2, <2>3, <2>4 DEF QueueInv
<1>13. to_delete' = [to_delete EXCEPT ![s] = to_delete'[s]] /\ to_delete'[s] \subseteq Infos
  BY Zenon, <1>2, <1>5 DEF OwnInv
<1>14. ASSUME NEW t \in Snapshots \ {s}, NEW i \in Infos, Behind(t, i) PROVE Behind(t, i)'
  <2>1. PICK j \in DOMAIN dq, k \in DOMAIN dq : j < k /\ dq[j] = t /\ dq[k] = i
    BY Zenon, <1>14 DEF Behind
  <2>2. j \notin n..(m - 1) /\ k # n
    BY SMTT(30), <1>2, <1>3, <1>5, <1>6, <2>1
  <2>3. k \notin n..(m - 1)
    BY <1>2, <1>3, <2>1, <2>2
  <2> QED
    BY SMTT(30), <1>8, <1>9, <2>1, <2>2, <2>3 DEF Behind
<1> QED
  BY <1>10, <1>11, <1>12, <1>13, <1>14

\* What becomes of the queue when a handle that is not in it is appended.
LEMMA AppendQueue ==
    ASSUME OwnInv, QueueInv, NEW e \in Infos \cup Snapshots, ~InList(e), dq' = Append(dq, e),
           e \in Snapshots \/ dq # <<>>
    PROVE  /\ \A j, k \in DOMAIN dq' : dq'[j] = dq'[k] => j = k
           /\ dq'[1] \in Snapshots
           /\ \A h : InList(h)' <=> InList(h) \/ h = e
           /\ \A g, h : Behind(g, h) => Behind(g, h)'
           /\ \A g : InList(g) => Behind(g, e)'
<1>1. /\ Len(dq) \in Nat /\ DOMAIN dq = 1..Len(dq) /\ DOMAIN dq' = 1..(Len(dq) + 1)
      /\ \A k \in 1..Len(dq) : dq'[k] = dq[k]
      /\ dq'[Len(dq) + 1] = e
  BY DEF OwnInv, CordzTypes
<1>2. (\A h : InList(h) <=> \E k \in DOMAIN dq : dq[k] = h) /\ (\A h : InList(h)' <=> \E k \in DOMAIN dq' : dq'[k] = h)
  BY Zenon DEF InList, Range
<1>3. \A k \in DOMAIN dq' : k \in DOMAIN dq \/ k = Len(dq) + 1
  BY <1>1
<1>4. \A j, k \in DOMAIN dq' : dq'[j] = dq'[k] => j = k
  BY <1>1, <1>2, <1>3 DEF QueueInv
<1>5. dq'[1] \in Snapshots
  <2>1. CASE dq = <<>>
    BY <1>1, <2>1
  <2>2. CASE dq # <<>>
    <3>1. Len(dq) # 0
      BY <2>2 DEF OwnInv, CordzTypes
    <3> QED
      BY <1>1, <2>2, <3>1 DEF QueueInv
  <2> QED
    BY Zenon, <2>1, <2>2
<1>6. \A h : InList(h)' <=> InList(h) \/ h = e
  BY <1>1, <1>2, <1>3
<1>7. \A g, h : Behind(g, h) => Behind(g, h)'
  BY <1>1 DEF Behind
<1>8. \A g : InList(g) => Behind(g, e)'
  BY <1>1, <1>2 DEF Behind
<1> QED
  BY Zenon, <1>4, <1>5, <1>6, <1>7, <1>8

\* A cord that queues its info, or does something else, keeps the delete queue in order.
LEMMA QueueCord ==
    ASSUME OwnInv, QueueInv, NEW c \in Cords, Tracks(c) \/ Steps(c)
    PROVE  QueueInv'
<1>1. UNCHANGED prof
  BY Zenon DEF Tracks, Steps, Emplace, Copy, Untracked, Assign, Clear, Lock, InPlace, Replace, SetTree, Unlock, Delist,
     LookAtQueue, ExtendLife, DeleteUnseen, Delete, DeleteUnqueued
<1>2. CASE dq' = dq
  BY Zenon, <1>1, <1>2 DEF QueueInv, InList, Garbage, prof
<1>3. CASE dq' # dq
  <2>1. Delete(c) /\ ~SafeToDelete
    BY Zenon, <1>3 DEF Tracks, Steps, Emplace, Copy, Untracked, Assign, Clear, Lock, InPlace, Replace, SetTree, Unlock, Delist,
       LookAtQueue, ExtendLife, DeleteUnseen, Delete, DeleteUnqueued
  <2>2. info[c] \in Infos /\ ~InList(info[c]) /\ ~Garbage(info[c])
    BY Zenon, <2>1 DEF Delete, OwnInv, InHand, InfosOwned, CordzTypes, Leaving
  <2>3. dq' = Append(dq, info[c]) /\ dq # <<>>
    BY Zenon, <2>1 DEF Delete, SafeToDelete
  <2>4. /\ \A j, k \in DOMAIN dq' : dq'[j] = dq'[k] => j = k
        /\ dq'[1] \in Snapshots
        /\ \A h : InList(h)' <=> InList(h) \/ h = info[c]
    BY Zenon, <2>2, <2>3, AppendQueue
  <2>5. Infos \cap Snapshots = {}
    BY Zenon, CordzAssumption DEF Snapshots
  <2> QED
    BY <1>1, <2>2, <2>4, <2>5 DEF QueueInv, Garbage, prof
<1> QED
  BY Zenon, <1>2, <1>3

\* A profiler that makes or destroys a snapshot, or walks, keeps the delete queue in order.
LEMMA QueueProfiler ==
    ASSUME OwnInv, QueueInv, NEW s \in Snapshots, ProfilerStep(s)
    PROVE  QueueInv'
<1> USE DEF Active
<1>1. spc \in [Snapshots -> {"none", "head", "walk", "analyze", "seen", "delete"}] /\ DOMAIN to_delete = Snapshots
  BY Zenon DEF OwnInv, CordzTypes
<1>2. CASE Head_(s) \/ Next_(s) \/ RefCordRep(s) \/ Unref(s)
  <2>1. UNCHANGED <<dq, to_delete>> /\ spc[s] \in Active /\ spc' = [spc EXCEPT ![s] = spc'[s]] /\ spc'[s] \in Active
        /\ DOMAIN cur' = Snapshots /\ \A t \in Snapshots \ {s} : cur'[t] = cur[t]
    <3>1. CASE Head_(s) \/ Next_(s)
      BY Zenon, <1>1, <3>1 DEF Head_, Next_, At, QueueInv
    <3>2. CASE RefCordRep(s) \/ Unref(s)
      BY Zenon, <1>1, <3>2 DEF RefCordRep, Unref, At, QueueInv
    <3> QED
      BY <1>2, <3>1, <3>2
  <2>2. (\A h : InList(h)' <=> InList(h)) /\ (\A h : Garbage(h)' <=> Garbage(h))
    BY Zenon, <2>1 DEF InList, Garbage
  <2> QED
    BY Zenon, <1>1, <2>1, <2>2 DEF QueueInv
<1>3. CASE TakeSnapshot(s)
  <2>1. dq' = Append(dq, s) /\ to_delete' = to_delete /\ spc[s] = "none" /\ spc' = [spc EXCEPT ![s] = "head"] /\ cur' = cur
    BY Zenon, <1>3 DEF TakeSnapshot, At
  <2>2. ~InList(s)
    BY Zenon, <2>1 DEF QueueInv
  <2>3. /\ \A j, k \in DOMAIN dq' : dq'[j] = dq'[k] => j = k
        /\ dq'[1] \in Snapshots
        /\ \A h : InList(h)' <=> InList(h) \/ h = s
    BY Zenon, <2>1, <2>2, AppendQueue
  <2>4. (\A h : Garbage(h)' <=> Garbage(h)) /\ ~Garbage(s)
    BY Zenon, <2>1, CordzAssumption DEF Garbage, QueueInv, Snapshots
  <2> QED
    BY <1>1, <2>1, <2>3, <2>4 DEF QueueInv
<1>4. CASE DestroySnapshot(s)
  <2>1. /\ \A j, k \in DOMAIN dq' : dq'[j] = dq'[k] => j = k
        /\ dq' # <<>> => dq'[1] \in Snapshots
        /\ \A h : InList(h)' <=> InList(h) /\ h # s /\ h \notin to_delete'[s]
        /\ to_delete' = [to_delete EXCEPT ![s] = to_delete'[s]] /\ to_delete'[s] \subseteq Infos
    BY Zenon, <1>4, DestroyQueue
  <2>2. spc' = [spc EXCEPT ![s] = "delete"] /\ cur' = [cur EXCEPT ![s] = Null]
    BY Zenon, <1>4 DEF DestroySnapshot, At
  <2>3. \A h : Garbage(h)' => Garbage(h) \/ h \in to_delete'[s]
    BY Zenon, <1>1, <2>1 DEF Garbage
  <2>4. \A t \in Snapshots : t \notin to_delete'[s]
    BY Zenon, <2>1, CordzAssumption DEF Snapshots
  <2> QED
    BY Zenon, <1>1, <2>1, <2>2, <2>3, <2>4 DEF QueueInv
<1>5. ASSUME NEW i \in Infos, DeleteHandle(s, i) PROVE QueueInv'
  <2>1. UNCHANGED <<dq, spc, cur>> /\ to_delete' = [to_delete EXCEPT ![s] = @ \ {i}]
    BY Zenon, <1>5 DEF DeleteHandle
  <2>2. (\A h : InList(h)' <=> InList(h)) /\ (\A h : Garbage(h)' => Garbage(h))
    BY Zenon, <1>1, <2>1 DEF InList, Garbage
  <2> QED
    BY Zenon, <1>1, <2>1, <2>2 DEF QueueInv
<1> QED
  BY Zenon, <1>2, <1>3, <1>4, <1>5 DEF ProfilerStep

\* Every step keeps the delete queue in order.
LEMMA QueueNext == ASSUME OwnInv, QueueInv, [Next]_vars PROVE QueueInv'
<1>1. CASE UNCHANGED vars
  BY <1>1 DEF vars, prof, QueueInv, InList, Garbage
<1>2. CASE Next
  BY Zenon, <1>2, ByWhom, QueueCord, QueueProfiler
<1> QED
  BY Zenon, <1>1, <1>2

\* An info that is used and not deleted has a cord, is queued or is about to be deleted.
FreedInv ==
    /\ freed \subseteq used
    /\ \A c \in Cords : info[c] # Null => info[c] \notin freed
    /\ \A i \in used \ freed : InList(i) \/ Garbage(i) \/ \E c \in Cords : info[c] = i

\* A cord loses no info.
LEMMA FreedCord ==
    ASSUME OwnInv, RootInv, FreedInv, NEW c \in Cords, Tracks(c) \/ Steps(c)
    PROVE  FreedInv'
<1> USE DEF CordzTypes
<1>1. CASE Tracks(c)
  <2>1. UNCHANGED <<dq, freed, to_delete>>
    BY Zenon, <1>1, Tracking DEF prof
  <2>2. (\A h : InList(h)' <=> InList(h)) /\ (\A h : Garbage(h)' <=> Garbage(h))
    BY Zenon, <2>1 DEF InList, Garbage
  <2>3. CASE UNCHANGED <<info, rep_, used, list>>
    BY Zenon, <2>1, <2>2, <2>3 DEF FreedInv
  <2>4. ASSUME NEW i \in Infos \ used, NewInfo(c, i) PROVE FreedInv'
    <3>1. info[c] = Null /\ Null \notin Infos
      BY Zenon, <1>1, UntrackedBefore, CordzAssumption
    <3> QED
      BY <2>1, <2>2, <2>4, <3>1 DEF FreedInv, NewInfo, OwnInv
  <2> QED
    BY <1>1, <2>3, <2>4, Tracking
<1>2. CASE Steps(c)
  <2>1. used' = used /\ to_delete' = to_delete
    BY Zenon, <1>2 DEF Steps, Assign, Clear, Lock, InPlace, Replace, SetTree, Unlock, Delist,
       LookAtQueue, ExtendLife, DeleteUnseen, Delete, DeleteUnqueued, prof
  <2>2. \A h : Garbage(h)' <=> Garbage(h)
    BY Zenon, <2>1 DEF Garbage
  <2>3. CASE DeleteUnseen(c) \/ DeleteUnqueued(c)
    <3>1. dq' = dq /\ freed' = freed \cup {info[c]} /\ info' = [info EXCEPT ![c] = Null]
      BY Zenon, <2>3 DEF DeleteUnseen, DeleteUnqueued, Free
    <3>2. \A h : InList(h)' <=> InList(h)
      BY Zenon, <3>1 DEF InList
    <3>3. info[c] \in used
      BY Zenon, <2>3 DEF DeleteUnseen, DeleteUnqueued, OwnInv, InHand, InfosOwned, Leaving
    <3> QED
      BY Zenon, <2>1, <2>2, <3>1, <3>2, <3>3 DEF FreedInv, OwnInv, InfosOwned
  <2>4. CASE Delete(c) /\ ~SafeToDelete
    <3>1. dq' = Append(dq, info[c]) /\ freed' = freed /\ info' = [info EXCEPT ![c] = Null] /\ info[c] \in Infos \cup Snapshots
      BY Zenon, <2>4 DEF Delete, OwnInv, InHand, InfosOwned, Leaving
    <3>2. \A h : InList(h)' <=> InList(h) \/ h = info[c]
      <4>1. Range(dq') = Range(dq) \cup {info[c]}
        <5>1. dq \in Seq(Infos \cup Snapshots)
          BY Zenon DEF OwnInv, CordzTypes
        <5> QED
          BY <3>1, <5>1, RangeAppend
      <4> QED
        BY Zenon, <4>1 DEF InList
    <3> QED
      BY <2>1, <2>2, <3>1, <3>2 DEF FreedInv, OwnInv
  <2>5. CASE ~(DeleteUnseen(c) \/ DeleteUnqueued(c) \/ (Delete(c) /\ ~SafeToDelete))
    <3>1. UNCHANGED <<dq, freed, info>>
      BY Zenon, <1>2, <2>5 DEF Steps, Assign, Clear, Lock, InPlace, Replace, SetTree, Unlock, Delist,
         LookAtQueue, ExtendLife, Delete
    <3>2. \A h : InList(h)' <=> InList(h)
      BY Zenon, <3>1 DEF InList
    <3> QED
      BY Zenon, <2>1, <2>2, <3>1, <3>2 DEF FreedInv
  <2> QED
    BY Zenon, <2>3, <2>4, <2>5
<1> QED
  BY Zenon, <1>1, <1>2

\* A profiler loses no info.
LEMMA FreedProfiler ==
    ASSUME OwnInv, FreedInv, NEW s \in Snapshots, ProfilerStep(s)
    PROVE  FreedInv'
<1>1. UNCHANGED <<used, info>>
  BY Zenon DEF ProfilerStep, TakeSnapshot, Head_, Next_, RefCordRep, Unref, DestroySnapshot, DeleteHandle, cord
<1>2. ASSUME freed' = freed, \A i \in Infos : InList(i) \/ Garbage(i) => InList(i)' \/ Garbage(i)' PROVE FreedInv'
  BY Zenon, <1>1, <1>2 DEF FreedInv, OwnInv, CordzTypes
<1>3. CASE Head_(s) \/ Next_(s) \/ RefCordRep(s) \/ Unref(s)
  <2>1. UNCHANGED <<dq, to_delete, freed>>
    BY Zenon, <1>3 DEF Head_, Next_, RefCordRep, Unref
  <2> QED
    BY Zenon, <1>2, <2>1 DEF InList, Garbage
<1>4. CASE TakeSnapshot(s)
  <2>1. dq' = Append(dq, s) /\ to_delete' = to_delete /\ freed' = freed /\ s \in Infos \cup Snapshots
        /\ dq \in Seq(Infos \cup Snapshots)
    BY Zenon, <1>4 DEF TakeSnapshot, OwnInv, CordzTypes
  <2>2. Range(dq') = Range(dq) \cup {s}
    BY <2>1, RangeAppend
  <2> QED
    BY Zenon, <1>2, <2>1, <2>2 DEF InList, Garbage
<1>5. CASE DestroySnapshot(s)
  <2>1. freed' = freed
    BY Zenon, <1>5 DEF DestroySnapshot
  <2> QED
    BY Zenon, <1>2, <1>5, <2>1, DestroyMoves
<1>6. ASSUME NEW i \in Infos, DeleteHandle(s, i) PROVE FreedInv'
  <2>1. dq' = dq /\ freed' = freed \cup {i} /\ to_delete' = [to_delete EXCEPT ![s] = @ \ {i}] /\ Garbage(i)
    BY Zenon, <1>6 DEF DeleteHandle, Free, Garbage
  <2>2. \A h : (InList(h)' <=> InList(h)) /\ (h # i => (Garbage(h)' <=> Garbage(h)))
    BY Zenon, <2>1 DEF InList, Garbage, OwnInv, CordzTypes
  <2> QED
    BY Zenon, <1>1, <2>1, <2>2 DEF FreedInv, OwnInv, InfosOwned
<1> QED
  BY Zenon, <1>3, <1>4, <1>5, <1>6 DEF ProfilerStep

\* No step loses an info.
LEMMA FreedNext == ASSUME OwnInv, RootInv, FreedInv, [Next]_vars PROVE FreedInv'
<1>1. CASE UNCHANGED vars
  BY Zenon, <1>1 DEF vars, cord, prof, FreedInv, InList, Garbage
<1>2. CASE Next
  BY <1>2, ByWhom, FreedCord, FreedProfiler
<1> QED
  BY Zenon, <1>1, <1>2

\* The invariant so far.
CordzInv == OwnInv /\ ReferencesCounted /\ RootInv /\ QueueInv /\ FreedInv

\* The invariant holds before the first cord is tracked.
LEMMA CordzInit == Init => CordzInv
<1> SUFFICES ASSUME Init PROVE CordzInv
  BY Zenon
<1>1. (\A h : ~InList(h)) /\ (\A h : ~Garbage(h)) /\ DOMAIN dq = {}
  BY DEF Init, InList, Garbage, Range
<1>2. RootInv
  BY Zenon, CordzAssumption DEF Init, RootInv, RootOf, Scope, Leaving
<1>3. QueueInv
  BY Zenon, <1>1 DEF Init, QueueInv, Active
<1>4. FreedInv
  BY Zenon DEF Init, FreedInv
<1> QED
  BY <1>2, <1>3, <1>4, OwnInit, ReferencesInit DEF CordzInv

\* Every step keeps the invariant.
LEMMA CordzNext == ASSUME CordzInv, [Next]_vars PROVE CordzInv'
BY OwnNext, ReferencesNext, RootNext, QueueNext, FreedNext DEF CordzInv

\* NoInfoStranded: a snapshot is in front of every queued info, and every info that was made is
\* deleted, queued or has a cord.
THEOREM CordzNoInfoStranded == Spec => []NoInfoStranded
<1>1. CordzInv => NoInfoStranded
  BY Zenon DEF CordzInv, QueueInv, FreedInv, NoInfoStranded, Extended, InList, Garbage
<1> QED
  BY <1>1, CordzInit, CordzNext, PTL DEF Spec

-----------------------------------------------------------------------------
(* Cordz: the list of tracked infos. *)

Linked == {"idle", "untrack"} \cup Scope

OnList(i) == i # Null /\ \E c \in Cords : info[c] = i /\ pc[c] \in Linked

\* The pointers of the infos on the list agree, and lead to infos on the list.  An info that was
\* not used yet has none.
ListInv ==
    /\ DOMAIN ci_next = Infos /\ DOMAIN ci_prev = Infos
    /\ head # Null => OnList(head) /\ ci_prev[head] = Null
    /\ \A i : OnList(i) =>
          /\ ci_next[i] # Null => OnList(ci_next[i]) /\ ci_prev[ci_next[i]] = i
          /\ ci_prev[i] # Null => OnList(ci_prev[i]) /\ ci_next[ci_prev[i]] = i
          /\ ci_prev[i] = Null => head = i
    /\ \A i \in Infos \ used : ci_prev[i] = Null

\* A step that changes neither who is on the list nor the pointers there.
LEMMA ListKept ==
    ASSUME ListInv, \A i : OnList(i)' <=> OnList(i), head' = head, used' = used,
           DOMAIN ci_next' = Infos, DOMAIN ci_prev' = Infos,
           \A i : OnList(i) => ci_next'[i] = ci_next[i] /\ ci_prev'[i] = ci_prev[i],
           \A i \in Infos \ used : ci_prev'[i] = ci_prev[i]
    PROVE  ListInv'
BY DEF ListInv

\* The info a cord leaves the list with.
LEMMA OnListOwner ==
    ASSUME OwnInv, NEW c \in Cords, info[c] # Null
    PROVE  info[c] \in used /\ info[c] \in Infos /\ (OnList(info[c]) <=> pc[c] \in Linked)
BY Zenon DEF OwnInv, InfosOwned, CordzTypes, OnList

\* The steps of a cord that do not touch the list.
LEMMA ListOthers ==
    ASSUME OwnInv, ListInv, NEW c \in Cords, Steps(c), ~Delist(c)
    PROVE  ListInv' /\ \A i : OnList(i)' <=> OnList(i)
<1>1. OthersKept(c)
  BY Zenon, Others
<1>2. \/ pc[c] \in Linked /\ info'[c] = info[c] /\ (pc'[c] \in Linked \/ info[c] = Null)
      \/ pc[c] \notin Linked /\ (pc'[c] \notin Linked \/ info'[c] = Null)
  <2> USE DEF OwnInv, CordzTypes, Linked, Scope, To
  <2>1. CASE \E d \in Cords : Assign(c, d)
    BY Zenon, <2>1 DEF Assign
  <2>2. CASE Clear(c) \/ Lock(c) \/ InPlace(c) \/ Replace(c)
    BY Zenon, <2>2 DEF Clear, Lock, InPlace, Replace
  <2>3. CASE Unlock(c) \/ \E r \in Roots \cup {Null} : SetTree(c, r)
    BY Zenon, <2>3 DEF Unlock, SetTree
  <2>4. CASE LookAtQueue(c) \/ ExtendLife(c)
    BY Zenon, <2>4 DEF LookAtQueue, ExtendLife
  <2>5. CASE DeleteUnseen(c) \/ Delete(c) \/ DeleteUnqueued(c)
    BY Zenon, <2>5 DEF DeleteUnseen, Delete, DeleteUnqueued
  <2> QED
    BY Zenon, <2>1, <2>2, <2>3, <2>4, <2>5 DEF Steps
<1>3. \A i : OnList(i)' <=> OnList(i)
  BY <1>1, <1>2 DEF OnList, OthersKept
<1>4. used' = used /\ head' = head
  BY Zenon DEF Steps, Assign, Clear, Lock, InPlace, Replace, SetTree, Unlock, LookAtQueue, ExtendLife,
     DeleteUnseen, Delete, DeleteUnqueued, list, Free
<1>5. CASE UNCHANGED list
  BY Zenon, <1>3, <1>4, <1>5, ListKept DEF list, ListInv
<1>6. CASE ~UNCHANGED list
  <2>1. DeleteUnseen(c) \/ DeleteUnqueued(c)
    BY Zenon, <1>6 DEF Steps, Assign, Clear, Lock, InPlace, Replace, SetTree, Unlock, LookAtQueue, ExtendLife, Delete
  <2>2. /\ ci_next' = [ci_next EXCEPT ![info[c]] = Null] /\ ci_prev' = [ci_prev EXCEPT ![info[c]] = Null]
        /\ pc[c] \in {"unseen", "unqueued"}
    BY Zenon, <2>1 DEF DeleteUnseen, DeleteUnqueued, Free
  <2>3. info[c] # Null /\ pc[c] \notin Linked
    BY Zenon, <2>2 DEF OwnInv, InHand, Linked, Leaving, Scope
  <2>4. info[c] \in used /\ ~OnList(info[c])
    BY Zenon, <2>3, OnListOwner
  <2>5. \A i : OnList(i) => i \in Infos
    BY Zenon DEF OnList, OwnInv, InfosOwned, CordzTypes
  <2> QED
    BY Zenon, <1>3, <1>4, <2>2, <2>4, <2>5, ListKept DEF ListInv
<1> QED
  BY Zenon, <1>3, <1>5, <1>6

\* An info leaves the list.
LEMMA ListDelist ==
    ASSUME OwnInv, ListInv, NEW c \in Cords, Delist(c)
    PROVE  ListInv' /\ OnList(info[c]) /\ \A i : OnList(i)' <=> OnList(i) /\ i # info[c]
<1> DEFINE i == info[c]
           next == ci_next[i]
           prev == ci_prev[i]
<1>1. /\ head' = IF prev = Null THEN next ELSE head
      /\ ci_prev' = [j \in Infos |-> IF j = next THEN prev ELSE ci_prev[j]]
      /\ ci_next' = [j \in Infos |-> IF j = prev THEN next ELSE ci_next[j]]
      /\ info' = info /\ used' = used /\ pc[c] = "untrack" /\ pc' = [pc EXCEPT ![c] = "delisted"]
  BY Zenon DEF Delist, To
<1>2. i # Null
  BY Zenon, <1>1 DEF OwnInv, InHand, Leaving
<1>3. OnList(i) /\ \A j : OnList(j) => j \in Infos /\ j \in used
  BY Zenon, <1>1, <1>2, OnListOwner DEF Linked, OnList, OwnInv, InfosOwned, CordzTypes
<1>4. \A j : OnList(j)' <=> OnList(j) /\ j # i
  BY Zenon, <1>1, <1>2 DEF OnList, OwnInv, InfosOwned, CordzTypes, Linked, Scope
<1>5. /\ next # Null => OnList(next) /\ ci_prev[next] = i
      /\ prev # Null => OnList(prev) /\ ci_next[prev] = i
      /\ prev = Null => head = i
  BY Zenon, <1>3 DEF ListInv
<1> HIDE DEF i, next, prev
<1>6. ASSUME head' # Null PROVE OnList(head') /\ head' # i /\ ci_prev'[head'] = Null
  <2>1. CASE prev = Null
    BY Zenon, <1>1, <1>2, <1>3, <1>4, <1>5, <1>6, <2>1 DEF i, next, prev
  <2>2. CASE prev # Null
    BY Zenon, <1>1, <1>2, <1>3, <1>4, <1>5, <1>6, <2>2 DEF ListInv, i, prev
  <2> QED
    BY Zenon, <2>1, <2>2
<1>7. ASSUME NEW j, OnList(j), j # i
      PROVE  ci_next'[j] # Null => OnList(ci_next'[j]) /\ ci_next'[j] # i /\ ci_prev'[ci_next'[j]] = j
  <2>0. j \in Infos /\ (ci_next[j] # Null => OnList(ci_next[j]) /\ ci_prev[ci_next[j]] = j)
    BY Zenon, <1>3, <1>7 DEF ListInv
  <2>1. CASE j = prev
    BY Zenon, <1>1, <1>2, <1>3, <1>4, <1>5, <1>7, <2>0, <2>1 DEF i, next, prev
  <2>2. CASE j # prev
    <3>1. ci_next'[j] = ci_next[j]
      BY Zenon, <1>1, <2>0, <2>2
    <3>2. ci_next[j] # Null => ci_next[j] # i /\ ci_next[j] # next
      BY Zenon, <1>2, <1>5, <1>7, <2>0, <2>2 DEF prev
    <3> QED
      BY Zenon, <1>1, <1>3, <1>4, <2>0, <3>1, <3>2
  <2> QED
    BY Zenon, <2>1, <2>2
<1>8. ASSUME NEW j, OnList(j), j # i
      PROVE  /\ ci_prev'[j] # Null => OnList(ci_prev'[j]) /\ ci_prev'[j] # i /\ ci_next'[ci_prev'[j]] = j
             /\ ci_prev'[j] = Null => head' = j
  <2>0. /\ j \in Infos /\ (ci_prev[j] # Null => OnList(ci_prev[j]) /\ ci_next[ci_prev[j]] = j)
        /\ ci_prev[j] = Null => head = j
    BY Zenon, <1>3, <1>8 DEF ListInv
  <2>1. CASE j = next
    BY Zenon, <1>1, <1>2, <1>3, <1>4, <1>5, <1>8, <2>0, <2>1 DEF i, next, prev
  <2>2. CASE j # next
    <3>1. ci_prev'[j] = ci_prev[j]
      BY Zenon, <1>1, <2>0, <2>2
    <3>2. ci_prev[j] # Null => ci_prev[j] # i /\ ci_prev[j] # prev
      BY Zenon, <1>2, <1>5, <1>8, <2>0, <2>2 DEF next
    <3>3. ci_prev[j] = Null => head' = j
      BY Zenon, <1>1, <1>5, <1>8, <2>0
    <3> QED
      BY Zenon, <1>1, <1>3, <1>4, <2>0, <3>1, <3>2, <3>3
  <2> QED
    BY Zenon, <2>1, <2>2
<1>9. \A j \in Infos \ used : ci_prev'[j] = Null
  <2>1. ASSUME NEW j \in Infos \ used PROVE j # next
    <3>1. next # Null => next \in used
      BY Zenon, <1>3, <1>5
    <3> QED
      BY Zenon, <3>1, CordzAssumption
  <2> QED
    BY Zenon, <1>1, <2>1 DEF ListInv
<1>10. ListInv'
  BY <1>1, <1>4, <1>6, <1>7, <1>8, <1>9 DEF ListInv
<1> QED
  BY Zenon, <1>3, <1>4, <1>10 DEF i

\* A new info joins the list at its head.
LEMMA ListNewInfo ==
    ASSUME OwnInv, RootInv, ListInv, NEW c \in Cords, Tracks(c), NEW i \in Infos \ used, NewInfo(c, i)
    PROVE  ListInv' /\ \A j : OnList(j)' <=> OnList(j) \/ j = i
<1>1. info[c] = Null /\ i # Null /\ Null \notin Infos
  BY Zenon, UntrackedBefore, CordzAssumption
<1>2. /\ used' = used \cup {i} /\ info' = [info EXCEPT ![c] = i] /\ pc' = [pc EXCEPT ![c] = "idle"]
      /\ head' = i /\ ci_next' = [ci_next EXCEPT ![i] = head]
      /\ ci_prev' = [j \in Infos |-> IF j = head THEN i ELSE ci_prev[j]]
  BY Zenon, Tracking DEF NewInfo
<1>3. \A j : OnList(j) => j \in Infos /\ j \in used /\ j # i
  BY Zenon DEF OnList, OwnInv, InfosOwned, CordzTypes
<1>4. \A j : OnList(j)' <=> OnList(j) \/ j = i
  BY Zenon, <1>1, <1>2 DEF OnList, OwnInv, CordzTypes, Linked
<1>5. i # head /\ ci_prev'[i] = Null /\ ci_next'[i] = head
  BY Zenon, <1>1, <1>2, <1>3 DEF ListInv
<1>6. ASSUME NEW j, OnList(j)
      PROVE  /\ ci_next'[j] = ci_next[j] /\ (ci_next[j] # Null => OnList(ci_next[j]) /\ ci_prev'[ci_next[j]] = j)
             /\ ci_prev'[j] # Null => (OnList(ci_prev'[j]) \/ ci_prev'[j] = i) /\ ci_next'[ci_prev'[j]] = j
             /\ ci_prev'[j] # Null
  <2>1. j \in Infos /\ j # i /\ ci_next'[j] = ci_next[j]
    BY Zenon, <1>2, <1>3, <1>6 DEF ListInv
  <2>2. ASSUME ci_next[j] # Null PROVE OnList(ci_next[j]) /\ ci_prev'[ci_next[j]] = j
    <3>1. OnList(ci_next[j]) /\ ci_prev[ci_next[j]] = j
      BY Zenon, <1>6, <2>2 DEF ListInv
    <3>2. ci_next[j] # head
      BY Zenon, <1>3, <1>6, <3>1, <2>1, <1>1 DEF ListInv
    <3> QED
      BY Zenon, <1>2, <1>3, <3>1, <3>2
  <2>3. CASE j = head
    BY Zenon, <1>1, <1>2, <1>5, <2>1, <2>2, <2>3
  <2>4. CASE j # head
    <3>1. ci_prev[j] # Null /\ OnList(ci_prev[j]) /\ ci_next[ci_prev[j]] = j
      BY Zenon, <1>6, <2>4 DEF ListInv
    <3>2. ci_prev'[j] = ci_prev[j] /\ ci_next'[ci_prev[j]] = ci_next[ci_prev[j]]
      BY Zenon, <1>2, <1>3, <2>1, <2>4, <3>1 DEF ListInv
    <3> QED
      BY Zenon, <2>1, <2>2, <3>1, <3>2
  <2> QED
    BY Zenon, <2>3, <2>4
<1>7. head # Null => OnList(head) /\ ci_prev'[head] = i
  BY Zenon, <1>2, <1>3 DEF ListInv
<1>8. \A j \in Infos \ used' : ci_prev'[j] = Null
  BY <1>2, <1>3, <1>7, <1>1 DEF ListInv
<1>9. DOMAIN ci_next' = Infos /\ DOMAIN ci_prev' = Infos
  BY Zenon, <1>2 DEF ListInv
<1>10. ASSUME NEW j, OnList(j)'
       PROVE  /\ ci_next'[j] # Null => (OnList(ci_next'[j]) \/ ci_next'[j] = i) /\ ci_prev'[ci_next'[j]] = j
              /\ ci_prev'[j] # Null => (OnList(ci_prev'[j]) \/ ci_prev'[j] = i) /\ ci_next'[ci_prev'[j]] = j
              /\ ci_prev'[j] = Null => head' = j
  <2>1. CASE j = i
    BY Zenon, <1>2, <1>4, <1>5, <1>7, <2>1
  <2>2. CASE OnList(j)
    BY Zenon, <1>4, <1>6, <2>2
  <2> QED
    BY Zenon, <1>4, <1>10, <2>1, <2>2
<1>11. OnList(i)' /\ i # Null
  BY Zenon, <1>1, <1>4
<1> QED
  BY Zenon, <1>2, <1>4, <1>5, <1>8, <1>9, <1>10, <1>11 DEF ListInv

\* A cord that puts its info on the list, takes it off, or does something else keeps the list.
LEMMA ListCord ==
    ASSUME OwnInv, RootInv, ListInv, NEW c \in Cords, Tracks(c) \/ Steps(c)
    PROVE  ListInv'
<1>1. CASE Steps(c)
  BY Zenon, <1>1, ListOthers, ListDelist
<1>2. CASE Tracks(c) /\ UNCHANGED <<info, rep_, used, list>>
  <2>1. UNCHANGED <<info, used, head, ci_next, ci_prev>> /\ pc' = [pc EXCEPT ![c] = "idle"] /\ info[c] = Null
    BY Zenon, <1>2, Tracking, UntrackedBefore DEF list
  <2>2. \A i : OnList(i)' <=> OnList(i)
    BY Zenon, <2>1 DEF OnList, OwnInv, CordzTypes
  <2> QED
    BY Zenon, <2>1, <2>2, ListKept DEF ListInv
<1>3. ASSUME Tracks(c), NEW i \in Infos \ used, NewInfo(c, i) PROVE ListInv'
  BY Zenon, <1>3, ListNewInfo
<1> QED
  BY Zenon, <1>1, <1>2, <1>3, Tracking

\* A profiler does not change the list.
LEMMA ListProfiler ==
    ASSUME OwnInv, ListInv, NEW s \in Snapshots, ProfilerStep(s)
    PROVE  ListInv'
<1>1. UNCHANGED <<used, info, pc, head>>
  BY Zenon DEF ProfilerStep, TakeSnapshot, Head_, Next_, RefCordRep, Unref, DestroySnapshot, DeleteHandle, cord, list, Free
<1>2. \A i : OnList(i)' <=> OnList(i)
  BY Zenon, <1>1 DEF OnList
<1>3. CASE UNCHANGED list
  BY Zenon, <1>1, <1>2, <1>3, ListKept DEF list, ListInv
<1>4. CASE ~UNCHANGED list
  <2>1. PICK i \in Infos : DeleteHandle(s, i)
    BY Zenon, <1>4 DEF ProfilerStep, TakeSnapshot, Head_, Next_, RefCordRep, Unref, DestroySnapshot
  <2>2. ci_next' = [ci_next EXCEPT ![i] = Null] /\ ci_prev' = [ci_prev EXCEPT ![i] = Null] /\ Garbage(i)
    BY Zenon, <2>1 DEF DeleteHandle, Free, Garbage
  <2>3. i \in used /\ ~OnList(i) /\ \A j : OnList(j) => j \in Infos
    BY ZenonT(30), <2>2 DEF OwnInv, InfosOwned, OnList, CordzTypes
  <2> QED
    BY Zenon, <1>1, <1>2, <2>2, <2>3, ListKept DEF ListInv
<1> QED
  BY Zenon, <1>3, <1>4

\* Every step keeps the list.
LEMMA ListNext == ASSUME OwnInv, RootInv, ListInv, [Next]_vars PROVE ListInv'
<1>1. CASE UNCHANGED vars
  BY <1>1 DEF vars, list, cord, ListInv, OnList
<1>2. CASE Next
  BY Zenon, <1>2, ByWhom, ListCord, ListProfiler
<1> QED
  BY Zenon, <1>1, <1>2

-----------------------------------------------------------------------------
(* Cordz: what a profiler can reach. *)

\* An info that has left the list and is not deleted as long as there is a snapshot.
Doomed == {"delisted", "extend", "delete"}

Owned(i) == \E c \in Cords : info[c] = i /\ pc[c] \in Linked \cup Doomed

\* Nothing that snapshot s can reach by following ci_next leads out of V, and the infos of V are
\* on the list, about to be queued, or behind s in the queue.
Sees(s, V) ==
    /\ \A i : OnList(i) => i \in V
    /\ \A i \in V : ci_next[i] \in V \cup {Null} /\ i \in used /\ i \notin freed
    /\ cur[s] \in V \cup {Null}
    /\ \A i \in V : Behind(s, i) \/ Owned(i)

SeenInv == \A s \in Snapshots : spc[s] \in Active => \E V \in SUBSET Infos : Sees(s, V)

\* An info that is queued behind something is in the queue.
LEMMA BehindInList == \A g, h : Behind(g, h) => InList(g) /\ InList(h)
BY Zenon DEF Behind, InList, Range

\* What has an owner in one of these places is neither queued nor in another's hands.
LEMMA NotSeen ==
    ASSUME CordzInv, NEW s \in Snapshots, NEW V, Sees(s, V), NEW i,
           Garbage(i) \/ \E c \in Cords : info[c] = i /\ i # Null /\ pc[c] \notin Linked \cup Doomed
    PROVE  i \notin V
<1>1. Behind(s, i) => InList(i)
  BY Zenon, BehindInList
<1> QED
  BY <1>1, CordzAssumption DEF CordzInv, OwnInv, InfosOwned, CordzTypes, QueueInv, Sees, Owned

\* What a snapshot can reach stays safe when a cord takes a step.
LEMMA SeenCord ==
    ASSUME CordzInv, ListInv, NEW c \in Cords, Tracks(c) \/ Steps(c),
           NEW s \in Snapshots, spc[s] \in Active, NEW V \in SUBSET Infos, Sees(s, V)
    PROVE  \E W \in SUBSET Infos : Sees(s, W)'
<1> USE DEF CordzInv
<1>1. cur' = cur /\ OthersKept(c) /\ InList(s)
  <2>1. cur' = cur
    BY Zenon DEF Tracks, Steps, Emplace, Copy, Untracked, Assign, Clear, Lock, InPlace, Replace, SetTree, Unlock, Delist,
       LookAtQueue, ExtendLife, DeleteUnseen, Delete, DeleteUnqueued, prof
  <2> QED
    BY Zenon, <2>1, Others DEF QueueInv
<1>2. \A i : Owned(i) /\ i # Null /\ i # info[c] => Owned(i)'
  BY Zenon, <1>1 DEF Owned, OthersKept
<1>3. Null \notin Infos /\ Null \notin V
  BY Zenon, CordzAssumption
<1>4. CASE Tracks(c) /\ UNCHANGED <<info, rep_, used, list>>
  <2>1. UNCHANGED <<dq, freed, used, ci_next, info>> /\ pc' = [pc EXCEPT ![c] = "idle"] /\ info[c] = Null
    BY Zenon, <1>4, Tracking, UntrackedBefore DEF list
  <2>2. \A i : OnList(i)' => OnList(i)
    BY Zenon, <2>1 DEF OnList, OwnInv, CordzTypes
  <2> QED
    BY Zenon, <1>1, <1>2, <1>3, <2>1, <2>2 DEF Sees, Behind
<1>5. ASSUME Tracks(c), NEW i \in Infos \ used, NewInfo(c, i) PROVE Sees(s, V \cup {i})'
  <2>1. UNCHANGED <<dq, freed>> /\ pc' = [pc EXCEPT ![c] = "idle"] /\ info[c] = Null
    BY Zenon, <1>5, Tracking, UntrackedBefore
  <2>2. used' = used \cup {i} /\ info' = [info EXCEPT ![c] = i] /\ ci_next' = [ci_next EXCEPT ![i] = head]
    BY Zenon, <1>5 DEF NewInfo
  <2>3. \A j : OnList(j)' <=> OnList(j) \/ j = i
    BY Zenon, <1>5, ListNewInfo
  <2>4. Owned(i)'
    BY Zenon, <2>1, <2>2 DEF Owned, OwnInv, CordzTypes, Linked
  <2>5. i \notin V /\ i \notin freed
    BY Zenon DEF Sees, FreedInv
  <2>6. \A j \in V \cup {i} : ci_next'[j] \in V \cup {i, Null} /\ j \in used' /\ j \notin freed'
    <3>1. ci_next'[i] = head /\ head \in V \cup {Null}
      BY Zenon, <2>2 DEF Sees, ListInv
    <3>2. \A j \in V : ci_next'[j] = ci_next[j]
      BY Zenon, <2>2, <2>5 DEF ListInv
    <3> QED
      BY Zenon, <2>1, <2>2, <2>5, <3>1, <3>2 DEF Sees
  <2>7. \A j \in V \cup {i} : Behind(s, j)' \/ Owned(j)'
    BY Zenon, <1>2, <1>3, <2>1, <2>4 DEF Sees, Behind
  <2> QED
    BY Zenon, <1>1, <2>3, <2>6, <2>7 DEF Sees
<1>6. CASE Delist(c)
  <2>1. UNCHANGED <<dq, freed, used, info>> /\ pc' = [pc EXCEPT ![c] = "delisted"]
        /\ \A j \in Infos : ci_next'[j] \in {ci_next[j], ci_next[info[c]]}
    BY Zenon, <1>6 DEF Delist, To
  <2>2. OnList(info[c]) /\ \A j : OnList(j)' <=> OnList(j) /\ j # info[c]
    BY Zenon, <1>6, ListDelist
  <2>3. info[c] \in V /\ ci_next[info[c]] \in V \cup {Null}
    BY Zenon, <2>2 DEF Sees
  <2>4. Owned(info[c])'
    BY Zenon, <2>1 DEF Owned, OwnInv, CordzTypes, Doomed
  <2>5. \A j \in V : Behind(s, j)' \/ Owned(j)'
    BY Zenon, <1>2, <1>3, <2>1, <2>4 DEF Sees, Behind
  <2> QED
    BY Zenon, <1>1, <2>1, <2>2, <2>3, <2>5 DEF Sees
<1>7. CASE Steps(c) /\ ~Delist(c)
  <2>1. \A j : OnList(j)' <=> OnList(j)
    BY Zenon, <1>7, ListOthers
  <2>2. CASE DeleteUnseen(c) \/ DeleteUnqueued(c)
    <3>1. /\ UNCHANGED <<dq, used>> /\ freed' = freed \cup {info[c]} /\ ci_next' = [ci_next EXCEPT ![info[c]] = Null]
          /\ info[c] # Null /\ pc[c] \notin Linked \cup Doomed
      BY Zenon, <2>2 DEF DeleteUnseen, DeleteUnqueued, Free, OwnInv, InHand, Leaving, Linked, Doomed, Scope
    <3>2. info[c] \notin V
      BY Zenon, <3>1, NotSeen
    <3>3. \A j \in V : ci_next'[j] = ci_next[j]
      BY Zenon, <3>1, <3>2 DEF ListInv
    <3>4. \A j \in V : Behind(s, j)' \/ Owned(j)'
      BY Zenon, <1>2, <1>3, <3>1, <3>2 DEF Sees, Behind
    <3> QED
      BY SMTT(30), <1>1, <2>1, <3>1, <3>2, <3>3, <3>4 DEF Sees
  <2>3. CASE Delete(c) /\ ~SafeToDelete
    <3>1. /\ UNCHANGED <<used, freed, ci_next>> /\ dq' = Append(dq, info[c]) /\ dq # <<>>
          /\ info[c] \in Infos /\ ~InList(info[c])
      BY Zenon, <2>3 DEF Delete, SafeToDelete, list, OwnInv, InHand, InfosOwned, CordzTypes, Leaving
    <3>2. OwnInv /\ QueueInv
      BY Zenon
    <3>3. ASSUME NEW e, e = info[c]
          PROVE  (\A g, h : Behind(g, h) => Behind(g, h)') /\ (\A g : InList(g) => Behind(g, e)')
      <4>1. e \in Infos \cup Snapshots
        BY Zenon, <3>1, <3>3
      <4>2. ~InList(e)
        BY Zenon, <3>1, <3>3 DEF InList
      <4>3. dq' = Append(dq, e)
        BY Zenon, <3>1, <3>3
      <4>4. e \in Snapshots \/ dq # <<>>
        BY Zenon, <3>1
      <4> QED
        BY <3>2, <4>1, <4>2, <4>3, <4>4, AppendQueue, Zenon
    <3>4. \A h : Behind(s, h) => Behind(s, h)'
      BY Zenon, <3>3
    <3>5. \A j \in V : Behind(s, j)' \/ Owned(j)'
      <4> SUFFICES ASSUME NEW j \in V PROVE Behind(s, j)' \/ Owned(j)'
        BY Zenon
      <4>1. CASE j = info[c]
        BY Zenon, <1>1, <3>3, <4>1
      <4>2. CASE j # info[c]
        BY Zenon, <1>2, <1>3, <3>4, <4>2 DEF Sees
      <4> QED
        BY Zenon, <4>1, <4>2
    <3> QED
      BY <1>1, <2>1, <3>1, <3>5, Zenon DEF Sees
  <2>4. CASE ~(DeleteUnseen(c) \/ DeleteUnqueued(c) \/ (Delete(c) /\ ~SafeToDelete))
    <3>1. dq # <<>>
      BY <1>1 DEF InList, Range
    <3>2. UNCHANGED <<dq, used, freed, ci_next, info>>
      BY <1>7, <2>4, ZenonT(30) DEF Steps, Assign, Clear, Lock, InPlace, Replace, SetTree, Unlock,
         LookAtQueue, ExtendLife, Delete, list
    <3>3. pc[c] \in Linked \cup Doomed => pc'[c] \in Linked \cup Doomed \/ info[c] = Null
      <4> USE DEF OwnInv, CordzTypes, Linked, Doomed, Scope, To
      <4>1. CASE (\E d \in Cords : Assign(c, d)) \/ Clear(c) \/ Lock(c) \/ InPlace(c) \/ Replace(c)
        BY <4>1, Zenon DEF Assign, Clear, Lock, InPlace, Replace
      <4>2. CASE Unlock(c) \/ \E r \in Roots \cup {Null} : SetTree(c, r)
        BY <4>2, Zenon DEF Unlock, SetTree
      <4>3. CASE LookAtQueue(c) \/ ExtendLife(c)
        BY Zenon, <3>1, <4>3 DEF LookAtQueue, ExtendLife, SafeToDelete
      <4>4. CASE Delete(c)
        BY ZenonT(30), <2>4, <3>1, <4>4 DEF SafeToDelete
      <4> QED
        BY <1>7, <2>4, <4>1, <4>2, <4>3, <4>4, Zenon DEF Steps
    <3>4. \A i : Owned(i) /\ i # Null => Owned(i)'
      BY <1>2, <3>2, <3>3 DEF Owned, OwnInv, InfosOwned
    <3>5. \A j \in V : Behind(s, j)' \/ Owned(j)'
      BY Zenon, <1>3, <3>2, <3>4 DEF Sees, Behind
    <3> QED
      BY Zenon, <1>1, <2>1, <3>2, <3>5 DEF Sees
  <2> QED
    BY Zenon, <2>2, <2>3, <2>4
<1>8. CASE Tracks(c)
  <2>1. UNCHANGED <<info, rep_, used, list>> \/ \E i \in Infos \ used : NewInfo(c, i)
    BY Zenon, <1>8, Tracking
  <2>2. ASSUME NEW i \in Infos \ used, NewInfo(c, i) PROVE \E W \in SUBSET Infos : Sees(s, W)'
    <3>1. Sees(s, V \cup {i})' /\ V \cup {i} \in SUBSET Infos
      BY Zenon, <1>5, <1>8, <2>2
    <3> QED
      BY <3>1, Zenon
  <2> QED
    BY Zenon, <1>4, <1>8, <2>1, <2>2
<1> QED
  BY Zenon, <1>6, <1>7, <1>8 DEF Steps

\* A step of profiler r.  A snapshot sees the list as it is when it is taken, and grows the set
\* by what is tracked after that.
LEMMA SeenProfiler ==
    ASSUME CordzInv, ListInv, SeenInv, NEW r \in Snapshots, ProfilerStep(r)
    PROVE  SeenInv'
<1> USE DEF CordzInv
<1> SUFFICES ASSUME NEW s \in Snapshots, spc'[s] \in Active PROVE \E W \in SUBSET Infos : Sees(s, W)'
  BY Zenon DEF SeenInv
<1>2. UNCHANGED <<used, info, pc, head>> /\ (\A i : OnList(i)' <=> OnList(i)) /\ (\A i : Owned(i)' <=> Owned(i))
  <2>1. UNCHANGED <<used, info, pc, head>>
    BY Zenon DEF ProfilerStep, TakeSnapshot, Head_, Next_, RefCordRep, Unref, DestroySnapshot, DeleteHandle, Free, list, cord
  <2> QED
    BY Zenon, <2>1 DEF OnList, Owned
<1>3. CASE spc[s] \notin Active
  <2>1. TakeSnapshot(r) /\ r = s
    BY <1>3, Zenon DEF ProfilerStep, TakeSnapshot, Head_, Next_, RefCordRep, Unref, DestroySnapshot, DeleteHandle, At,
       OwnInv, CordzTypes, Active
  <2>2. UNCHANGED <<ci_next, freed, cur>> /\ cur[s] = Null
    BY Zenon, <1>3, <2>1 DEF TakeSnapshot, list, QueueInv
  <2> PICK V \in SUBSET Infos : V = {i \in Infos : OnList(i)}
    BY Zenon
  <2>3. \A i : OnList(i) => i \in V /\ i \in used /\ i \notin freed /\ Owned(i)
    BY DEF OnList, Owned, OwnInv, InfosOwned, CordzTypes, FreedInv
  <2>4. \A i \in V : ci_next[i] \in V \cup {Null}
    BY Zenon, <2>3 DEF ListInv
  <2>5. Sees(s, V)'
    <3>1. \A i : OnList(i)' => i \in V
      BY Zenon, <1>2, <2>3
    <3>2. \A i \in V : i \in used /\ i \notin freed /\ Owned(i)
      BY Zenon, <2>3
    <3> QED
      BY Zenon, <1>2, <2>2, <2>4, <3>1, <3>2 DEF Sees
  <2> QED
    BY Zenon, <2>5
<1>4. CASE spc[s] \in Active
  <2> PICK V \in SUBSET Infos : Sees(s, V)
    BY Zenon, <1>4 DEF SeenInv
  <2>1. InList(s)
    BY Zenon, <1>4 DEF QueueInv
  <2>2. CASE TakeSnapshot(r)
    <3>1. dq' = Append(dq, r) /\ UNCHANGED <<ci_next, freed, cur>> /\ ~InList(r)
      BY Zenon, <2>2 DEF TakeSnapshot, list, QueueInv, Active
    <3>2. r \in Infos \cup Snapshots /\ (r \in Snapshots \/ dq # <<>>)
      BY Zenon
    <3>3. \A g, h : Behind(g, h) => Behind(g, h)'
      BY Zenon, <3>1, <3>2, AppendQueue
    <3> QED
      BY <1>2, <3>1, <3>3, Zenon DEF Sees
  <2>3. CASE DestroySnapshot(r)
    <3>1. r # s /\ UNCHANGED <<ci_next, freed>> /\ cur' = [cur EXCEPT ![r] = Null]
      BY Zenon, <2>3 DEF DestroySnapshot, list, At, OwnInv, CordzTypes, Active
    <3>2. \A i \in Infos : Behind(s, i) => Behind(s, i)'
      BY Zenon, <2>3, <3>1, DestroyQueue
    <3> QED
      BY <1>2, <3>1, <3>2, Zenon DEF Sees, QueueInv
  <2>4. CASE \E i \in Infos : DeleteHandle(r, i)
    <3> PICK i \in Infos : DeleteHandle(r, i)
      BY Zenon, <2>4
    <3>1. Garbage(i) /\ UNCHANGED <<dq, cur>> /\ freed' = freed \cup {i} /\ ci_next' = [ci_next EXCEPT ![i] = Null]
      BY Zenon DEF DeleteHandle, Free, Garbage
    <3>2. i \notin V
      BY Zenon, <3>1, NotSeen
    <3>3. \A j \in V : ci_next'[j] = ci_next[j]
      BY Zenon, <3>1, <3>2 DEF ListInv
    <3> QED
      BY <1>2, <3>1, <3>2, <3>3, ZenonT(30) DEF Sees, Behind
  <2>5. CASE Head_(r) \/ Next_(r)
    <3>1. UNCHANGED <<dq, freed, ci_next>>
      BY Zenon, <2>5 DEF Head_, Next_, list
    <3>2. cur'[s] \in V \cup {Null}
      <4>1. CASE Head_(r)
        BY Zenon, <4>1 DEF Head_, Sees, ListInv, QueueInv
      <4>2. CASE Next_(r)
        BY Zenon, <4>2 DEF Next_, Sees, QueueInv
      <4> QED
        BY Zenon, <2>5, <4>1, <4>2
    <3> QED
      BY Zenon, <1>2, <3>1, <3>2 DEF Sees, Behind
  <2>6. CASE RefCordRep(r) \/ Unref(r)
    <3>1. UNCHANGED <<dq, freed, ci_next, cur>>
      BY Zenon, <2>6 DEF RefCordRep, Unref, list
    <3> QED
      BY Zenon, <1>2, <3>1 DEF Sees, Behind
  <2> QED
    BY Zenon, <2>2, <2>3, <2>4, <2>5, <2>6 DEF ProfilerStep
<1> QED
  BY Zenon, <1>3, <1>4

\* Every step keeps what the snapshots can reach.
LEMMA SeenNext ==
    ASSUME CordzInv, ListInv, SeenInv, [Next]_vars
    PROVE  SeenInv'
<1>1. CASE UNCHANGED vars
  <2>1. UNCHANGED <<ci_next, dq, used, freed, info, pc, spc, cur>>
    BY Zenon, <1>1 DEF vars, list, cord, prof
  <2>2. \A t \in Snapshots : \A V \in SUBSET Infos : Sees(t, V) => Sees(t, V)'
    BY Zenon, <2>1 DEF Sees, OnList, Owned, Behind
  <2> QED
    BY Zenon, <2>1, <2>2 DEF SeenInv
<1>2. ASSUME NEW c \in Cords, Tracks(c) \/ Steps(c) PROVE SeenInv'
  <2>1. spc' = spc
    BY <1>2, Zenon DEF Tracks, Steps, Emplace, Copy, Untracked, Assign, Clear, Lock, InPlace, Replace, SetTree, Unlock, Delist,
       LookAtQueue, ExtendLife, DeleteUnseen, Delete, DeleteUnqueued, prof
  <2> QED
    BY Zenon, <1>2, <2>1, SeenCord DEF SeenInv
<1>3. ASSUME NEW s \in Snapshots, ProfilerStep(s) PROVE SeenInv'
  BY Zenon, <1>3, SeenProfiler
<1> QED
  BY ZenonT(30), <1>1, <1>2, <1>3, ByWhom

-----------------------------------------------------------------------------
(* Cordz: a tree that is written in place has one owner. *)

\* The trees that exist.
Made == (1..made) \cup {Null}

RootTypes ==
    /\ made \in Nat /\ made <= MaxRoots
    /\ \A c \in Cords : root[c] \in Made /\ old[c] \in Made
    /\ \A i \in Infos : rep_[i] \in Made
    /\ \A s \in Snapshots : hold[s] \in Made

\* Every step of a cord keeps the roots among those that were made.
LEMMA TypesCord ==
    ASSUME CordzInv, RootTypes, NEW c \in Cords, Tracks(c) \/ Steps(c)
    PROVE  RootTypes'
<1>1. OthersKept(c) /\ hold' = hold
  <2>1. hold' = hold
    BY Zenon DEF Tracks, Steps, Emplace, Copy, Untracked, Assign, Clear, Lock, InPlace, Replace, SetTree, Unlock,
       Delist, LookAtQueue, ExtendLife, DeleteUnseen, Delete, DeleteUnqueued, prof
  <2> QED
    BY Zenon, <2>1, Others DEF CordzInv
<1>2. made' = made \/ (made' = NewRoot /\ made < MaxRoots)
  BY Zenon DEF Tracks, Steps, Emplace, Copy, Untracked, Assign, Clear, Lock, InPlace, Replace, SetTree, Unlock,
     Delist, LookAtQueue, ExtendLife, DeleteUnseen, Delete, DeleteUnqueued
<1>3. /\ made' \in Nat /\ made' <= MaxRoots /\ Made \subseteq Made' /\ Null \in Made'
      /\ made' = NewRoot => NewRoot \in Made'
  <2>1. made \in Nat /\ made <= MaxRoots /\ MaxRoots \in Nat
    BY Zenon, CordzAssumption DEF RootTypes
  <2>2. made' \in Nat /\ made' <= MaxRoots /\ 1..made \subseteq 1..made' /\ (made' = NewRoot => NewRoot \in 1..made')
    BY <1>2, <2>1 DEF NewRoot
  <2> QED
    BY Zenon, <2>2 DEF Made
<1>4. root'[c] \in Made' /\ old'[c] \in Made' /\ \A i \in Infos : rep_'[i] \in Made'
  <2>1. /\ DOMAIN root = Cords /\ DOMAIN old = Cords /\ DOMAIN rep_ = Infos /\ (\A i \in Infos : rep_[i] \in Made')
        /\ \A d \in Cords : root[d] \in Made' /\ old[d] \in Made'
    BY Zenon, <1>3 DEF CordzInv, OwnInv, CordzTypes, RootTypes
  <2>2. CASE Tracks(c)
    <3>1. root'[c] \in Made' /\ old'[c] \in Made'
      <4>1. CASE \E sampled \in BOOLEAN : Emplace(c, sampled)
        BY Zenon, <1>3, <2>1, <4>1 DEF Emplace
      <4>2. CASE \E d \in Cords : Copy(c, d)
        BY Zenon, <2>1, <4>2 DEF Copy
      <4>3. CASE Untracked(c)
        BY Zenon, <1>3, <2>1, <4>3 DEF Untracked
      <4> QED
        BY Zenon, <2>2, <4>1, <4>2, <4>3 DEF Tracks
    <3>2. CASE UNCHANGED <<info, rep_, used, list>>
      BY Zenon, <2>1, <3>1, <3>2
    <3>3. ASSUME NEW i \in Infos \ used, NewInfo(c, i) PROVE \A j \in Infos : rep_'[j] \in Made'
      BY Zenon, <2>1, <3>1, <3>3 DEF NewInfo
    <3> QED
      BY Zenon, <2>2, <3>1, <3>2, <3>3, Tracking DEF CordzInv
  <2>3. CASE (\E d \in Cords : Assign(c, d)) \/ Clear(c) \/ Lock(c) \/ InPlace(c) \/ Replace(c)
    BY Zenon, <1>3, <2>1, <2>3 DEF Assign, Clear, Lock, InPlace, Replace
  <2>4. ASSUME NEW r, SetTree(c, r) PROVE root'[c] \in Made' /\ old'[c] \in Made' /\ \A i \in Infos : rep_'[i] \in Made'
    <3>1. r \in Made' /\ root' = [root EXCEPT ![c] = r] /\ rep_' = [rep_ EXCEPT ![info[c]] = r] /\ old' = old
      BY Zenon, <1>3, <2>4 DEF SetTree
    <3> QED
      BY Zenon, <2>1, <3>1
  <2>5. CASE Unlock(c) \/ Delist(c) \/ LookAtQueue(c) \/ ExtendLife(c) \/ Delete(c)
    BY Zenon, <2>1, <2>5 DEF Unlock, Delist, LookAtQueue, ExtendLife, Delete
  <2>6. CASE DeleteUnseen(c) \/ DeleteUnqueued(c)
    BY Zenon, <1>3, <2>1, <2>6 DEF DeleteUnseen, DeleteUnqueued, Free
  <2> QED
    BY Zenon, <2>2, <2>3, <2>4, <2>5, <2>6 DEF Steps
<1> QED
  BY Zenon, <1>1, <1>3, <1>4 DEF RootTypes, OthersKept

\* And so does every step of a profiler.
LEMMA TypesProfiler ==
    ASSUME CordzInv, RootTypes, SeenInv, NEW s \in Snapshots, ProfilerStep(s)
    PROVE  RootTypes'
<1> USE DEF CordzInv, OwnInv, CordzTypes
<1>1. made' = made /\ root' = root /\ old' = old /\ Made' = Made
  <2>1. made' = made /\ root' = root /\ old' = old
    BY Zenon DEF ProfilerStep, TakeSnapshot, Head_, Next_, RefCordRep, Unref, DestroySnapshot, DeleteHandle, cord
  <2> QED
    BY Zenon, <2>1 DEF Made
<1>2. Null \in Made
  BY Zenon DEF Made
<1>3. CASE RefCordRep(s)
  <2>1. cur[s] \in Infos
    <3>1. spc[s] \in Active
      BY Zenon, <1>3 DEF RefCordRep, Active
    <3> QED
      BY Zenon, <1>3, <3>1 DEF SeenInv, Sees, RefCordRep
  <2> QED
    BY Zenon, <1>1, <1>3, <2>1 DEF RefCordRep, RootTypes
<1>4. CASE Unref(s)
  BY Zenon, <1>1, <1>2, <1>4 DEF Unref, RootTypes
<1>5. CASE \E i \in Infos : DeleteHandle(s, i)
  BY Zenon, <1>1, <1>2, <1>5 DEF DeleteHandle, Free, RootTypes
<1>6. CASE TakeSnapshot(s) \/ Head_(s) \/ Next_(s) \/ DestroySnapshot(s)
  BY Zenon, <1>1, <1>6 DEF TakeSnapshot, Head_, Next_, DestroySnapshot, RootTypes
<1> QED
  BY Zenon, <1>3, <1>4, <1>5, <1>6 DEF ProfilerStep

\* Cord c is the only owner of its tree.
Sole(c) ==
    /\ root[c] # Null
    /\ \A d \in Cords \ {c} : root[d] # root[c]
    /\ \A d \in Cords : old[d] # root[c]
    /\ \A s \in Snapshots : hold[s] # root[c]
    /\ \A i \in Infos : Extended(i) => rep_[i] # root[c]

WriteInv == \A c \in Cords : pc[c] = "write" => Sole(c)

\* A tree with one reference, which is that of a cord, has no other owner.
LEMMA OneReference ==
    ASSUME CordzInv, NEW c \in Cords, root[c] \in Roots, refs[root[c]] = 1
    PROVE  Sole(c)
<1> PICK r \in Roots : r = root[c]
  BY Zenon
<1>1. IsFiniteSet(Snapshots) /\ IsFiniteSet(Cords) /\ IsFiniteSet(Infos)
  BY Zenon, OwnersAreFinite
<1> DEFINE A == Cardinality(Those(Cords, root, r))
           B == Cardinality(Those(Cords, old, r))
           C == Cardinality(Those(Snapshots, hold, r))
           D == Cardinality(Those(Infos, Keeps, r))
<1>2. A \in Nat /\ (A = 0 <=> \A x \in Cords : root[x] # r)
      /\ (A = 1 => \A x, y \in Cords : root[x] = r /\ root[y] = r => x = y)
  BY <1>1, CountPositive
<1>3. B \in Nat /\ (B = 0 <=> \A x \in Cords : old[x] # r)
  BY <1>1, CountPositive
<1>4. C \in Nat /\ (C = 0 <=> \A x \in Snapshots : hold[x] # r)
  BY <1>1, CountPositive
<1>5. D \in Nat /\ (D = 0 <=> \A x \in Infos : Keeps[x] # r)
  BY <1>1, CountPositive
<1>6. refs[r] = A + B + C + D
  BY CountedByThose, Zenon DEF CordzInv
<1> HIDE DEF A, B, C, D
<1>7. A = 1 /\ B = 0 /\ C = 0 /\ D = 0
  BY SMTT(30), <1>2, <1>3, <1>4, <1>5, <1>6
<1>8. \A i \in Infos : Extended(i) => rep_[i] # r
  BY Zenon, <1>5, <1>7 DEF Keeps
<1>9. r # Null
  BY Zenon, CordzAssumption DEF Roots
<1> QED
  BY Zenon, <1>2, <1>3, <1>4, <1>7, <1>8, <1>9 DEF Sole

\* What the infos keep after a step of cord c: what they kept, or the root that c gives up.
LEMMA CordKept ==
    ASSUME CordzInv, NEW c \in Cords, Tracks(c) \/ Steps(c), NEW i \in Infos, Extended(i)'
    PROVE  rep_'[i] \in {Null, old[c]} \/ (Extended(i) /\ rep_'[i] = rep_[i])
<1> USE DEF CordzInv, OwnInv, CordzTypes
<1>1. OthersKept(c) /\ to_delete' = to_delete
  <2>1. to_delete' = to_delete
    BY Zenon DEF Tracks, Steps, Emplace, Copy, Untracked, Assign, Clear, Lock, InPlace, Replace, SetTree, Unlock,
       Delist, LookAtQueue, ExtendLife, DeleteUnseen, Delete, DeleteUnqueued, prof
  <2> QED
    BY Zenon, <2>1, Others
<1>2. CASE Tracks(c)
  <2>1. UNCHANGED dq /\ pc' = [pc EXCEPT ![c] = "idle"] /\ info[c] = Null
    BY Zenon, <1>2, Tracking, UntrackedBefore
  <2>2. Extended(i)
    <3>1. \A d \in Cords : info'[d] = i /\ pc'[d] \in {"delete", "unqueued"} => info[d] = i /\ pc[d] \in {"delete", "unqueued"}
      BY Zenon, <1>1, <2>1 DEF OthersKept
    <3> QED
      BY Zenon, <1>1, <2>1, <3>1 DEF Extended
  <2>3. i \in used
    BY Zenon, <2>2, CordzAssumption DEF Extended, InfosOwned, InList, Garbage
  <2>4. rep_'[i] = rep_[i]
    <3>1. ASSUME NEW j \in Infos \ used, NewInfo(c, j) PROVE rep_'[i] = rep_[i]
      BY Zenon, <2>3, <3>1 DEF NewInfo
    <3> QED
      BY Zenon, <1>2, <3>1, Tracking
  <2> QED
    BY Zenon, <2>2, <2>4
<1>3. CASE Steps(c)
  <2>1. CASE i = info[c]
    <3>1. CASE pc[c] \in Leaving
      <4>1. rep_'[i] \in {Null, rep_[i]}
        BY <1>3, <2>1, <3>1, Zenon DEF Steps, Assign, Clear, Lock, InPlace, Replace, SetTree, Unlock, Delist, Leaving,
           LookAtQueue, ExtendLife, DeleteUnseen, Delete, DeleteUnqueued, Free
      <4> QED
        BY Zenon, <2>1, <3>1, <4>1 DEF RootInv, RootOf
    <3>2. CASE pc[c] \notin Leaving
      <4>1. dq' = dq /\ pc'[c] \notin {"delete", "unqueued"}
        BY <1>3, <3>2, Zenon DEF Steps, Assign, Clear, Lock, InPlace, Replace, SetTree, Unlock, Delist, Leaving,
           LookAtQueue, ExtendLife, DeleteUnseen, Delete, DeleteUnqueued, To
      <4>2. ~InList(i) /\ ~Garbage(i) /\ \A d \in Cords : info[d] = i => d = c
        BY Zenon, <2>1, CordzAssumption DEF InfosOwned
      <4>3. FALSE
        BY ZenonT(30), <1>1, <4>1, <4>2 DEF Extended, InList, Garbage, OthersKept
      <4> QED
        BY Zenon, <4>3
    <3> QED
      BY Zenon, <3>1, <3>2
  <2>2. CASE i # info[c]
    <3>1. rep_'[i] = rep_[i]
      BY <1>3, <2>2, Zenon DEF Steps, Assign, Clear, Lock, InPlace, Replace, SetTree, Unlock, Delist,
         LookAtQueue, ExtendLife, DeleteUnseen, Delete, DeleteUnqueued, Free
    <3>2. InList(i)' => InList(i)
      <4>1. dq' = dq \/ dq' = Append(dq, info[c])
        BY <1>3, Zenon DEF Steps, Assign, Clear, Lock, InPlace, Replace, SetTree, Unlock, Delist,
           LookAtQueue, ExtendLife, DeleteUnseen, Delete, DeleteUnqueued
      <4>2. dq' # dq => pc[c] \in Leaving
        BY <1>3, Zenon DEF Steps, Assign, Clear, Lock, InPlace, Replace, SetTree, Unlock, Delist, Leaving,
           LookAtQueue, ExtendLife, DeleteUnseen, Delete, DeleteUnqueued
      <4>3. dq' # dq => info[c] \in Infos
        BY ZenonT(30), <4>2 DEF InHand, InfosOwned
      <4>4. dq' # dq => Range(Append(dq, info[c])) = Range(dq) \cup {info[c]}
        BY <4>3, RangeAppend
      <4> QED
        BY <2>2, <4>1, <4>4, Zenon DEF InList
    <3>3. info'[c] \in {Null, info[c]}
      BY <1>3, Zenon DEF Steps, Assign, Clear, Lock, InPlace, Replace, SetTree, Unlock, Delist,
         LookAtQueue, ExtendLife, DeleteUnseen, Delete, DeleteUnqueued
    <3> QED
      BY <1>1, <2>2, <3>1, <3>2, <3>3, CordzAssumption, SMTT(30) DEF Extended, InList, OthersKept
  <2> QED
    BY Zenon, <2>1, <2>2
<1> QED
  BY Zenon, <1>2, <1>3

\* A step of a cord: whoever writes stays the only owner, and a cord begins to write to a tree
\* that has one reference.
LEMMA WriteCord ==
    ASSUME CordzInv, RootTypes, WriteInv, NEW c \in Cords, Tracks(c) \/ Steps(c)
    PROVE  WriteInv'
<1> USE DEF CordzInv, OwnInv, CordzTypes
<1>1. OthersKept(c) /\ hold' = hold
  <2>1. hold' = hold
    BY Zenon DEF Tracks, Steps, Emplace, Copy, Untracked, Assign, Clear, Lock, InPlace, Replace, SetTree, Unlock,
       Delist, LookAtQueue, ExtendLife, DeleteUnseen, Delete, DeleteUnqueued, prof
  <2> QED
    BY Zenon, <2>1, Others
<1>2. ASSUME NEW w \in Cords \ {c}, Sole(w), root[w] \in 1..made, pc[w] = "write" PROVE Sole(w)'
  <2>1. root'[w] = root[w] /\ root[w] # made + 1
    BY <1>1, <1>2 DEF OthersKept, RootTypes
  <2>2. /\ root'[c] = Null \/ root'[c] = made + 1 \/ \E d \in Cords \ {w} : root'[c] = root[d]
        /\ old'[c] \in {Null, old[c], root[c]}
    <3>1. CASE \E sampled \in BOOLEAN : Emplace(c, sampled)
      BY Zenon, <3>1 DEF Emplace, NewRoot
    <3>2. CASE (\E d \in Cords : Copy(c, d)) \/ Untracked(c)
      BY <1>2, <3>2, Zenon DEF Copy, Untracked
    <3>3. CASE \E d \in Cords : Assign(c, d)
      BY Zenon, <1>2, <3>3 DEF Assign
    <3>4. CASE Clear(c) \/ Lock(c) \/ InPlace(c) \/ Replace(c) \/ \E r \in Roots \cup {Null} : SetTree(c, r)
      BY <3>4, Zenon DEF Clear, Lock, InPlace, Replace, SetTree, NewRoot
    <3>5. CASE Unlock(c) \/ Delist(c) \/ LookAtQueue(c) \/ ExtendLife(c) \/ DeleteUnseen(c) \/ Delete(c) \/ DeleteUnqueued(c)
      BY Zenon, <3>5 DEF Unlock, Delist, LookAtQueue, ExtendLife, DeleteUnseen, Delete, DeleteUnqueued
    <3> QED
      BY Zenon, <3>1, <3>2, <3>3, <3>4, <3>5 DEF Tracks, Steps
  <2>3. \A i \in Infos : Extended(i)' => rep_'[i] # root[w]
    BY ZenonT(30), <1>2, CordKept DEF Sole
  <2>4. \A d \in Cords \ {w} : root'[d] # root[w]
    BY <1>1, <1>2, <2>1, <2>2, ZenonT(30) DEF Sole, OthersKept
  <2>5. \A d \in Cords : old'[d] # root[w]
    BY Zenon, <1>1, <1>2, <2>2 DEF Sole, OthersKept
  <2> QED
    BY Zenon, <1>1, <1>2, <2>1, <2>3, <2>4, <2>5 DEF Sole
<1>3. ASSUME InPlace(c) PROVE Sole(c)'
  <2>1. Sole(c)
    <3>1. pc[c] = "scope" /\ refs[root[c]] = 1
      BY Zenon, <1>3 DEF InPlace
    <3>2. root[c] # Null
      BY Zenon, <3>1 DEF RootInv, RootOf, OwnInv, InHand, Scope, CordzInv
    <3>3. root[c] \in 1..made /\ made \in Nat /\ made <= MaxRoots
      BY ZenonT(30), <3>2 DEF RootTypes, Made
    <3>4. root[c] \in Roots
      BY <3>3, CordzAssumption DEF Roots
    <3> QED
      BY Zenon, <3>1, <3>4, OneReference
  <2>2. UNCHANGED <<root, old, hold, rep_>>
    BY Zenon, <1>3 DEF InPlace, prof
  <2>3. \A i : Extended(i)' => Extended(i)
    BY Zenon, <1>3 DEF InPlace, Extended, To, prof
  <2> QED
    BY Zenon, <2>1, <2>2, <2>3 DEF Sole
<1>4. ASSUME NEW w \in Cords, pc'[w] = "write", w # c PROVE Sole(w)'
  <2>1. pc[w] = "write" /\ Sole(w)
    BY Zenon, <1>1, <1>4 DEF OthersKept, WriteInv
  <2>2. root[w] \in 1..made
    BY Zenon, <2>1 DEF Sole, RootTypes, Made
  <2> QED
    BY Zenon, <1>2, <1>4, <2>1, <2>2
<1>5. pc'[c] = "write" => InPlace(c)
  BY Zenon DEF Tracks, Steps, Emplace, Copy, Untracked, Assign, Clear, Lock, InPlace, Replace, SetTree, Unlock,
     Delist, LookAtQueue, ExtendLife, DeleteUnseen, Delete, DeleteUnqueued, To
<1>6. ASSUME NEW w \in Cords, pc'[w] = "write", w = c PROVE Sole(w)'
  BY Zenon, <1>3, <1>5, <1>6 DEF Sole
<1> QED
  BY Zenon, <1>4, <1>6 DEF WriteInv

\* A profiler takes a reference to the root of an info whose mutex_ is free: it is not the tree
\* of a cord that writes, because that cord holds the mutex_ of its info.
LEMMA HeldRoot ==
    ASSUME CordzInv, SeenInv, NEW s \in Snapshots, RefCordRep(s), NEW w \in Cords, pc[w] = "write", Sole(w)
    PROVE  rep_[cur[s]] # root[w]
<1> USE DEF CordzInv, OwnInv, CordzTypes
<1>1. cur[s] \in Infos /\ cur[s] \in used /\ cur[s] \notin freed /\ cur[s] \notin mutex_ /\ rep_[cur[s]] # Null
  <2>1. spc[s] \in Active /\ cur[s] # Null /\ cur[s] \notin mutex_ /\ rep_[cur[s]] # Null
    BY Zenon DEF RefCordRep, Active
  <2> QED
    BY Zenon, <2>1 DEF SeenInv, Sees
<1>2. CASE InList(cur[s]) \/ Garbage(cur[s])
  BY Zenon, <1>1, <1>2 DEF Sole, Extended, InList, Garbage
<1>3. ASSUME NEW d \in Cords, info[d] = cur[s] PROVE rep_[cur[s]] # root[w]
  <2>1. info[d] # Null /\ pc[d] \notin Scope
    BY Zenon, <1>1, <1>3, CordzAssumption DEF RootInv, RootOf
  <2>2. d # w
    BY Zenon, <2>1 DEF Scope
  <2>3. pc[d] = "idle" \/ pc[d] \in Leaving
    BY Zenon, <2>1 DEF InHand
  <2>4. rep_[cur[s]] \in {root[d], Null, old[d]}
    BY Zenon, <1>3, <2>1, <2>3 DEF RootInv, RootOf
  <2> QED
    BY Zenon, <1>1, <2>2, <2>4 DEF Sole
<1> QED
  BY Zenon, <1>1, <1>2, <1>3 DEF FreedInv

\* A step of a profiler.
LEMMA WriteProfiler ==
    ASSUME CordzInv, SeenInv, WriteInv, NEW s \in Snapshots, ProfilerStep(s)
    PROVE  WriteInv'
<1> USE DEF CordzInv, OwnInv, CordzTypes
<1>1. root' = root /\ old' = old /\ pc' = pc /\ info' = info
  BY Zenon DEF ProfilerStep, TakeSnapshot, Head_, Next_, RefCordRep, Unref, DestroySnapshot, DeleteHandle, cord
<1> SUFFICES ASSUME NEW w \in Cords, pc[w] = "write", Sole(w) PROVE Sole(w)'
  BY Zenon, <1>1 DEF WriteInv
<1>2. \A t \in Snapshots : hold'[t] # root[w]
  <2>1. CASE RefCordRep(s)
    BY <2>1, HeldRoot, Zenon DEF RefCordRep, Sole
  <2>2. CASE Unref(s)
    BY Zenon, <2>2 DEF Unref, Sole
  <2>3. CASE ~(RefCordRep(s) \/ Unref(s))
    <3>1. hold' = hold
      BY <2>3, Zenon DEF ProfilerStep, TakeSnapshot, Head_, Next_, DestroySnapshot, DeleteHandle
    <3> QED
      BY Zenon, <3>1 DEF Sole
  <2> QED
    BY Zenon, <2>1, <2>2, <2>3
<1>3. \A i \in Infos : Extended(i)' /\ rep_'[i] # Null => Extended(i) /\ rep_'[i] = rep_[i]
  <2> SUFFICES ASSUME NEW i \in Infos, Extended(i)', rep_'[i] # Null PROVE Extended(i) /\ rep_'[i] = rep_[i]
    BY Zenon
  <2>1. rep_'[i] = rep_[i]
    BY Zenon DEF ProfilerStep, TakeSnapshot, Head_, Next_, RefCordRep, Unref, DestroySnapshot, DeleteHandle, Free
  <2>2. CASE DestroySnapshot(s)
    <3>1. /\ InList(i)' <=> InList(i) /\ i # s /\ i \notin to_delete'[s]
          /\ to_delete' = [to_delete EXCEPT ![s] = to_delete'[s]]
      BY Zenon, <2>2, DestroyQueue
    <3>2. i \in to_delete'[s] => InList(i)
      <4>1. PICK n \in DOMAIN dq : \E next \in (n + 1)..(Len(dq) + 1) :
                to_delete' = [to_delete EXCEPT ![s] = {dq[k] : k \in (n + 1)..(next - 1)}]
        BY Zenon, <2>2 DEF DestroySnapshot
      <4>2. PICK next \in (n + 1)..(Len(dq) + 1) :
                to_delete' = [to_delete EXCEPT ![s] = {dq[k] : k \in (n + 1)..(next - 1)}]
        BY Zenon, <4>1
      <4>3. to_delete'[s] = {dq[k] : k \in (n + 1)..(next - 1)}
        BY Zenon, <4>2 DEF OwnInv, CordzTypes, CordzInv
      <4>4. DOMAIN dq = 1..Len(dq) /\ Len(dq) \in Nat
        BY DEF OwnInv, CordzTypes, CordzInv
      <4>5. \A k \in (n + 1)..(next - 1) : k \in DOMAIN dq
        BY <4>4
      <4> QED
        BY Zenon, <4>3, <4>5 DEF InList, Range
    <3> QED
      BY Zenon, <1>1, <2>1, <3>1, <3>2 DEF Extended, InList
  <2>3. CASE TakeSnapshot(s)
    <3>1. to_delete' = to_delete /\ dq' = Append(dq, s)
      BY Zenon, <2>3 DEF TakeSnapshot
    <3>2. Range(Append(dq, s)) = Range(dq) \cup {s}
      <4>1. dq \in Seq(Infos \cup Snapshots) /\ s \in Infos \cup Snapshots
        BY Zenon DEF OwnInv, CordzTypes, CordzInv
      <4> QED
        BY <4>1, RangeAppend
    <3>3. i # s
      BY Zenon, CordzAssumption DEF Snapshots
    <3> QED
      BY Zenon, <1>1, <2>1, <3>1, <3>2, <3>3 DEF Extended
  <2>4. CASE ~(DestroySnapshot(s) \/ TakeSnapshot(s))
    <3>1. dq' = dq /\ \A t \in Snapshots : to_delete'[t] \subseteq to_delete[t]
      BY <2>4, Zenon DEF ProfilerStep, Head_, Next_, RefCordRep, Unref, DeleteHandle
    <3> QED
      BY Zenon, <1>1, <2>1, <3>1 DEF Extended
  <2> QED
    BY Zenon, <2>2, <2>3, <2>4
<1> QED
  BY Zenon, <1>1, <1>2, <1>3 DEF Sole

ReadInv == CordzInv /\ ListInv /\ SeenInv /\ RootTypes /\ WriteInv

\* The first state: there are no infos, and no roots.
LEMMA ReadInit == ASSUME Init PROVE ReadInv
<1>1. CordzInv
  BY Zenon, CordzInit
<1>2. ListInv
  BY Zenon DEF Init, ListInv, OnList
<1>3. SeenInv
  BY Zenon DEF Init, SeenInv, Active
<1>4. RootTypes
  BY CordzAssumption DEF Init, RootTypes, Made
<1>5. WriteInv
  BY Zenon DEF Init, WriteInv
<1> QED
  BY Zenon, <1>1, <1>2, <1>3, <1>4, <1>5 DEF ReadInv

\* Every step.
LEMMA ReadNext == ASSUME ReadInv, [Next]_vars PROVE ReadInv'
<1> USE DEF ReadInv
<1>1. CordzInv'
  BY Zenon, CordzNext
<1>2. ListInv'
  BY Zenon, ListNext DEF CordzInv
<1>3. SeenInv'
  BY Zenon, SeenNext
<1>4. CASE UNCHANGED vars
  <2>1. RootTypes'
    BY Zenon, <1>4 DEF RootTypes, Made, vars, cord, prof
  <2>2. WriteInv'
    BY Zenon, <1>4 DEF WriteInv, Sole, Extended, vars, cord, prof
  <2> QED
    BY Zenon, <1>1, <1>2, <1>3, <2>1, <2>2
<1>5. ASSUME NEW c \in Cords, Tracks(c) \/ Steps(c) PROVE RootTypes' /\ WriteInv'
  BY Zenon, <1>5, TypesCord, WriteCord
<1>6. ASSUME NEW s \in Snapshots, ProfilerStep(s) PROVE RootTypes' /\ WriteInv'
  BY ZenonT(30), <1>6, TypesProfiler, WriteProfiler
<1> QED
  BY Zenon, <1>1, <1>2, <1>3, <1>4, <1>5, <1>6, ByWhom

\* A tree that a profiler holds, or that an info nobody has locked leads to, has an owner that
\* is counted.
LEMMA OwnedRoot ==
    ASSUME CordzInv, RootTypes, NEW r \in Roots,
           \/ \E c \in Cords : root[c] = r \/ old[c] = r
           \/ \E s \in Snapshots : hold[s] = r
           \/ \E i \in Infos : Extended(i) /\ rep_[i] = r
    PROVE  refs[r] > 0
<1>1. IsFiniteSet(Snapshots) /\ IsFiniteSet(Cords) /\ IsFiniteSet(Infos)
  BY Zenon, OwnersAreFinite
<1> DEFINE A == Cardinality(Those(Cords, root, r))
           B == Cardinality(Those(Cords, old, r))
           C == Cardinality(Those(Snapshots, hold, r))
           D == Cardinality(Those(Infos, Keeps, r))
<1>2. A \in Nat /\ (A = 0 <=> \A x \in Cords : root[x] # r)
  BY Zenon, <1>1, CountPositive
<1>3. B \in Nat /\ (B = 0 <=> \A x \in Cords : old[x] # r)
  BY Zenon, <1>1, CountPositive
<1>4. C \in Nat /\ (C = 0 <=> \A x \in Snapshots : hold[x] # r)
  BY Zenon, <1>1, CountPositive
<1>5. D \in Nat /\ (D = 0 <=> \A x \in Infos : Keeps[x] # r)
  BY Zenon, <1>1, CountPositive
<1>6. refs[r] = A + B + C + D
  BY CountedByThose, Zenon DEF CordzInv
<1> HIDE DEF A, B, C, D
<1>7. A # 0 \/ B # 0 \/ C # 0 \/ D # 0
  BY Zenon, <1>2, <1>3, <1>4, <1>5 DEF Keeps
<1> QED
  BY <1>2, <1>3, <1>4, <1>5, <1>6, <1>7, SMTT(30)

\* The invariant says that a profiler is safe.
LEMMA ReadersAreSafe == ASSUME ReadInv PROVE ProfilerSafe
<1> USE DEF ReadInv
<1> SUFFICES ASSUME NEW s \in Snapshots
    PROVE  /\ cur[s] # Null =>
              /\ cur[s] \notin freed
              /\ s \in Range(dq) /\ (cur[s] \in Range(dq) => Behind(s, cur[s]))
              /\ cur[s] \notin mutex_ /\ rep_[cur[s]] # Null => refs[rep_[cur[s]]] > 0
           /\ hold[s] # Null =>
              /\ refs[hold[s]] > 0
              /\ \A c \in Cords : pc[c] = "write" => root[c] # hold[s]
  BY Zenon DEF ProfilerSafe
<1>1. Made \subseteq Roots \cup {Null}
  BY CordzAssumption DEF RootTypes, Made, Roots
<1>2. ASSUME cur[s] # Null
      PROVE  /\ cur[s] \notin freed
             /\ s \in Range(dq) /\ (cur[s] \in Range(dq) => Behind(s, cur[s]))
             /\ cur[s] \notin mutex_ /\ rep_[cur[s]] # Null => refs[rep_[cur[s]]] > 0
  <2>1. spc[s] \in Active /\ InList(s)
    BY Zenon, <1>2 DEF CordzInv, QueueInv
  <2> PICK V \in SUBSET Infos : Sees(s, V)
    BY Zenon, <2>1 DEF SeenInv
  <2> PICK i \in Infos : i = cur[s] /\ i \in V
    BY Zenon, <1>2 DEF Sees
  <2>2. i \in used /\ i \notin freed /\ (Behind(s, i) \/ Owned(i))
    BY Zenon DEF Sees
  <2>3. InList(i) => Behind(s, i)
    BY Zenon, <2>2, CordzAssumption DEF Owned, CordzInv, OwnInv, InfosOwned
  <2>4. ASSUME i \notin mutex_, rep_[i] # Null PROVE refs[rep_[i]] > 0
    <3>1. rep_[i] \in Roots
      BY Zenon, <1>1, <2>4 DEF RootTypes
    <3>2. CASE InList(i) \/ Garbage(i)
      BY Zenon, <3>1, <3>2, OwnedRoot DEF Extended, InList, Garbage
    <3>3. ASSUME NEW d \in Cords, info[d] = i PROVE refs[rep_[i]] > 0
      <4>1. info[d] # Null /\ pc[d] \notin Scope
        BY Zenon, <2>4, <3>3, CordzAssumption DEF CordzInv, RootInv, RootOf
      <4>2. pc[d] = "idle" \/ pc[d] \in Leaving
        BY Zenon, <4>1 DEF CordzInv, OwnInv, CordzTypes, InHand
      <4>3. rep_[i] = root[d] \/ rep_[i] = old[d]
        BY Zenon, <2>4, <3>3, <4>1, <4>2 DEF CordzInv, RootInv, RootOf
      <4> QED
        BY Zenon, <3>1, <4>3, OwnedRoot
    <3> QED
      BY Zenon, <2>2, <3>2, <3>3 DEF CordzInv, FreedInv
  <2> QED
    BY Zenon, <2>1, <2>2, <2>3, <2>4 DEF InList
<1>3. ASSUME hold[s] # Null PROVE refs[hold[s]] > 0
  <2>1. hold[s] \in Roots
    BY Zenon, <1>1, <1>3 DEF RootTypes
  <2> QED
    BY Zenon, <2>1, OwnedRoot
<1>4. \A c \in Cords : pc[c] = "write" => root[c] # hold[s]
  BY Zenon DEF WriteInv, Sole
<1> QED
  BY Zenon, <1>2, <1>3, <1>4

\* The assertions of CordzInfo::Head and CordzInfo::Next, and what the snapshots are for: the
\* info that a profiler has reached without a lock is not deleted and, if it is queued for
\* deletion, is behind the snapshot; its tree is alive; and the tree that is analysed under
\* CordzStatistics has a reference and is not changed in place by any cord.
THEOREM CordzProfilerSafe == Spec => []ProfilerSafe
<1>1. ReadInv => ProfilerSafe
  BY Zenon, ReadersAreSafe
<1> QED
  BY <1>1, ReadInit, ReadNext, PTL DEF Spec
=============================================================================

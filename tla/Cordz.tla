-------------------------------- MODULE Cordz --------------------------------
(***************************************************************************)
(* Sampled cords and the profilers that walk them.  A sampled cord has a   *)
(* CordzInfo in a global list; a profiler takes a snapshot and follows the *)
(* list without a lock.  What a snapshot may have seen is kept alive by    *)
(* the global delete queue of CordzHandle.  The info is told of a new root *)
(* of its cord under its own mutex.                                        *)
(***************************************************************************)
EXTENDS Naturals, Sequences, FiniteSets, Functions

CONSTANTS
    Cords, Infos, Null,
    MaxRoots, MaxSnapshots    \* bounds on the trees and the snapshots that are made

ASSUME CordzAssumption ==
    /\ IsFiniteSet(Cords) /\ IsFiniteSet(Infos) /\ MaxRoots \in Nat /\ MaxSnapshots \in Nat
    /\ Infos \cap 1..MaxSnapshots = {}
    /\ Null \notin Infos \cup 1..MaxRoots \cup 1..MaxSnapshots

VARIABLES
    head, ci_next, ci_prev,   \* the list of tracked infos; a delisted one keeps its pointers
    rep_, mutex_,             \* per info, the root it knows; the infos whose mutex_ is held
    dq,                       \* the delete queue, oldest handle first
    used, freed,              \* infos that have been made, infos that have been deleted
    refs, made,               \* reference counts of roots, and how many have been made
    pc, root, info,           \* of a cord
    old, retrack,             \* the root to unreference and whether to track anew after Untrack
    spc, cur, hold, to_delete \* of a profiler: its place, its info, its root, its garbage

list == <<head, ci_next, ci_prev>>
cord == <<pc, root, info, old, retrack>>
prof == <<spc, cur, hold, to_delete>>
vars == <<list, rep_, mutex_, dq, used, freed, refs, made, cord, prof>>

Roots == 1..MaxRoots
Snapshots == 1..MaxSnapshots    \* named in the order in which they are taken

Init ==
    /\ head = Null /\ ci_next = [i \in Infos |-> Null] /\ ci_prev = [i \in Infos |-> Null]
    /\ rep_ = [i \in Infos |-> Null] /\ mutex_ = {}
    /\ dq = <<>> /\ used = {} /\ freed = {}
    /\ refs = [r \in Roots |-> 0] /\ made = 0
    /\ pc = [c \in Cords |-> "idle"] /\ root = [c \in Cords |-> Null]
    /\ info = [c \in Cords |-> Null] /\ old = [c \in Cords |-> Null] /\ retrack = {}
    /\ spc = [s \in Snapshots |-> "none"] /\ cur = [s \in Snapshots |-> Null]
    /\ hold = [s \in Snapshots |-> Null] /\ to_delete = [s \in Snapshots |-> {}]

To(c, l) == pc' = [pc EXCEPT ![c] = l]

\* The counts after the references in `plus` are taken and those in `minus` given up.
Counts(plus, minus) ==
    refs' = [r \in Roots |-> refs[r] + (IF r \in plus THEN 1 ELSE 0) - (IF r \in minus THEN 1 ELSE 0)]

NewRoot == made + 1

\* The memory of an info is given back.
Free(i) ==
    /\ freed' = freed \cup {i}
    /\ rep_' = [rep_ EXCEPT ![i] = Null]
    /\ ci_next' = [ci_next EXCEPT ![i] = Null] /\ ci_prev' = [ci_prev EXCEPT ![i] = Null]
    /\ UNCHANGED head
-----------------------------------------------------------------------------
\* There is an info to track one more cord with (the bound on infos; see Assign).
Room == Cardinality(retrack) < Cardinality(Infos \ used)

\* A new info for cord c with root r, put at the head of the list.  Any unused info will do.
Track(c, r) ==
    LET i == CHOOSE j \in Infos \ used : TRUE
    IN  /\ used' = used \cup {i}
        /\ info' = [info EXCEPT ![c] = i]
        /\ rep_' = [rep_ EXCEPT ![i] = r]
        /\ head' = i
        /\ ci_next' = [ci_next EXCEPT ![i] = head]
        /\ ci_prev' = [j \in Infos |-> IF j = head THEN i ELSE ci_prev[j]]

\* EmplaceTree of a new tree, which may be sampled.
Emplace(c, sampled) ==
    /\ pc[c] = "idle" /\ root[c] = Null /\ made < MaxRoots
    /\ made' = NewRoot /\ Counts({NewRoot}, {})
    /\ root' = [root EXCEPT ![c] = NewRoot]
    /\ sampled => Room
    /\ IF sampled THEN Track(c, NewRoot) ELSE UNCHANGED <<info, rep_, used, list>>
    /\ UNCHANGED <<mutex_, dq, freed, pc, old, retrack, prof>>

\* EmplaceTree of the tree of another cord: sampled if that one is.
Copy(c, d) ==
    /\ pc[c] = "idle" /\ root[c] = Null /\ pc[d] = "idle" /\ root[d] # Null
    /\ Counts({root[d]}, {})
    /\ root' = [root EXCEPT ![c] = root[d]]
    /\ info[d] # Null => Room
    /\ IF info[d] # Null THEN Track(c, root[d]) ELSE UNCHANGED <<info, rep_, used, list>>
    /\ UNCHANGED <<mutex_, dq, freed, made, pc, old, retrack, prof>>

\* AssignSlow from a cord with a tree, up to MaybeTrackCord.
Assign(c, d) ==
    /\ c # d /\ pc[c] = "idle" /\ root[c] # Null /\ pc[d] = "idle" /\ root[d] # Null
    /\ info[d] # Null => Room
    /\ Counts({root[d]}, {})
    /\ old' = [old EXCEPT ![c] = root[c]] /\ root' = [root EXCEPT ![c] = root[d]]
    /\ retrack' = IF info[d] # Null THEN retrack \cup {c} ELSE retrack
    /\ To(c, IF info[c] # Null THEN "untrack" ELSE "untracked")
    /\ UNCHANGED <<list, rep_, mutex_, dq, used, freed, made, info, prof>>

\* ~Cord, Clear, UnrefTree, assignment of something short: up to MaybeUntrackCord.
Clear(c) ==
    /\ pc[c] = "idle" /\ root[c] # Null
    /\ old' = [old EXCEPT ![c] = root[c]] /\ root' = [root EXCEPT ![c] = Null]
    /\ To(c, IF info[c] # Null THEN "untrack" ELSE "untracked")
    /\ UNCHANGED <<list, rep_, mutex_, dq, used, freed, refs, made, info, retrack, prof>>

\* CordzUpdateScope.
Lock(c) ==
    /\ pc[c] = "idle" /\ info[c] # Null /\ info[c] \notin mutex_
    /\ mutex_' = mutex_ \cup {info[c]} /\ To(c, "scope")
    /\ UNCHANGED <<list, rep_, dq, used, freed, refs, made, root, info, old, retrack, prof>>

\* PrepareAppendRegion and the like: a root that is not shared is changed in place.
InPlace(c) ==
    /\ pc[c] = "scope" /\ refs[root[c]] = 1
    /\ To(c, "write")
    /\ UNCHANGED <<list, rep_, mutex_, dq, used, freed, refs, made, root, info, old, retrack, prof>>

\* The old root is given up, before the info is told.
Replace(c) ==
    /\ pc[c] = "scope"
    /\ Counts({}, {root[c]})
    /\ root' = [root EXCEPT ![c] = Null] /\ To(c, "set")
    /\ UNCHANGED <<list, rep_, mutex_, dq, used, freed, made, info, old, retrack, prof>>

\* SetTree or SetTreeOrEmpty: a new root, or none.
SetTree(c, r) ==
    /\ pc[c] = "set" /\ r \in {Null} \cup (IF made < MaxRoots THEN {NewRoot} ELSE {})
    /\ IF r = Null THEN UNCHANGED <<made, refs>> ELSE made' = r /\ Counts({r}, {})
    /\ root' = [root EXCEPT ![c] = r] /\ rep_' = [rep_ EXCEPT ![info[c]] = r]
    /\ To(c, "unlock")
    /\ UNCHANGED <<list, mutex_, dq, used, freed, info, old, retrack, prof>>

\* CordzInfo::Unlock: an info without a root is untracked.
Unlock(c) ==
    /\ pc[c] \in {"write", "unlock"}
    /\ mutex_' = mutex_ \ {info[c]}
    /\ To(c, IF rep_[info[c]] = Null THEN "untrack" ELSE "idle")
    /\ UNCHANGED <<list, rep_, dq, used, freed, refs, made, root, info, old, retrack, prof>>

\* Untrack: the info leaves the list ...
Delist(c) ==
    /\ pc[c] = "untrack"
    /\ LET i == info[c]  next == ci_next[i]  prev == ci_prev[i]
       IN  /\ head' = IF prev = Null THEN next ELSE head
           /\ ci_prev' = [j \in Infos |-> IF j = next THEN prev ELSE ci_prev[j]]
           /\ ci_next' = [j \in Infos |-> IF j = prev THEN next ELSE ci_next[j]]
    /\ To(c, "delisted")
    /\ UNCHANGED <<rep_, mutex_, dq, used, freed, refs, made, root, info, old, retrack, prof>>

SafeToDelete == dq = <<>>

\* ... looks whether there is a snapshot ...
LookAtQueue(c) ==
    /\ pc[c] = "delisted" /\ To(c, IF SafeToDelete THEN "unseen" ELSE "extend")
    /\ UNCHANGED <<list, rep_, mutex_, dq, used, freed, refs, made, root, info, old, retrack, prof>>

\* ... is deleted if there was none, whatever has come since ...
DeleteUnseen(c) ==
    /\ pc[c] = "unseen"
    /\ Free(info[c])
    /\ info' = [info EXCEPT ![c] = Null] /\ To(c, "untracked")
    /\ UNCHANGED <<mutex_, dq, used, refs, made, root, old, retrack, prof>>

\* Mutant of ExtendLife: the tree is not kept for the snapshots.
ExtendNothing(c) ==
    /\ pc[c] = "extend" /\ info[c] \notin mutex_
    /\ To(c, "delete")
    /\ UNCHANGED <<list, rep_, mutex_, dq, used, freed, refs, made, root, info, old, retrack, prof>>

\* ... or else takes a reference to its root ...
ExtendLife(c) ==
    /\ pc[c] = "extend" /\ info[c] \notin mutex_
    /\ Counts({rep_[info[c]]} \cap Roots, {})
    /\ To(c, "delete")
    /\ UNCHANGED <<list, rep_, mutex_, dq, used, freed, made, root, info, old, retrack, prof>>

\* ... and goes to CordzHandle::Delete, which queues it unless the last snapshot has left in the
\* meantime (that is looked at before the lock is taken and again after) ...
Delete(c) ==
    /\ pc[c] = "delete"
    /\ IF SafeToDelete
       THEN To(c, "unqueued") /\ UNCHANGED <<dq, info>>
       ELSE dq' = Append(dq, info[c]) /\ info' = [info EXCEPT ![c] = Null] /\ To(c, "untracked")
    /\ UNCHANGED <<list, rep_, mutex_, used, freed, refs, made, root, old, retrack, prof>>

\* ... or else deletes it.
DeleteUnqueued(c) ==
    /\ pc[c] = "unqueued"
    /\ Free(info[c]) /\ Counts({}, {rep_[info[c]]} \cap Roots)
    /\ info' = [info EXCEPT ![c] = Null] /\ To(c, "untracked")
    /\ UNCHANGED <<mutex_, dq, used, made, root, old, retrack, prof>>

\* The rest of MaybeTrackCord, and the reference to the old root.
Untracked(c) ==
    /\ pc[c] = "untracked"
    /\ IF c \in retrack THEN Track(c, root[c]) ELSE UNCHANGED <<info, rep_, used, list>>
    /\ Counts({}, {old[c]} \cap Roots)
    /\ old' = [old EXCEPT ![c] = Null] /\ retrack' = retrack \ {c} /\ To(c, "idle")
    /\ UNCHANGED <<mutex_, dq, freed, made, root, prof>>

CordStep(c) ==
    \/ Lock(c) \/ Clear(c) \/ InPlace(c) \/ Replace(c) \/ Unlock(c) \/ Delist(c) \/ LookAtQueue(c)
    \/ DeleteUnseen(c) \/ ExtendLife(c) \/ Delete(c) \/ DeleteUnqueued(c) \/ Untracked(c)
    \/ \E r \in Roots \cup {Null} : SetTree(c, r)
-----------------------------------------------------------------------------
At(s, l) == spc' = [spc EXCEPT ![s] = l]

\* CordzHandle(is_snapshot = true).
TakeSnapshot(s) ==
    /\ spc[s] = "none" /\ \A r \in Snapshots : r < s => spc[r] # "none"
    /\ dq' = Append(dq, s) /\ At(s, "head")
    /\ UNCHANGED <<list, rep_, mutex_, used, freed, refs, made, cord, cur, hold, to_delete>>

\* CordzInfo::Head, under the mutex of the list.
Head_(s) ==
    /\ spc[s] = "head"
    /\ cur' = [cur EXCEPT ![s] = head] /\ At(s, "walk")
    /\ UNCHANGED <<list, rep_, mutex_, dq, used, freed, refs, made, cord, hold, to_delete>>

\* CordzInfo::Next, without a lock.
Next_(s) ==
    /\ spc[s] \in {"walk", "seen"} /\ cur[s] # Null
    /\ cur' = [cur EXCEPT ![s] = ci_next[cur[s]]] /\ At(s, "walk")
    /\ UNCHANGED <<list, rep_, mutex_, dq, used, freed, refs, made, cord, hold, to_delete>>

\* Mutant of RefCordRep: rep_ is read without mutex_.
RefCordRepUnlocked(s) ==
    /\ spc[s] = "walk" /\ cur[s] # Null /\ rep_[cur[s]] # Null
    /\ hold' = [hold EXCEPT ![s] = rep_[cur[s]]] /\ Counts({rep_[cur[s]]}, {})
    /\ At(s, "analyze")
    /\ UNCHANGED <<list, rep_, mutex_, dq, used, freed, made, cord, cur, to_delete>>

\* RefCordRep, of GetCordzStatistics.
RefCordRep(s) ==
    /\ spc[s] = "walk" /\ cur[s] # Null /\ cur[s] \notin mutex_ /\ rep_[cur[s]] # Null
    /\ hold' = [hold EXCEPT ![s] = rep_[cur[s]]] /\ Counts({rep_[cur[s]]}, {})
    /\ At(s, "analyze")
    /\ UNCHANGED <<list, rep_, mutex_, dq, used, freed, made, cord, cur, to_delete>>

\* The end of GetCordzStatistics.
Unref(s) ==
    /\ spc[s] = "analyze"
    /\ Counts({}, {hold[s]}) /\ hold' = [hold EXCEPT ![s] = Null] /\ At(s, "seen")
    /\ UNCHANGED <<list, rep_, mutex_, dq, used, freed, made, cord, cur, to_delete>>

\* Whether the infos behind position n of the queue, up to the next snapshot, end before `next`.
EndsRun(n, next) ==
    /\ \A k \in (n + 1)..(next - 1) : dq[k] \in Infos
    /\ next <= Len(dq) => dq[next] \in Snapshots

\* ~CordzHandle of a snapshot: the oldest one takes the infos behind it along.
DestroySnapshot(s) ==
    /\ spc[s] \in {"walk", "seen"}
    /\ \E n \in DOMAIN dq : \E next \in (n + 1)..(Len(dq) + 1) :
          /\ dq[n] = s /\ IF n = 1 THEN EndsRun(n, next) ELSE next = n + 1
          /\ to_delete' = [to_delete EXCEPT ![s] = {dq[k] : k \in (n + 1)..(next - 1)}]
          /\ dq' = SubSeq(dq, 1, n - 1) \o SubSeq(dq, next, Len(dq))
    /\ cur' = [cur EXCEPT ![s] = Null] /\ At(s, "delete")
    /\ UNCHANGED <<list, rep_, mutex_, used, freed, refs, made, cord, hold>>

\* ~CordzInfo of one of them.
DeleteHandle(s, i) ==
    /\ spc[s] = "delete" /\ i \in to_delete[s]
    /\ Free(i) /\ Counts({}, {rep_[i]} \cap Roots)
    /\ to_delete' = [to_delete EXCEPT ![s] = @ \ {i}]
    /\ UNCHANGED <<mutex_, dq, used, made, cord, spc, cur, hold>>

ProfilerStep(s) ==
    \/ TakeSnapshot(s) \/ Head_(s) \/ Next_(s) \/ RefCordRep(s) \/ Unref(s) \/ DestroySnapshot(s)
    \/ \E i \in Infos : DeleteHandle(s, i)

Next ==
    \/ \E c \in Cords :
          \/ CordStep(c)
          \/ \E sampled \in BOOLEAN : Emplace(c, sampled)
          \/ \E d \in Cords : Copy(c, d) \/ Assign(c, d)
    \/ \E s \in Snapshots : ProfilerStep(s)

Spec == Init /\ [][Next]_vars
-----------------------------------------------------------------------------
\* Handle h is behind handle g in the delete queue.
Behind(g, h) == \E j, k \in DOMAIN dq : j < k /\ dq[j] = g /\ dq[k] = h

\* The assertions of Head and Next (DiagnosticsHandleIsSafeToInspect), and what they are for:
\* the info a profiler is at has not been deleted, it is tracked or behind the snapshot in the
\* delete queue, the tree that can be reached through it is alive, and no cord writes in place
\* to a tree that is being analysed.
ProfilerSafe ==
    \A s \in Snapshots :
        /\ cur[s] # Null =>
              /\ cur[s] \notin freed
              /\ s \in Range(dq) /\ (cur[s] \in Range(dq) => Behind(s, cur[s]))
              /\ cur[s] \notin mutex_ /\ rep_[cur[s]] # Null => refs[rep_[cur[s]]] > 0
        /\ hold[s] # Null =>
              /\ refs[hold[s]] > 0
              /\ \A c \in Cords : pc[c] = "write" => root[c] # hold[s]

\* Whether an info that has left the list holds a reference to its root.
Extended(i) ==
    \/ i \in Range(dq)
    \/ \E s \in Snapshots : i \in to_delete[s]
    \/ \E c \in Cords : info[c] = i /\ pc[c] \in {"delete", "unqueued"}

\* A tree has as many references as it has owners: the cords that hold it or are about to let
\* go of it, the infos whose life was extended, and the profilers that analyse it.  So a tree
\* is neither freed early nor leaked, however Untrack races with the end of a snapshot.
ReferencesCounted ==
    \A r \in Roots :
        refs[r] = Cardinality({c \in Cords : root[c] = r}) + Cardinality({c \in Cords : old[c] = r})
                  + Cardinality({s \in Snapshots : hold[s] = r})
                  + Cardinality({i \in Infos : rep_[i] = r /\ Extended(i)})

\* Every info that was made and not deleted still has someone who will delete it: its cord, or
\* a snapshot, because there is a snapshot in front of every info in the queue.
NoInfoStranded ==
    /\ dq # <<>> => dq[1] \in Snapshots
    /\ \A i \in used \ freed : Extended(i) \/ \E c \in Cords : info[c] = i
=============================================================================

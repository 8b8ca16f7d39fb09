------------------------------- MODULE MuQueue -------------------------------
(***************************************************************************)
(* The waiter queue of absl::Mutex as mutex.cc keeps it: a circular list   *)
(* whose "head" is its last element, with skip chains over equivalent      *)
(* waiters, searched by an unlocker while others enqueue.  The queue is a  *)
(* record q threaded through the routines; each routine runs under the     *)
(* spin bit, except the walk of the search, which reads what others leave  *)
(* alone (or should) and is a step of its own.                             *)
(* maybe_unlocking is the hint of the last waiter, err the ABSL_RAW_CHECK  *)
(* that failed, if any.  The fields of a waiter off the queue are reset.   *)
(***************************************************************************)
EXTENDS Naturals, Sequences, FiniteSets, SequencesExt

CONSTANTS
    Waiters,
    None,       \* the null pointer
    Params      \* what a waiter may wait for: [how, cond, priority]

VARIABLES
    q,          \* the queue
    waitp,      \* SynchWaitParams and priority of each waiter
    true,       \* the conditions that are true now
    phase,      \* "open", "search" (an unlocker searches), "shared" (it left readers behind)
    w, pw,      \* UnlockSlow: the first waiter to wake and its predecessor
    old_h,      \* the end of the last search
    w_walk, pw_walk \* where the walk starts, None when there is none to do

locals == <<w, pw, old_h, w_walk, pw_walk>>
vars == <<q, waitp, true, phase, locals>>

Conditions == {p.cond : p \in Params} \ {"null"}
UnconditionalWriter(s) == waitp[s].how = "kExclusive" /\ waitp[s].cond = "null"
MuEquivalentWaiter(x, y) == waitp[x] = waitp[y]
Ready(s) == waitp[s].cond \in true \cup {"null"}

Check(r, ok, msg) == IF ok THEN r ELSE [r EXCEPT !.err = msg]

Init ==
    /\ q = [head |-> None, next |-> [s \in Waiters |-> None], skip |-> [s \in Waiters |-> None],
            may_skip |-> {}, wake |-> {}, maybe_unlocking |-> FALSE, err |-> ""]
    /\ waitp \in [Waiters -> Params]
    /\ true = {} /\ phase = "open"
    /\ w = None /\ pw = None /\ old_h = None /\ w_walk = None /\ pw_walk = None

\* The nodes reached from x by following the pointers f, x first.
Path(f, x) ==
    LET p[i \in 1..(Cardinality(Waiters) + 1)] ==
            IF i = 1 THEN x ELSE IF p[i - 1] = None THEN None ELSE f[p[i - 1]]
    IN p

\* Mutant: the short cut from x goes past the end of the chain.
SkipTooFar(r, x) ==
    LET c == Path(r.skip, x)
        n == CHOOSE i \in DOMAIN c : c[i] # None /\ (i = Len(c) \/ c[i + 1] = None)
    IN [q |-> r, x |-> IF n = 1 THEN x ELSE IF c[n] = r.head THEN c[n] ELSE r.next[c[n]]]

\* Skip: the last node of x's skip chain; every node of the chain skips one more.
Skip(r, x) ==
    LET c == Path(r.skip, x)
        n == CHOOSE i \in DOMAIN c : c[i] # None /\ (i = Len(c) \/ c[i + 1] = None)
    IN [x |-> c[n],
        q |-> IF n = 1 THEN r
              ELSE [r EXCEPT !.skip = [s \in Waiters |->
                      IF s = x THEN c[n]
                      ELSE IF \E i \in 2..(n - 2) : c[i] = s
                        THEN c[2 + CHOOSE i \in 2..(n - 2) : c[i] = s]
                      ELSE @[s]]]]

\* FixSkip: ancestor must not keep a skip to the node that is removed.
FixSkip(r, ancestor, gone) ==
    IF r.skip[ancestor] # gone THEN r
    ELSE [r EXCEPT !.skip[ancestor] =
            IF r.skip[gone] # None THEN r.skip[gone]
            ELSE IF r.next[ancestor] # gone THEN r.next[ancestor]
            ELSE None]

\* The insertion point of Enqueue by priority: after the last chain that is not lower.
RECURSIVE EnqueueAfter(_, _, _)
EnqueueAfter(r, after, s) ==
    LET a == Skip(r, r.next[after])
    IN IF waitp[s].priority <= waitp[a.x].priority
         THEN EnqueueAfter(a.q, a.x, s) ELSE [q |-> a.q, x |-> after]

\* s is linked in after node x, which is not the new last one.
LinkAfter(r, x, s) ==
    LET r1 == [r EXCEPT !.next[s] = r.next[x], !.next[x] = s]
    IN IF MuEquivalentWaiter(s, r1.next[s]) THEN [r1 EXCEPT !.skip[s] = r1.next[s]] ELSE r1

\* Enqueue(head, waitp, mu, flags) on a mutex queue; quiet if no unlocker may be searching.
EnqueueIf(r0, s, hasBlocked, quiet) ==
    LET r     == [r0 EXCEPT !.skip[s] = None, !.may_skip = @ \cup {s}, !.wake = @ \ {s}]
        h     == r.head
        above == waitp[s].priority > waitp[h].priority
        after == IF quiet THEN EnqueueAfter(r, h, s) ELSE [q |-> r, x |-> h]
        front == hasBlocked /\ waitp[s].priority >= waitp[r.next[h]].priority
        byPriority ==
            LET x  == after.x
                r1 == Check(after.q, after.q.skip[x] = None \/ MuEquivalentWaiter(x, s),
                            "Mutex Enqueue failure")
                r2 == LinkAfter(r1, x, s)
            IN IF x # h /\ x \in r2.may_skip /\ MuEquivalentWaiter(x, s)
                 THEN [r2 EXCEPT !.skip[x] = s] ELSE r2
        back == [r EXCEPT !.next = [@ EXCEPT ![s] = r.next[h], ![h] = s],
                          !.head = s,
                          !.skip[h] = IF h \in r.may_skip /\ MuEquivalentWaiter(h, s) THEN s ELSE @]
    IN IF h = None THEN [r EXCEPT !.next[s] = s, !.head = s, !.maybe_unlocking = FALSE]
       ELSE IF above /\ (quiet \/ UnconditionalWriter(s)) THEN byPriority
       ELSE IF front /\ (quiet \/ UnconditionalWriter(s)) THEN LinkAfter(r, h, s)
       ELSE back

Enqueue(r, s, hasBlocked) == EnqueueIf(r, s, hasBlocked, ~r.maybe_unlocking)

\* Dequeue the successor of p.
Dequeue(r, p) ==
    LET x  == r.next[p]
        r1 == [r EXCEPT !.next = [@ EXCEPT ![p] = r.next[x], ![x] = None], !.skip[x] = None,
                        !.may_skip = @ \ {x}, !.wake = @ \ {x}]
        n  == r1.next[p]
    IN IF r.head = x THEN [r1 EXCEPT !.head = IF p = x THEN None ELSE p]
       ELSE IF p # r.head /\ MuEquivalentWaiter(p, n)
         THEN [r1 EXCEPT !.skip[p] = IF r1.skip[n] # None THEN r1.skip[n] ELSE n]
       ELSE r1

\* DequeueAllWakeable: from p's successor on, dequeue what is marked, up to one writer.
RECURSIVE DequeueAllWakeable(_, _, _, _)
DequeueAllWakeable(r, p, orig_h, skipped) ==
    LET x    == r.next[p]
        r1   == Dequeue(Check(r, r.skip[p] = None, "bad skip in DequeueAllWakeable"), p)
        over == Skip(r, x)
    IN IF x \in r.wake
         THEN IF waitp[x].how = "kExclusive" \/ orig_h # r1.head \/ (p = r1.head /\ skipped)
                THEN r1 ELSE DequeueAllWakeable(r1, p, orig_h, skipped)
         ELSE IF over.x = r.head
                THEN over.q ELSE DequeueAllWakeable(over.q, over.x, orig_h, TRUE)

\* The loop of TryRemove that looks for s, and fixes the skips that lead to it.
RECURSIVE FindForRemoval(_, _, _)
FindForRemoval(r, p, s) ==
    LET x    == r.next[p]
        step == IF MuEquivalentWaiter(s, x) THEN [q |-> FixSkip(r, x, s), x |-> x] ELSE Skip(r, x)
    IN IF x = s THEN [q |-> r, x |-> p]
       ELSE IF step.q.next[step.x] = s \/ step.x = r.head THEN step
       ELSE FindForRemoval(step.q, step.x, s)
-----------------------------------------------------------------------------
\* The waiters from the first to the last (empty if the list were broken).
Ring(r) ==
    LET p == Path(r.next, r.next[r.head])
        n == SelectInSeq(p, LAMBDA x : x = r.head)
    IN IF r.head = None THEN <<>> ELSE SubSeq(p, 1, n)

\* A thread enqueues: LockSlowLoop, Fer, or an unlocker with a waitp.
Join(s) ==
    /\ s \notin Range(Ring(q))
    /\ \E hasBlocked \in BOOLEAN : q' = Enqueue(q, s, hasBlocked)
    /\ UNCHANGED <<waitp, true, phase, locals>>

\* Mutant: the waiter is unlinked without a look at the skips that lead to it.
TryRemoveUnfixed(s) ==
    /\ phase = "open" /\ s \in Range(Ring(q))
    /\ LET p == CHOOSE x \in Range(Ring(q)) : q.next[x] = s
           r == Dequeue(q, p)
       IN q' = [r EXCEPT !.maybe_unlocking = FALSE]
    /\ UNCHANGED <<waitp, true, phase, locals>>

\* TryRemove: a waiter times out; it holds both the lock and the spin bit.
TryRemove(s) ==
    /\ phase = "open" /\ s \in Range(Ring(q))
    /\ LET f == FindForRemoval(q, q.head, s)
           r == IF f.q.next[f.x] = s THEN Dequeue(f.q, f.x) ELSE f.q
       IN q' = [r EXCEPT !.maybe_unlocking = FALSE]
    /\ UNCHANGED <<waitp, true, phase, locals>>

\* A writer changes what the conditions read.
Change ==
    /\ phase = "open"
    /\ true' \in (SUBSET Conditions) \ {true}
    /\ UNCHANGED <<q, waitp, phase, locals>>

\* The last unlocker holds the spin bit again after a search: old_h may skip once more.
RestoreSkip ==
    LET h == q.head
        r == Check(q, old_h = None \/ q.maybe_unlocking, "Mutex queue changed beneath us")
        s == Check([r EXCEPT !.may_skip = @ \cup {old_h}], r.skip[old_h] = None, "illegal skip from head")
    IN IF old_h = None \/ old_h \in q.may_skip THEN r
       ELSE IF h # old_h /\ MuEquivalentWaiter(old_h, s.next[old_h])
         THEN [s EXCEPT !.skip[old_h] = s.next[old_h]] ELSE s

\* The unlocker is through: lock and spin bit are released.
Done(r) ==
    /\ q' = [r EXCEPT !.maybe_unlocking = FALSE]
    /\ phase' = "open"
    /\ w' = None /\ pw' = None /\ old_h' = None
    /\ UNCHANGED <<w_walk, pw_walk>>
    /\ UNCHANGED <<waitp, true>>

EasyCase == UnconditionalWriter(q.next[q.head])
Found == w # None /\ (waitp[w].how = "kExclusive" \/ q.head = old_h)
AtLoop == q.head # None /\ w_walk = None

\* Wake the unconditional writer at the front, or what the search has found.
Wake ==
    /\ AtLoop /\ (EasyCase \/ Found)
    /\ LET h  == q.head
           r  == IF EasyCase THEN [RestoreSkip EXCEPT !.wake = @ \cup {q.next[h]}] ELSE RestoreSkip
           p  == IF EasyCase \/ pw = None THEN h ELSE pw
           x  == IF EasyCase THEN q.next[h] ELSE w
       IN Done(DequeueAllWakeable(Check(r, r.next[p] = x, "pw not w's predecessor"), p, h, FALSE))

\* Nothing new since the last search: nobody to wake.
WakeNobody ==
    /\ AtLoop /\ ~EasyCase /\ ~Found /\ old_h = q.head
    /\ Done(RestoreSkip)

\* Mutant: the end of the search may be skipped when waiters queue behind it.
NoMoreSkip(r, h) == r

\* Ensure that nobody skips past h in future searches.
EndSkipAt(r, h) ==
    Check([r EXCEPT !.may_skip = @ \ {h}], r.skip[h] = None, "illegal skip from head")

\* Set up to walk the waiters not searched before, and release the spin bit.
Search ==
    /\ AtLoop /\ ~EasyCase /\ ~Found /\ old_h # q.head
    /\ LET h == q.head
       IN /\ q' = EndSkipAt([RestoreSkip EXCEPT !.maybe_unlocking = TRUE], h)
          /\ pw_walk' = old_h
          /\ w_walk' = q.next[IF old_h = None THEN h ELSE old_h]
          /\ old_h' = h
    /\ phase' = "search"
    /\ UNCHANGED <<waitp, true, w, pw>>

\* The walk from x, whose predecessor is p, to old_h; f is what was found so far. n bounds it.
RECURSIVE WalkFrom(_, _, _, _, _)
WalkFrom(r, p, x, f, n) ==
    LET first == f.w = None /\ Ready(x)
        marks == first \/ (Ready(x) /\ waitp[x].how = "kShared")
        f1    == IF first THEN [w |-> x, pw |-> p] ELSE f
        r1    == [r EXCEPT !.wake = IF marks THEN @ \cup {x} ELSE @ \ {x}]
        step  == IF marks THEN [q |-> r1, x |-> x] ELSE Skip(r1, x)
    IN IF n = 0 THEN [q |-> [r EXCEPT !.err = "walk went past its end"], f |-> f]
       ELSE IF first /\ waitp[x].how = "kExclusive" THEN [q |-> r1, f |-> f1]
       ELSE IF step.x = old_h THEN [q |-> step.q, f |-> f1]
       ELSE WalkFrom(step.q, step.x, step.q.next[step.x], f1, n - 1)

Walk ==
    /\ w_walk # None
    /\ LET s == WalkFrom(q, pw_walk, w_walk, [w |-> w, pw |-> pw], Cardinality(Waiters))
       IN q' = s.q /\ w' = s.f.w /\ pw' = s.f.pw
    /\ w_walk' = None /\ pw_walk' = None
    /\ UNCHANGED <<waitp, true, phase, old_h>>

\* Another reader joined during the search: this one leaves, with its marks on the queue.
Abandon ==
    /\ phase = "search" /\ w_walk = None
    /\ phase' = "shared"
    /\ w' = None /\ pw' = None /\ old_h' = None
    /\ UNCHANGED <<w_walk, pw_walk>>
    /\ UNCHANGED <<q, waitp, true>>

Next ==
    \/ \E s \in Waiters : Join(s) \/ TryRemove(s)
    \/ Change \/ Wake \/ WakeNobody \/ Search \/ Walk \/ Abandon

Spec == Init /\ [][Next]_vars
-----------------------------------------------------------------------------
\* No ABSL_RAW_CHECK of the queue code ever fails, and no walk goes past its end although
\* others enqueue behind it.
NoCheckFails == q.err = ""

\* The invariant stated above Skip(): a skip leads to a waiter later in the queue, over
\* equivalent waiters only.
SkipInvariant ==
    LET l == Ring(q)
    IN \A i \in DOMAIN l : q.skip[l[i]] # None =>
         \E j \in (i + 1)..Len(l) :
            /\ l[j] = q.skip[l[i]]
            /\ \A k \in i..j : MuEquivalentWaiter(l[i], l[k])

\* The list, its skips and the search implement the queue of WaiterQueue: in particular
\* the unlocker wakes exactly the waiters that queue promises, skips or no skips.
Abstract == INSTANCE WaiterQueue WITH list <- Ring(q)

ImplementsWaiterQueue == Abstract!Spec
=============================================================================

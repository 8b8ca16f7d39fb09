----------------------------- MODULE MutexProofs -----------------------------
(***************************************************************************)
(* The inductive invariants of Mutex and CondVar, for any number of        *)
(* threads, any priorities and any calls; lemmas about the queue           *)
(* operators; and the steps that leave the word alone, obtain the lock or  *)
(* wait for it.  MutexWordProofs has the other steps and the theorems on   *)
(* the word, MutexQueueProofs shows where waiters are, and MutexWakeProofs *)
(* that none of them is forgotten.                                         *)
(***************************************************************************)
EXTENDS CondVar, FiniteSetTheorems, TLAPS

\* The part of the queue that unlocker t searches.
SearchPath(t) == SubSeq(queue, Position(queue, local[t].from), Position(queue, local[t].old_h))

\* Where a thread owns the spin bit.
Spinning == {"increment", "enqueue", "removing", "nowaiters", "waiters", "ferspin"}

\* The readers counted in the word or in the last waiter.
Counted == {t \in Readers : pc[t] # "increment"}

\* MutualExclusion without cardinalities.
Exclusive ==
    /\ \A t, u \in Writers : t = u
    /\ Writers = {} \/ Readers = {}

\* The bits of the word agree with the threads and the queue.
BitsInv ==
    /\ "kMuWriter" \in mu <=> Writers # {}
    /\ "kMuReader" \in mu <=> Readers # {}
    /\ "kMuWait" \in mu <=> queue # <<>>
    /\ "kMuWrWait" \in mu => "kMuWait" \in mu

\* The readers are counted, in the word or in the last waiter.
CountInv == Cardinality(Counted) = IF "kMuWait" \in mu THEN readers ELSE count

\* The spin bit has one owner.
SpinInv ==
    /\ \A t, u \in Threads : pc[t] \in Spinning /\ pc[u] \in Spinning => t = u
    /\ "kMuSpin" \in mu <=> \E t \in Threads : pc[t] \in Spinning

\* What thread t may rely on at its program counter: the owner of the spin bit on the queue
\* being there or not, an unlocker on the word it read, a waker on having somebody to wake.
LocalAt(t) ==
    /\ pc[t] \in {"increment", "enqueue", "removing", "waiters", "ferspin"} => "kMuWait" \in mu
    /\ pc[t] = "nowaiters" => "kMuWait" \notin mu /\ t \in requeue
    /\ pc[t] = "waiters" => local[t].v = mu \ {"kMuSpin"}
    /\ pc[t] = "increment" => how[t] = "kShared"
    /\ pc[t] \in {"wake", "fer", "ferspin"} => wake_list[t] # <<>>
    /\ pc[t] \in {"post", "ferpost"} => local[t].w \in Threads

\* What unlocker t remembers of its search is still on the queue.
SearchAt(t) ==
    /\ local[t].old_h # NoThread =>
          /\ pc[t] \in {"search", "unlock", "waiters"}
          /\ maybe_unlocking /\ local[t].old_h \in Range(queue)
    /\ pc[t] = "search" => local[t].old_h # NoThread /\ local[t].from \in Range(queue)
    /\ local[t].w # NoThread /\ pc[t] \notin {"wake", "post", "ferpost"} =>
          local[t].old_h # NoThread /\ local[t].w \in Range(queue)

ThreadsInv == \A t \in Threads : LocalAt(t) /\ SearchAt(t)

\* The inductive invariant behind MutualExclusion, WordCountsHolders and SearchUndisturbed.
WordInv == TypeOK /\ Exclusive /\ BitsInv /\ CountInv /\ SpinInv /\ ThreadsInv

\* A thread that waits, or has queued itself and is still waking others.
Parked(t) ==
    \/ pc[t] \in {"block", "remove", "removing", "recheck", "cvwait", "cvremove"}
    \/ t \in requeue /\ pc[t] \in {"wake", "post"}

QueueInv ==
    /\ OnOneQueue
    /\ \A t \in Threads : Queued(t) => Parked(t)
    /\ \A t \in Threads : wake_list[t] # <<>> => pc[t] \in {"wake", "post", "fer", "ferspin", "ferpost"}
    /\ cv_word \subseteq requeue
    /\ \A t \in requeue : pc[t] \in Holding \cup {"wake", "post"}

\* A designated waker is not in the hands of a signaller, who may still queue it.
Designated(t) ==
    \/ t \in blocked /\ pc[t] \in {"fast", "slow"}
    \/ /\ Parked(t) /\ t \notin Range(queue) \cup Range(cv)
       /\ \A u \in Threads : pc[u] \in {"fer", "ferspin", "ferpost"} => t \notin Range(wake_list[u])

DesigInv == "kMuDesig" \in mu => \E t \in Threads : Designated(t)

\* Nobody holds the lock, or is about to (a thread removing itself will not look further).
Free == \A t \in Threads : pc[t] \notin Holding \cup {"increment"}

\* Somebody will look at the queue: whoever holds the lock, or the designated waker.
Tended == ~Free \/ "kMuDesig" \in mu

\* Only waiters that could not run are left untended, nobody queues another waiter then,
\* and kMuWrWait does not keep readers out.
TendInv ==
    /\ Tended \/ \A t \in Range(queue) : ~Eval(cond[t])
    /\ \A t \in Threads : pc[t] \in {"enqueue", "ferspin"} => Tended
    /\ "kMuWrWait" \in mu => Tended

\* An unlocker that will queue itself on the mutex waits for a condition that is false.
RequeueInv ==
    \A t \in requeue : pc[t] # "cs" /\ (pc[t] \in Holding /\ t \notin cv_word => ~Eval(cond[t]))

\* The part of the queue that unlocker t has searched.
Searched(t) ==
    {i \in DOMAIN queue : IF pc[t] = "search" THEN i < Position(queue, local[t].from)
                                             ELSE i <= Position(queue, local[t].old_h)}

\* An unlocker that has found nobody to wake has seen false conditions only, unless a writer
\* without condition, which it wakes whatever it has found, has gone to the front.
SearchInv ==
    \A t \in Threads : local[t].old_h # NoThread /\ local[t].w = NoThread =>
        UnconditionalWriter(Head(queue)) \/ \A i \in Searched(t) : ~Eval(cond[queue[i]])

\* The inductive invariant behind NobodyStranded, with the others.
StrandInv == TendInv /\ RequeueInv /\ SearchInv
-----------------------------------------------------------------------------
(* The operators on queues. *)

\* r is q with e inserted at position i.
Inserted(r, q, e, i) ==
    /\ r \in Seq(Threads) /\ Len(r) = Len(q) + 1
    /\ \A j \in 1..Len(r) : r[j] = IF j < i THEN q[j] ELSE IF j = i THEN e ELSE q[j - 1]

\* A set of positions has a least one, where Enqueue inserts.
LEMMA LeastPosition ==
    ASSUME NEW S \in SUBSET Nat, S # {}
    PROVE  Min(S) \in S /\ \A y \in S : Min(S) <= y
<1> DEFINE less == {ss \in Nat \X Nat : ss[1] < ss[2]}
<1>1. IsWellFoundedOn(less, Nat)
  BY NatLessThanWellFounded, Zenon DEF OpToRel
<1> HIDE DEF less
<1>2. PICK x \in S : \A y \in S : ~(<<y, x>> \in less)
  BY <1>1, WFMin, Zenon
<1>3. ASSUME NEW y \in S, y < x PROVE FALSE
  <2>1. <<y, x>> \in Nat \X Nat /\ <<y, x>>[1] < <<y, x>>[2]
    BY Zenon, <1>3
  <2>2. <<y, x>> \in less
    BY <2>1, Zenon DEF less
  <2> QED
    BY Zenon, <1>2, <2>2
<1>4. \A y \in S : x <= y
  BY <1>3
<1>5. \E z \in S : \A y \in S : z <= y
  BY <1>4, Zenon
<1> QED
  BY <1>5, Zenon DEF Min

\* A list of threads holds threads: none when it is empty, and some when it is not.
LEMMA ListHas ==
    /\ Range(<<>>) = {}
    /\ \A q \in Seq(Threads) : Range(q) \subseteq Threads /\ (q # <<>> => \E x \in Threads : x \in Range(q))
<1>1. Range(<<>>) = {}
  BY DEF Range
<1>2. ASSUME NEW q \in Seq(Threads) PROVE Range(q) \subseteq Threads /\ (q # <<>> => \E x \in Threads : x \in Range(q))
  <2>1. (\A i \in DOMAIN q : q[i] \in Threads) /\ (q # <<>> => 1 \in DOMAIN q)
    OBVIOUS
  <2> QED
    BY <2>1, Zenon DEF Range
<1> QED
  BY <1>1, <1>2, Zenon

\* What the concatenation of two lists of threads holds at each position.
LEMMA ConcatIs ==
    \A p, q \in Seq(Threads) :
        /\ p \o q \in Seq(Threads) /\ Len(p \o q) = Len(p) + Len(q)
        /\ \A j \in 1..(Len(p) + Len(q)) : (p \o q)[j] = IF j <= Len(p) THEN p[j] ELSE q[j - Len(p)]
<1> TAKE p, q \in Seq(Threads)
<1>1. p \o q \in Seq(Threads) /\ Len(p \o q) = Len(p) + Len(q)
  OBVIOUS
<1>2. ASSUME NEW j \in 1..(Len(p) + Len(q))
      PROVE  (p \o q)[j] = IF j <= Len(p) THEN p[j] ELSE q[j - Len(p)]
  OBVIOUS
<1> QED
  BY <1>1, <1>2, Zenon

\* Inserting at a position, as Enqueue does for a thread of higher priority.
LEMMA InsertAtInserts ==
    ASSUME NEW q \in Seq(Threads), NEW e \in Threads, NEW i \in 1..(Len(q) + 1)
    PROVE  Inserted(InsertAt(q, i, e), q, e, i)
<1> DEFINE a == SubSeq(q, 1, i - 1)
           b == SubSeq(q, i, Len(q))
           c == a \o <<e>>
<1>1. /\ a \in Seq(Threads) /\ Len(a) = i - 1
      /\ \A j \in 1..(i - 1) : a[j] = q[j]
  OBVIOUS
<1>2. /\ b \in Seq(Threads) /\ Len(b) = Len(q) - i + 1
      /\ \A j \in 1..(Len(q) - i + 1) : b[j] = q[i + j - 1]
  OBVIOUS
<1>3. /\ c \in Seq(Threads) /\ Len(c) = i
      /\ \A j \in 1..i : c[j] = IF j < i THEN q[j] ELSE e
  <2> HIDE DEF a
  <2>1. c = Append(a, e)
    BY <1>1
  <2> QED
    BY <1>1, <2>1
<1> HIDE DEF b, c
<1>4. /\ c \o b \in Seq(Threads) /\ Len(c \o b) = Len(q) + 1
      /\ \A j \in 1..(Len(q) + 1) : (c \o b)[j] = IF j <= i THEN c[j] ELSE b[j - i]
  <2>1. Len(c) + Len(b) = Len(q) + 1
    BY <1>2, <1>3
  <2>2. /\ c \o b \in Seq(Threads) /\ Len(c \o b) = Len(c) + Len(b)
        /\ \A j \in 1..(Len(c) + Len(b)) : (c \o b)[j] = IF j <= Len(c) THEN c[j] ELSE b[j - Len(c)]
    BY <1>2, <1>3, ConcatIs, Zenon
  <2> QED
    BY <1>3, <2>1, <2>2, Zenon
<1>5. InsertAt(q, i, e) = c \o b
  BY Zenon DEF InsertAt, b, c
<1>6. ASSUME NEW j \in 1..(Len(q) + 1)
      PROVE  (c \o b)[j] = IF j < i THEN q[j] ELSE IF j = i THEN e ELSE q[j - 1]
  <2>1. (c \o b)[j] = IF j <= i THEN c[j] ELSE b[j - i]
    BY <1>4, <1>6, Zenon
  <2>2. CASE j <= i
    BY <1>2, <1>3, <2>1, <2>2
  <2>3. CASE j > i
    BY <1>2, <1>3, <2>1, <2>3
  <2> QED
    <3>1. j <= i \/ j > i
      BY <1>6
    <3> QED
      BY <2>2, <2>3, <3>1, Zenon
<1> QED
  BY Zenon, <1>4, <1>5, <1>6 DEF Inserted

\* Appending is inserting behind the last, and prepending before the first.
LEMMA EndsInsert ==
    ASSUME NEW q \in Seq(Threads), NEW e \in Threads
    PROVE  Inserted(Append(q, e), q, e, Len(q) + 1) /\ Inserted(<<e>> \o q, q, e, 1)
  BY DEF Inserted

\* Enqueue inserts the thread somewhere; while an unlocker searches, behind the others or,
\* if it is a writer without condition, before them.
LEMMA EnqueueInserts ==
    ASSUME NEW q \in Seq(Threads), NEW e \in Threads, NEW hasBlocked, NEW searching
    PROVE  \E i \in 1..(Len(q) + 1) :
              /\ Inserted(Enqueue(q, e, hasBlocked, searching), q, e, i)
              /\ searching => i = Len(q) + 1 \/ (i = 1 /\ UnconditionalWriter(e))
<1> DEFINE above == q # <<>> /\ Priority[e] > Priority[Last(q)]
           ahead == above \/ (q # <<>> /\ hasBlocked /\ Priority[e] >= Priority[Head(q)])
           safe  == ~searching \/ UnconditionalWriter(e)
           lower == {i \in 1..Len(q) : Priority[q[i]] < Priority[e]}
<1>1. CASE above /\ ~searching
  <2>1. Len(q) \in lower
    BY <1>1, MutexAssumption DEF Last
  <2>2. Min(lower) \in 1..Len(q)
    <3>1. lower \subseteq 1..Len(q) /\ lower \in SUBSET Nat /\ lower # {}
      BY <2>1
    <3> HIDE DEF lower
    <3> QED
      <4>1. Min(lower) \in lower
        BY <3>1, LeastPosition, Zenon
      <4> QED
        BY <3>1, <4>1, Zenon
  <2>3. Enqueue(q, e, hasBlocked, searching) = InsertAt(q, Min(lower), e)
    BY Zenon, <1>1 DEF Enqueue
  <2> HIDE DEF lower
  <2>4. Inserted(InsertAt(q, Min(lower), e), q, e, Min(lower))
    BY <2>2, InsertAtInserts
  <2> QED
    BY <1>1, <2>2, <2>3, <2>4
<1>2. CASE ~(above /\ ~searching) /\ ahead /\ safe
  <2>1. Enqueue(q, e, hasBlocked, searching) = <<e>> \o q
    BY Zenon, <1>2 DEF Enqueue
  <2> QED
    BY <1>2, <2>1, EndsInsert
<1>3. CASE ~(above /\ ~searching) /\ ~(ahead /\ safe)
  <2>1. Enqueue(q, e, hasBlocked, searching) = Append(q, e)
    BY Zenon, <1>3 DEF Enqueue
  <2>2. Len(q) + 1 \in 1..(Len(q) + 1)
    OBVIOUS
  <2>3. Inserted(Append(q, e), q, e, Len(q) + 1)
    BY EndsInsert, Zenon
  <2> QED
    BY Zenon, <2>1, <2>2, <2>3
<1> QED
  BY Zenon, <1>1, <1>2, <1>3

\* Inserting adds one element.
LEMMA InsertedRange ==
    ASSUME NEW q \in Seq(Threads), NEW e \in Threads, NEW i \in 1..(Len(q) + 1), NEW r,
           Inserted(r, q, e, i)
    PROVE  /\ r \in Seq(Threads) /\ r # <<>> /\ Range(r) = Range(q) \cup {e}
           /\ IsInjective(q) /\ e \notin Range(q) => IsInjective(r)
<1>1. r \in Seq(Threads) /\ r # <<>> /\ Len(r) = Len(q) + 1
  BY DEF Inserted
<1>2. \A j \in 1..Len(r) : r[j] = IF j < i THEN q[j] ELSE IF j = i THEN e ELSE q[j - 1]
  BY Zenon DEF Inserted
<1>3. Range(r) \subseteq Range(q) \cup {e}
  BY <1>1, <1>2 DEF Range
<1>4. e \in Range(r)
  BY <1>1, <1>2 DEF Range
<1>5. ASSUME NEW j \in 1..Len(q) PROVE q[j] \in Range(r)
  <2>1. CASE j < i
    <3>1. j \in 1..Len(r) /\ r[j] = q[j]
      BY <1>1, <1>2, <2>1
    <3> QED
      BY <1>1, <3>1 DEF Range
  <2>2. CASE j >= i
    <3>1. j + 1 \in 1..Len(r) /\ r[j + 1] = q[j]
      BY <1>1, <1>2, <2>2
    <3> QED
      BY <1>1, <3>1 DEF Range
  <2> QED
    BY <2>1, <2>2
<1>6. ASSUME IsInjective(q), e \notin Range(q) PROVE IsInjective(r)
  <2>1. \A j \in 1..Len(q) : q[j] # e
    BY <1>6 DEF Range
  <2>2. \A j, k \in 1..Len(q) : q[j] = q[k] => j = k
    BY <1>6 DEF IsInjective
  <2>3. ASSUME NEW j \in 1..Len(r), NEW k \in 1..Len(r), r[j] = r[k], j < k
        PROVE  FALSE
    <3>1. CASE k < i
      <4>1. j < i /\ j \in 1..Len(q) /\ k \in 1..Len(q)
        BY <1>1, <2>3, <3>1
      <4>2. r[j] = q[j] /\ r[k] = q[k]
        BY Zenon, <1>2, <3>1, <4>1
      <4>3. q[j] = q[k]
        BY <2>3, <4>2, Zenon
      <4>4. j = k
        BY Zenon, <2>2, <4>1, <4>3
      <4> QED
        BY <1>1, <2>3, <4>4
    <3>2. CASE k = i
      BY <1>1, <1>2, <2>1, <2>3, <3>2
    <3>3. CASE k > i
      <4>1. k - 1 \in 1..Len(q) /\ r[k] = q[k - 1]
        BY <1>1, <1>2, <3>3
      <4>2. CASE j < i
        <5>1. j \in 1..Len(q) /\ r[j] = q[j] /\ j # k - 1
          BY <1>1, <1>2, <3>3, <4>2
        <5> QED
          BY Zenon, <2>2, <2>3, <4>1, <5>1
      <4>3. CASE j = i
        BY <1>1, <1>2, <2>1, <2>3, <3>3, <4>1, <4>3
      <4>4. CASE j > i
        BY SMTT(30), <1>1, <1>2, <2>2, <2>3, <3>3, <4>1, <4>4
      <4> QED
        BY <4>2, <4>3, <4>4
    <3> QED
      BY <3>1, <3>2, <3>3
  <2> QED
    BY <1>1, <2>3 DEF IsInjective
<1>7. Range(q) \subseteq Range(r)
  BY <1>5 DEF Range
<1> QED
  BY Zenon, <1>1, <1>3, <1>4, <1>6, <1>7

\* What the queue holds after Enqueue.
LEMMA EnqueueHas ==
    ASSUME NEW q \in Seq(Threads), NEW e \in Threads, NEW hasBlocked, NEW searching
    PROVE  /\ Enqueue(q, e, hasBlocked, searching) \in Seq(Threads)
           /\ Enqueue(q, e, hasBlocked, searching) # <<>>
           /\ Range(Enqueue(q, e, hasBlocked, searching)) = Range(q) \cup {e}
<1>1. PICK i \in 1..(Len(q) + 1) : Inserted(Enqueue(q, e, hasBlocked, searching), q, e, i)
  BY Zenon, EnqueueInserts
<1> QED
  BY Zenon, <1>1, InsertedRange


\* Removing a thread leaves the others.
LEMMA RemoveFirstRemoves ==
    ASSUME NEW q \in Seq(Threads), NEW e \in Threads
    PROVE  LET r == RemoveFirst(q, e)
           IN  /\ r \in Seq(Threads) /\ Range(r) \subseteq Range(q)
               /\ IsInjective(q) => Range(r) = Range(q) \ {e} /\ IsInjective(r)
<1> DEFINE r == RemoveFirst(q, e)
           found == {i \in 1..Len(q) : q[i] = e}
<1>1. CASE found = {}
  <2>1. r = q
    BY Zenon, <1>1 DEF RemoveFirst
  <2> QED
    BY <1>1, <2>1 DEF Range
<1>2. CASE found # {}
  <2> DEFINE k == Min(found)
             a == SubSeq(q, 1, k - 1)
             b == SubSeq(q, k + 1, Len(q))
  <2>1. k \in 1..Len(q) /\ q[k] = e
    <3>1. found \in SUBSET Nat
      OBVIOUS
    <3>2. Min(found) \in found
      BY Zenon, <1>2, <3>1, LeastPosition
    <3> QED
      BY Zenon, <3>2
  <2>2. r = a \o b
    BY <1>2, Zenon DEF RemoveFirst
  <2> HIDE DEF k, r, found
  <2>3. /\ a \in Seq(Threads) /\ Len(a) = k - 1
        /\ \A j \in 1..(k - 1) : a[j] = q[j]
    BY <2>1
  <2>4. /\ b \in Seq(Threads) /\ Len(b) = Len(q) - k
        /\ \A j \in 1..(Len(q) - k) : b[j] = q[k + j]
    BY <2>1
  <2> HIDE DEF a, b
  <2>5. /\ r \in Seq(Threads) /\ Len(r) = Len(q) - 1
        /\ \A j \in 1..(Len(q) - 1) : r[j] = IF j <= k - 1 THEN a[j] ELSE b[j - (k - 1)]
    <3>1. Len(a) = k - 1 /\ Len(a) + Len(b) = Len(q) - 1
      BY <2>1, <2>3, <2>4
    <3>2. /\ r \in Seq(Threads) /\ Len(r) = Len(q) - 1
          /\ \A j \in 1..(Len(q) - 1) : r[j] = IF j <= Len(a) THEN a[j] ELSE b[j - Len(a)]
      BY <2>2, <2>3, <2>4, <3>1
    <3> QED
      BY <3>1, <3>2, Zenon
  <2>6. \A j \in 1..(Len(q) - 1) : r[j] = IF j < k THEN q[j] ELSE q[j + 1]
    <3>1. ASSUME NEW j \in 1..(Len(q) - 1), j < k PROVE r[j] = q[j]
      BY <2>1, <2>3, <2>5, <3>1
    <3>2. ASSUME NEW j \in 1..(Len(q) - 1), j >= k PROVE r[j] = q[j + 1]
      <4>1. j - (k - 1) \in 1..(Len(q) - k) /\ k + (j - (k - 1)) = j + 1 /\ ~(j <= k - 1)
        BY <2>1, <3>2
      <4> QED
        BY Zenon, <2>4, <2>5, <4>1
    <3> QED
      BY <2>1, <3>1, <3>2
  <2>7. Range(r) \subseteq Range(q)
    <3>1. ASSUME NEW j \in 1..Len(r) PROVE r[j] \in Range(q)
      <4>1. CASE j < k
        BY <2>1, <2>5, <2>6, <4>1 DEF Range
      <4>2. CASE j >= k
        <5>1. j + 1 \in 1..Len(q) /\ r[j] = q[j + 1]
          BY <2>1, <2>5, <2>6, <4>2
        <5> QED
          BY <5>1 DEF Range
      <4> QED
        BY <2>1, <2>5, <4>1, <4>2
    <3> QED
      BY <2>5, <3>1 DEF Range
  <2>8. ASSUME IsInjective(q) PROVE Range(r) = Range(q) \ {e} /\ IsInjective(r)
    <3>1. \A i, j \in 1..Len(q) : q[i] = q[j] => i = j
      BY <2>8 DEF IsInjective
    <3>2. ASSUME NEW i \in 1..Len(r), NEW j \in 1..Len(r), r[i] = r[j], i < j
          PROVE  FALSE
      <4>1. CASE j < k
        BY <2>1, <2>5, <2>6, <3>1, <3>2, <4>1
      <4>2. CASE i < k /\ j >= k
        BY SMTT(30), <2>1, <2>5, <2>6, <3>1, <3>2, <4>2
      <4>3. CASE i >= k
        BY <2>1, <2>5, <2>6, <3>1, <3>2, <4>3
      <4> QED
        BY <2>1, <3>2, <4>1, <4>2, <4>3
    <3>3. IsInjective(r)
      BY <2>5, <3>2 DEF IsInjective
    <3>4. \A j \in 1..Len(r) : r[j] # e
      <4>1. ASSUME NEW j \in 1..Len(r), j < k PROVE r[j] # e
        <5>1. j \in 1..Len(q) /\ r[j] = q[j] /\ j # k
          BY <2>1, <2>5, <2>6, <4>1
        <5> QED
          BY Zenon, <2>1, <3>1, <5>1
      <4>2. ASSUME NEW j \in 1..Len(r), j >= k PROVE r[j] # e
        <5>1. j + 1 \in 1..Len(q) /\ r[j] = q[j + 1] /\ j + 1 # k
          BY <2>1, <2>5, <2>6, <4>2
        <5> QED
          BY Zenon, <2>1, <3>1, <5>1
      <4> QED
        BY <2>1, <4>1, <4>2
    <3>5. ASSUME NEW i \in 1..Len(q), q[i] # e PROVE q[i] \in Range(r)
      <4>1. CASE i < k
        BY <2>1, <2>5, <2>6, <4>1 DEF Range
      <4>2. CASE i > k
        <5>1. i - 1 \in 1..Len(r) /\ r[i - 1] = q[i]
          BY <2>1, <2>5, <2>6, <4>2
        <5> QED
          BY <2>5, <5>1 DEF Range
      <4> QED
        BY <2>1, <3>5, <4>1, <4>2
    <3>6. e \notin Range(r)
      BY <2>5, <3>4 DEF Range
    <3>7. Range(q) \ {e} \subseteq Range(r)
      BY <3>5 DEF Range
    <3> QED
      BY Zenon, <2>7, <3>3, <3>6, <3>7
  <2> QED
    BY Zenon, <2>5, <2>7, <2>8 DEF r
<1> QED
  BY Zenon, <1>1, <1>2

\* The subsequence at some positions has exactly the elements at these positions.
LEMMA SubsequenceHas ==
    ASSUME NEW q \in Seq(Threads), NEW S \in SUBSET DOMAIN q, NEW r \in SubsequenceAt(q, S)
    PROVE  /\ r \in Seq(Threads)
           /\ Range(r) = {q[i] : i \in S}
           /\ S # {} => r # <<>>
           /\ IsInjective(q) => IsInjective(r)
<1> DEFINE n == Cardinality(S)
<1>1. PICK f \in [1..n -> S] :
          /\ \A i, j \in 1..n : i < j => f[i] < f[j]
          /\ r = [k \in 1..n |-> q[f[k]]]
  BY Zenon DEF SubsequenceAt
<1>2. IsFiniteSet(S) /\ n \in Nat /\ (S # {} => n # 0)
  <2>1. DOMAIN q = 1..Len(q) /\ Len(q) \in Nat
    OBVIOUS
  <2>2. IsFiniteSet(1..Len(q))
    BY <2>1, FS_Interval
  <2> QED
    BY <2>1, <2>2, FS_Subset, FS_CardinalityType, FS_EmptySet
<1> HIDE DEF n
<1>3. S \subseteq 1..Len(q)
  OBVIOUS
<1>4. r \in Seq(Threads) /\ Len(r) = n /\ \A k \in 1..n : r[k] = q[f[k]]
  BY <1>1, <1>2, <1>3
<1>5. \A i, j \in 1..n : f[i] = f[j] => i = j
  <2>1. \A i \in 1..n : f[i] \in Nat
    BY <1>1, <1>3
  <2> QED
    BY SMTT(30), <1>1, <1>2, <2>1
<1>6. ASSUME NEW s \in S PROVE \E i \in 1..n : f[i] = s
  <2> SUFFICES ASSUME \A i \in 1..n : f[i] # s PROVE FALSE
    BY Zenon
  <2>1. f \in [1..n -> S \ {s}]
    BY Zenon, <1>1
  <2>2. IsFiniteSet(1..n) /\ Cardinality(1..n) = n
    BY <1>2, FS_Interval
  <2>3. IsFiniteSet(S \ {s}) /\ Cardinality(S \ {s}) = n - 1
    BY Zenon, <1>2, FS_RemoveElement DEF n
  <2>4. \E x, y \in 1..n : x # y /\ f[x] = f[y]
    BY <1>2, <2>1, <2>2, <2>3, FS_PigeonHole
  <2> QED
    BY Zenon, <1>5, <2>4
<1>7. Range(r) = {q[i] : i \in S}
  <2>1. Range(r) \subseteq {q[i] : i \in S}
    BY <1>1, <1>4 DEF Range
  <2>2. ASSUME NEW s \in S PROVE q[s] \in Range(r)
    BY <1>4, <1>6 DEF Range
  <2> QED
    BY Zenon, <2>1, <2>2
<1>8. ASSUME IsInjective(q) PROVE IsInjective(r)
  <2>1. \A i, j \in 1..Len(q) : q[i] = q[j] => i = j
    BY <1>8 DEF IsInjective
  <2>2. ASSUME NEW i \in 1..n, NEW j \in 1..n, r[i] = r[j] PROVE i = j
    <3>1. f[i] \in 1..Len(q) /\ f[j] \in 1..Len(q) /\ q[f[i]] = q[f[j]]
      BY Zenon, <1>1, <1>3, <1>4, <2>2
    <3> QED
      BY Zenon, <1>5, <2>1, <3>1
  <2> QED
    BY <1>4, <2>2 DEF IsInjective
<1> QED
  BY <1>2, <1>4, <1>7, <1>8

\* A thread on a queue is at its position.
LEMMA PositionOf ==
    ASSUME NEW q \in Seq(Threads), NEW e \in Range(q)
    PROVE  Position(q, e) \in 1..Len(q) /\ q[Position(q, e)] = e
  BY DEF Position, Range

\* The threads that UnlockSlow wakes are on the queue, the one it settled on among them.
LEMMA WakeableHas ==
    ASSUME queue \in Seq(Threads), NEW w \in Range(queue)
    PROVE  /\ Wakeable(w) \in SUBSET DOMAIN queue
           /\ Position(queue, w) \in Wakeable(w) /\ queue[Position(queue, w)] = w
  BY PositionOf DEF Wakeable
-----------------------------------------------------------------------------
(* How a step of a thread changes the sets of threads the invariant is about. *)

HoldersChange(t, l, h) ==
    /\ Writers' = IF l = "removing" \/ (l \in Holding /\ h = "kExclusive")
                    THEN Writers \cup {t} ELSE Writers \ {t}
    /\ Readers' = IF l \in Holding \cup {"increment"} /\ h = "kShared"
                    THEN Readers \cup {t} ELSE Readers \ {t}
    /\ Counted' = IF l \in Holding /\ h = "kShared"
                    THEN Counted \cup {t} ELSE Counted \ {t}

\* The thread that takes the step joins or leaves the holders; nobody else does.
LEMMA HoldersStep ==
    ASSUME TypeOK, NEW t \in Threads, NEW l, NEW h,
           pc' = [pc EXCEPT ![t] = l], how' = [how EXCEPT ![t] = h]
    PROVE  HoldersChange(t, l, h)
  BY DEF HoldersChange, TypeOK, Writers, Readers, Counted, Holding

\* Who holds the lock, by program counter.
LEMMA HolderIs ==
    ASSUME TypeOK, NEW t \in Threads
    PROVE  /\ t \in Writers <=> pc[t] = "removing" \/ (pc[t] \in Holding /\ how[t] = "kExclusive")
           /\ t \in Readers <=> pc[t] \in Holding \cup {"increment"} /\ how[t] = "kShared"
           /\ t \in Counted <=> pc[t] \in Holding /\ how[t] = "kShared"
           /\ how[t] \in {"kShared", "kExclusive"}
  BY Zenon DEF TypeOK, Writers, Readers, Counted, Holding

\* The counted readers are finitely many.
LEMMA CountedFinite ==
    /\ IsFiniteSet(Counted) /\ Cardinality(Counted) \in Nat
    /\ \A t : /\ Cardinality(Counted \cup {t}) =
                    IF t \in Counted THEN Cardinality(Counted) ELSE Cardinality(Counted) + 1
              /\ Cardinality(Counted \ {t}) =
                    IF t \in Counted THEN Cardinality(Counted) - 1 ELSE Cardinality(Counted)
    /\ Cardinality(Counted) = 0 <=> Counted = {}
    /\ Cardinality(Counted) = 1 => \A x, y \in Counted : x = y
<1>1. Counted \in SUBSET Threads /\ IsFiniteSet(Threads)
  BY MutexAssumption DEF Counted, Readers
<1>2. IsFiniteSet(Counted)
  BY <1>1, FS_Subset
<1>3. Cardinality(Counted) \in Nat
  BY <1>2, FS_CardinalityType
<1>4. \A t : /\ Cardinality(Counted \cup {t}) =
                   IF t \in Counted THEN Cardinality(Counted) ELSE Cardinality(Counted) + 1
            /\ Cardinality(Counted \ {t}) =
                   IF t \in Counted THEN Cardinality(Counted) - 1 ELSE Cardinality(Counted)
  BY <1>2, FS_AddElement, FS_RemoveElement, Zenon
<1>5. Cardinality(Counted) = 0 <=> Counted = {}
  BY <1>2, FS_EmptySet, Zenon
<1>6. Cardinality(Counted) = 1 => \E x : Counted = {x}
  BY <1>2, FS_Singleton, Zenon
<1> QED
  BY <1>2, <1>3, <1>4, <1>5, <1>6

\* The spin bit changes hands only between free and taken.
LEMMA SpinStep ==
    ASSUME TypeOK, SpinInv, NEW t \in Threads, NEW l, pc' = [pc EXCEPT ![t] = l],
           \/ pc[t] \in Spinning /\ l \notin Spinning /\ "kMuSpin" \notin mu'
           \/ "kMuSpin" \notin mu /\ l \in Spinning /\ "kMuSpin" \in mu'
           \/ pc[t] \notin Spinning /\ l \notin Spinning /\ ("kMuSpin" \in mu' <=> "kMuSpin" \in mu)
    PROVE  SpinInv'
  BY DEF TypeOK, SpinInv

\* A step of t changes the locals of t only...
OthersSame(t) ==
    \A u \in Threads \ {t} :
        /\ local'[u] = local[u] /\ wake_list'[u] = wake_list[u]
        /\ u \in requeue' <=> u \in requeue

\* ... and leaves what the owner of the spin bit and a searching unlocker rely on.
OthersRelyOn(t) ==
    \A u \in Threads \ {t} :
        /\ pc[u] \in Spinning => ("kMuWait" \in mu' <=> "kMuWait" \in mu)
        /\ pc[u] = "waiters" => mu' \ {"kMuSpin"} = mu \ {"kMuSpin"}
        /\ local[u].old_h # NoThread => maybe_unlocking' /\ Range(queue) \subseteq Range(queue')

\* What the other threads rely on survives a step of t.
LEMMA ThreadsStep ==
    ASSUME TypeOK, ThreadsInv, NEW t \in Threads, NEW l, NEW h,
           pc' = [pc EXCEPT ![t] = l], how' = [how EXCEPT ![t] = h],
           OthersSame(t), OthersRelyOn(t),
           LocalAt(t)', SearchAt(t)'
    PROVE  ThreadsInv'
<1>1. ASSUME NEW u \in Threads \ {t} PROVE LocalAt(u)' /\ SearchAt(u)'
  <2>1. LocalAt(u) /\ SearchAt(u) /\ pc'[u] = pc[u] /\ how'[u] = how[u]
    BY Zenon DEF TypeOK, ThreadsInv
  <2>2. LocalAt(u)'
    BY <2>1 DEF LocalAt, Spinning, OthersSame, OthersRelyOn
  <2>3. SearchAt(u)'
    BY Zenon, <2>1 DEF SearchAt, OthersSame, OthersRelyOn
  <2> QED
    BY Zenon, <2>2, <2>3
<1> QED
  BY Zenon, <1>1 DEF ThreadsInv

\* A step that leaves the word and the queue alone, and the thread holding what it held.
QuietChange(t, l, h) ==
    /\ pc' = [pc EXCEPT ![t] = l] /\ how' = [how EXCEPT ![t] = h]
    /\ UNCHANGED <<word, queue, readers, maybe_unlocking>>
    /\ pc[t] \notin Spinning /\ l \notin Spinning
    /\ l \in Holding <=> pc[t] \in Holding
    /\ l \in Holding => h = how[t]
    /\ OthersSame(t)

\* It preserves the invariant.
LEMMA QuietStep ==
    ASSUME WordInv, TypeOK', NEW t \in Threads, NEW l, NEW h, QuietChange(t, l, h),
           LocalAt(t)', SearchAt(t)'
    PROVE  WordInv'
<1> USE DEF QuietChange
<1>1. TypeOK /\ Exclusive /\ BitsInv /\ CountInv /\ SpinInv /\ ThreadsInv
  BY Zenon DEF WordInv
<1>2. Writers' = Writers /\ Readers' = Readers /\ Counted' = Counted
  <2>1. l # "removing" /\ l # "increment" /\ pc[t] # "removing" /\ pc[t] # "increment"
    BY Zenon DEF Spinning
  <2>2. /\ Writers' = IF l \in Holding /\ h = "kExclusive" THEN Writers \cup {t} ELSE Writers \ {t}
        /\ Readers' = IF l \in Holding /\ h = "kShared" THEN Readers \cup {t} ELSE Readers \ {t}
        /\ Counted' = IF l \in Holding /\ h = "kShared" THEN Counted \cup {t} ELSE Counted \ {t}
    <3>1. HoldersChange(t, l, h)
      BY <1>1, HoldersStep, Zenon
    <3> QED
      BY <2>1, <3>1 DEF HoldersChange
  <2>3. /\ t \in Writers <=> pc[t] \in Holding /\ how[t] = "kExclusive"
        /\ t \in Readers <=> pc[t] \in Holding /\ how[t] = "kShared"
        /\ t \in Counted <=> pc[t] \in Holding /\ how[t] = "kShared"
    BY <1>1, <2>1, HolderIs
  <2> QED
    BY <2>2, <2>3
<1>3. Exclusive' /\ BitsInv' /\ CountInv'
  BY <1>1, <1>2 DEF Exclusive, BitsInv, CountInv, word
<1>4. SpinInv'
  <2>1. "kMuSpin" \in mu' <=> "kMuSpin" \in mu
    BY Zenon DEF word
  <2> QED
    BY <1>1, <2>1, SpinStep, Zenon
<1>5. ThreadsInv'
  <2>1. \A u \in Threads : SearchAt(u)
    BY Zenon, <1>1 DEF ThreadsInv
  <2>2. OthersRelyOn(t)
    BY Zenon, <2>1 DEF OthersRelyOn, SearchAt, word
  <2> QED
    BY <1>1, <2>2, ThreadsStep, Zenon
<1> QED
  BY <1>3, <1>4, <1>5 DEF WordInv

\* A quiet step of a thread that neither unlocks nor wakes anybody.
PlainChange(t, l, h) ==
    /\ pc' = [pc EXCEPT ![t] = l] /\ how' = [how EXCEPT ![t] = h]
    /\ UNCHANGED <<word, queue, readers, maybe_unlocking, local, wake_list>>
    /\ \A u \in Threads \ {t} : u \in requeue' <=> u \in requeue
    /\ pc[t] \notin Spinning \cup {"unlock", "search", "wake", "post", "ferpost"}
    /\ l \notin Spinning \cup {"wake", "post", "fer", "ferpost", "search"}
    /\ l \in Holding <=> pc[t] \in Holding
    /\ l \in Holding => h = how[t]

\* It preserves the invariant.
LEMMA PlainStep ==
    ASSUME WordInv, TypeOK', NEW t \in Threads, NEW l, NEW h, PlainChange(t, l, h)
    PROVE  WordInv'
<1> USE DEF PlainChange
<1>1. TypeOK /\ LocalAt(t) /\ SearchAt(t)
  BY Zenon DEF WordInv, ThreadsInv
<1>2. pc'[t] = l /\ local'[t] = local[t] /\ wake_list'[t] = wake_list[t]
  BY <1>1 DEF TypeOK
<1>3. LocalAt(t)'
  BY Zenon, <1>2 DEF LocalAt, Spinning
<1>4. SearchAt(t)'
  BY Zenon, <1>1, <1>2 DEF SearchAt, Spinning
<1>5. OthersSame(t)
  BY Zenon DEF OthersSame
<1>6. QuietChange(t, l, h)
  BY <1>5, Zenon DEF QuietChange
<1> QED
  BY <1>3, <1>4, <1>6, QuietStep

-----------------------------------------------------------------------------
(* Every step preserves WordInv: first the steps that leave the word alone. *)

\* The steps that neither touch the word nor wake anybody.
LEMMA PlainSteps ==
    ASSUME WordInv, NEW t \in Threads,
           \/ FastFails(t) \/ Unblocked(t) \/ DecrementSynchSem(t) \/ TimesOut(t)
           \/ TryRemoveFails(t) \/ RemoveAgain(t) \/ Removed(t) \/ Write(t) \/ Unlock(t) \/ Await(t)
           \/ Trans(t) \/ CvTimesOut(t) \/ CvWait(t) \/ CvRemove(t) \/ Call(t)
    PROVE  WordInv'
<1>0. TypeOK
  BY Zenon DEF WordInv
<1>1. CASE FastFails(t)
  <2>1. PICK l \in {"slow", "idle"} : pc' = [pc EXCEPT ![t] = l]
    BY Zenon, <1>1 DEF FastFails, Goto
  <2>2. TypeOK'
    BY <1>1, <2>1, <1>0 DEF TypeOK, FastFails, word, waiters, waitp, rest, Pcs
  <2>3. PlainChange(t, l, how[t])
    BY <1>1, <2>1, <1>0 DEF PlainChange, TypeOK, FastFails, word, waiters, waitp, Spinning, Holding
  <2> QED
    BY <2>2, <2>3, PlainStep
<1>2. CASE Unblocked(t)
  <2>1. TypeOK'
    BY <1>2, <1>0, MutexAssumption DEF TypeOK, Unblocked, Goto, word, waiters, waitp, rest, Pcs
  <2>2. PlainChange(t, "slow", how[t])
    BY Zenon, <1>2, <1>0 DEF PlainChange, TypeOK, Unblocked, Goto, word, waiters, waitp, Spinning, Holding
  <2> QED
    BY <2>1, <2>2, PlainStep
<1>3. CASE DecrementSynchSem(t)
  <2>1. TypeOK'
    BY <1>3, <1>0, MutexAssumption DEF TypeOK, DecrementSynchSem, Goto, word, waiters, waitp, rest, Pcs
  <2>2. PlainChange(t, pc[t], how[t])
    BY Zenon, <1>3, <1>0 DEF PlainChange, TypeOK, DecrementSynchSem, Goto, word, waiters, waitp, Spinning, Holding
  <2> QED
    BY <2>1, <2>2, PlainStep
<1>4. CASE TimesOut(t)
  <2>1. TypeOK'
    BY <1>4, <1>0, MutexAssumption DEF TypeOK, TimesOut, Goto, word, waiters, waitp, rest, Pcs
  <2>2. PlainChange(t, "remove", how[t])
    BY <1>4, <1>0 DEF PlainChange, TypeOK, TimesOut, Goto, word, waiters, waitp, Spinning, Holding
  <2> QED
    BY Zenon, <2>1, <2>2, PlainStep
<1>5. CASE TryRemoveFails(t)
  <2>1. TypeOK'
    BY <1>5, <1>0, MutexAssumption DEF TypeOK, TryRemoveFails, Goto, word, waiters, waitp, rest, Pcs
  <2>2. PlainChange(t, "recheck", how[t])
    BY <1>5, <1>0 DEF PlainChange, TypeOK, TryRemoveFails, Goto, word, waiters, waitp, Spinning, Holding
  <2> QED
    BY <2>1, <2>2, PlainStep
<1>6. CASE RemoveAgain(t)
  <2>1. TypeOK'
    BY <1>6, <1>0, MutexAssumption DEF TypeOK, RemoveAgain, Goto, word, waiters, waitp, rest, Pcs
  <2>2. PlainChange(t, "remove", how[t])
    BY <1>6, <1>0 DEF PlainChange, TypeOK, RemoveAgain, Goto, word, waiters, waitp, Spinning, Holding
  <2> QED
    BY Zenon, <2>1, <2>2, PlainStep
<1>7. CASE Removed(t)
  <2>1. TypeOK'
    BY <1>7, <1>0, MutexAssumption DEF TypeOK, Removed, Goto, word, waiters, waitp, rest, Pcs
  <2>2. PlainChange(t, "block", how[t])
    BY <1>7, <1>0 DEF PlainChange, TypeOK, Removed, Goto, word, waiters, waitp, Spinning, Holding
  <2> QED
    BY <2>1, <2>2, PlainStep
<1>8. CASE Write(t)
  <2>1. TypeOK'
    BY <1>8, <1>0, MutexAssumption DEF TypeOK, Write, Goto, word, waiters, waitp, rest, Pcs
  <2>2. PlainChange(t, pc[t], how[t])
    BY <1>8, <1>0 DEF PlainChange, TypeOK, Write, Goto, word, waiters, waitp, Spinning, Holding
  <2> QED
    BY Zenon, <2>1, <2>2, PlainStep
<1>9. CASE Unlock(t)
  <2>1. TypeOK'
    BY <1>9, <1>0, MutexAssumption DEF TypeOK, Unlock, Goto, word, waiters, waitp, rest, Pcs
  <2>2. PlainChange(t, "unlock", how[t])
    BY <1>9, <1>0 DEF PlainChange, TypeOK, Unlock, Goto, word, waiters, waitp, Spinning, Holding
  <2> QED
    BY <2>1, <2>2, PlainStep
<1>10. CASE Await(t)
  <2>1. TypeOK'
    BY <1>10, <1>0, MutexAssumption DEF TypeOK, Await, Goto, word, waiters, waitp, rest, Pcs
  <2>2. PlainChange(t, "unlock", how[t])
    BY Zenon, <1>10, <1>0 DEF PlainChange, TypeOK, Await, Goto, word, waiters, waitp, Spinning, Holding
  <2> QED
    BY Zenon, <2>1, <2>2, PlainStep
<1>11. CASE Trans(t)
  <2>1. TypeOK'
    BY <1>11, <1>0, MutexAssumption DEF TypeOK, Trans, Goto, word, waiters, waitp, rest, Pcs
  <2>2. PlainChange(t, "fast", how[t])
    BY Zenon, <1>11, <1>0 DEF PlainChange, TypeOK, Trans, Goto, word, waiters, waitp, Spinning, Holding
  <2> QED
    BY <2>1, <2>2, PlainStep
<1>12. CASE CvTimesOut(t)
  <2>1. TypeOK'
    BY <1>12, <1>0, MutexAssumption, SMTT(30) DEF TypeOK, CvTimesOut, Goto, word, waiters, waitp, rest, Pcs
  <2>2. PlainChange(t, "cvremove", how[t])
    BY <1>12, <1>0 DEF PlainChange, TypeOK, CvTimesOut, Goto, word, waiters, waitp, Spinning, Holding
  <2> QED
    BY Zenon, <2>1, <2>2, PlainStep
<1>13. CASE CvWait(t)
  <2>1. TypeOK'
    <3>1. PICK op \in Ops : timed' = [timed EXCEPT ![t] = op.timed]
      BY Zenon, <1>13 DEF CvWait
    <3>2. op.timed \in BOOLEAN
      BY Zenon, MutexAssumption
    <3> QED
      BY <1>13, <3>1, <3>2, <1>0, Zenon DEF TypeOK, CvWait, Goto, word, waiters, rest, Pcs
  <2>2. PlainChange(t, "unlock", how[t])
    BY Zenon, <1>13, <1>0 DEF PlainChange, TypeOK, CvWait, Goto, word, waiters, waitp, Spinning, Holding
  <2> QED
    BY Zenon, <2>1, <2>2, PlainStep
<1>14. CASE CvRemove(t)
  <2>1. cv' \in Seq(Threads)
    BY <1>14, RemoveFirstRemoves, <1>0 DEF TypeOK, CvRemove
  <2>2. TypeOK'
    BY <1>14, <2>1, <1>0 DEF TypeOK, CvRemove, Goto, word, waiters, waitp, rest, Pcs
  <2>3. PlainChange(t, "cvwait", how[t])
    BY <1>14, <1>0 DEF PlainChange, TypeOK, CvRemove, Goto, word, waiters, waitp, Spinning, Holding
  <2> QED
    BY <2>2, <2>3, PlainStep
<1>15. CASE Call(t)
  <2>1. PICK op \in Ops, l \in {"try", "fast"} :
           /\ how' = [how EXCEPT ![t] = op.how] /\ cond' = [cond EXCEPT ![t] = op.cond]
           /\ timed' = [timed EXCEPT ![t] = op.timed] /\ pc' = [pc EXCEPT ![t] = l]
    <3>1. PICK op \in Ops : /\ how' = [how EXCEPT ![t] = op.how] /\ cond' = [cond EXCEPT ![t] = op.cond]
                           /\ timed' = [timed EXCEPT ![t] = op.timed]
                           /\ pc' = [pc EXCEPT ![t] = IF op.try THEN "try" ELSE "fast"]
      BY <1>15, Zenon DEF Call, Goto
    <3> QED
      BY <3>1, Zenon
  <2>2. /\ op.timed \in BOOLEAN /\ op.how \in {"kShared", "kExclusive"}
        /\ op.cond \in {"null", "set", "clear"}
    BY Zenon, MutexAssumption
  <2>3. /\ UNCHANGED <<word, waiters, cv, sem, cv_word, blocked, requeue, local, wake_list, flag>>
        /\ pc[t] = "idle"
    BY Zenon, <1>15 DEF Call
  <2>4. TypeOK'
    <3>1. how' \in [Threads -> {"kShared", "kExclusive"}]
      BY <1>0, <2>1, <2>2 DEF TypeOK
    <3>2. cond' \in [Threads -> {"null", "set", "clear"}]
      BY <1>0, <2>1, <2>2 DEF TypeOK
    <3>3. timed' \in [Threads -> BOOLEAN]
      BY <1>0, <2>1, <2>2 DEF TypeOK
    <3>4. pc' \in [Threads -> Pcs]
      BY <1>0, <2>1 DEF TypeOK, Pcs
    <3> QED
      BY <1>0, <2>3, <3>1, <3>2, <3>3, <3>4 DEF TypeOK, word, waiters
  <2>5. PlainChange(t, l, op.how)
    BY <1>0, <2>1, <2>3 DEF PlainChange, TypeOK, word, waiters, Spinning, Holding
  <2> QED
    BY <2>4, <2>5, PlainStep
<1> QED
  BY SMTT(30), <1>1, <1>2, <1>3, <1>4, <1>5, <1>6, <1>7, <1>8, <1>9, <1>10, <1>11, <1>12, <1>13, <1>14, <1>15

\* The end of an unlock: the thread waits or returns, and forgets its locals.
LEMMA ReleasedIs ==
    ASSUME TypeOK, NEW t \in Threads, Released(t)
    PROVE  /\ \E l \in {"cvwait", "block", "idle"} : pc' = [pc EXCEPT ![t] = l]
           /\ local'[t] = NoLocal /\ \A u \in Threads \ {t} : local'[u] = local[u]
           /\ \A u \in Threads \ {t} : u \in requeue' <=> u \in requeue
           /\ cv_word' \subseteq Threads /\ requeue' \subseteq Threads
           /\ local' \in [Threads -> LocalRecs]
<1>1. \E l \in {"cvwait", "block", "idle"} : pc' = [pc EXCEPT ![t] = l]
  BY Zenon DEF Released, Goto
<1>2. NoLocal \in LocalRecs
  BY Zenon DEF NoLocal, LocalRecs, Bits
<1>3. local \in [Threads -> LocalRecs] /\ local' = [local EXCEPT ![t] = NoLocal]
  BY Zenon DEF TypeOK, LocalRecs, Released
<1>4. /\ local'[t] = NoLocal /\ \A u \in Threads \ {t} : local'[u] = local[u]
      /\ local' \in [Threads -> LocalRecs]
  BY <1>2, <1>3, Zenon
<1>5. /\ \A u \in Threads \ {t} : u \in requeue' <=> u \in requeue
      /\ cv_word' \subseteq Threads /\ requeue' \subseteq Threads
  BY Zenon DEF Released, TypeOK
<1> QED
  BY <1>1, <1>4, <1>5, Zenon

\* Changing one of the locals.
LEMMA LocalSet ==
    ASSUME TypeOK, NEW t \in Threads
    PROVE  /\ local \in [Threads -> LocalRecs]
           /\ \A x \in Threads \cup {NoThread} : [local[t] EXCEPT !.w = x] \in LocalRecs
           /\ \A x \in SUBSET Bits : [local[t] EXCEPT !.v = x] \in LocalRecs
           /\ \A x \in SUBSET {"kMuWrWait"} : [local[t] EXCEPT !.wr_wait = x] \in LocalRecs
<1>1. local \in [Threads -> LocalRecs]
  BY Zenon DEF TypeOK, LocalRecs
<1>2. local[t] \in LocalRecs
  BY Zenon, <1>1
<1>3. \A x \in Threads \cup {NoThread} : [local[t] EXCEPT !.w = x] \in LocalRecs
  BY Zenon, <1>2 DEF LocalRecs
<1>4. \A x \in SUBSET Bits : [local[t] EXCEPT !.v = x] \in LocalRecs
  BY Zenon, <1>2 DEF LocalRecs
<1>5. \A x \in SUBSET {"kMuWrWait"} : [local[t] EXCEPT !.wr_wait = x] \in LocalRecs
  BY Zenon, <1>2 DEF LocalRecs
<1> QED
  BY <1>1, <1>3, <1>4, <1>5, Zenon

\* The head and the tail of a list of threads.
LEMMA HeadAndTail ==
    ASSUME NEW q \in Seq(Threads), q # <<>>
    PROVE  /\ Head(q) \in Threads /\ Tail(q) \in Seq(Threads)
           /\ <<Head(q)>> \in Seq(Threads) /\ Range(q) = {Head(q)} \cup Range(Tail(q))
<1>1. Head(q) \in Threads /\ Tail(q) \in Seq(Threads) /\ Head(q) = q[1] /\ Len(q) >= 1
  OBVIOUS
<1>2. /\ Len(Tail(q)) = Len(q) - 1 /\ DOMAIN Tail(q) = 1..Len(Tail(q))
      /\ \A i \in 1..Len(Tail(q)) : Tail(q)[i] = q[i + 1]
  OBVIOUS
<1>3. ASSUME NEW x PROVE x \in Range(q) <=> x = Head(q) \/ x \in Range(Tail(q))
  <2>1. ASSUME x \in Range(q) PROVE x = Head(q) \/ x \in Range(Tail(q))
    <3>1. PICK i \in 1..Len(q) : x = q[i]
      BY <2>1 DEF Range
    <3>2. CASE i = 1
      BY Zenon, <3>1, <3>2, <1>1
    <3>3. CASE i # 1
      <4>1. i - 1 \in 1..Len(Tail(q)) /\ Tail(q)[i - 1] = x
        BY <3>1, <3>3, <1>2
      <4> QED
        BY <4>1, <1>2, Zenon DEF Range
    <3> QED
      BY <3>2, <3>3
  <2>2. ASSUME x \in Range(Tail(q)) PROVE x \in Range(q)
    <3>1. PICK i \in 1..Len(Tail(q)) : x = Tail(q)[i]
      BY <2>2, <1>1 DEF Range
    <3>2. i + 1 \in 1..Len(q) /\ q[i + 1] = x
      BY <3>1, <1>2
    <3> QED
      BY <3>2 DEF Range
  <2>3. Head(q) \in Range(q)
    BY <1>1 DEF Range
  <2> QED
    BY <2>1, <2>2, <2>3
<1> QED
  BY <1>1, <1>3

\* A signaller goes on to the next thread, if there is one.
LEMMA NextFerIs ==
    ASSUME TypeOK, NEW t \in Threads, LocalAt(t), pc[t] \in {"fer", "ferspin"}, NextFer(t)
    PROVE  /\ \E l \in {"block", "idle", "fer"} :
                 pc' = [pc EXCEPT ![t] = l] /\ (l = "fer" => wake_list'[t] # <<>>)
           /\ wake_list' \in [Threads -> Seq(Threads)]
           /\ \A u \in Threads \ {t} : wake_list'[u] = wake_list[u]
           /\ wake_list[t] \in Seq(Threads) /\ wake_list[t] # <<>> /\ Head(wake_list[t]) \in Threads
<1>1. wake_list[t] \in Seq(Threads) /\ wake_list[t] # <<>>
  BY Zenon DEF TypeOK, LocalAt
<1>2. Tail(wake_list[t]) \in Seq(Threads) /\ Head(wake_list[t]) \in Threads
  BY Zenon, <1>1, HeadAndTail
<1>3. wake_list' = [wake_list EXCEPT ![t] = Tail(wake_list[t])]
  BY Zenon DEF NextFer
<1>4. /\ wake_list' \in [Threads -> Seq(Threads)] /\ wake_list'[t] = Tail(wake_list[t])
      /\ \A u \in Threads \ {t} : wake_list'[u] = wake_list[u]
  BY <1>2, <1>3 DEF TypeOK
<1>5. PICK l \in {"idle", "fer"} : pc' = [pc EXCEPT ![t] = l] /\ (l = "fer" => Tail(wake_list[t]) # <<>>)
  BY Zenon DEF NextFer, Goto
<1> QED
  BY <1>1, <1>2, <1>4, <1>5, Zenon

\* The part of the queue that a search walks.
LEMMA PathHas ==
    ASSUME TypeOK, NEW t \in Threads, SearchAt(t), pc[t] = "search"
    PROVE  SearchPath(t) \in Seq(Threads) /\ Range(SearchPath(t)) \subseteq Range(queue)
<1> DEFINE m == Position(queue, local[t].from)
           n == Position(queue, local[t].old_h)
<1>1. m \in 1..Len(queue) /\ n \in 1..Len(queue) /\ queue \in Seq(Threads)
  BY Zenon, PositionOf DEF SearchAt, TypeOK
<1> HIDE DEF m, n
<1>2. SubSeq(queue, m, n) \in Seq(Threads)
  BY <1>1
<1>3. ASSUME NEW i \in DOMAIN SubSeq(queue, m, n)
      PROVE  SubSeq(queue, m, n)[i] \in Range(queue)
  <2>1. m + i - 1 \in 1..Len(queue) /\ SubSeq(queue, m, n)[i] = queue[m + i - 1]
    BY <1>1
  <2> QED
    BY <2>1, <1>1 DEF Range
<1> QED
  BY Zenon, <1>2, <1>3 DEF Range, SearchPath, m, n

\* What a walk leaves in the locals: the first waiter that may run, if it had none before.
LEMMA WalkIs ==
    ASSUME TypeOK, NEW t \in Threads, SearchAt(t), Walk(t)
    PROVE  /\ wake' \subseteq Threads
           /\ \E w \in Threads \cup {NoThread}, wr_wait \in SUBSET {"kMuWrWait"} :
                 /\ local' = [local EXCEPT ![t] = [v |-> {}, w |-> w, old_h |-> local[t].old_h,
                                                   from |-> NoThread, wr_wait |-> wr_wait]]
                 /\ w # NoThread => w \in Range(queue)
                 /\ w = NoThread =>
                       local[t].w = NoThread /\ \A i \in DOMAIN SearchPath(t) : ~Eval(cond[SearchPath(t)[i]])
<1> DEFINE path == SearchPath(t)
           ready == {i \in DOMAIN path : Eval(cond[path[i]])}
           first == CHOOSE i \in ready : \A j \in ready : i <= j
           w == IF local[t].w = NoThread /\ ready # {} THEN path[first] ELSE local[t].w
           bail == local[t].w = NoThread /\ ready # {} /\ how[w] = "kExclusive"
           seen == IF bail THEN 1..first ELSE DOMAIN path
           woken == {path[i] : i \in {i \in ready \cap seen : how[path[i]] = "kShared" \/ path[i] = w}}
           wr_wait == IF \E i \in ready : how[path[i]] = "kExclusive" THEN {"kMuWrWait"} ELSE local[t].wr_wait
<1>2. /\ wake' = (wake \ {path[i] : i \in seen}) \cup woken
      /\ local' = [local EXCEPT ![t] = [v |-> {}, w |-> w, old_h |-> local[t].old_h,
                                        from |-> NoThread, wr_wait |-> wr_wait]]
  BY Zenon DEF Walk, SearchPath
<1>1. pc[t] = "search"
  BY Zenon DEF Walk
<1>3. path \in Seq(Threads) /\ Range(path) \subseteq Range(queue)
  BY Zenon, <1>1, PathHas
<1> HIDE DEF path, first, seen, bail, w, wr_wait
<1>4. \A i \in DOMAIN path : path[i] \in Threads /\ path[i] \in Range(queue)
  <2>1. \A i \in DOMAIN path : path[i] \in Range(queue)
    BY <1>3, Zenon DEF Range
  <2> QED
    BY <1>3, <2>1
<1>5. wake' \subseteq Threads
  <2>1. \A x \in wake' : x \in wake \/ \E i \in DOMAIN path : x = path[i]
    BY <1>2, Zenon
  <2> QED
    BY <1>4, <2>1 DEF TypeOK
<1>6. ready # {} => first \in ready
  <2> DEFINE R == ready
  <2>1. R \in SUBSET Nat
    <3>1. DOMAIN path = 1..Len(path) /\ Len(path) \in Nat
      BY <1>3
    <3>2. 1..Len(path) \subseteq Nat
      OBVIOUS
    <3> QED
      BY <3>1, <3>2
  <2> HIDE DEF R
  <2>2. R # {} => Min(R) \in R /\ \A y \in R : Min(R) <= y
    BY <2>1, LeastPosition
  <2> QED
    <3>1. first = Min(R)
      BY Zenon DEF R, Min, first
    <3> QED
      BY <2>2, <3>1, Zenon DEF R
<1>7. ready \subseteq DOMAIN path /\ (ready = {} => \A i \in DOMAIN path : ~Eval(cond[path[i]]))
  BY Zenon
<1> HIDE DEF ready
<1>8. local[t].w \in Threads \cup {NoThread} /\ local[t].wr_wait \in SUBSET {"kMuWrWait"}
  BY Zenon DEF TypeOK, LocalRecs
<1>9. local[t].w # NoThread => local[t].w \in Range(queue)
  BY Zenon, <1>1 DEF SearchAt
<1>10. w \in Threads \cup {NoThread} /\ (w # NoThread => w \in Range(queue))
  <2>1. CASE local[t].w = NoThread /\ ready # {}
    BY <2>1, <1>4, <1>6, <1>7 DEF w
  <2>2. CASE ~(local[t].w = NoThread /\ ready # {})
    BY Zenon, <2>2, <1>8, <1>9 DEF w
  <2> QED
    BY <2>1, <2>2
<1>11. w = NoThread => ready = {} /\ local[t].w = NoThread
  BY Zenon, <1>4, <1>6, <1>7, MutexAssumption DEF w
<1>12. wr_wait \in SUBSET {"kMuWrWait"}
  BY Zenon, <1>8 DEF wr_wait
<1>13. w = NoThread => local[t].w = NoThread /\ \A i \in DOMAIN path : ~Eval(cond[path[i]])
  BY Zenon, <1>7, <1>11
<1> QED
  BY <1>2, <1>5, <1>10, <1>12, <1>13, Zenon DEF path

\* The walk of a search.
LEMMA WalkWord ==
    ASSUME WordInv, NEW t \in Threads, Walk(t)
    PROVE  WordInv'
<1>1. TypeOK /\ LocalAt(t) /\ SearchAt(t)
  BY Zenon DEF WordInv, ThreadsInv
<1>2. /\ pc[t] = "search" /\ pc' = [pc EXCEPT ![t] = "unlock"]
      /\ UNCHANGED <<word, queue, readers, maybe_unlocking, cv, sem, waitp, cv_word, blocked, requeue, wake_list, rest>>
  BY Zenon DEF Walk, Goto
<1>3. wake' \subseteq Threads
  BY <1>1, WalkIs, Zenon
<1>4. PICK w \in Threads \cup {NoThread}, wr_wait \in SUBSET {"kMuWrWait"} :
          /\ local' = [local EXCEPT ![t] = [v |-> {}, w |-> w, old_h |-> local[t].old_h,
                                            from |-> NoThread, wr_wait |-> wr_wait]]
          /\ w # NoThread => w \in Range(queue)
  BY <1>1, WalkIs, Zenon
<1>5. /\ local' \in [Threads -> LocalRecs]
      /\ local'[t].w = w /\ local'[t].old_h = local[t].old_h
      /\ \A u \in Threads \ {t} : local'[u] = local[u]
  <2>1. local \in [Threads -> LocalRecs]
    BY Zenon, <1>1 DEF TypeOK, LocalRecs
  <2>2. [v |-> {}, w |-> w, old_h |-> local[t].old_h, from |-> NoThread, wr_wait |-> wr_wait] \in LocalRecs
    BY Zenon, <2>1 DEF LocalRecs
  <2>3. /\ local' \in [Threads -> LocalRecs] /\ \A u \in Threads \ {t} : local'[u] = local[u]
        /\ local'[t] = [v |-> {}, w |-> w, old_h |-> local[t].old_h, from |-> NoThread, wr_wait |-> wr_wait]
    BY <1>4, <2>1, <2>2, Zenon
  <2>4. local'[t].w = w /\ local'[t].old_h = local[t].old_h
    BY <2>3
  <2> QED
    BY <2>3, <2>4, Zenon
<1>6. TypeOK'
  <2>1. pc' \in [Threads -> Pcs]
    BY Zenon, <1>1, <1>2 DEF TypeOK, Pcs
  <2> QED
    BY Zenon, <1>1, <1>2, <1>3, <1>5, <2>1 DEF TypeOK, word, waitp, rest
<1>7. pc'[t] = "unlock"
  BY Zenon, <1>1, <1>2 DEF TypeOK
<1>8. LocalAt(t)'
  BY Zenon, <1>7 DEF LocalAt
<1>9. SearchAt(t)'
  BY <1>1, <1>2, <1>4, <1>5, <1>7 DEF SearchAt
<1>10. QuietChange(t, "unlock", how[t])
  BY <1>1, <1>2, <1>5 DEF QuietChange, OthersSame, TypeOK, word, waitp, Spinning, Holding
<1> QED
  BY <1>6, <1>8, <1>9, <1>10, QuietStep

\* Taking a thread off the list of those to be woken, by an unlocker and by a signaller.
LEMMA HandOverWord ==
    ASSUME WordInv, NEW t \in Threads, Wakeup(t) \/ FerWake(t)
    PROVE  WordInv'
<1>1. TypeOK /\ LocalAt(t) /\ SearchAt(t)
  BY Zenon DEF WordInv, ThreadsInv
<1>2. PICK l \in {"post", "ferpost"} : pc' = [pc EXCEPT ![t] = l]
  BY Zenon DEF Wakeup, FerWake, Goto
<1>3. /\ pc[t] \in {"wake", "fer"}
      /\ wake_list' = [wake_list EXCEPT ![t] = Tail(wake_list[t])]
      /\ local' = [local EXCEPT ![t] = [local[t] EXCEPT !.w = Head(wake_list[t])]]
      /\ UNCHANGED <<word, waiters, cv, sem, waitp, cv_word, blocked, requeue, rest>>
  BY Zenon DEF Wakeup, FerWake
<1>4. wake_list[t] \in Seq(Threads) /\ wake_list[t] # <<>>
  BY <1>1, <1>3 DEF TypeOK, LocalAt
<1>5. /\ wake_list' \in [Threads -> Seq(Threads)]
      /\ \A u \in Threads \ {t} : wake_list'[u] = wake_list[u]
  BY <1>1, <1>3, <1>4, HeadAndTail DEF TypeOK
<1>6. /\ local' \in [Threads -> LocalRecs]
      /\ local'[t] = [local[t] EXCEPT !.w = Head(wake_list[t])]
      /\ \A u \in Threads \ {t} : local'[u] = local[u]
  BY <1>1, <1>3, <1>4, HeadAndTail, LocalSet
<1>7. TypeOK'
  <2>1. pc' \in [Threads -> Pcs]
    BY <1>1, <1>2 DEF TypeOK, Pcs
  <2> QED
    BY <1>1, <1>3, <1>5, <1>6, <2>1 DEF TypeOK, word, waiters, waitp, rest
<1>8. pc'[t] = l
  BY Zenon, <1>1, <1>2 DEF TypeOK
<1>9. LocalAt(t)'
  <2>1. local'[t].w \in Threads
    BY <1>1, <1>4, <1>6, HeadAndTail DEF TypeOK, LocalRecs
  <2> QED
    BY Zenon, <1>8, <2>1 DEF LocalAt
<1>10. SearchAt(t)'
  <2>1. local[t].old_h = NoThread
    BY Zenon, <1>1, <1>3 DEF SearchAt
  <2>2. local'[t].old_h = NoThread
    BY <1>1, <1>6, <2>1 DEF TypeOK, LocalRecs
  <2> QED
    BY Zenon, <1>8, <2>2 DEF SearchAt
<1>11. QuietChange(t, l, how[t])
  BY Zenon, <1>1, <1>2, <1>3, <1>5, <1>6 DEF QuietChange, OthersSame, TypeOK, word, waiters, waitp, Spinning, Holding
<1> QED
  BY <1>7, <1>9, <1>10, <1>11, QuietStep

\* Posting to the semaphore of the thread taken off the list.
LEMMA PostWord ==
    ASSUME WordInv, NEW t \in Threads, Post(t) \/ FerPost(t)
    PROVE  WordInv'
<1>1. TypeOK /\ LocalAt(t) /\ SearchAt(t)
  BY Zenon DEF WordInv, ThreadsInv
<1>2. /\ pc[t] \in {"post", "ferpost"}
      /\ sem' = [sem EXCEPT ![local[t].w] = @ + 1]
      /\ UNCHANGED <<word, waiters, cv, waitp, blocked, wake_list, rest>>
  BY Zenon DEF Post, FerPost
<1>3. sem' \in [Threads -> Nat]
  <2>1. sem \in [Threads -> Nat] /\ local[t].w \in Threads
    BY Zenon, <1>1, <1>2 DEF TypeOK, LocalAt
  <2> QED
    BY <1>2, <2>1
<1>4. /\ \E l \in {"wake", "fer", "cvwait", "block", "idle"} :
            pc' = [pc EXCEPT ![t] = l] /\ (l \in {"wake", "fer"} => wake_list[t] # <<>>)
      /\ local'[t].old_h = NoThread /\ (local'[t].w # NoThread => pc'[t] = "wake")
      /\ \A u \in Threads \ {t} : local'[u] = local[u]
      /\ \A u \in Threads \ {t} : u \in requeue' <=> u \in requeue
      /\ cv_word' \subseteq Threads /\ requeue' \subseteq Threads
      /\ local' \in [Threads -> LocalRecs]
  <2>1. CASE Post(t) /\ wake_list[t] # <<>>
    <3>1. pc' = [pc EXCEPT ![t] = "wake"] /\ UNCHANGED <<cv_word, requeue, local>> /\ pc[t] = "post"
      BY Zenon, <2>1 DEF Post, Goto
    <3>2. local[t].old_h = NoThread
      BY Zenon, <1>1, <3>1 DEF SearchAt
    <3> QED
      BY Zenon, <1>1, <2>1, <3>1, <3>2 DEF TypeOK
  <2>2. CASE Post(t) /\ wake_list[t] = <<>>
    <3>1. Released(t)
      BY Zenon, <2>2 DEF Post
    <3> QED
      BY <1>1, <3>1, ReleasedIs DEF NoLocal
  <2>3. CASE FerPost(t)
    <3>1. NoLocal \in LocalRecs
      BY Zenon DEF NoLocal, LocalRecs
    <3>2. local' = [local EXCEPT ![t] = NoLocal] /\ UNCHANGED <<cv_word, requeue>>
      BY Zenon, <2>3 DEF FerPost
    <3>3. PICK l \in {"idle", "fer"} : pc' = [pc EXCEPT ![t] = l] /\ (l = "fer" => wake_list[t] # <<>>)
      BY <2>3, Zenon DEF FerPost, Goto
    <3>4. local'[t] = NoLocal
      BY <1>1, <3>2 DEF TypeOK
    <3>5. local'[t].old_h = NoThread /\ local'[t].w = NoThread
      BY <3>4 DEF NoLocal
    <3>6. local' \in [Threads -> LocalRecs] /\ \A u \in Threads \ {t} : local'[u] = local[u]
      BY <1>1, <3>1, <3>2 DEF TypeOK
    <3>7. /\ \A u \in Threads \ {t} : u \in requeue' <=> u \in requeue
          /\ cv_word' \subseteq Threads /\ requeue' \subseteq Threads
      BY <1>1, <3>2 DEF TypeOK
    <3> QED
      BY <3>3, <3>5, <3>6, <3>7, Zenon
  <2> QED
    BY Zenon, <2>1, <2>2, <2>3
<1>5. PICK l \in {"wake", "fer", "cvwait", "block", "idle"} :
          pc' = [pc EXCEPT ![t] = l] /\ (l \in {"wake", "fer"} => wake_list[t] # <<>>)
  BY <1>4, Zenon
<1>6. TypeOK'
  <2>1. pc' \in [Threads -> Pcs]
    BY <1>1, <1>5 DEF TypeOK, Pcs
  <2> QED
    BY SMTT(30), <1>1, <1>2, <1>3, <1>4, <2>1 DEF TypeOK, word, waiters, waitp, rest
<1>7. pc'[t] = l
  <2>1. DOMAIN pc = Threads
    BY <1>1, Zenon DEF TypeOK
  <2> QED
    BY <1>5, <2>1, Zenon
<1>8. LocalAt(t)'
  BY <1>2, <1>5, <1>7 DEF LocalAt
<1>9. SearchAt(t)'
  BY Zenon, <1>4, <1>7 DEF SearchAt
<1>10. QuietChange(t, l, how[t])
  BY <1>1, <1>2, <1>4, <1>5 DEF QuietChange, OthersSame, TypeOK, word, waiters, waitp, Spinning, Holding
<1> QED
  BY <1>6, <1>8, <1>9, <1>10, QuietStep

\* Signal and SignalAll take threads off the CondVar.
LEMMA SignalWord ==
    ASSUME WordInv, NEW t \in Threads, Signal(t)
    PROVE  WordInv'
<1>1. TypeOK /\ LocalAt(t) /\ SearchAt(t)
  BY Zenon DEF WordInv, ThreadsInv
<1>2. /\ pc[t] = "idle" /\ cv # <<>> /\ pc' = [pc EXCEPT ![t] = "fer"]
      /\ UNCHANGED <<word, waiters, sem, waitp, cv_word, blocked, requeue, local, flag>>
  BY Zenon DEF Signal, Goto
<1>3. /\ cv \in Seq(Threads) /\ <<Head(cv)>> \in Seq(Threads) /\ Tail(cv) \in Seq(Threads)
      /\ <<Head(cv)>> # <<>> /\ <<>> \in Seq(Threads)
  BY <1>1, <1>2, HeadAndTail DEF TypeOK
<1>4. PICK q \in Seq(Threads) : q # <<>> /\ wake_list' = [wake_list EXCEPT ![t] = q]
  BY <1>2, <1>3, Zenon DEF Signal
<1>5. cv' \in Seq(Threads)
  <2>1. cv' = Tail(cv) \/ cv' = <<>>
    BY Zenon DEF Signal
  <2> QED
    BY <1>3, <2>1, Zenon
<1>6. TypeOK'
  <2>1. pc' \in [Threads -> Pcs]
    BY Zenon, <1>1, <1>2 DEF TypeOK, Pcs
  <2> QED
    BY Zenon, <1>1, <1>2, <1>4, <1>5, <2>1 DEF TypeOK, word, waiters, waitp
<1>7. pc'[t] = "fer" /\ wake_list'[t] = q /\ local'[t] = local[t]
  BY <1>1, <1>2, <1>4 DEF TypeOK
<1>8. LocalAt(t)'
  BY Zenon, <1>4, <1>7 DEF LocalAt
<1>9. SearchAt(t)'
  BY Zenon, <1>1, <1>2, <1>7 DEF SearchAt
<1>10. QuietChange(t, "fer", how[t])
  BY <1>1, <1>2, <1>4 DEF QuietChange, OthersSame, TypeOK, word, waiters, waitp, Spinning, Holding
<1> QED
  BY Zenon, <1>6, <1>8, <1>9, <1>10, QuietStep
-----------------------------------------------------------------------------
(* Steps that change the word: obtaining the lock, and waiting for it. *)

\* The conjuncts of the invariant.
LEMMA WordInvHas ==
    ASSUME WordInv, NEW t \in Threads
    PROVE  /\ TypeOK /\ Exclusive /\ BitsInv /\ CountInv /\ SpinInv /\ ThreadsInv
           /\ LocalAt(t) /\ SearchAt(t)
  BY Zenon DEF WordInv, ThreadsInv

\* A step of t that moves it to l.
WordChange(t, l) ==
    /\ pc' = [pc EXCEPT ![t] = l] /\ how' = how
    /\ \/ pc[t] \in Spinning /\ l \notin Spinning /\ "kMuSpin" \notin mu'
       \/ "kMuSpin" \notin mu /\ l \in Spinning /\ "kMuSpin" \in mu'
       \/ pc[t] \notin Spinning /\ l \notin Spinning /\ ("kMuSpin" \in mu' <=> "kMuSpin" \in mu)
    /\ OthersSame(t) /\ OthersRelyOn(t)

\* What is left to show of a step that changes the word.
LEMMA WordStep ==
    ASSUME WordInv, TypeOK', NEW t \in Threads, NEW l, WordChange(t, l),
           Exclusive', BitsInv', CountInv', LocalAt(t)', SearchAt(t)'
    PROVE  WordInv'
<1>1. TypeOK /\ SpinInv /\ ThreadsInv
  BY Zenon DEF WordInv
<1>2. SpinInv'
  BY <1>1, SpinStep, Zenon DEF WordChange
<1>3. how' = [how EXCEPT ![t] = how[t]]
  BY Zenon, <1>1 DEF TypeOK, WordChange
<1>4. ThreadsInv'
  BY <1>1, <1>3, ThreadsStep, Zenon DEF WordChange
<1> QED
  BY Zenon, <1>2, <1>4 DEF WordInv

\* How the holders change in a step that leaves how alone.
LEMMA HoldersStepHow ==
    ASSUME TypeOK, NEW t \in Threads, NEW l, pc' = [pc EXCEPT ![t] = l], how' = how
    PROVE  HoldersChange(t, l, how[t])
<1>1. how' = [how EXCEPT ![t] = how[t]]
  BY Zenon DEF TypeOK
<1> QED
  BY <1>1, HoldersStep, Zenon

\* A thread that neither obtains nor gives up the lock.
LEMMA HoldersKept ==
    ASSUME TypeOK, NEW t \in Threads, NEW l, pc' = [pc EXCEPT ![t] = l], how' = how,
           l \in Holding <=> pc[t] \in Holding,
           l \notin {"increment", "removing"}, pc[t] \notin {"increment", "removing"}
    PROVE  Writers' = Writers /\ Readers' = Readers /\ Counted' = Counted
<1>1. HoldersChange(t, l, how[t])
  BY HoldersStepHow, Zenon
<1>2. /\ t \in Writers <=> pc[t] \in Holding /\ how[t] = "kExclusive"
      /\ t \in Readers <=> pc[t] \in Holding /\ how[t] = "kShared"
      /\ t \in Counted <=> pc[t] \in Holding /\ how[t] = "kShared"
  BY Zenon, HolderIs
<1> QED
  BY Zenon, <1>1, <1>2 DEF HoldersChange

\* While t has the spin bit, or nobody has it, nobody else relies on the bits of the word.
LEMMA RelyAlone ==
    ASSUME WordInv, NEW t \in Threads,
           pc[t] \in Spinning \/ "kMuSpin" \notin mu,
           \/ maybe_unlocking' = maybe_unlocking /\ Range(queue) \subseteq Range(queue')
           \/ \A u \in Threads \ {t} : local[u].old_h = NoThread
    PROVE  OthersRelyOn(t)
<1>1. \A u \in Threads \ {t} : pc[u] \notin Spinning
  BY Zenon DEF WordInv, SpinInv
<1>2. \A u \in Threads \ {t} : local[u].old_h # NoThread => maybe_unlocking
  BY Zenon DEF WordInv, ThreadsInv, SearchAt
<1> QED
  BY <1>1, <1>2 DEF OthersRelyOn, Spinning

\* A writer holds the lock alone, and so does an unlocker that finds itself the last.
LEMMA SoleHolder ==
    ASSUME WordInv, NEW t \in Threads, t \in Writers \/ (pc[t] = "waiters" /\ LastHolder),
           NEW u \in Threads \ {t}
    PROVE  pc[u] \notin Holding \cup {"increment", "removing"} /\ local[u].old_h = NoThread
<1>1. TypeOK /\ Exclusive /\ BitsInv /\ CountInv /\ SpinInv /\ LocalAt(t) /\ SearchAt(u)
  BY Zenon, WordInvHas
<1>2. CASE t \in Writers
  <2>1. u \notin Writers /\ u \notin Readers
    BY <1>1, <1>2 DEF Exclusive
  <2>2. pc[u] \notin Holding \cup {"removing"}
    BY <1>1, <2>1, HolderIs
  <2>3. LocalAt(u)
    BY Zenon, WordInvHas
  <2>4. pc[u] # "increment"
    BY SMTT(30), <1>1, <2>1, <2>3, HolderIs DEF LocalAt
  <2> QED
    BY Zenon, <1>1, <2>2, <2>4 DEF SearchAt, Holding
<1>3. CASE t \notin Writers /\ pc[t] = "waiters" /\ LastHolder
  <2>1. t \in Counted /\ t \in Readers
    BY <1>1, <1>3, HolderIs DEF Holding
  <2>2. "kMuReader" \in mu /\ "kMuWait" \in mu /\ readers \in Nat /\ readers <= 1
    BY <1>1, <1>3, <2>1 DEF BitsInv, LocalAt, LastHolder, TypeOK
  <2>3. \A x, y \in Counted : x = y
    BY <1>1, <2>2, CountedFinite DEF CountInv
  <2>4. u \notin Counted /\ u \notin Writers
    BY Zenon, <1>1, <2>1, <2>3 DEF Exclusive
  <2>5. pc[u] \notin Holding \cup {"removing"}
    BY <1>1, <2>4, HolderIs
  <2>6. pc[u] # "increment"
    BY Zenon, <1>1, <1>3 DEF SpinInv, Spinning
  <2> QED
    BY Zenon, <1>1, <2>5, <2>6 DEF SearchAt, Holding
<1> QED
  BY Zenon, <1>2, <1>3

-----------------------------------------------------------------------------
(* Obtaining the lock. *)

\* Where the thread goes when it has the lock.
LEMMA AcquiredIs ==
    ASSUME TypeOK, NEW t \in Threads, Acquired(t)
    PROVE  /\ \E l \in {"cs", "unlock"} : pc' = [pc EXCEPT ![t] = l]
           /\ how' = how
           /\ \A u \in Threads \ {t} : u \in requeue' <=> u \in requeue
           /\ blocked' \subseteq Threads /\ requeue' \subseteq Threads
           /\ cond' \in [Threads -> {"null", "set", "clear"}] /\ timed' \in [Threads -> BOOLEAN]
<1>1. CASE Eval(cond[t])
  <2>1. /\ pc' = [pc EXCEPT ![t] = "cs"] /\ blocked' = blocked \ {t} /\ requeue' = requeue
        /\ cond' = [cond EXCEPT ![t] = "null"] /\ timed' = [timed EXCEPT ![t] = FALSE] /\ how' = how
    BY Zenon, <1>1 DEF Acquired, Goto
  <2>2. cond' \in [Threads -> {"null", "set", "clear"}]
    BY Zenon, <2>1 DEF TypeOK
  <2>3. timed' \in [Threads -> BOOLEAN]
    BY Zenon, <2>1 DEF TypeOK
  <2> QED
    BY <2>1, <2>2, <2>3 DEF TypeOK
<1>2. CASE ~Eval(cond[t])
  BY Zenon, <1>2 DEF Acquired, Goto, TypeOK, waitp
<1> QED
  BY <1>1, <1>2

\* The compare-exchange, for a reader and for a writer.
LEMMA AcquireIs ==
    ASSUME TypeOK, NEW t \in Threads, Fast(t) \/ SlowAcquire(t)
    PROVE  /\ pc[t] \in {"fast", "try", "slow"} /\ Acquired(t)
           /\ UNCHANGED <<waiters, cv, sem, cv_word, local, wake_list, rest>>
           /\ \/ /\ how[t] = "kShared" /\ "kMuWriter" \notin mu /\ "kMuWait" \notin mu
                 /\ mu' = ClearDesig(t, mu) \cup {"kMuReader"} /\ count' = count + 1
              \/ /\ how[t] = "kExclusive" /\ "kMuWriter" \notin mu /\ "kMuReader" \notin mu
                 /\ mu' = ClearDesig(t, mu) \cup {"kMuWriter"} /\ count' = count
<1>1. pc[t] \in {"fast", "try", "slow"} /\ Acquire(t, fast_need_zero)
  BY Zenon DEF Fast, SlowAcquire, slow_need_zero
<1>2. how[t] \in {"kShared", "kExclusive"} /\ count \in Nat
  BY Zenon DEF TypeOK
<1>3. CASE how[t] = "kShared"
  <2>1. fast_need_zero[how[t]] = {"kMuWriter", "kMuWait"} /\ fast_or[how[t]] = {"kMuReader"} /\ fast_add[how[t]] = 1
    BY <1>3, SMTT(30) DEF fast_need_zero, fast_or, fast_add
  <2> QED
    BY Zenon, <1>1, <1>3, <2>1 DEF Acquire
<1>4. CASE how[t] = "kExclusive"
  <2>1. fast_need_zero[how[t]] = {"kMuWriter", "kMuReader"} /\ fast_or[how[t]] = {"kMuWriter"} /\ fast_add[how[t]] = 0
    BY <1>4 DEF fast_need_zero, fast_or, fast_add
  <2> QED
    BY <1>1, <1>2, <1>4, <2>1, SMTT(30) DEF Acquire
<1> QED
  BY <1>2, <1>3, <1>4

\* A thread gives up its designation, and no other bit.
LEMMA ClearDesigIs ==
    ASSUME NEW t, NEW v
    PROVE  ClearDesig(t, v) \subseteq v /\ \A b : b # "kMuDesig" => (b \in ClearDesig(t, v) <=> b \in v)
  BY Zenon DEF ClearDesig

\* Taking the lock by the word alone.
LEMMA AcquireWord ==
    ASSUME WordInv, NEW t \in Threads, Fast(t) \/ SlowAcquire(t)
    PROVE  WordInv'
<1>1. /\ TypeOK /\ Exclusive /\ BitsInv /\ CountInv /\ SpinInv /\ ThreadsInv
      /\ LocalAt(t) /\ SearchAt(t)
  BY Zenon, WordInvHas
<1>2. /\ pc[t] \in {"fast", "try", "slow"} /\ Acquired(t)
      /\ UNCHANGED <<waiters, cv, sem, cv_word, local, wake_list, rest>>
  BY SMTT(30), <1>1, AcquireIs
<1>3. \/ /\ how[t] = "kShared" /\ "kMuWriter" \notin mu /\ "kMuWait" \notin mu
         /\ mu' = ClearDesig(t, mu) \cup {"kMuReader"} /\ count' = count + 1
      \/ /\ how[t] = "kExclusive" /\ "kMuWriter" \notin mu /\ "kMuReader" \notin mu
         /\ mu' = ClearDesig(t, mu) \cup {"kMuWriter"} /\ count' = count
  BY <1>1, AcquireIs
<1>4. PICK l \in {"cs", "unlock"} : pc' = [pc EXCEPT ![t] = l]
  BY <1>1, <1>2, AcquiredIs
<1>5. /\ how' = how
      /\ \A u \in Threads \ {t} : u \in requeue' <=> u \in requeue
      /\ blocked' \subseteq Threads /\ requeue' \subseteq Threads
      /\ cond' \in [Threads -> {"null", "set", "clear"}] /\ timed' \in [Threads -> BOOLEAN]
  BY <1>1, <1>2, AcquiredIs
<1>6. /\ mu' \subseteq Bits /\ count' \in Nat
      /\ \A b \in {"kMuWait", "kMuSpin", "kMuWrWait"} : b \in mu' <=> b \in mu
  <2>1. /\ ClearDesig(t, mu) \subseteq mu
        /\ \A b : b # "kMuDesig" => (b \in ClearDesig(t, mu) <=> b \in mu)
    BY Zenon, ClearDesigIs
  <2>2. mu \subseteq Bits /\ count \in Nat
    BY Zenon, <1>1 DEF TypeOK
  <2>3. PICK b \in {"kMuReader", "kMuWriter"} : mu' = ClearDesig(t, mu) \cup {b}
    BY <1>3, Zenon
  <2>4. mu' \subseteq Bits
    BY <2>1, <2>2, <2>3, Zenon DEF Bits
  <2>5. \A c \in {"kMuWait", "kMuSpin", "kMuWrWait"} : c \in mu' <=> c \in mu
    BY <2>1, <2>3
  <2> QED
    BY <1>3, <2>2, <2>4, <2>5
<1>7. TypeOK'
  <2>1. pc' \in [Threads -> Pcs]
    BY <1>1, <1>4 DEF TypeOK, Pcs
  <2> QED
    BY SMTT(30), <1>1, <1>2, <1>5, <1>6, <2>1 DEF TypeOK, waiters, rest
<1>8. /\ pc'[t] = l /\ l \in Holding /\ l \notin Spinning /\ l # "removing" /\ l # "increment"
      /\ pc[t] \notin Spinning /\ pc[t] \notin Holding
  BY <1>1, <1>2, <1>4 DEF TypeOK, Holding, Spinning
<1>9. HoldersChange(t, l, how[t])
  BY <1>1, <1>4, <1>5, HoldersStepHow, ZenonT(30)
<1>10. t \notin Writers /\ t \notin Readers /\ t \notin Counted
  BY <1>1, <1>2, HolderIs DEF Holding
<1>11. Exclusive' /\ BitsInv' /\ CountInv'
  <2>1. CASE how[t] = "kShared"
    <3>1. /\ "kMuWriter" \notin mu /\ "kMuWait" \notin mu /\ count' = count + 1
          /\ mu' = ClearDesig(t, mu) \cup {"kMuReader"}
      BY <1>3, <2>1
    <3>2. Writers' = {} /\ Readers' = Readers \cup {t} /\ Counted' = Counted \cup {t} /\ Writers = {}
      BY SMTT(30), <1>1, <1>8, <1>9, <2>1, <3>1 DEF HoldersChange, BitsInv
    <3>3. Cardinality(Counted') = count + 1
      BY SMTT(30), <1>1, <1>10, <3>1, <3>2, CountedFinite DEF CountInv
    <3>4. "kMuWriter" \notin mu' /\ "kMuReader" \in mu' /\ queue' = queue
      BY <1>2, <3>1, ClearDesigIs DEF waiters
    <3> QED
      BY SMTT(30), <1>1, <1>6, <3>1, <3>2, <3>3, <3>4 DEF Exclusive, BitsInv, CountInv
  <2>2. CASE how[t] = "kExclusive"
    <3>1. /\ "kMuWriter" \notin mu /\ "kMuReader" \notin mu /\ count' = count
          /\ mu' = ClearDesig(t, mu) \cup {"kMuWriter"}
      BY <1>3, <2>2
    <3>2. Writers = {} /\ Readers = {}
      BY <1>1, <3>1 DEF BitsInv
    <3>3. Writers' = {t} /\ Readers' = {} /\ Counted' = Counted
      BY <1>8, <1>9, <1>10, <2>2, <3>2 DEF HoldersChange
    <3>4. "kMuWriter" \in mu' /\ "kMuReader" \notin mu' /\ queue' = queue /\ readers' = readers
      <4>1. "kMuWriter" \in mu' /\ "kMuReader" \notin mu'
        BY SMTT(30), <3>1, ClearDesigIs
      <4> QED
        BY <1>2, <4>1, Zenon DEF waiters
    <3> QED
      BY <1>1, <1>6, <3>1, <3>3, <3>4 DEF Exclusive, BitsInv, CountInv
  <2> QED
    BY SMTT(30), <1>3, <2>1, <2>2
<1>12. LocalAt(t)' /\ SearchAt(t)'
  <2>1. local'[t] = local[t] /\ wake_list'[t] = wake_list[t] /\ queue' = queue /\ maybe_unlocking' = maybe_unlocking
    BY ZenonT(30), <1>2 DEF waiters
  <2> QED
    BY <1>1, <1>2, <1>4, <1>8, <2>1 DEF LocalAt, SearchAt
<1>13. OthersRelyOn(t)
  <2>1. ASSUME NEW u \in Threads \ {t}, pc[u] = "waiters" PROVE FALSE
    <3>1. LocalAt(u)
      BY WordInvHas
    <3>2. "kMuWait" \in mu /\ (u \in Writers \/ u \in Readers)
      BY <1>1, <2>1, <3>1, HolderIs DEF LocalAt, Holding
    <3> QED
      BY <1>1, <1>3, <3>2 DEF BitsInv
  <2>2. \A u \in Threads \ {t} : local[u].old_h # NoThread => maybe_unlocking
    BY Zenon, <1>1 DEF ThreadsInv, SearchAt
  <2> QED
    BY <1>2, <1>6, <2>1, <2>2 DEF OthersRelyOn, waiters
<1>14. WordChange(t, l)
  BY <1>2, <1>4, <1>5, <1>6, <1>8, <1>13 DEF WordChange, OthersSame
<1> QED
  BY Zenon, <1>7, <1>11, <1>12, <1>14, WordStep

-----------------------------------------------------------------------------
(* Steps that change the word without obtaining or giving up the lock. *)

\* The count of readers, in the word or in the last waiter.
Count == IF "kMuWait" \in mu THEN readers ELSE count

\* Nobody obtains or gives up the lock.
LEMMA KeepStep ==
    ASSUME WordInv, TypeOK', NEW t \in Threads, NEW l, WordChange(t, l),
           l \in Holding <=> pc[t] \in Holding,
           l \notin {"increment", "removing"}, pc[t] \notin {"increment", "removing"},
           "kMuWriter" \in mu' <=> "kMuWriter" \in mu, "kMuReader" \in mu' <=> "kMuReader" \in mu,
           "kMuWait" \in mu' <=> queue' # <<>>, "kMuWrWait" \in mu' => "kMuWait" \in mu',
           Count' = Count, LocalAt(t)', SearchAt(t)'
    PROVE  WordInv'
<1>1. TypeOK /\ Exclusive /\ BitsInv /\ CountInv
  BY Zenon, WordInvHas
<1>2. Writers' = Writers /\ Readers' = Readers /\ Counted' = Counted
  BY <1>1, HoldersKept, Zenon DEF WordChange
<1>3. Exclusive' /\ BitsInv' /\ CountInv'
  BY <1>1, <1>2 DEF Exclusive, BitsInv, CountInv, Count
<1> QED
  BY <1>3, WordStep, Zenon

\* Becoming the only waiter, by a thread itself and by a signaller for it.
LEMMA OnlyWaiterWord ==
    ASSUME WordInv, NEW t \in Threads, OnlyWaiter(t) \/ FerOnlyWaiter(t)
    PROVE  WordInv'
<1>1. /\ TypeOK /\ Exclusive /\ BitsInv /\ CountInv /\ SpinInv /\ ThreadsInv
      /\ LocalAt(t) /\ SearchAt(t)
  BY Zenon, WordInvHas
<1>2. /\ pc[t] \in {"slow", "fer"} /\ "kMuSpin" \notin mu /\ "kMuWait" \notin mu
      /\ readers' = count /\ count' = 0 /\ maybe_unlocking' = FALSE
      /\ UNCHANGED <<cv, sem, waitp, cv_word, blocked, requeue, local, rest>>
  BY Zenon DEF OnlyWaiter, FerOnlyWaiter
<1>3. PICK x \in Threads : queue' = <<x>> /\ wake' = wake \ {x}
  <2>1. CASE OnlyWaiter(t)
    BY Zenon, <2>1 DEF OnlyWaiter
  <2>2. CASE FerOnlyWaiter(t)
    <3>1. Head(wake_list[t]) \in Threads
      BY <1>1, <2>2, HeadAndTail DEF FerOnlyWaiter, TypeOK, LocalAt
    <3> QED
      BY <2>2, <3>1, SMTT(30) DEF FerOnlyWaiter
  <2> QED
    BY Zenon, <2>1, <2>2
<1>4. /\ mu' \subseteq Bits /\ "kMuWait" \in mu'
      /\ \A b \in {"kMuSpin", "kMuWriter", "kMuReader"} : b \in mu' <=> b \in mu
  <2>1. mu \subseteq Bits /\ ClearDesig(t, mu) \subseteq mu
    BY Zenon, <1>1, ClearDesigIs DEF TypeOK
  <2>2. \A b : b # "kMuDesig" => (b \in ClearDesig(t, mu) <=> b \in mu)
    BY Zenon, ClearDesigIs
  <2>3. CASE OnlyWaiter(t)
    <3>1. PICK wr_wait \in SUBSET {"kMuWrWait"} : mu' = ClearDesig(t, mu) \cup {"kMuWait"} \cup wr_wait
      BY <2>3, Zenon DEF OnlyWaiter
    <3>2. mu' \subseteq Bits
      <4>1. {"kMuWait"} \subseteq Bits /\ wr_wait \subseteq Bits
        BY Zenon DEF Bits
      <4> QED
        BY <2>1, <3>1, <4>1, Zenon
    <3>3. \A b \in {"kMuSpin", "kMuWriter", "kMuReader"} : b \in mu' <=> b \in mu
      BY <2>2, <3>1
    <3> QED
      BY Zenon, <3>1, <3>2, <3>3
  <2>4. CASE FerOnlyWaiter(t)
    BY SMTT(30), <2>1, <2>4 DEF FerOnlyWaiter, Bits
  <2> QED
    BY Zenon, <2>3, <2>4
<1>5. /\ \E l \in {"block", "idle", "fer"} :
            pc' = [pc EXCEPT ![t] = l] /\ (l = "fer" => wake_list'[t] # <<>>)
      /\ wake_list' \in [Threads -> Seq(Threads)]
      /\ \A u \in Threads \ {t} : wake_list'[u] = wake_list[u]
  <2>1. CASE OnlyWaiter(t)
    BY ZenonT(30), <1>1, <2>1 DEF OnlyWaiter, Goto, TypeOK
  <2>2. CASE FerOnlyWaiter(t)
    BY <1>1, <2>2, NextFerIs, Zenon DEF FerOnlyWaiter
  <2> QED
    BY <2>1, <2>2
<1>6. PICK l \in {"block", "idle", "fer"} : pc' = [pc EXCEPT ![t] = l] /\ (l = "fer" => wake_list'[t] # <<>>)
  BY <1>5, Zenon
<1>15. /\ wake_list' \in [Threads -> Seq(Threads)]
       /\ \A u \in Threads \ {t} : wake_list'[u] = wake_list[u]
  BY <1>5, Zenon
<1>7. TypeOK'
  <2>1. pc' \in [Threads -> Pcs]
    BY SMTT(30), <1>1, <1>6 DEF TypeOK, Pcs
  <2>2. queue' \in Seq(Threads) /\ readers' \in Nat /\ count' \in Nat /\ wake' \subseteq Threads
    BY <1>1, <1>2, <1>3 DEF TypeOK
  <2>3. maybe_unlocking' \in BOOLEAN
    BY <1>2, Zenon
  <2>4. UNCHANGED <<cv, sem, waitp, cv_word, blocked, requeue, local, rest>>
    BY Zenon, <1>2
  <2> QED
    BY <1>1, <1>4, <1>15, <2>1, <2>2, <2>3, <2>4, SMTT(30) DEF TypeOK, waitp, rest
<1>8. pc'[t] = l /\ local'[t] = local[t]
  <2>1. DOMAIN pc = Threads /\ local' = local
    BY <1>1, <1>2, ZenonT(30) DEF TypeOK
  <2> QED
    BY <1>6, <2>1, Zenon
<1>9. \A u \in Threads : local[u].old_h = NoThread
  <2>1. queue = <<>>
    BY <1>1, <1>2 DEF BitsInv
  <2>2. Range(queue) = {}
    BY <2>1, ListHas, ZenonT(30)
  <2> QED
    BY <1>1, <2>2 DEF ThreadsInv, SearchAt
<1>10. LocalAt(t)' /\ SearchAt(t)'
  BY <1>1, <1>2, <1>6, <1>8, <1>9, SMTT(30) DEF LocalAt, SearchAt
<1>11. OthersRelyOn(t)
  BY <1>2, <1>9, RelyAlone, Zenon
<1>12. WordChange(t, l)
  BY <1>2, <1>4, <1>6, <1>11, <1>15, Zenon DEF WordChange, OthersSame, waitp, Spinning
<1>13. Count' = Count /\ queue' # <<>>
  BY <1>2, <1>3, <1>4 DEF Count
<1>14. /\ l \in Holding <=> pc[t] \in Holding
       /\ l \notin {"increment", "removing"} /\ pc[t] \notin {"increment", "removing"}
  BY Zenon, <1>2, <1>6 DEF Holding
<1> QED
  BY <1>4, <1>7, <1>10, <1>12, <1>13, <1>14, KeepStep

\* Taking the spin bit to enqueue.
LEMMA EnqueueStartWord ==
    ASSUME WordInv, NEW t \in Threads, EnqueueStart(t) \/ FerSpin(t)
    PROVE  WordInv'
<1>1. /\ TypeOK /\ Exclusive /\ BitsInv /\ CountInv /\ SpinInv /\ ThreadsInv
      /\ LocalAt(t) /\ SearchAt(t)
  BY Zenon, WordInvHas
<1>2. /\ pc[t] \in {"slow", "fer"} /\ "kMuSpin" \notin mu /\ "kMuWait" \in mu
      /\ UNCHANGED <<count, waiters, cv, sem, waitp, cv_word, blocked, requeue, wake_list, rest>>
  BY Zenon DEF EnqueueStart, FerSpin
<1>3. PICK l \in {"enqueue", "ferspin"} : pc' = [pc EXCEPT ![t] = l] /\ (l = "ferspin" => pc[t] = "fer")
  BY Zenon DEF EnqueueStart, FerSpin, Goto
<1>4. /\ mu' \subseteq Bits /\ "kMuSpin" \in mu'
      /\ \A b \in {"kMuWait", "kMuWriter", "kMuReader", "kMuWrWait"} : b \in mu' <=> b \in mu
  <2>1. mu \subseteq Bits /\ ClearDesig(t, mu) \subseteq mu
    BY <1>1, ClearDesigIs DEF TypeOK
  <2>2. \A b : b # "kMuDesig" => (b \in ClearDesig(t, mu) <=> b \in mu)
    BY Zenon, ClearDesigIs
  <2>3. CASE EnqueueStart(t)
    BY <1>2, <2>1, <2>2, <2>3 DEF EnqueueStart, Bits
  <2>4. CASE FerSpin(t)
    BY Zenon, <2>1, <2>4 DEF FerSpin, Bits
  <2> QED
    BY <2>3, <2>4
<1>5. /\ local' \in [Threads -> LocalRecs] /\ \A u \in Threads \ {t} : local'[u] = local[u]
      /\ local'[t].old_h = local[t].old_h /\ local'[t].w = local[t].w
  <2>1. CASE EnqueueStart(t)
    <3>1. PICK x \in SUBSET {"kMuWrWait"} : local' = [local EXCEPT ![t] = [local[t] EXCEPT !.wr_wait = x]]
      BY <2>1, Zenon DEF EnqueueStart
    <3>2. local \in [Threads -> LocalRecs] /\ [local[t] EXCEPT !.wr_wait = x] \in LocalRecs
      BY Zenon, <1>1, LocalSet
    <3>3. /\ local' \in [Threads -> LocalRecs] /\ \A u \in Threads \ {t} : local'[u] = local[u]
          /\ local'[t] = [local[t] EXCEPT !.wr_wait = x]
      BY <3>1, <3>2, Zenon
    <3>4. local'[t].old_h = local[t].old_h /\ local'[t].w = local[t].w
      BY Zenon, <3>2, <3>3 DEF LocalRecs
    <3> QED
      BY <3>3, <3>4, Zenon
  <2>2. CASE FerSpin(t)
    BY Zenon, <1>1, <2>2 DEF FerSpin, TypeOK
  <2> QED
    BY Zenon, <2>1, <2>2
<1>6. TypeOK'
  <2>1. pc' \in [Threads -> Pcs]
    BY Zenon, <1>1, <1>3 DEF TypeOK, Pcs
  <2> QED
    BY <1>1, <1>2, <1>4, <1>5, <2>1 DEF TypeOK, waiters, waitp, rest
<1>7. pc'[t] = l /\ wake_list'[t] = wake_list[t]
  BY <1>1, <1>2, <1>3 DEF TypeOK
<1>8. LocalAt(t)'
  BY ZenonT(30), <1>1, <1>2, <1>3, <1>4, <1>7 DEF LocalAt
<1>9. SearchAt(t)'
  BY <1>1, <1>2, <1>3, <1>5, <1>7, Zenon DEF SearchAt
<1>10. OthersRelyOn(t)
  <2>1. maybe_unlocking' = maybe_unlocking /\ Range(queue) \subseteq Range(queue')
    BY ZenonT(30), <1>2 DEF waiters
  <2> QED
    BY Zenon, <1>2, <2>1, RelyAlone
<1>11. WordChange(t, l)
  BY <1>2, <1>3, <1>4, <1>5, <1>10, Zenon DEF WordChange, OthersSame, waitp, Spinning
<1>12. Count' = Count /\ ("kMuWait" \in mu' <=> queue' # <<>>) /\ ("kMuWrWait" \in mu' => "kMuWait" \in mu')
  BY Zenon, <1>1, <1>2, <1>4 DEF Count, BitsInv, waiters
<1>13. /\ l \in Holding <=> pc[t] \in Holding
       /\ l \notin {"increment", "removing"} /\ pc[t] \notin {"increment", "removing"}
  BY Zenon, <1>2, <1>3 DEF Holding
<1> QED
  BY SMTT(30), <1>4, <1>6, <1>8, <1>9, <1>11, <1>12, <1>13, KeepStep

\* Enqueueing, by a thread itself and by a signaller for it, and releasing the spin bit.
LEMMA EnqueueEndWord ==
    ASSUME WordInv, NEW t \in Threads, EnqueueEnd(t) \/ FerEnqueue(t)
    PROVE  WordInv'
<1>1. /\ TypeOK /\ Exclusive /\ BitsInv /\ CountInv /\ SpinInv /\ ThreadsInv
      /\ LocalAt(t) /\ SearchAt(t)
  BY Zenon, WordInvHas
<1>2. /\ pc[t] \in {"enqueue", "ferspin"} /\ "kMuWait" \in mu
      /\ UNCHANGED <<count, readers, maybe_unlocking, cv, sem, waitp, cv_word, blocked, requeue, rest>>
  <2>1. /\ pc[t] \in {"enqueue", "ferspin"}
        /\ UNCHANGED <<count, readers, maybe_unlocking, cv, sem, waitp, cv_word, blocked, requeue, rest>>
    BY Zenon DEF EnqueueEnd, FerEnqueue
  <2> QED
    BY Zenon, <1>1, <2>1 DEF LocalAt
<1>3. PICK x \in Threads, b \in BOOLEAN :
          queue' = Enqueue(queue, x, b, maybe_unlocking) /\ wake' = wake \ {x}
  <2>1. CASE EnqueueEnd(t)
    <3>1. (t \in blocked) \in BOOLEAN
      OBVIOUS
    <3> QED
      BY <2>1, <3>1, Zenon DEF EnqueueEnd
  <2>2. CASE FerEnqueue(t)
    <3>1. Head(wake_list[t]) \in Threads
      BY <1>1, <2>2, NextFerIs, Zenon DEF FerEnqueue
    <3> QED
      BY <2>2, <3>1, ZenonT(30) DEF FerEnqueue
  <2> QED
    BY Zenon, <2>1, <2>2
<1>4. queue' \in Seq(Threads) /\ queue' # <<>> /\ Range(queue) \subseteq Range(queue')
  BY <1>1, <1>3, EnqueueHas DEF TypeOK
<1>5. /\ mu' \subseteq Bits /\ "kMuSpin" \notin mu' /\ "kMuWait" \in mu'
      /\ \A c \in {"kMuWriter", "kMuReader"} : c \in mu' <=> c \in mu
  <2>1. mu \subseteq Bits /\ local[t].wr_wait \in SUBSET {"kMuWrWait"}
    BY Zenon, <1>1 DEF TypeOK, LocalRecs
  <2>2. PICK y \in SUBSET {"kMuWrWait"} : mu' = (mu \ {"kMuSpin"}) \cup {"kMuWait"} \cup y
    <3>1. CASE EnqueueEnd(t)
      BY <2>1, <3>1, Zenon DEF EnqueueEnd
    <3>2. CASE FerEnqueue(t)
      <4>1. mu' = (mu \ {"kMuSpin"}) \cup {"kMuWait"} \cup {}
        BY Zenon, <3>2 DEF FerEnqueue
      <4> QED
        BY <4>1, Zenon
    <3> QED
      BY Zenon, <3>1, <3>2
  <2>3. {"kMuWait"} \subseteq Bits /\ y \subseteq Bits
    BY Zenon DEF Bits
  <2>4. mu' \subseteq Bits
    BY <2>1, <2>2, <2>3, Zenon
  <2> QED
    BY Zenon, <2>2, <2>4
<1>6. /\ local' \in [Threads -> LocalRecs] /\ \A u \in Threads \ {t} : local'[u] = local[u]
      /\ local'[t].old_h = NoThread /\ local'[t].w = NoThread
  <2>1. CASE EnqueueEnd(t)
    <3>1. NoLocal \in LocalRecs /\ local \in [Threads -> LocalRecs]
      BY Zenon, <1>1 DEF NoLocal, LocalRecs, TypeOK
    <3>2. local' = [local EXCEPT ![t] = NoLocal]
      BY <2>1, Zenon DEF EnqueueEnd
    <3>3. /\ local' \in [Threads -> LocalRecs] /\ \A u \in Threads \ {t} : local'[u] = local[u]
          /\ local'[t] = NoLocal
      BY <3>1, <3>2, Zenon
    <3> QED
      BY <3>3 DEF NoLocal
  <2>2. CASE FerEnqueue(t)
    <3>1. local' = local /\ pc[t] = "ferspin"
      BY Zenon, <2>2 DEF FerEnqueue
    <3> QED
      BY Zenon, <1>1, <3>1 DEF TypeOK, SearchAt
  <2> QED
    BY Zenon, <2>1, <2>2
<1>7. /\ \E l \in {"block", "idle", "fer"} :
            pc' = [pc EXCEPT ![t] = l] /\ (l = "fer" => wake_list'[t] # <<>>)
      /\ wake_list' \in [Threads -> Seq(Threads)]
      /\ \A u \in Threads \ {t} : wake_list'[u] = wake_list[u]
  <2>1. CASE EnqueueEnd(t)
    BY Zenon, <1>1, <2>1 DEF EnqueueEnd, Goto, TypeOK
  <2>2. CASE FerEnqueue(t)
    BY Zenon, <1>1, <2>2, NextFerIs DEF FerEnqueue
  <2> QED
    BY Zenon, <2>1, <2>2
<1>8. PICK l \in {"block", "idle", "fer"} : pc' = [pc EXCEPT ![t] = l] /\ (l = "fer" => wake_list'[t] # <<>>)
  BY <1>7, Zenon
<1>9. /\ wake_list' \in [Threads -> Seq(Threads)]
      /\ \A u \in Threads \ {t} : wake_list'[u] = wake_list[u]
  BY <1>7, Zenon
<1>10. TypeOK'
  <2>1. pc' \in [Threads -> Pcs]
    BY Zenon, <1>1, <1>8 DEF TypeOK, Pcs
  <2>2. wake' \subseteq Threads
    BY Zenon, <1>1, <1>3 DEF TypeOK
  <2>3. UNCHANGED <<count, readers, maybe_unlocking, cv, sem, waitp, cv_word, blocked, requeue, rest>>
    BY Zenon, <1>2
  <2>4. queue' \in Seq(Threads) /\ mu' \subseteq Bits /\ local' \in [Threads -> LocalRecs]
    BY Zenon, <1>4, <1>5, <1>6
  <2> QED
    BY <1>1, <1>9, <2>1, <2>2, <2>3, <2>4, Zenon DEF TypeOK, waitp, rest
<1>11. pc'[t] = l
  BY Zenon, <1>1, <1>8 DEF TypeOK
<1>12. LocalAt(t)' /\ SearchAt(t)'
  BY Zenon, <1>6, <1>8, <1>11 DEF LocalAt, SearchAt
<1>13. OthersRelyOn(t)
  BY ZenonT(30), <1>2, <1>4, RelyAlone DEF Spinning
<1>14. WordChange(t, l)
  BY <1>2, <1>5, <1>6, <1>8, <1>9, <1>13 DEF WordChange, OthersSame, waitp, Spinning
<1>15. Count' = Count
  BY Zenon, <1>2, <1>5 DEF Count
<1>16. /\ l \in Holding <=> pc[t] \in Holding
       /\ l \notin {"increment", "removing"} /\ pc[t] \notin {"increment", "removing"}
  BY Zenon, <1>2, <1>8 DEF Holding
<1> QED
  BY SMTT(30), <1>4, <1>5, <1>10, <1>12, <1>14, <1>15, <1>16, KeepStep

-----------------------------------------------------------------------------
(* Giving up the lock. *)

\* An unlocker has the lock, as a writer or as a counted reader.
LEMMA UnlockerHolds ==
    ASSUME WordInv, NEW t \in Threads, pc[t] \in Holding
    PROVE  \/ t \in Writers /\ t \notin Counted /\ Readers = {} /\ "kMuWriter" \in mu /\ "kMuReader" \notin mu
           \/ t \in Readers /\ t \in Counted /\ Writers = {} /\ "kMuReader" \in mu /\ "kMuWriter" \notin mu
<1>1. TypeOK /\ Exclusive /\ BitsInv
  BY Zenon, WordInvHas
<1>2. t \in Writers \/ (t \in Readers /\ t \in Counted)
  BY Zenon, <1>1, HolderIs
<1>3. Counted \subseteq Readers
  BY Zenon DEF Counted
<1> QED
  BY Zenon, <1>1, <1>2, <1>3 DEF Exclusive, BitsInv

\* The unlocker may queue itself on the mutex; nobody leaves the queue by that.
LEMMA SelfQueued ==
    ASSUME NEW t \in Threads, NEW q \in Seq(Threads), NEW searching
    PROVE  /\ SelfEnqueued(t, q, searching) \in Seq(Threads)
           /\ Range(q) \subseteq Range(SelfEnqueued(t, q, searching))
           /\ q # <<>> => SelfEnqueued(t, q, searching) # <<>>
<1>1. /\ Enqueue(q, t, FALSE, searching) \in Seq(Threads) /\ Enqueue(q, t, FALSE, searching) # <<>>
      /\ Range(Enqueue(q, t, FALSE, searching)) = Range(q) \cup {t}
  BY EnqueueHas, Zenon
<1>2. SelfEnqueued(t, q, searching) \in {Enqueue(q, t, FALSE, searching), q}
  BY Zenon DEF SelfEnqueued
<1>3. CASE SelfEnqueued(t, q, searching) = q
  BY <1>3, Zenon
<1>4. CASE SelfEnqueued(t, q, searching) = Enqueue(q, t, FALSE, searching)
  <2>1. Range(q) \subseteq Range(q) \cup {t}
    BY Zenon
  <2> QED
    BY <1>1, <1>4, <2>1, Zenon
<1> QED
  BY <1>2, <1>3, <1>4, Zenon

\* Or on the CondVar, whose queue keeps its type.
LEMMA SelfCondVarType ==
    ASSUME TypeOK, NEW t \in Threads, SelfCondVar(t)
    PROVE  cv' \in Seq(Threads)
  BY DEF TypeOK, SelfCondVar

\* UnlockSlow wakes somebody who is on the queue.
LEMMA WakesWaiter ==
    ASSUME WordInv, NEW t \in Threads, WakeWaiters(t)
    PROVE  \E w \in Range(queue), wr_wait \in SUBSET {"kMuWrWait"} : DequeueAndRelease(t, w, wr_wait)
<1>1. TypeOK /\ BitsInv /\ LocalAt(t) /\ SearchAt(t) /\ pc[t] = "waiters"
  BY WordInvHas, Zenon DEF WakeWaiters
<1>2. queue \in Seq(Threads) /\ queue # <<>>
  BY Zenon, <1>1 DEF TypeOK, LocalAt, BitsInv
<1>3. Head(queue) \in Range(queue) /\ {"kMuWrWait"} \in SUBSET {"kMuWrWait"}
  BY <1>2 DEF Range
<1>4. /\ local[t].w # NoThread => local[t].w \in Range(queue)
      /\ local[t].wr_wait \in SUBSET {"kMuWrWait"}
  BY Zenon, <1>1 DEF SearchAt, TypeOK, LocalRecs
<1>5. \/ DequeueAndRelease(t, Head(queue), {"kMuWrWait"})
      \/ local[t].w # NoThread /\ DequeueAndRelease(t, local[t].w, local[t].wr_wait)
  BY Zenon DEF WakeWaiters
<1> QED
  BY <1>3, <1>4, <1>5, Zenon

\* What dequeueing does to the queue and to the list of threads to be woken.
LEMMA Dequeues ==
    ASSUME TypeOK, NEW t \in Threads, NEW w \in Range(queue), NEW wr_wait,
           DequeueAndRelease(t, w, wr_wait)
    PROVE  /\ queue' \in Seq(Threads)
           /\ \E woken \in Seq(Threads) : woken # <<>> /\ wake_list' = [wake_list EXCEPT ![t] = woken]
<1>1. queue \in Seq(Threads)
  BY Zenon DEF TypeOK
<1>2. /\ Wakeable(w) \in SUBSET DOMAIN queue /\ Wakeable(w) # {}
      /\ DOMAIN queue \ Wakeable(w) \in SUBSET DOMAIN queue
  BY Zenon, <1>1, WakeableHas
<1>3. PICK left \in SubsequenceAt(queue, DOMAIN queue \ Wakeable(w)),
           searching \in IF Len(queue) \in Wakeable(w) THEN BOOLEAN ELSE {maybe_unlocking} :
         queue' = SelfEnqueued(t, left, searching)
  BY Zenon DEF DequeueAndRelease
<1>4. PICK woken \in SubsequenceAt(queue, Wakeable(w)) : wake_list' = [wake_list EXCEPT ![t] = woken]
  BY Zenon DEF DequeueAndRelease
<1>5. left \in Seq(Threads)
  BY <1>1, <1>2, SubsequenceHas, Zenon
<1>6. woken \in Seq(Threads) /\ woken # <<>>
  BY <1>1, <1>2, SubsequenceHas, Zenon
<1>7. queue' \in Seq(Threads)
  BY <1>3, <1>5, SelfQueued, Zenon
<1> QED
  BY <1>4, <1>6, <1>7, Zenon
=============================================================================

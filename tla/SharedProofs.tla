---------------------------- MODULE SharedProofs ----------------------------
(***************************************************************************)
(* Reference counting, for any number of threads.                          *)
(*                                                                         *)
(* Status: the reps have the references that are counted, a change to one  *)
(* status does not show in its copies, and operator== compares values.     *)
(*                                                                         *)
(* Sampled cords: an info has one owner, and a tree has as many references *)
(* as it has owners.                                                       *)
(***************************************************************************)
EXTENDS Cordz, Status, FiniteSetTheorems, TLAPS

One(b) == IF b THEN 1 ELSE 0

\* The members of S that refer to r.
Those(S, f, r) == {x \in S : f[x] = r}

\* Only x refers to something else in g than in f.
Only(S, f, g, x) == \A y \in S \ {x} : g[y] = f[y]

\* What the step of x from f to g adds to the references of r.
Change(S, f, g, x, r) == One(x \in S /\ g[x] = r) - One(x \in S /\ f[x] = r)

\* A step adds or takes a reference, or does neither.
LEMMA ChangeIsInt == \A S, f, g, x, r : Change(S, f, g, x, r) \in Int
  BY DEF Change, One

\* The owners of a tree can be counted.
LEMMA OwnersAreFinite == IsFiniteSet(Snapshots) /\ IsFiniteSet(Cords) /\ IsFiniteSet(Infos)
<1>1. 1 \in Int /\ MaxSnapshots \in Int
  BY CordzAssumption
<1>2. IsFiniteSet(1..MaxSnapshots)
  BY Zenon, <1>1, FS_Interval
<1> QED
  BY Zenon, <1>2, CordzAssumption DEF Snapshots

\* How many of the set S refer to r, when one of them changes what it refers to.
LEMMA CountUpdate ==
    ASSUME NEW S, IsFiniteSet(S), NEW f, NEW g, NEW c, NEW r, Only(S, f, g, c)
    PROVE  /\ Cardinality(Those(S, f, r)) \in Nat
           /\ Cardinality(Those(S, g, r)) \in Nat
           /\ Cardinality(Those(S, g, r)) = Cardinality(Those(S, f, r)) + Change(S, f, g, c, r)
<1> DEFINE F == {x \in S : f[x] = r}
           G == {x \in S : g[x] = r}
<1>1. IsFiniteSet(F) /\ IsFiniteSet(G)
  BY Zenon, FS_Subset
<1>2. Cardinality(F) \in Nat /\ Cardinality(G) \in Nat
  BY Zenon, <1>1, FS_CardinalityType
<1>3. F \ {c} = G \ {c}
  BY Zenon DEF Only
<1>4. /\ Cardinality(F \ {c}) = IF c \in F THEN Cardinality(F) - 1 ELSE Cardinality(F)
      /\ Cardinality(G \ {c}) = IF c \in G THEN Cardinality(G) - 1 ELSE Cardinality(G)
  BY Zenon, <1>1, FS_RemoveElement
<1>5. (c \in F <=> c \in S /\ f[c] = r) /\ (c \in G <=> c \in S /\ g[c] = r)
  BY Zenon
<1> HIDE DEF F, G
<1>6. Cardinality(G) = Cardinality(F) + Change(S, f, g, c, r)
  <2>1. Cardinality(F \ {c}) = Cardinality(F) - One(c \in S /\ f[c] = r)
    BY <1>2, <1>4, <1>5 DEF One
  <2>2. Cardinality(G \ {c}) = Cardinality(G) - One(c \in S /\ g[c] = r)
    BY <1>2, <1>4, <1>5 DEF One
  <2>3. Cardinality(F \ {c}) = Cardinality(G \ {c})
    BY <1>3, Zenon
  <2> QED
    BY <1>2, <2>1, <2>2, <2>3 DEF One, Change
<1> QED
  BY Zenon, <1>2, <1>6 DEF F, G, Those

\* The first of the elements n to m - 1 of a sequence, and the others.
LEMMA FirstAndRest ==
    ASSUME NEW f, NEW n \in Nat, NEW m \in Nat, n < m
    PROVE  \A e : e \in {f[k] : k \in n..(m - 1)} <=> e = f[n] \/ e \in {f[k] : k \in (n + 1)..(m - 1)}
<1>1. \A k : k \in n..(m - 1) <=> k = n \/ k \in (n + 1)..(m - 1)
  OBVIOUS
<1> QED
  BY Zenon, <1>1

\* Somebody refers to r: the count is positive.
LEMMA CountPositive ==
    ASSUME NEW S, IsFiniteSet(S), NEW f, NEW r
    PROVE  /\ Cardinality(Those(S, f, r)) \in Nat
           /\ Cardinality(Those(S, f, r)) = 0 <=> \A x \in S : f[x] # r
           /\ Cardinality(Those(S, f, r)) = 1 =>
                 \A x, y \in S : f[x] = r /\ f[y] = r => x = y
<1> DEFINE F == {x \in S : f[x] = r}
<1>1. IsFiniteSet(F)
  BY Zenon, FS_Subset
<1>2. Cardinality(F) \in Nat
  BY Zenon, <1>1, FS_CardinalityType
<1>3. Cardinality(F) = 0 <=> F = {}
  BY Zenon, <1>1, FS_EmptySet
<1>4. Cardinality(F) = 1 => \E x : F = {x}
  BY Zenon, <1>1, FS_Singleton
<1> QED
  BY <1>2, <1>3, <1>4 DEF Those

-----------------------------------------------------------------------------
(* Status. *)

\* The fields of a rep.
Rec ==
    [code : {"error", "internal"}, message : 0..MaxJoins, payloads : [Urls -> Payloads \cup {None}], located : {0, 1}]

Busy == {"unref", "fetch_sub", "clone", "apply"}

StatusTypes ==
    /\ word \in [Owners -> Reps \cup Inlined] /\ drop \in [Owners -> Reps \cup {None}]
    /\ op \in [Owners -> Ops \cup {None}] /\ place \in [Owners -> {"idle"} \cup Busy]
    /\ live \subseteq Reps /\ ref_ \in [Reps -> Nat]
    /\ DOMAIN content = Reps /\ \A r \in live : content[r] \in Rec

\* What a thread has in hand at each place.
StatusHand ==
    \A t \in Owners :
        /\ drop[t] # None <=> place[t] \in {"unref", "fetch_sub"}
        /\ place[t] = "idle" => op[t] = None
        /\ place[t] \in {"clone", "apply"} => op[t] # None
        /\ op[t] # None => word[t] \in Reps

\* Nobody else has the rep of t, nor is about to unreference it.
Alone(t) ==
    /\ \A u \in Owners \ {t} : word[u] # word[t]
    /\ \A u \in Owners : drop[u] # word[t]

\* A rep that a thread has prepared to modify is its own.  A rep says more than an inlined word
\* would, but for one that a payload is about to be added to.
OwnsRep(t) ==
    /\ op[t] # None /\ place[t] # "clone" => Alone(t)
    /\ word[t] \in Reps => ~Bare(content[word[t]]) \/ (place[t] = "apply" /\ op[t].kind = "set")

StatusInv == StatusTypes /\ StatusHand /\ RepsCounted /\ \A t \in Owners : OwnsRep(t)

\* The changes that are asked for.
LEMMA OpFacts ==
    \A o \in Ops : /\ o.kind \in {"set", "erase", "location"}
                   /\ o.kind = "set" => o.url \in Urls /\ o.payload \in Payloads
                   /\ o.kind = "erase" => o.url \in Urls
                   /\ o # None
BY StatusAssumption DEF Ops, AddLocation

\* What a change does to the fields.
LEMMA ChangedFacts ==
    ASSUME NEW f \in Rec, NEW o \in Ops
    PROVE  /\ Changed(f, o) \in Rec
           /\ o.kind = "set" => ~Bare(Changed(f, o))
           /\ o.kind = "location" /\ ~Bare(f) => ~Bare(Changed(f, o))
           /\ o.kind = "erase" /\ f.payloads[o.url] = None /\ ~Bare(f) => ~Bare(Changed(f, o))
<1> USE DEF Rec, Bare
<1>1. CASE o.kind = "set"
  BY Zenon, <1>1, OpFacts, StatusAssumption DEF Changed
<1>2. CASE o.kind = "erase"
  BY Zenon, <1>2, OpFacts, StatusAssumption DEF Changed
<1>3. CASE o.kind = "location"
  BY Zenon, <1>3, OpFacts, StatusAssumption DEF Changed
<1> QED
  BY Zenon, <1>1, <1>2, <1>3, OpFacts

\* RepsCounted, in terms of the counts.
LEMMA RepsByThose ==
    RepsCounted <=>
       \A r \in Reps : /\ ref_[r] = Cardinality(Those(Owners, word, r)) + Cardinality(Those(Owners, drop, r))
                       /\ r \in live <=> ref_[r] > 0
BY Zenon DEF RepsCounted, Those

\* Who may have a rep, from its count.
LEMMA RepFacts ==
    ASSUME RepsCounted, NEW r \in Reps
    PROVE  /\ ref_[r] \in Nat /\ (r \in live <=> ref_[r] > 0)
           /\ r \in live <=> \E t \in Owners : word[t] = r \/ drop[t] = r
           /\ \A t \in Owners : ref_[r] = 1 /\ word[t] = r =>
                 (\A u \in Owners \ {t} : word[u] # r) /\ (\A u \in Owners : drop[u] # r)
           /\ \A t \in Owners : ref_[r] = 1 /\ drop[t] = r =>
                 (\A u \in Owners : word[u] # r) /\ (\A u \in Owners \ {t} : drop[u] # r)
<1> DEFINE A == Cardinality(Those(Owners, word, r))
           B == Cardinality(Those(Owners, drop, r))
<1>1. A \in Nat /\ (A = 0 <=> \A x \in Owners : word[x] # r)
      /\ (A = 1 => \A x, y \in Owners : word[x] = r /\ word[y] = r => x = y)
  BY Zenon, StatusAssumption, CountPositive
<1>2. B \in Nat /\ (B = 0 <=> \A x \in Owners : drop[x] # r)
      /\ (B = 1 => \A x, y \in Owners : drop[x] = r /\ drop[y] = r => x = y)
  BY Zenon, StatusAssumption, CountPositive
<1>3. ref_[r] = A + B /\ (r \in live <=> ref_[r] > 0)
  BY Zenon, RepsByThose
<1> HIDE DEF A, B
<1>4. ref_[r] = 1 => (A = 1 /\ B = 0) \/ (A = 0 /\ B = 1)
  BY <1>1, <1>2, <1>3
<1>5. r \in live <=> ~(A = 0 /\ B = 0)
  BY <1>1, <1>2, <1>3
<1> QED
  BY <1>1, <1>2, <1>3, <1>4, <1>5

\* A step of thread t after which the counts are right.
LEMMA Recount ==
    ASSUME RepsCounted, NEW t \in Owners, Only(Owners, word, word', t), Only(Owners, drop, drop', t),
           \A r \in Reps : /\ ref_'[r] = ref_[r] + Change(Owners, word, word', t, r) + Change(Owners, drop, drop', t, r)
                           /\ r \in live' <=> ref_'[r] > 0
    PROVE  RepsCounted'
<1> SUFFICES ASSUME NEW r \in Reps
    PROVE  /\ ref_'[r] = Cardinality(Those(Owners, word', r)) + Cardinality(Those(Owners, drop', r))
           /\ r \in live' <=> ref_'[r] > 0
  BY Zenon DEF RepsCounted, Those
<1>1. /\ Cardinality(Those(Owners, word, r)) \in Nat /\ Cardinality(Those(Owners, word', r)) \in Nat
      /\ Cardinality(Those(Owners, word', r)) = Cardinality(Those(Owners, word, r)) + Change(Owners, word, word', t, r)
  BY StatusAssumption, CountUpdate
<1>2. /\ Cardinality(Those(Owners, drop, r)) \in Nat /\ Cardinality(Those(Owners, drop', r)) \in Nat
      /\ Cardinality(Those(Owners, drop', r)) = Cardinality(Those(Owners, drop, r)) + Change(Owners, drop, drop', t, r)
  BY StatusAssumption, CountUpdate
<1>3. ref_[r] = Cardinality(Those(Owners, word, r)) + Cardinality(Those(Owners, drop, r))
  BY Zenon, RepsByThose
<1>4. Change(Owners, word, word', t, r) \in Int /\ Change(Owners, drop, drop', t, r) \in Int
  BY DEF Change, One
<1> QED
  BY <1>1, <1>2, <1>3, <1>4

\* Thread t concerns no other: what another has is as it was.
Aside(t) ==
    \A u \in Owners \ {t} :
        /\ word'[u] = word[u] /\ drop'[u] = drop[u] /\ place'[u] = place[u] /\ op'[u] = op[u]
        /\ word[u] \in Reps => content'[word[u]] = content[word[u]]

\* Whom t has its word from, and what it gives up.
From(t) ==
    /\ \/ word'[t] \in Inlined \/ word'[t] \notin live \/ word'[t] = word[t]
       \/ \E x \in Owners : op[x] = None /\ word'[t] = word[x]
    /\ drop'[t] \in {None, drop[t], word[t]}

\* The others own what they owned.
LEMMA OthersOwn ==
    ASSUME StatusInv, NEW t \in Owners, Aside(t), From(t), NEW u \in Owners, u # t
    PROVE  OwnsRep(u)'
<1> USE DEF StatusInv, StatusTypes, StatusHand
<1>1. word'[u] = word[u] /\ drop'[u] = drop[u] /\ place'[u] = place[u] /\ op'[u] = op[u]
      /\ (word[u] \in Reps => content'[word[u]] = content[word[u]])
  BY Zenon DEF Aside
<1>2. word'[u] \in Reps => ~Bare(content'[word'[u]]) \/ (place'[u] = "apply" /\ op'[u].kind = "set")
  BY Zenon, <1>1 DEF OwnsRep
<1>3. ASSUME op[u] # None, place[u] # "clone" PROVE Alone(u)'
  <2>1. Alone(u) /\ word[u] \in Reps /\ word[u] \notin Inlined
    BY Zenon, <1>3, StatusAssumption DEF OwnsRep
  <2>2. word[u] \in live /\ word[u] # None
    BY <2>1, RepFacts, StatusAssumption
  <2>3. word'[t] # word[u]
    BY Zenon, <1>3, <2>1, <2>2 DEF From, Alone
  <2>4. drop'[t] # word[u]
    BY Zenon, <2>1, <2>2 DEF From, Alone
  <2> QED
    BY Zenon, <1>1, <2>1, <2>3, <2>4 DEF Alone, Aside
<1> QED
  BY Zenon, <1>1, <1>2, <1>3 DEF OwnsRep, Bare

\* A rep that is made anew was nobody's.
LEMMA FreshRep ==
    ASSUME StatusInv, NEW t \in Owners, NEW f, NewRep(t, f)
    PROVE  \E r \in Reps \ live :
              /\ live' = live \cup {r} /\ ref_' = [ref_ EXCEPT ![r] = 1] /\ content' = [content EXCEPT ![r] = f]
              /\ word' = [word EXCEPT ![t] = r] /\ ref_[r] = 0
              /\ \A u \in Owners : word[u] # r /\ drop[u] # r
<1> DEFINE r == CHOOSE x \in Reps \ live : TRUE
<1>1. r \in Reps \ live
  BY Zenon DEF StatusInv, StatusTypes, NewRep
<1>2. /\ live' = live \cup {r} /\ ref_' = [ref_ EXCEPT ![r] = 1] /\ content' = [content EXCEPT ![r] = f]
      /\ word' = [word EXCEPT ![t] = r]
  BY Zenon DEF NewRep
<1> HIDE DEF r
<1>3. ref_[r] = 0 /\ \A u \in Owners : word[u] # r /\ drop[u] # r
  BY <1>1, RepFacts DEF StatusInv
<1> QED
  BY <1>1, <1>2, <1>3, Zenon

\* Thread t has a new rep with fields f, and unreferences the one it had or had none.
LEMMA StatusNewRep ==
    ASSUME StatusInv, NEW t \in Owners, NEW f \in Rec, NewRep(t, f),
           \A u \in Owners \ {t} : place'[u] = place[u] /\ op'[u] = op[u], DOMAIN place' = Owners,
           place' \in [Owners -> {"idle"} \cup Busy], op' \in [Owners -> Ops \cup {None}],
           op[t] # None => place[t] = "clone", place[t] \in {"idle", "clone"},
           \/ word[t] \in Inlined /\ drop' = drop /\ place'[t] \in {"idle", "apply"}
           \/ word[t] \in Reps /\ drop' = [drop EXCEPT ![t] = word[t]] /\ place'[t] = "unref",
           place'[t] = "idle" => op'[t] = None, place'[t] = "apply" => op'[t] # None,
           ~Bare(f) \/ (place'[t] = "apply" /\ op'[t].kind = "set")
    PROVE  StatusInv'
<1> USE DEF StatusInv, StatusTypes, StatusHand
<1> PICK r \in Reps \ live :
           /\ live' = live \cup {r} /\ ref_' = [ref_ EXCEPT ![r] = 1] /\ content' = [content EXCEPT ![r] = f]
           /\ word' = [word EXCEPT ![t] = r] /\ ref_[r] = 0
           /\ \A u \in Owners : word[u] # r /\ drop[u] # r
  BY FreshRep
<1>0. None \notin Reps /\ Reps \cap Inlined = {} /\ drop[t] = None
  BY Zenon, StatusAssumption
<1>1. StatusTypes'
  BY <1>0
<1>2. StatusHand'
  BY <1>0
<1>3. RepsCounted'
  <2>1. Only(Owners, word, word', t) /\ Only(Owners, drop, drop', t)
    BY Zenon DEF Only
  <2>2. ASSUME NEW q \in Reps
        PROVE  /\ ref_'[q] = ref_[q] + Change(Owners, word, word', t, q) + Change(Owners, drop, drop', t, q)
               /\ q \in live' <=> ref_'[q] > 0
    <3>1. q \in live <=> ref_[q] > 0
      BY Zenon, RepFacts
    <3> QED
      BY <1>0, <3>1 DEF Change, One
  <2> QED
    BY <2>1, <2>2, Recount, Zenon
<1>4. ASSUME NEW u \in Owners PROVE OwnsRep(u)'
  <2>1. Aside(t) /\ From(t)
    BY Zenon, <1>0 DEF Aside, From
  <2>2. CASE u # t
    BY Zenon, <2>1, <2>2, OthersOwn
  <2>3. CASE u = t
    BY <1>0, <2>3 DEF OwnsRep, Alone, Bare
  <2> QED
    BY Zenon, <2>2, <2>3
<1> QED
  BY Zenon, <1>1, <1>2, <1>3, <1>4

\* The fields of a rep that is made for an inlined word.
LEMMA FieldsFacts ==
    ASSUME NEW code \in {"error", "internal"}, NEW message \in {0, 1}, NEW located \in {0, 1}
    PROVE  Fields(code, message, located) \in Rec /\ (message = 1 => ~Bare(Fields(code, message, located)))
BY StatusAssumption DEF Fields, Rec, Bare

\* The steps that make a rep.
LEMMA StatusMakes ==
    ASSUME StatusInv, NEW t \in Owners,
           \/ \E message, located \in {0, 1} : Construct(t, message, located)
           \/ \E o \in Ops : PrepareToModify(t, o)
           \/ CloneAndUnref(t) \/ Join(t)
    PROVE  StatusInv'
<1> USE DEF StatusInv, StatusTypes, StatusHand
<1>0. Reps \cap Inlined = {} /\ None \notin Reps /\ (word[t] \in Reps => word[t] \in live /\ content[word[t]] \in Rec)
  BY Zenon, RepFacts, StatusAssumption
<1>1. ASSUME NEW message \in {0, 1}, NEW located \in {0, 1}, Construct(t, message, located) PROVE StatusInv'
  <2>1. CASE message = 0
    <3>1. /\ place[t] = "idle" /\ word[t] \in Inlined /\ word' = [word EXCEPT ![t] = "error"]
          /\ UNCHANGED <<live, ref_, content, place, drop, op>>
      BY Zenon, <1>1, <2>1 DEF Construct
    <3>2. StatusTypes' /\ StatusHand'
      BY Zenon, <1>0, <3>1 DEF Inlined
    <3>3. RepsCounted'
      <4>1. Only(Owners, word, word', t) /\ Only(Owners, drop, drop', t)
        BY Zenon, <3>1 DEF Only
      <4>2. ASSUME NEW q \in Reps
            PROVE  /\ ref_'[q] = ref_[q] + Change(Owners, word, word', t, q) + Change(Owners, drop, drop', t, q)
                   /\ q \in live' <=> ref_'[q] > 0
        <5>1. q \in live <=> ref_[q] > 0
          BY Zenon, RepFacts
        <5>2. q # word[t] /\ q # word'[t]
          BY Zenon, <1>0, <3>1 DEF Inlined
        <5> QED
          BY <3>1, <5>1, <5>2 DEF Change, One
      <4> QED
        BY Zenon, <4>1, <4>2, Recount
    <3>4. Aside(t) /\ From(t)
      BY Zenon, <3>1 DEF Aside, From, Inlined
    <3>5. OwnsRep(t)'
      BY Zenon, <1>0, <3>1 DEF OwnsRep, Inlined
    <3> QED
      BY Zenon, <3>2, <3>3, <3>4, <3>5, OthersOwn DEF OwnsRep
  <2>2. CASE message # 0
    <3>1. /\ place[t] = "idle" /\ word[t] \in Inlined /\ NewRep(t, Fields("error", message, located))
          /\ UNCHANGED <<place, drop, op>>
      BY Zenon, <1>1, <2>2 DEF Construct
    <3>2. Fields("error", message, located) \in Rec /\ ~Bare(Fields("error", message, located))
      BY Zenon, <2>2, FieldsFacts
    <3> QED
      BY Zenon, <3>1, <3>2, StatusNewRep
  <2> QED
    BY Zenon, <2>1, <2>2
<1>2. ASSUME NEW o \in Ops, PrepareToModify(t, o) PROVE StatusInv'
  <2>0. place[t] = "idle" /\ op' = [op EXCEPT ![t] = o] /\ drop' = drop /\ op[t] = None /\ o # None /\ drop[t] = None
    BY Zenon, <1>2, OpFacts DEF PrepareToModify
  <2>1. CASE word[t] \in Inlined
    <3> DEFINE code == InlinedRepToCode(word[t])
    <3>1. o.kind = "set" /\ code \in {"error", "internal"}
      BY Zenon, <1>0, <1>2, <2>1, OpFacts DEF PrepareToModify, InlinedRepToCode, Inlined
    <3>2. NewRep(t, Fields(code, 0, 0)) /\ place' = [place EXCEPT ![t] = "apply"]
      BY Zenon, <1>2, <2>1 DEF PrepareToModify, Go
    <3>3. Fields(code, 0, 0) \in Rec
      BY Zenon, <3>1, FieldsFacts
    <3> QED
      BY Zenon, <2>0, <2>1, <3>1, <3>2, <3>3, StatusNewRep DEF Busy
  <2>2. CASE word[t] \notin Inlined
    <3>1. /\ UNCHANGED <<word, live, ref_, content>> /\ word[t] \in Reps
          /\ place' = [place EXCEPT ![t] = IF ref_[word[t]] = 1 THEN "apply" ELSE "clone"]
      BY Zenon, <1>2, <2>2 DEF PrepareToModify, Go
    <3>2. StatusTypes' /\ StatusHand'
      BY Zenon, <2>0, <3>1 DEF Busy
    <3>3. RepsCounted'
      BY Zenon, <2>0, <3>1 DEF RepsCounted
    <3>4. Aside(t) /\ From(t)
      BY Zenon, <2>0, <3>1 DEF Aside, From
    <3>5. OwnsRep(t)'
      <4>1. ref_[word[t]] = 1 => Alone(t)
        BY Zenon, <3>1, RepFacts DEF Alone
      <4> QED
        BY Zenon, <2>0, <3>1, <4>1 DEF OwnsRep, Alone, Bare
    <3> QED
      BY Zenon, <3>2, <3>3, <3>4, <3>5, OthersOwn DEF OwnsRep
  <2> QED
    BY Zenon, <2>1, <2>2
<1>3. CASE CloneAndUnref(t)
  <2>1. /\ place[t] = "clone" /\ NewRep(t, content[word[t]]) /\ drop' = [drop EXCEPT ![t] = word[t]]
        /\ place' = [place EXCEPT ![t] = "unref"] /\ op' = op
    BY Zenon, <1>3 DEF CloneAndUnref, Go
  <2>2. word[t] \in Reps /\ content[word[t]] \in Rec /\ ~Bare(content[word[t]])
    BY Zenon, <1>0, <2>1 DEF OwnsRep
  <2> QED
    BY <2>1, <2>2, StatusNewRep, Zenon DEF Busy
<1>4. CASE Join(t)
  <2>0. place[t] = "idle" /\ op' = [op EXCEPT ![t] = AddLocation] /\ op[t] = None /\ AddLocation \in Ops /\ AddLocation # None
    BY Zenon, <1>4, OpFacts DEF Join, Ops
  <2>1. CASE word[t] \in Inlined
    <3>1. /\ NewRep(t, Fields(word[t], 1, 0)) /\ place' = [place EXCEPT ![t] = "apply"] /\ drop' = drop
          /\ word[t] \in {"error", "internal"}
      BY Zenon, <1>4, <2>1 DEF Join, Go, Inlined
    <3>2. Fields(word[t], 1, 0) \in Rec /\ ~Bare(Fields(word[t], 1, 0))
      BY Zenon, <3>1, FieldsFacts
    <3> QED
      BY Zenon, <2>0, <2>1, <3>1, <3>2, StatusNewRep DEF Busy
  <2>2. CASE word[t] \notin Inlined
    <3> DEFINE f == [content[word[t]] EXCEPT !.message = @ + 1]
    <3>1. /\ NewRep(t, f) /\ place' = [place EXCEPT ![t] = "unref"] /\ drop' = [drop EXCEPT ![t] = word[t]]
          /\ content[word[t]].message < MaxJoins /\ word[t] \in Reps
      BY Zenon, <1>4, <2>2 DEF Join, Go
    <3>2. f \in Rec /\ ~Bare(f)
      BY <1>0, <3>1, StatusAssumption DEF Rec, Bare
    <3> HIDE DEF f
    <3> QED
      BY <2>0, <3>1, <3>2, StatusNewRep, Zenon DEF Busy
  <2> QED
    BY Zenon, <2>1, <2>2
<1> QED
  BY Zenon, <1>1, <1>2, <1>3, <1>4

\* Copying and destroying.
LEMMA StatusCopies ==
    ASSUME StatusInv, NEW t \in Owners, Destroy(t) \/ \E x \in Owners : CopyAssign(t, x)
    PROVE  StatusInv'
<1> USE DEF StatusInv, StatusTypes, StatusHand
<1>0. /\ Reps \cap Inlined = {} /\ None \notin Reps
      /\ \A u \in Owners : word[u] \in Reps => word[u] \in live /\ ref_[word[u]] \in Nat /\ ref_[word[u]] > 0
  BY Zenon, RepFacts, StatusAssumption
<1>1. CASE Destroy(t)
  <2>1. /\ place[t] = "idle" /\ word[t] \in Reps /\ word' = [word EXCEPT ![t] = "ok"] /\ op[t] = None
        /\ drop' = [drop EXCEPT ![t] = word[t]] /\ place' = [place EXCEPT ![t] = "unref"] /\ drop[t] = None
        /\ UNCHANGED <<live, ref_, content, op>>
    BY Zenon, <1>1 DEF Destroy, Go
  <2>2. StatusTypes' /\ StatusHand'
    BY Zenon, <1>0, <2>1 DEF Busy, Inlined
  <2>3. RepsCounted'
    <3>1. Only(Owners, word, word', t) /\ Only(Owners, drop, drop', t)
      BY Zenon, <2>1 DEF Only
    <3>2. ASSUME NEW q \in Reps
          PROVE  /\ ref_'[q] = ref_[q] + Change(Owners, word, word', t, q) + Change(Owners, drop, drop', t, q)
                 /\ q \in live' <=> ref_'[q] > 0
      <4>1. (q \in live <=> ref_[q] > 0) /\ q # "ok"
        BY Zenon, <1>0, RepFacts DEF Inlined
      <4> QED
        BY <1>0, <2>1, <4>1 DEF Change, One
    <3> QED
      BY Zenon, <3>1, <3>2, Recount
  <2>4. Aside(t) /\ From(t) /\ OwnsRep(t)'
    BY Zenon, <1>0, <2>1 DEF Aside, From, Inlined, OwnsRep
  <2> QED
    BY Zenon, <2>2, <2>3, <2>4, OthersOwn DEF OwnsRep
<1>2. ASSUME NEW x \in Owners, CopyAssign(t, x) PROVE StatusInv'
  <2>1. /\ place[t] = "idle" /\ place[x] = "idle" /\ word[x] # word[t] /\ op[t] = None /\ op[x] = None /\ drop[t] = None
        /\ ref_' = IF word[x] \in Reps THEN [ref_ EXCEPT ![word[x]] = @ + 1] ELSE ref_
        /\ word' = [word EXCEPT ![t] = word[x]]
        /\ drop' = [drop EXCEPT ![t] = IF word[t] \in Reps THEN word[t] ELSE None]
        /\ place' = [place EXCEPT ![t] = IF word[t] \in Reps THEN "unref" ELSE "idle"]
        /\ UNCHANGED <<live, content, op>>
    BY Zenon, <1>2 DEF CopyAssign, Go, UnrefOf
  <2>2. StatusTypes' /\ StatusHand'
    BY <1>0, <2>1 DEF Busy
  <2>3. RepsCounted'
    <3>1. Only(Owners, word, word', t) /\ Only(Owners, drop, drop', t)
      BY Zenon, <2>1 DEF Only
    <3>2. ASSUME NEW q \in Reps
          PROVE  /\ ref_'[q] = ref_[q] + Change(Owners, word, word', t, q) + Change(Owners, drop, drop', t, q)
                 /\ q \in live' <=> ref_'[q] > 0
      <4>1. (q \in live <=> ref_[q] > 0)
        BY Zenon, RepFacts
      <4> QED
        BY <1>0, <2>1, <4>1 DEF Change, One
    <3> QED
      BY Zenon, <3>1, <3>2, Recount
  <2>4. Aside(t) /\ From(t)
    BY Zenon, <2>1 DEF Aside, From
  <2>5. OwnsRep(t)'
    BY Zenon, <2>1 DEF OwnsRep, Bare
  <2> QED
    BY Zenon, <2>2, <2>3, <2>4, <2>5, OthersOwn DEF OwnsRep
<1> QED
  BY Zenon, <1>1, <1>2

\* Moving: two words change.
LEMMA StatusMoves ==
    ASSUME StatusInv, NEW t \in Owners, NEW x \in Owners, Move(t, x)
    PROVE  StatusInv'
<1> USE DEF StatusInv, StatusTypes, StatusHand
<1>0. Reps \cap Inlined = {} /\ None \notin Reps /\ "moved" \in Inlined /\ "moved" \notin Reps
  BY Zenon, StatusAssumption DEF Inlined
<1>1. /\ place[t] = "idle" /\ place[x] = "idle" /\ word[x] # word[t] /\ op[t] = None /\ op[x] = None /\ drop[t] = None
      /\ word' = [word EXCEPT ![t] = word[x], ![x] = "moved"] /\ t # x
      /\ drop' = [drop EXCEPT ![t] = IF word[t] \in Reps THEN word[t] ELSE None]
      /\ place' = [place EXCEPT ![t] = IF word[t] \in Reps THEN "unref" ELSE "idle"]
      /\ UNCHANGED <<live, ref_, content, op>>
  BY Zenon DEF Move, Go, UnrefOf
<1>2. StatusTypes' /\ StatusHand'
  BY Zenon, <1>0, <1>1 DEF Busy
<1>3. RepsCounted'
  <2> PICK m : m = [word EXCEPT ![x] = "moved"]
    BY Zenon
  <2>1. Only(Owners, word, m, x) /\ Only(Owners, m, word', t) /\ Only(Owners, drop, drop', t)
    BY Zenon, <1>1 DEF Only
  <2> SUFFICES ASSUME NEW q \in Reps
      PROVE  /\ ref_'[q] = Cardinality(Those(Owners, word', q)) + Cardinality(Those(Owners, drop', q))
             /\ q \in live' <=> ref_'[q] > 0
    BY Zenon DEF RepsCounted, Those
  <2>2. /\ Cardinality(Those(Owners, word, q)) \in Nat /\ Cardinality(Those(Owners, m, q)) \in Nat
        /\ Cardinality(Those(Owners, m, q)) = Cardinality(Those(Owners, word, q)) + Change(Owners, word, m, x, q)
    BY <2>1, StatusAssumption, CountUpdate
  <2>3. /\ Cardinality(Those(Owners, word', q)) \in Nat
        /\ Cardinality(Those(Owners, word', q)) = Cardinality(Those(Owners, m, q)) + Change(Owners, m, word', t, q)
    BY <2>1, StatusAssumption, CountUpdate
  <2>4. /\ Cardinality(Those(Owners, drop, q)) \in Nat /\ Cardinality(Those(Owners, drop', q)) \in Nat
        /\ Cardinality(Those(Owners, drop', q)) = Cardinality(Those(Owners, drop, q)) + Change(Owners, drop, drop', t, q)
    BY <2>1, StatusAssumption, CountUpdate
  <2>5. ref_[q] = Cardinality(Those(Owners, word, q)) + Cardinality(Those(Owners, drop, q)) /\ (q \in live <=> ref_[q] > 0)
    BY Zenon, RepsByThose
  <2>6. Change(Owners, word, m, x, q) + Change(Owners, m, word', t, q) + Change(Owners, drop, drop', t, q) = 0
    BY <1>0, <1>1 DEF Change, One
  <2>7. /\ Change(Owners, word, m, x, q) \in Int /\ Change(Owners, m, word', t, q) \in Int
        /\ Change(Owners, drop, drop', t, q) \in Int
    BY DEF Change, One
  <2> QED
    BY <1>1, <2>2, <2>3, <2>4, <2>5, <2>6, <2>7
<1>4. ASSUME NEW u \in Owners PROVE OwnsRep(u)'
  <2>1. op'[u] = op[u] /\ content' = content
    BY Zenon, <1>1
  <2>2. CASE u = t \/ u = x
    BY Zenon, <1>0, <1>1, <2>2 DEF OwnsRep, Bare
  <2>3. CASE u # t /\ u # x
    <3>1. word'[u] = word[u] /\ place'[u] = place[u] /\ drop'[u] = drop[u]
      BY Zenon, <1>1, <2>3
    <3>2. ASSUME op[u] # None, Alone(u) PROVE Alone(u)'
      <4>1. word[u] \in Reps
        BY Zenon, <3>2
      <4> QED
        BY Zenon, <1>0, <1>1, <2>3, <3>1, <3>2, <4>1 DEF Alone
    <3> QED
      BY Zenon, <2>1, <3>1, <3>2 DEF OwnsRep, Bare
  <2> QED
    BY Zenon, <2>2, <2>3
<1> QED
  BY Zenon, <1>2, <1>3, <1>4

\* Giving up a reference.
LEMMA StatusUnrefs ==
    ASSUME StatusInv, NEW t \in Owners, UnrefRep(t) \/ FetchSub(t)
    PROVE  StatusInv'
<1> USE DEF StatusInv, StatusTypes, StatusHand
<1> PICK r : r = drop[t]
  BY Zenon
<1>0. /\ Reps \cap Inlined = {} /\ None \notin Reps /\ None \notin Ops /\ r \in Reps /\ place[t] \in {"unref", "fetch_sub"}
      /\ word' = word /\ op' = op
  BY Zenon, StatusAssumption DEF UnrefRep, FetchSub
<1>1. r \in live /\ ref_[r] \in Nat /\ ref_[r] > 0
  BY Zenon, <1>0, RepFacts
<1>2. CASE UnrefRep(t) /\ ref_[r] # 1
  <2>1. place' = [place EXCEPT ![t] = "fetch_sub"] /\ UNCHANGED <<live, ref_, content, drop>>
    BY Zenon, <1>2 DEF UnrefRep, FetchSub, Go
  <2>2. StatusTypes' /\ StatusHand'
    BY Zenon, <1>0, <2>1 DEF Busy
  <2>3. RepsCounted'
    <3>1. word' = word /\ drop' = drop /\ ref_' = ref_ /\ live' = live /\ RepsCounted
      BY Zenon, <1>0, <2>1
    <3> HIDE DEF StatusInv
    <3> QED
      BY Zenon, <3>1 DEF RepsCounted
  <2>4. ASSUME NEW u \in Owners PROVE OwnsRep(u)'
    BY Zenon, <1>0, <2>1 DEF OwnsRep, Alone, Bare
  <2> QED
    BY Zenon, <2>2, <2>3, <2>4
<1>3. CASE FetchSub(t) \/ ref_[r] = 1
  <2>1. /\ drop' = [drop EXCEPT ![t] = None] /\ place' = [place EXCEPT ![t] = IF op[t] = None THEN "idle" ELSE "apply"]
        /\ IF ref_[r] = 1 THEN DeleteRep(r) ELSE ref_' = [ref_ EXCEPT ![r] = @ - 1] /\ UNCHANGED <<live, content>>
    BY Zenon, <1>3 DEF UnrefRep, FetchSub, Go
  <2>2. /\ ref_' = [ref_ EXCEPT ![r] = @ - 1]
        /\ live' = IF ref_[r] = 1 THEN live \ {r} ELSE live
        /\ DOMAIN content' = Reps
    BY <1>0, <1>1, <2>1 DEF DeleteRep
  <2>3. \A q \in live' : q # r \/ ref_[r] # 1
    BY Zenon, <2>2
  <2>4. \A q \in live' : content'[q] = content[q]
    BY <2>1, <2>3, <2>2, Zenon DEF DeleteRep
  <2>5. StatusTypes'
    BY <1>0, <1>1, <2>1, <2>2, <2>4 DEF Busy
  <2>6. StatusHand'
    BY Zenon, <1>0, <2>1
  <2>7. RepsCounted'
    <3>1. Only(Owners, word, word', t) /\ Only(Owners, drop, drop', t)
      BY Zenon, <1>0, <2>1 DEF Only
    <3>2. ASSUME NEW q \in Reps
          PROVE  /\ ref_'[q] = ref_[q] + Change(Owners, word, word', t, q) + Change(Owners, drop, drop', t, q)
                 /\ q \in live' <=> ref_'[q] > 0
      <4>1. (q \in live <=> ref_[q] > 0) /\ ref_[q] \in Nat
        BY Zenon, RepFacts
      <4> QED
        BY <1>0, <1>1, <2>1, <2>2, <4>1 DEF Change, One
    <3> QED
      BY Zenon, <3>1, <3>2, Recount
  <2>8. \A u \in Owners : word[u] \in Reps => content'[word[u]] = content[word[u]]
    <3>1. \A u \in Owners : word[u] \in Reps => word[u] \in live /\ (ref_[r] = 1 => word[u] # r)
      BY <1>0, RepFacts
    <3> QED
      BY Zenon, <2>2, <2>4, <3>1
  <2>9. Aside(t) /\ From(t)
    BY Zenon, <1>0, <2>1, <2>8 DEF Aside, From
  <2>10. OwnsRep(t)'
    BY <1>0, <2>1, <2>8 DEF OwnsRep, Alone, Bare
  <2> QED
    BY Zenon, <2>5, <2>6, <2>7, <2>9, <2>10, OthersOwn DEF OwnsRep
<1> QED
  BY Zenon, <1>2, <1>3

\* Changing a rep of one's own, or making it an inlined word again.
LEMMA StatusApplies ==
    ASSUME StatusInv, NEW t \in Owners, Apply(t)
    PROVE  StatusInv'
<1> USE DEF StatusInv, StatusTypes, StatusHand
<1> PICK r, f, o : r = word[t] /\ f = content[r] /\ o = op[t]
  BY Zenon
<1>0. Reps \cap Inlined = {} /\ None \notin Reps /\ "error" \notin Reps /\ "internal" \notin Reps
  BY Zenon, StatusAssumption DEF Inlined
<1>1. /\ place[t] = "apply" /\ op' = [op EXCEPT ![t] = None] /\ place' = [place EXCEPT ![t] = "idle"] /\ drop' = drop
      /\ o \in Ops /\ r \in Reps /\ drop[t] = None /\ Alone(t)
  BY Zenon DEF Apply, Go, OwnsRep
<1>2. r \in live /\ f \in Rec /\ ref_[r] \in Nat /\ ref_[r] > 0
  BY Zenon, <1>1, RepFacts
<1>3. \A u \in Owners \ {t} : word[u] # r /\ drop[u] # r
  BY Zenon, <1>1 DEF Alone
<1>4. CASE o.kind = "erase" /\ f.payloads[o.url] # None /\ Bare(Changed(f, o))
  <2>1. DeleteRep(r) /\ word' = [word EXCEPT ![t] = f.code] /\ f.code \in {"error", "internal"}
    BY Zenon, <1>2, <1>4 DEF Apply, Rec
  <2>2. StatusTypes' /\ StatusHand'
    BY Zenon, <1>0, <1>1, <2>1 DEF DeleteRep, Inlined
  <2>3. ref_[r] = 1
    <3> DEFINE A == Cardinality(Those(Owners, word, r))
               B == Cardinality(Those(Owners, drop, r))
    <3>1. ref_[r] = A + B
      BY Zenon, <1>1, RepsByThose
    <3>2. B \in Nat /\ (B = 0 <=> \A x \in Owners : drop[x] # r)
      BY StatusAssumption, CountPositive
    <3>3. A = 1
      <4>1. Those(Owners, word, r) = {t}
        BY Zenon, <1>1, <1>3 DEF Those
      <4>2. Cardinality({t}) = 1
        BY FS_Singleton, Zenon
      <4> QED
        BY Zenon, <4>1, <4>2
    <3> HIDE DEF A, B
    <3> QED
      BY <1>1, <1>3, <3>1, <3>2, <3>3 DEF Alone
  <2>4. RepsCounted'
    <3>1. Only(Owners, word, word', t) /\ Only(Owners, drop, drop', t)
      BY Zenon, <1>1, <2>1 DEF Only
    <3>2. ASSUME NEW q \in Reps
          PROVE  /\ ref_'[q] = ref_[q] + Change(Owners, word, word', t, q) + Change(Owners, drop, drop', t, q)
                 /\ q \in live' <=> ref_'[q] > 0
      <4>1. (q \in live <=> ref_[q] > 0) /\ ref_[q] \in Nat /\ q # "error" /\ q # "internal"
        BY Zenon, <1>0, RepFacts
      <4> QED
        BY <1>0, <1>1, <2>1, <2>3, <4>1 DEF Change, One, DeleteRep
    <3> QED
      BY Zenon, <3>1, <3>2, Recount
  <2>5. Aside(t) /\ From(t)
    BY Zenon, <1>1, <1>3, <2>1 DEF Aside, From, Inlined, DeleteRep
  <2>6. OwnsRep(t)'
    BY Zenon, <1>0, <1>1, <2>1 DEF OwnsRep
  <2> QED
    BY Zenon, <2>2, <2>4, <2>5, <2>6, OthersOwn DEF OwnsRep
<1>5. CASE ~(o.kind = "erase" /\ f.payloads[o.url] # None /\ Bare(Changed(f, o)))
  <2> PICK g : g = Changed(f, o)
    BY Zenon
  <2>1. content' = [content EXCEPT ![r] = g] /\ UNCHANGED <<word, live, ref_>>
    BY Zenon, <1>5 DEF Apply
  <2>2. g \in Rec /\ ~Bare(g)
    <3>1. o.kind # "set" => ~Bare(f)
      BY Zenon, <1>1 DEF OwnsRep
    <3> QED
      BY Zenon, <1>1, <1>2, <1>5, <3>1, ChangedFacts, OpFacts
  <2>3. StatusTypes' /\ StatusHand'
    BY Zenon, <1>1, <2>1, <2>2
  <2>4. RepsCounted'
    BY <1>1, <2>1 DEF RepsCounted
  <2>5. Aside(t) /\ From(t)
    BY Zenon, <1>1, <1>3, <2>1 DEF Aside, From
  <2>6. OwnsRep(t)'
    BY Zenon, <1>1, <2>1, <2>2 DEF OwnsRep, Bare
  <2> QED
    BY Zenon, <2>3, <2>4, <2>5, <2>6, OthersOwn DEF OwnsRep
<1> QED
  BY Zenon, <1>4, <1>5

\* The first state, and every step.
LEMMA StatusFirst == StatusInit => StatusInv
<1> SUFFICES ASSUME StatusInit PROVE StatusInv
  BY Zenon
<1> USE DEF StatusInit
<1>1. StatusTypes /\ StatusHand
  BY Zenon DEF StatusTypes, StatusHand, Inlined
<1>2. RepsCounted
  <2> SUFFICES ASSUME NEW r \in Reps
      PROVE  Cardinality(Those(Owners, word, r)) = 0 /\ Cardinality(Those(Owners, drop, r)) = 0
    BY RepsByThose
  <2>1. \A t \in Owners : word[t] # r /\ drop[t] # r
    BY Zenon, StatusAssumption DEF Inlined
  <2> QED
    BY Zenon, <2>1, StatusAssumption, CountPositive
<1>3. ASSUME NEW t \in Owners PROVE OwnsRep(t)
  BY Zenon, StatusAssumption DEF OwnsRep, Inlined
<1> QED
  BY Zenon, <1>1, <1>2, <1>3 DEF StatusInv

\* Every step of every owner of a Status keeps the invariant.
LEMMA StatusSteps == StatusInv /\ [StatusNext]_statusvars => StatusInv'
<1> SUFFICES ASSUME StatusInv, [StatusNext]_statusvars PROVE StatusInv'
  BY Zenon
<1>1. CASE UNCHANGED statusvars
  <2>1. UNCHANGED <<word, live, ref_, content, place, drop, op>>
    BY Zenon, <1>1 DEF statusvars
  <2>2. StatusTypes' /\ StatusHand' /\ \A t \in Owners : OwnsRep(t)'
    BY Zenon, <2>1 DEF StatusInv, StatusTypes, StatusHand, OwnsRep, Alone, Bare
  <2>3. RepsCounted'
    BY Zenon, <2>1 DEF StatusInv, RepsCounted
  <2> QED
    BY Zenon, <2>2, <2>3 DEF StatusInv
<1>2. ASSUME NEW t \in Owners, Step(t) PROVE StatusInv'
  BY Zenon, <1>2, StatusMakes, StatusCopies, StatusMoves, StatusUnrefs, StatusApplies DEF Step
<1> QED
  BY Zenon, <1>1, <1>2 DEF StatusNext

\* RepsCounted: two threads that unreference a StatusRep at the same time neither free it twice
\* nor leak it, however their Unref, CloneAndUnref and copies interleave.
THEOREM StatusRepsCounted == StatusSpec => []RepsCounted
<1>1. StatusInv => RepsCounted
  BY Zenon DEF StatusInv
<1> QED
  BY <1>1, StatusFirst, StatusSteps, PTL DEF StatusSpec

\* A step leaves the fields alone of every rep that another has, and of its own if its word and
\* its place stay.
LEMMA CopiesStep ==
    ASSUME StatusInv, NEW t \in Owners, Step(t), NEW u \in Owners, word'[u] = word[u], place'[u] = place[u],
           word[u] \in Reps
    PROVE  content'[word[u]] = content[word[u]]
<1> USE DEF StatusInv, StatusTypes, StatusHand
<1>1. word[u] \in live
  BY Zenon, RepFacts
<1>2. ASSUME NEW f, NewRep(t, f) PROVE content'[word[u]] = content[word[u]]
  BY Zenon, <1>1, <1>2, FreshRep
<1>3. CASE UnrefRep(t) \/ FetchSub(t)
  <2> PICK r : r = drop[t]
    BY Zenon
  <2>1. r \in Reps
    BY Zenon, <1>3 DEF UnrefRep, FetchSub
  <2>2. content' = content \/ (ref_[r] = 1 /\ content' = [content EXCEPT ![r] = None])
    BY Zenon, <1>3 DEF UnrefRep, FetchSub, DeleteRep
  <2>3. ref_[r] = 1 => word[u] # r
    BY Zenon, <2>1, RepFacts
  <2> QED
    BY Zenon, <2>2, <2>3
<1>4. CASE Apply(t)
  <2>1. place[t] = "apply" /\ place'[t] = "idle" /\ Alone(t)
    BY Zenon, <1>4 DEF Apply, Go, OwnsRep
  <2>2. u # t
    BY Zenon, <2>1
  <2>3. word[u] # word[t]
    BY Zenon, <2>1, <2>2 DEF Alone
  <2> QED
    BY Zenon, <1>4, <2>3 DEF Apply, DeleteRep
<1>5. CASE \E message, located \in {0, 1} : Construct(t, message, located)
  BY Zenon, <1>2, <1>5 DEF Construct
<1>6. CASE (\E o \in Ops : PrepareToModify(t, o)) \/ CloneAndUnref(t) \/ Join(t)
  BY Zenon, <1>2, <1>6 DEF PrepareToModify, CloneAndUnref, Join
<1>7. CASE Destroy(t) \/ \E x \in Owners : CopyAssign(t, x) \/ Move(t, x)
  BY Zenon, <1>7 DEF Destroy, CopyAssign, Move
<1> QED
  BY Zenon, <1>3, <1>4, <1>5, <1>6, <1>7 DEF Step

\* CopiesIndependent: SetPayload, ErasePayload, AddSourceLocation and the StatusBuilder change a
\* rep in place only when no other status has it, so a copy never changes under its owner.
THEOREM StatusCopiesIndependent == StatusSpec => CopiesIndependent
<1> DEFINE Same == \A t \in Owners : <<word[t], place[t]>>' = <<word[t], place[t]>> => Contents(word[t])' = Contents(word[t])
<1>1. ASSUME StatusInv, [StatusNext]_statusvars PROVE [Same]_statusvars
  <2> SUFFICES ASSUME StatusNext PROVE Same
    BY Zenon, <1>1
  <2> SUFFICES ASSUME NEW u \in Owners, word'[u] = word[u], place'[u] = place[u]
      PROVE  Contents(word[u])' = Contents(word[u])
    BY Zenon
  <2>1. word[u] \in Reps => content'[word[u]] = content[word[u]]
    BY Zenon, <1>1, CopiesStep DEF StatusNext
  <2> QED
    BY Zenon, <2>1 DEF Contents, Fields
<1> QED
  BY <1>1, StatusFirst, StatusSteps, PTL DEF StatusSpec, CopiesIndependent

\* operator== on two reps compares code, message and payloads: if every payload of the one with
\* more urls is in the other, they have the same urls.
LEMMA EqualFields ==
    ASSUME NEW f \in Rec, NEW g \in Rec
    PROVE  EqualReps(f, g) <=> f.code = g.code /\ f.message = g.message /\ f.payloads = g.payloads
<1> DEFINE Has(h) == {u \in Urls : h.payloads[u] # None}
<1>1. ASSUME NEW h \in Rec PROVE IsFiniteSet(Has(h)) /\ Cardinality(Has(h)) \in Nat
  BY Zenon, StatusAssumption, FS_Subset, FS_CardinalityType
<1>2. ASSUME NEW a \in Rec, NEW b \in Rec, Cardinality(Has(a)) >= Cardinality(Has(b)),
             \A u \in Has(a) : a.payloads[u] = b.payloads[u]
      PROVE  a.payloads = b.payloads
  <2>1. Has(a) \subseteq Has(b)
    BY Zenon, <1>2
  <2>2. Has(a) = Has(b)
    <3> HIDE DEF Has
    <3>1. Cardinality(Has(a)) <= Cardinality(Has(b)) /\ (Cardinality(Has(a)) = Cardinality(Has(b)) => Has(a) = Has(b))
      BY Zenon, <1>1, <2>1, FS_Subset
    <3> QED
      BY <1>1, <1>2, <3>1
  <2>3. \A u \in Urls : a.payloads[u] = b.payloads[u]
    BY Zenon, <1>2, <2>2
  <2> QED
    BY <2>3 DEF Rec
<1>3. Cardinality(Has(f)) \in Nat /\ Cardinality(Has(g)) \in Nat
  BY Zenon, <1>1
<1>4. ASSUME EqualReps(f, g) PROVE f.code = g.code /\ f.message = g.message /\ f.payloads = g.payloads
  <2>1. f.code = g.code /\ f.message = g.message
    BY Zenon, <1>4 DEF EqualReps
  <2>2. CASE Cardinality(Has(f)) >= Cardinality(Has(g))
    BY Zenon, <1>2, <1>4, <2>1, <2>2 DEF EqualReps
  <2>3. CASE ~(Cardinality(Has(f)) >= Cardinality(Has(g)))
    <3>1. \A u \in Has(g) : g.payloads[u] = f.payloads[u]
      BY Zenon, <1>4, <2>3 DEF EqualReps
    <3>2. Cardinality(Has(g)) >= Cardinality(Has(f))
      BY <1>3, <2>3
    <3> QED
      BY Zenon, <1>2, <2>1, <3>1, <3>2
  <2> QED
    BY Zenon, <2>2, <2>3
<1>5. ASSUME f.code = g.code, f.message = g.message, f.payloads = g.payloads PROVE EqualReps(f, g)
  <2>1. Has(f) = Has(g)
    BY Zenon, <1>5
  <2>2. Cardinality(Has(f)) - Cardinality(Has(g)) <= 1 /\ Cardinality(Has(g)) - Cardinality(Has(f)) <= 1
    <3>1. Cardinality(Has(f)) = Cardinality(Has(g))
      BY <2>1, Zenon
    <3> HIDE DEF Has
    <3> QED
      BY <1>3, <3>1
  <2> QED
    BY Zenon, <1>5, <2>1, <2>2 DEF EqualReps
<1> QED
  BY Zenon, <1>4, <1>5

\* EqualityIsByValue: operator== may compare words first, because a rep always says more than an
\* inlined word can, and may stop after the urls of one side, because no url appears twice.
THEOREM StatusEqualityIsByValue == StatusSpec => []EqualityIsByValue
<1>1. ASSUME StatusInv PROVE EqualityIsByValue
  <2> USE <1>1 DEF StatusInv, StatusTypes, StatusHand
  <2> SUFFICES ASSUME NEW t \in Owners, NEW u \in Owners, place[t] = "idle", place[u] = "idle"
      PROVE  Equal(word[t], word[u]) <=> ValueOf(word[t]) = ValueOf(word[u])
    BY Zenon DEF EqualityIsByValue
  <2>1. \A x \in {t, u} : word[x] \in Reps => content[word[x]] \in Rec /\ ~Bare(content[word[x]])
    BY Zenon, RepFacts DEF OwnsRep
  <2>2. ASSUME NEW w \in Inlined
        PROVE  /\ w \notin Reps
               /\ Contents(w) = [code |-> InlinedRepToCode(w), message |-> IF w = "moved" THEN MaxJoins + 1 ELSE 0,
                                 payloads |-> [x \in Urls |-> None], located |-> 0]
    BY Zenon, StatusAssumption DEF Contents, Fields
  <2>3. CASE word[t] \in Reps /\ word[u] \in Reps
    <3> PICK f \in Rec, g \in Rec : f = content[word[t]] /\ g = content[word[u]]
      BY Zenon, <2>1, <2>3
    <3>1. ValueOf(word[t]) = ValueOf(word[u]) <=> f.code = g.code /\ f.message = g.message /\ f.payloads = g.payloads
      BY <2>3 DEF ValueOf, Contents, Rec
    <3>2. EqualReps(f, g) <=> f.code = g.code /\ f.message = g.message /\ f.payloads = g.payloads
      BY Zenon, EqualFields
    <3>3. Equal(word[t], word[u]) <=> word[t] = word[u] \/ EqualReps(f, g)
      BY Zenon, <2>3 DEF Equal
    <3> QED
      BY Zenon, <3>1, <3>2, <3>3
  <2>4. ASSUME NEW v, NEW w \in Inlined, v \in Reps, content[v] \in Rec, ~Bare(content[v])
        PROVE  ValueOf(v) # ValueOf(w) /\ v # w
    <3> PICK f \in Rec : f = content[v]
      BY Zenon, <2>4
    <3>1. ValueOf(v).message = f.message /\ ValueOf(v).payloads = f.payloads
      BY Zenon, <2>4 DEF ValueOf, Contents, Rec
    <3>2. /\ ValueOf(w).message = IF w = "moved" THEN MaxJoins + 1 ELSE 0
          /\ ValueOf(w).payloads = [x \in Urls |-> None]
      BY <2>2 DEF ValueOf
    <3>3. f.message \in 0..MaxJoins /\ MaxJoins \in Nat
      BY Zenon, StatusAssumption DEF Rec
    <3>4. f.message # 0 \/ f.payloads # [x \in Urls |-> None]
      BY Zenon, <2>4 DEF Bare
    <3> QED
      BY <2>2, <2>4, <3>1, <3>2, <3>3, <3>4
  <2>5. CASE word[t] \in Inlined /\ word[u] \in Inlined
    <3>1. \A w \in Inlined : /\ ValueOf(w).code = InlinedRepToCode(w)
                             /\ ValueOf(w).message = IF w = "moved" THEN MaxJoins + 1 ELSE 0
      BY <2>2 DEF ValueOf
    <3>2. \A v, w \in Inlined : ValueOf(v) = ValueOf(w) => v = w
      BY <3>1, StatusAssumption DEF InlinedRepToCode
    <3> QED
      BY Zenon, <2>2, <2>5, <3>2 DEF Equal
  <2>6. CASE word[t] \in Reps /\ word[u] \in Inlined
    BY Zenon, <2>1, <2>2, <2>4, <2>6 DEF Equal
  <2>7. CASE word[t] \in Inlined /\ word[u] \in Reps
    BY Zenon, <2>1, <2>2, <2>4, <2>7 DEF Equal
  <2> QED
    BY Zenon, <2>3, <2>5, <2>6, <2>7
<1> QED
  BY <1>1, StatusFirst, StatusSteps, PTL DEF StatusSpec

-----------------------------------------------------------------------------
(* Cordz: who owns an info. *)

InList(h) == h \in Range(dq)
Garbage(i) == \E s \in Snapshots : i \in to_delete[s]
Scope == {"scope", "write", "set", "unlock"}
Leaving == {"untrack", "delisted", "unseen", "extend", "delete", "unqueued"}
Extending == {"delete", "unqueued"}

CordzTypes ==
    /\ DOMAIN root = Cords /\ DOMAIN old = Cords /\ DOMAIN info = Cords /\ DOMAIN rep_ = Infos
    /\ DOMAIN hold = Snapshots /\ DOMAIN refs = Roots
    /\ pc \in [Cords -> {"idle", "untracked"} \cup Scope \cup Leaving]
    /\ spc \in [Snapshots -> {"none", "head", "walk", "analyze", "seen", "delete"}]
    /\ DOMAIN to_delete = Snapshots /\ dq \in Seq(Infos \cup Snapshots)
    /\ used \subseteq Infos /\ retrack \subseteq Cords

\* An info belongs to one cord, or is in the delete queue or on its way out of it; there is one
\* for every cord that is to be tracked anew.
InfosOwned ==
    /\ \A c \in Cords : info[c] # Null => info[c] \in used /\ ~InList(info[c]) /\ ~Garbage(info[c])
    /\ \A c, d \in Cords : info[c] = info[d] /\ info[c] # Null => c = d
    /\ \A i \in Infos : InList(i) \/ Garbage(i) => i \in used
    /\ Cardinality(retrack) <= Cardinality(Infos \ used)

\* What a cord and a profiler have in hand at each place.
InHand ==
    /\ \A c \in Cords :
          /\ pc[c] \in Scope \cup Leaving => info[c] # Null
          /\ pc[c] \in Scope \cup {"idle"} => old[c] = Null
          /\ pc[c] = "untracked" => info[c] = Null
          /\ pc[c] = "set" => root[c] = Null
    /\ \A s \in Snapshots :
          /\ hold[s] # Null => spc[s] = "analyze"
          /\ spc[s] # "delete" => to_delete[s] = {}

OwnInv == CordzTypes /\ InfosOwned /\ InHand

\* There is a fresh info whenever a cord is tracked.
LEMMA FreshInfo ==
    ASSUME OwnInv, Room \/ \E c \in Cords : c \in retrack
    PROVE  (CHOOSE j \in Infos \ used : TRUE) \in Infos \ used
<1>1. IsFiniteSet(retrack) /\ IsFiniteSet(Infos \ used)
  BY Zenon, CordzAssumption, FS_Subset DEF OwnInv, CordzTypes
<1>2. Cardinality(retrack) \in Nat /\ Cardinality(Infos \ used) \in Nat
  BY Zenon, <1>1, FS_CardinalityType
<1>3. Cardinality(retrack) = 0 <=> retrack = {}
  BY Zenon, <1>1, FS_EmptySet
<1>4. Cardinality(Infos \ used) = 0 <=> Infos \ used = {}
  BY Zenon, <1>1, FS_EmptySet
<1>5. Infos \ used # {}
  BY <1>2, <1>3, <1>4 DEF OwnInv, InfosOwned, Room
<1> QED
  BY Zenon, <1>5

\* How tracking changes the numbers of fresh infos and of cords to be tracked.
LEMMA FreshCount ==
    ASSUME OwnInv, NEW i \in Infos \ used, NEW c \in Cords
    PROVE  /\ Cardinality(retrack) \in Nat /\ Cardinality(Infos \ used) \in Nat
           /\ Cardinality(Infos \ (used \cup {i})) = Cardinality(Infos \ used) - 1
           /\ Cardinality(retrack \ {c}) = Cardinality(retrack) - One(c \in retrack)
<1>1. IsFiniteSet(retrack) /\ IsFiniteSet(Infos \ used)
  BY Zenon, CordzAssumption, FS_Subset DEF OwnInv, CordzTypes
<1>2. Infos \ (used \cup {i}) = (Infos \ used) \ {i}
  BY Zenon
<1>3. Cardinality((Infos \ used) \ {i}) = Cardinality(Infos \ used) - 1
  BY Zenon, <1>1, FS_RemoveElement
<1>4. Cardinality(retrack \ {c}) = Cardinality(retrack) - One(c \in retrack)
  <2>1. Cardinality(retrack \ {c}) = IF c \in retrack THEN Cardinality(retrack) - 1 ELSE Cardinality(retrack)
    BY Zenon, <1>1, FS_RemoveElement
  <2> QED
    BY <2>1, <1>1, FS_CardinalityType DEF One
<1> QED
  BY Zenon, <1>1, <1>2, <1>3, <1>4, FS_CardinalityType

\* What is in a queue after an append.
LEMMA RangeAppend ==
    ASSUME NEW S, NEW q \in Seq(S), NEW e \in S
    PROVE  Append(q, e) \in Seq(S) /\ Range(Append(q, e)) = Range(q) \cup {e}
<1>1. /\ Append(q, e) \in Seq(S) /\ Len(Append(q, e)) = Len(q) + 1 /\ Len(q) \in Nat
      /\ DOMAIN q = 1..Len(q) /\ DOMAIN Append(q, e) = 1..(Len(q) + 1)
      /\ \A k \in 1..Len(q) : Append(q, e)[k] = q[k]
      /\ Append(q, e)[Len(q) + 1] = e
  OBVIOUS
<1>2. \A x : x \in Range(Append(q, e)) => x \in Range(q) \cup {e}
  BY <1>1 DEF Range
<1>3. \A x : x \in Range(q) \cup {e} => x \in Range(Append(q, e))
  BY <1>1 DEF Range
<1> QED
  BY Zenon, <1>1, <1>2, <1>3

\* A queue from which the positions n to m - 1 are taken out.
Cut(q, n, m) == SubSeq(q, 1, n - 1) \o SubSeq(q, m, Len(q))

\* What is where in it.
IsCut(S, q, n, m, p) ==
    /\ p \in Seq(S) /\ DOMAIN p = 1..(Len(q) - m + n)
    /\ \A k \in 1..(n - 1) : p[k] = q[k]
    /\ \A k \in n..(Len(q) - m + n) : p[k] = q[k - n + m]

\* Cutting a piece out of a sequence has this effect.
LEMMA CutAt ==
    ASSUME NEW S, NEW q \in Seq(S), NEW n \in 1..Len(q), NEW m \in (n + 1)..(Len(q) + 1)
    PROVE  IsCut(S, q, n, m, Cut(q, n, m))
<1> DEFINE a == SubSeq(q, 1, n - 1)
           b == SubSeq(q, m, Len(q))
           p == a \o b
<1>1. /\ Len(q) \in Nat /\ DOMAIN q = 1..Len(q) /\ n \in Nat /\ m \in Nat
      /\ a \in Seq(S) /\ b \in Seq(S) /\ Len(a) = n - 1 /\ Len(b) = Len(q) - m + 1
  OBVIOUS
<1>2. \A k \in 1..(n - 1) : a[k] = q[k]
  BY <1>1
<1>3. \A k \in 1..(Len(q) - m + 1) : b[k] = q[m + k - 1]
  BY <1>1
<1> HIDE DEF a, b
<1>4. /\ p \in Seq(S) /\ DOMAIN p = 1..(Len(a) + Len(b))
      /\ \A k \in 1..(Len(a) + Len(b)) : p[k] = IF k <= Len(a) THEN a[k] ELSE b[k - Len(a)]
  <2>1. a \in Seq(S) /\ b \in Seq(S)
    BY Zenon, <1>1
  <2>2. p \in Seq(S) /\ Len(p) = Len(a) + Len(b)
    BY <2>1
  <2>3. DOMAIN p = 1..(Len(a) + Len(b))
    BY <2>2
  <2>4. ASSUME NEW k \in 1..(Len(a) + Len(b))
        PROVE  p[k] = IF k <= Len(a) THEN a[k] ELSE b[k - Len(a)]
    BY <2>1
  <2> QED
    BY Zenon, <2>2, <2>3, <2>4
<1>5. Cut(q, n, m) = p
  BY Zenon DEF Cut, p, a, b
<1> HIDE DEF p
<1>6. \A k \in 1..(n - 1) : p[k] = q[k]
  BY SMTT(30), <1>1, <1>2, <1>4
<1>7. ASSUME NEW k \in n..(Len(q) - m + n) PROVE p[k] = q[k - n + m]
  <2>1. k - Len(a) \in 1..(Len(q) - m + 1) /\ m + (k - Len(a)) - 1 = k - n + m
    BY <1>1
  <2>2. p[k] = b[k - Len(a)]
    BY <1>1, <1>4
  <2> QED
    BY Zenon, <1>3, <2>1, <2>2
<1> QED
  BY <1>1, <1>4, <1>5, <1>6, <1>7 DEF IsCut

\* What is left in it and what is not.
LEMMA RangeCut ==
    ASSUME NEW S, NEW q \in Seq(S), NEW n \in 1..Len(q), NEW m \in (n + 1)..(Len(q) + 1)
    PROVE  /\ Cut(q, n, m) \in Seq(S)
           /\ Range(q) = Range(Cut(q, n, m)) \cup {q[k] : k \in n..(m - 1)}
           /\ Range(Cut(q, n, m)) \subseteq Range(q)
<1> DEFINE p == Cut(q, n, m)
<1>1. Len(q) \in Nat /\ DOMAIN q = 1..Len(q) /\ n \in Nat /\ m \in Nat
  OBVIOUS
<1>2. /\ p \in Seq(S) /\ DOMAIN p = 1..(Len(q) - m + n)
      /\ \A k \in 1..(n - 1) : p[k] = q[k]
      /\ \A k \in n..(Len(q) - m + n) : p[k] = q[k - n + m]
  BY Zenon, CutAt DEF IsCut
<1> HIDE DEF p
<1>3. ASSUME NEW k \in DOMAIN p PROVE p[k] \in Range(q)
  <2>1. CASE k < n
    <3>1. k \in DOMAIN q /\ k \in 1..(n - 1)
      BY <1>1, <1>2, <2>1
    <3> QED
      BY Zenon, <1>2, <3>1 DEF Range
  <2>2. CASE k >= n
    <3>1. k - n + m \in DOMAIN q /\ p[k] = q[k - n + m]
      BY SMTT(30), <1>1, <1>2, <2>2
    <3> QED
      BY Zenon, <3>1 DEF Range
  <2> QED
    BY <1>1, <1>2, <2>1, <2>2
<1>4. ASSUME NEW k \in DOMAIN q, k \notin n..(m - 1) PROVE q[k] \in Range(p)
  <2>1. CASE k < n
    <3>1. k \in DOMAIN p /\ p[k] = q[k]
      BY <1>1, <1>2, <2>1
    <3> QED
      BY Zenon, <3>1 DEF Range
  <2>2. CASE k >= m
    <3>1. k - m + n \in DOMAIN p /\ k - m + n \in n..(Len(q) - m + n) /\ (k - m + n) - n + m = k
      BY <1>1, <1>2, <2>2
    <3>2. p[k - m + n] = q[k]
      BY Zenon, <1>2, <3>1
    <3> QED
      BY Zenon, <3>1, <3>2 DEF Range
  <2> QED
    BY <1>1, <1>4, <2>1, <2>2
<1>5. \A x : x \in Range(p) => x \in Range(q)
  BY Zenon, <1>3 DEF Range
<1>6. \A x : x \in Range(q) <=> x \in Range(p) \cup {q[k] : k \in n..(m - 1)}
  <2>1. \A x : x \in Range(q) => x \in Range(p) \cup {q[k] : k \in n..(m - 1)}
    BY Zenon, <1>4 DEF Range
  <2>2. n..(m - 1) \subseteq DOMAIN q
    BY <1>1
  <2> QED
    BY Zenon, <1>5, <2>1, <2>2 DEF Range
<1> QED
  BY Zenon, <1>2, <1>5, <1>6 DEF p

\* At first there is no info.
LEMMA OwnInit == Init => OwnInv
<1> SUFFICES ASSUME Init PROVE OwnInv
  BY Zenon
<1>1. Cardinality(retrack) = 0 /\ Cardinality(Infos \ used) \in Nat
  <2>1. IsFiniteSet(Infos \ used)
    BY Zenon, CordzAssumption, FS_Subset
  <2> QED
    BY Zenon, <2>1, FS_EmptySet, FS_CardinalityType DEF Init
<1>2. \A h : ~InList(h)
  BY DEF Init, InList, Range
<1>3. CordzTypes
  BY DEF Init, CordzTypes, Scope, Leaving
<1>4. InfosOwned
  BY <1>1, <1>2 DEF Init, InfosOwned, Garbage
<1>5. InHand
  BY Zenon DEF Init, InHand, Scope, Leaving
<1> QED
  BY Zenon, <1>3, <1>4, <1>5 DEF OwnInv

\* There is room for one more tracked cord, or one was kept for cord c.
MayTrack(c) ==
    \/ Room /\ retrack' = retrack
    \/ c \in retrack /\ retrack' = retrack \ {c}

\* A cord is given a fresh info, or none: EmplaceTree and the end of MaybeTrackCord.
LEMMA OwnTracks ==
    ASSUME OwnInv, NEW c \in Cords,
           \/ \E sampled \in BOOLEAN : Emplace(c, sampled)
           \/ \E d \in Cords : Copy(c, d)
           \/ Untracked(c)
    PROVE  OwnInv'
<1>1. /\ DOMAIN root' = Cords /\ DOMAIN old' = Cords /\ DOMAIN refs' = Roots
      /\ UNCHANGED <<mutex_, dq, freed, prof>> /\ pc' = [pc EXCEPT ![c] = "idle"]
      /\ pc[c] \in {"idle", "untracked"} /\ retrack' \in {retrack, retrack \ {c}}
      /\ old'[c] = Null /\ \A d \in Cords \ {c} : old'[d] = old[d] /\ root'[d] = root[d]
  <2> USE DEF OwnInv, CordzTypes, InHand, Scope, Counts
  <2>1. CASE \E sampled \in BOOLEAN : Emplace(c, sampled)
    BY <2>1 DEF Emplace
  <2>2. CASE \E d \in Cords : Copy(c, d)
    BY <2>2 DEF Copy
  <2>3. CASE Untracked(c)
    BY Zenon, <2>3 DEF Untracked, To
  <2> QED
    BY Zenon, <2>1, <2>2, <2>3
<1>2. CASE UNCHANGED <<info, rep_, used, list>>
  <2>1. CordzTypes'
    BY Zenon, <1>1, <1>2 DEF OwnInv, CordzTypes, prof
  <2>2. InHand'
    BY Zenon, <1>1, <1>2 DEF OwnInv, CordzTypes, InHand, prof, Scope, Leaving
  <2>3. (\A h : InList(h)' <=> InList(h)) /\ (\A h : Garbage(h)' <=> Garbage(h))
    BY Zenon, <1>1 DEF InList, Garbage, prof
  <2>4. Cardinality(retrack') \in Int /\ Cardinality(retrack') <= Cardinality(retrack) /\ Cardinality(retrack) \in Nat
    <3>1. IsFiniteSet(retrack)
      BY Zenon, CordzAssumption, FS_Subset DEF OwnInv, CordzTypes
    <3>2. Cardinality(retrack) \in Nat
      BY Zenon, <3>1, FS_CardinalityType
    <3>3. Cardinality(retrack \ {c}) =
             IF c \in retrack THEN Cardinality(retrack) - 1 ELSE Cardinality(retrack)
      BY Zenon, <3>1, FS_RemoveElement
    <3>4. Cardinality(retrack \ {c}) \in Int /\ Cardinality(retrack \ {c}) <= Cardinality(retrack)
      BY <3>2, <3>3
    <3>5. CASE retrack' = retrack
      BY <3>2, <3>5
    <3>6. CASE retrack' = retrack \ {c}
      BY Zenon, <3>2, <3>4, <3>6
    <3> QED
      BY Zenon, <1>1, <3>2, <3>5, <3>6
  <2>5. Cardinality(Infos \ used) \in Nat
    BY Zenon, CordzAssumption, FS_Subset, FS_CardinalityType
  <2>6. Cardinality(retrack') <= Cardinality(Infos \ used')
    BY <1>2, <2>4, <2>5 DEF OwnInv, InfosOwned
  <2> QED
    BY Zenon, <1>2, <2>1, <2>2, <2>3, <2>6 DEF OwnInv, InfosOwned
<1>3. ASSUME NEW r, Track(c, r), MayTrack(c)
      PROVE  OwnInv'
  <2> DEFINE i == CHOOSE j \in Infos \ used : TRUE
  <2>1. i \in Infos \ used
    BY Zenon, <1>3, FreshInfo DEF MayTrack
  <2>2. used' = used \cup {i} /\ info' = [info EXCEPT ![c] = i] /\ rep_' = [rep_ EXCEPT ![i] = r]
    BY Zenon, <1>3 DEF Track
  <2> HIDE DEF i
  <2>3. i # Null
    BY Zenon, <2>1, CordzAssumption
  <2>4. CordzTypes'
    BY Zenon, <1>1, <2>1, <2>2 DEF OwnInv, CordzTypes, prof
  <2>5. InHand'
    BY Zenon, <1>1, <2>2, <2>3 DEF OwnInv, CordzTypes, InHand, prof, Scope, Leaving
  <2>6. (\A h : InList(h)' <=> InList(h)) /\ (\A h : Garbage(h)' <=> Garbage(h))
    BY Zenon, <1>1 DEF InList, Garbage, prof
  <2>7. Cardinality(retrack') <= Cardinality(Infos \ used')
    <3>1. /\ Cardinality(retrack) \in Nat /\ Cardinality(Infos \ used) \in Nat
          /\ Cardinality(Infos \ used') = Cardinality(Infos \ used) - 1
          /\ c \in retrack => Cardinality(retrack \ {c}) = Cardinality(retrack) - 1
      BY Zenon, <2>1, <2>2, FreshCount DEF One
    <3>2. CASE Room /\ retrack' = retrack
      BY <3>1, <3>2 DEF Room
    <3>3. CASE c \in retrack /\ retrack' = retrack \ {c}
      BY <3>1, <3>3 DEF OwnInv, InfosOwned
    <3> QED
      BY Zenon, <1>3, <3>2, <3>3 DEF MayTrack
  <2>8. ~InList(i) /\ ~Garbage(i) /\ \A d \in Cords : info[d] # i
    BY Zenon, <2>1, <2>3 DEF OwnInv, InfosOwned
  <2> QED
    BY Zenon, <2>2, <2>3, <2>4, <2>5, <2>6, <2>7, <2>8 DEF OwnInv, InfosOwned, CordzTypes
<1>4. \/ UNCHANGED <<info, rep_, used, list>>
      \/ (\E r : Track(c, r)) /\ MayTrack(c)
  <2>1. CASE \E sampled \in BOOLEAN : Emplace(c, sampled)
    <3>1. PICK sampled \in BOOLEAN : Emplace(c, sampled)
      BY Zenon, <2>1
    <3>2. retrack' = retrack /\ (sampled => Room)
          /\ (Track(c, NewRoot) \/ UNCHANGED <<info, rep_, used, list>>)
          /\ (sampled \/ UNCHANGED <<info, rep_, used, list>>)
      BY <3>1, Zenon DEF Emplace
    <3> QED
      BY <3>2, Zenon DEF MayTrack
  <2>2. CASE \E d \in Cords : Copy(c, d)
    <3>1. PICK d \in Cords : Copy(c, d)
      BY Zenon, <2>2
    <3>2. retrack' = retrack /\ (info[d] # Null => Room)
          /\ (Track(c, root[d]) \/ UNCHANGED <<info, rep_, used, list>>)
          /\ (info[d] # Null \/ UNCHANGED <<info, rep_, used, list>>)
      BY <3>1, Zenon DEF Copy
    <3> QED
      BY <3>2, Zenon DEF MayTrack
  <2>3. CASE Untracked(c)
    <3>1. retrack' = retrack \ {c}
          /\ (Track(c, root[c]) \/ UNCHANGED <<info, rep_, used, list>>)
          /\ (c \in retrack \/ UNCHANGED <<info, rep_, used, list>>)
      BY <2>3, Zenon DEF Untracked
    <3> QED
      BY <3>1, Zenon DEF MayTrack
  <2> QED
    BY Zenon, <2>1, <2>2, <2>3
<1> QED
  BY Zenon, <1>2, <1>3, <1>4

\* A cord's steps that leave the infos with their owners.
LEMMA OwnStays ==
    ASSUME OwnInv, NEW c \in Cords,
           \/ \E d \in Cords : Assign(c, d)
           \/ Clear(c) \/ Lock(c) \/ InPlace(c) \/ Replace(c) \/ \E r \in Roots \cup {Null} : SetTree(c, r)
           \/ Unlock(c) \/ Delist(c) \/ LookAtQueue(c) \/ ExtendLife(c)
    PROVE  OwnInv'
<1>1. UNCHANGED <<dq, used, info, to_delete>>
  BY Zenon DEF Assign, Clear, Lock, InPlace, Replace, SetTree, Unlock, Delist, LookAtQueue, ExtendLife, prof
<1>2. (\A h : InList(h)' <=> InList(h)) /\ (\A h : Garbage(h)' <=> Garbage(h))
  BY Zenon, <1>1 DEF InList, Garbage
<1>3. CordzTypes'
  <2>1. /\ DOMAIN root' = Cords /\ DOMAIN old' = Cords /\ DOMAIN rep_' = Infos /\ DOMAIN refs' = Roots
        /\ UNCHANGED <<hold, spc>> /\ retrack' \subseteq Cords
    <3> USE DEF OwnInv, CordzTypes, prof
    <3>1. CASE \E d \in Cords : Assign(c, d)
      BY Zenon, <3>1 DEF Assign, Counts
    <3>2. CASE Clear(c) \/ Lock(c) \/ InPlace(c) \/ Unlock(c) \/ Delist(c) \/ LookAtQueue(c)
      BY Zenon, <3>2 DEF Clear, Lock, InPlace, Unlock, Delist, LookAtQueue
    <3>3. CASE Replace(c) \/ ExtendLife(c)
      BY Zenon, <3>3 DEF Replace, ExtendLife, Counts
    <3>4. CASE \E r \in Roots \cup {Null} : SetTree(c, r)
      BY Zenon, <3>4 DEF SetTree, Counts
    <3> QED
      BY Zenon, <3>1, <3>2, <3>3, <3>4
  <2>2. \E l \in {"idle", "untracked"} \cup Scope \cup Leaving : pc' = [pc EXCEPT ![c] = l]
    BY Zenon DEF Assign, Clear, Lock, InPlace, Replace, SetTree, Unlock, Delist, LookAtQueue,
       ExtendLife, To, Scope, Leaving
  <2>3. pc' \in [Cords -> {"idle", "untracked"} \cup Scope \cup Leaving]
    BY Zenon, <2>2 DEF OwnInv, CordzTypes
  <2> QED
    BY Zenon, <1>1, <2>1, <2>3 DEF OwnInv, CordzTypes
<1>4. Cardinality(retrack') <= Cardinality(Infos \ used')
  <2>1. CASE retrack' = retrack
    BY Zenon, <1>1, <2>1 DEF OwnInv, InfosOwned
  <2>2. CASE retrack' # retrack
    <3>1. retrack' = retrack \cup {c} /\ Room
      BY Zenon, <2>2 DEF Assign, Clear, Lock, InPlace, Replace, SetTree, Unlock, Delist, LookAtQueue, ExtendLife
    <3>2. IsFiniteSet(retrack) /\ IsFiniteSet(Infos \ used)
      BY Zenon, CordzAssumption, FS_Subset DEF OwnInv, CordzTypes
    <3>3. Cardinality(retrack) \in Nat /\ Cardinality(Infos \ used) \in Nat
      BY Zenon, <3>2, FS_CardinalityType
    <3>4. Cardinality(retrack \cup {c}) =
             IF c \in retrack THEN Cardinality(retrack) ELSE Cardinality(retrack) + 1
      BY Zenon, <3>2, FS_AddElement
    <3> QED
      BY <1>1, <3>1, <3>3, <3>4 DEF Room
  <2> QED
    BY Zenon, <2>1, <2>2
<1>5. InfosOwned'
  BY Zenon, <1>1, <1>2, <1>4 DEF OwnInv, InfosOwned
<1>6. InHand'
  <2> USE <1>1 DEF OwnInv, InHand, CordzTypes, Scope, Leaving, prof, To
  <2>1. CASE \E d \in Cords : Assign(c, d)
    BY <2>1, SMTT(30) DEF Assign
  <2>2. CASE Clear(c) \/ Lock(c)
    BY <2>2 DEF Clear, Lock
  <2>3. CASE InPlace(c)
    BY ZenonT(30), <2>3 DEF InPlace
  <2>4. CASE \E r \in Roots \cup {Null} : SetTree(c, r)
    BY <2>4 DEF SetTree
  <2>5. CASE Unlock(c)
    BY Zenon, <2>5 DEF Unlock
  <2>6. CASE Delist(c) \/ LookAtQueue(c) \/ ExtendLife(c)
    BY <2>6 DEF Delist, LookAtQueue, ExtendLife
  <2>7. CASE Replace(c)
    BY Zenon, <2>7 DEF Replace
  <2> QED
    BY Zenon, <2>1, <2>2, <2>3, <2>4, <2>5, <2>6, <2>7
<1> QED
  BY Zenon, <1>3, <1>5, <1>6 DEF OwnInv

\* A cord gives its info up: it is deleted or queued.
LEMMA OwnDeletes ==
    ASSUME OwnInv, NEW c \in Cords, DeleteUnseen(c) \/ Delete(c) \/ DeleteUnqueued(c)
    PROVE  OwnInv'
<1>1. info[c] # Null /\ info[c] \in used /\ info[c] \in Infos
  BY Zenon DEF OwnInv, InHand, CordzTypes, InfosOwned, DeleteUnseen, Delete, DeleteUnqueued, Leaving
<1>2. CASE DeleteUnseen(c) \/ DeleteUnqueued(c) \/ (Delete(c) /\ dq' = dq)
  <2>1. /\ UNCHANGED <<dq, used, to_delete, retrack, root, old, hold, spc>>
        /\ info' \in {info, [info EXCEPT ![c] = Null]} /\ DOMAIN rep_' = Infos /\ DOMAIN refs' = Roots
        /\ pc' = [pc EXCEPT ![c] = IF info' = info THEN "unqueued" ELSE "untracked"]
    <3>1. CASE DeleteUnseen(c)
      BY Zenon, <1>1, <3>1 DEF OwnInv, CordzTypes, DeleteUnseen, Free, To, prof
    <3>2. CASE DeleteUnqueued(c)
      BY Zenon, <1>1, <3>2 DEF OwnInv, CordzTypes, DeleteUnqueued, Free, To, prof, Counts
    <3>3. CASE Delete(c) /\ dq' = dq
      <4>1. SafeToDelete
        <5>1. Len(Append(dq, info[c])) = Len(dq) + 1 /\ Len(dq) \in Nat
          BY <1>1 DEF OwnInv, CordzTypes
        <5> QED
          BY SMTT(30), <3>3, <5>1 DEF Delete
      <4> QED
        BY Zenon, <3>3, <4>1 DEF OwnInv, CordzTypes, Delete, To, prof
    <3> QED
      BY Zenon, <1>2, <3>1, <3>2, <3>3
  <2>2. (\A h : InList(h)' <=> InList(h)) /\ (\A h : Garbage(h)' <=> Garbage(h))
    BY Zenon, <2>1 DEF InList, Garbage
  <2>3. (\A d \in Cords \ {c} : info'[d] = info[d]) /\ info'[c] \in {info[c], Null}
    BY Zenon, <2>1 DEF OwnInv, CordzTypes
  <2>4. CordzTypes'
    BY Zenon, <2>1 DEF OwnInv, CordzTypes, Scope, Leaving
  <2>5. InfosOwned'
    BY Zenon, <2>1, <2>2, <2>3 DEF OwnInv, InfosOwned
  <2>6. InHand'
    <3>1. CASE info' = info
      <4>1. pc' = [pc EXCEPT ![c] = "unqueued"]
        BY Zenon, <2>1, <3>1
      <4> QED
        BY Zenon, <1>1, <2>1, <3>1, <4>1 DEF OwnInv, InHand, CordzTypes, Scope
    <3>2. CASE info' # info
      <4>1. pc' = [pc EXCEPT ![c] = "untracked"] /\ info' = [info EXCEPT ![c] = Null]
        BY Zenon, <2>1, <3>2
      <4> QED
        BY Zenon, <2>1, <4>1 DEF OwnInv, InHand, CordzTypes, Scope, Leaving
    <3> QED
      BY Zenon, <3>1, <3>2
  <2> QED
    BY Zenon, <2>4, <2>5, <2>6 DEF OwnInv
<1>3. CASE Delete(c) /\ dq' # dq
  <2>1. /\ UNCHANGED <<used, to_delete, retrack, root, old, hold, spc, rep_, refs>>
        /\ info' = [info EXCEPT ![c] = Null] /\ pc' = [pc EXCEPT ![c] = "untracked"]
        /\ dq' = Append(dq, info[c])
    BY Zenon, <1>3 DEF Delete, To, prof
  <2>2. dq' \in Seq(Infos \cup Snapshots) /\ Range(dq') = Range(dq) \cup {info[c]}
    <3>1. dq \in Seq(Infos \cup Snapshots) /\ info[c] \in Infos \cup Snapshots
      BY Zenon, <1>1 DEF OwnInv, CordzTypes
    <3>2. dq' = Append(dq, info[c])
      BY Zenon, <2>1
    <3> QED
      BY <3>1, <3>2, RangeAppend
  <2>3. (\A h : InList(h)' <=> InList(h) \/ h = info[c]) /\ (\A h : Garbage(h)' <=> Garbage(h))
    BY Zenon, <2>1, <2>2 DEF InList, Garbage
  <2>4. CordzTypes'
    BY Zenon, <2>1, <2>2 DEF OwnInv, CordzTypes
  <2>5. InfosOwned'
    BY Zenon, <1>1, <2>1, <2>3 DEF OwnInv, InfosOwned, CordzTypes
  <2>6. InHand'
    BY Zenon, <2>1 DEF OwnInv, InHand, CordzTypes, Scope, Leaving
  <2> QED
    BY Zenon, <2>4, <2>5, <2>6 DEF OwnInv
<1> QED
  BY Zenon, <1>2, <1>3

\* A snapshot that leaves the queue takes the infos it is responsible for along.
LEMMA DestroyMoves ==
    ASSUME OwnInv, NEW s \in Snapshots, DestroySnapshot(s)
    PROVE  /\ dq' \in Seq(Infos \cup Snapshots) /\ to_delete' = [to_delete EXCEPT ![s] = to_delete'[s]]
           /\ \A h \in Infos : InList(h)' \/ Garbage(h)' <=> InList(h) \/ Garbage(h)
<1>0. PICK n \in DOMAIN dq : \E next \in (n + 1)..(Len(dq) + 1) :
         /\ dq[n] = s /\ IF n = 1 THEN EndsRun(n, next) ELSE next = n + 1
         /\ to_delete' = [to_delete EXCEPT ![s] = {dq[k] : k \in (n + 1)..(next - 1)}]
         /\ dq' = SubSeq(dq, 1, n - 1) \o SubSeq(dq, next, Len(dq))
  BY Zenon DEF DestroySnapshot
<1>1. PICK next \in (n + 1)..(Len(dq) + 1) :
         /\ dq[n] = s /\ IF n = 1 THEN EndsRun(n, next) ELSE next = n + 1
         /\ to_delete' = [to_delete EXCEPT ![s] = {dq[k] : k \in (n + 1)..(next - 1)}]
         /\ dq' = SubSeq(dq, 1, n - 1) \o SubSeq(dq, next, Len(dq))
  BY Zenon, <1>0
<1>2. spc[s] \in {"walk", "seen"}
  BY Zenon DEF DestroySnapshot
<1>3. n \in 1..Len(dq) /\ Len(dq) \in Nat /\ n \in Nat /\ next \in Nat /\ n < next
  <2>1. dq \in Seq(Infos \cup Snapshots)
    BY Zenon DEF OwnInv, CordzTypes
  <2> QED
    BY <2>1
<1>4. /\ dq' \in Seq(Infos \cup Snapshots) /\ Range(dq') \subseteq Range(dq)
      /\ Range(dq) = Range(dq') \cup {dq[k] : k \in n..(next - 1)}
  <2>1. dq \in Seq(Infos \cup Snapshots)
    BY Zenon DEF OwnInv, CordzTypes
  <2>2. /\ Cut(dq, n, next) \in Seq(Infos \cup Snapshots)
        /\ Range(dq) = Range(Cut(dq, n, next)) \cup {dq[k] : k \in n..(next - 1)}
        /\ Range(Cut(dq, n, next)) \subseteq Range(dq)
    BY <1>3, <2>1, RangeCut, Zenon
  <2> QED
    BY Zenon, <1>1, <2>2 DEF Cut
<1>5. {dq[k] : k \in n..(next - 1)} = {s} \cup to_delete'[s] /\ to_delete[s] = {}
  <2>1. \A e : e \in {dq[k] : k \in n..(next - 1)} <=> e = dq[n] \/ e \in {dq[k] : k \in (n + 1)..(next - 1)}
    BY Zenon, <1>3, FirstAndRest
  <2> QED
    BY Zenon, <1>1, <1>2, <2>1 DEF OwnInv, CordzTypes, InHand
<1>6. \A h \in Infos : InList(h)' \/ Garbage(h)' <=> InList(h) \/ Garbage(h)
  <2>1. \A h : InList(h) <=> InList(h)' \/ h = s \/ h \in to_delete'[s]
    BY Zenon, <1>4, <1>5 DEF InList
  <2>2. \A h : Garbage(h)' <=> Garbage(h) \/ h \in to_delete'[s]
    BY Zenon, <1>1, <1>5 DEF Garbage, OwnInv, CordzTypes
  <2> QED
    BY Zenon, <2>1, <2>2, CordzAssumption DEF Snapshots
<1> QED
  BY Zenon, <1>1, <1>4, <1>6 DEF OwnInv, CordzTypes

\* The profilers' steps.
LEMMA OwnProfiles ==
    ASSUME OwnInv, NEW s \in Snapshots, ProfilerStep(s)
    PROVE  OwnInv'
<1>1. CASE Head_(s) \/ Next_(s) \/ RefCordRep(s) \/ Unref(s)
  <2>1. UNCHANGED <<dq, used, info, to_delete, cord, rep_>>
    <3>1. CASE Head_(s) \/ Next_(s)
      BY Zenon, <3>1 DEF Head_, Next_, cord
    <3>2. CASE RefCordRep(s) \/ Unref(s)
      BY Zenon, <3>2 DEF RefCordRep, Unref, cord
    <3> QED
      BY Zenon, <1>1, <3>1, <3>2
  <2>2. (\A h : InList(h)' <=> InList(h)) /\ (\A h : Garbage(h)' <=> Garbage(h))
    BY Zenon, <2>1 DEF InList, Garbage
  <2>3. CordzTypes'
    BY ZenonT(30), <1>1, <2>1 DEF OwnInv, CordzTypes, Head_, Next_, RefCordRep, Unref, cord, At, Counts
  <2>4. InHand'
    BY <1>1, <2>1, Zenon DEF OwnInv, CordzTypes, InHand, Head_, Next_, RefCordRep, Unref, cord, At
  <2> QED
    BY Zenon, <2>1, <2>2, <2>3, <2>4 DEF OwnInv, InfosOwned, cord
<1>2. CASE TakeSnapshot(s)
  <2>1. /\ UNCHANGED <<used, info, to_delete, cord, rep_, hold, refs>> /\ dq' = Append(dq, s)
        /\ spc[s] = "none" /\ spc' = [spc EXCEPT ![s] = "head"]
    BY Zenon, <1>2 DEF TakeSnapshot, cord, At
  <2>2. dq' \in Seq(Infos \cup Snapshots) /\ Range(dq') = Range(dq) \cup {s}
    <3>1. dq \in Seq(Infos \cup Snapshots) /\ s \in Infos \cup Snapshots
      BY Zenon DEF OwnInv, CordzTypes
    <3>2. dq' = Append(dq, s)
      BY Zenon, <2>1
    <3> QED
      BY <3>1, <3>2, RangeAppend
  <2>3. (\A h \in Infos : InList(h)' <=> InList(h)) /\ (\A h : Garbage(h)' <=> Garbage(h))
    BY Zenon, <2>1, <2>2, CordzAssumption DEF InList, Garbage, Snapshots
  <2>4. CordzTypes'
    BY Zenon, <2>1, <2>2 DEF OwnInv, CordzTypes, cord
  <2>5. InHand'
    BY Zenon, <2>1 DEF OwnInv, CordzTypes, InHand, cord
  <2> QED
    BY Zenon, <2>1, <2>3, <2>4, <2>5 DEF OwnInv, InfosOwned, CordzTypes, cord
<1>3. CASE DestroySnapshot(s)
  <2>1. /\ dq' \in Seq(Infos \cup Snapshots) /\ to_delete' = [to_delete EXCEPT ![s] = to_delete'[s]]
        /\ \A h \in Infos : InList(h)' \/ Garbage(h)' <=> InList(h) \/ Garbage(h)
    BY Zenon, <1>3, DestroyMoves
  <2>2. /\ UNCHANGED <<used, info, cord, rep_, hold, refs>> /\ spc' = [spc EXCEPT ![s] = "delete"]
        /\ spc[s] \in {"walk", "seen"}
    BY Zenon, <1>3 DEF DestroySnapshot, cord, At
  <2>3. CordzTypes'
    BY Zenon, <2>1, <2>2 DEF OwnInv, CordzTypes, cord
  <2>4. InHand'
    BY Zenon, <2>1, <2>2 DEF OwnInv, CordzTypes, InHand, cord
  <2> QED
    BY Zenon, <2>1, <2>2, <2>3, <2>4 DEF OwnInv, InfosOwned, CordzTypes, cord
<1>4. ASSUME NEW i \in Infos, DeleteHandle(s, i) PROVE OwnInv'
  <2>1. /\ UNCHANGED <<dq, used, info, cord, hold, spc>> /\ DOMAIN refs' = Roots /\ DOMAIN rep_' = Infos
        /\ to_delete' = [to_delete EXCEPT ![s] = @ \ {i}] /\ spc[s] = "delete"
    BY Zenon, <1>4 DEF DeleteHandle, cord, Counts, Free, OwnInv, CordzTypes
  <2>2. (\A h : InList(h)' <=> InList(h)) /\ (\A h : Garbage(h)' => Garbage(h))
    BY Zenon, <2>1 DEF InList, Garbage, OwnInv, CordzTypes
  <2>3. CordzTypes'
    BY Zenon, <2>1 DEF OwnInv, CordzTypes, cord
  <2>4. InHand'
    BY Zenon, <2>1 DEF OwnInv, CordzTypes, InHand, cord
  <2> QED
    BY Zenon, <2>1, <2>2, <2>3, <2>4 DEF OwnInv, InfosOwned, cord
<1> QED
  BY Zenon, <1>1, <1>2, <1>3, <1>4 DEF ProfilerStep

\* Every step of cords and profilers keeps the ownership of infos.
LEMMA OwnNext == ASSUME OwnInv, [Next]_vars PROVE OwnInv'
<1>1. CASE UNCHANGED vars
  BY Zenon, <1>1 DEF vars, cord, prof, OwnInv, CordzTypes, InfosOwned, InHand, InList, Garbage
<1>2. ASSUME NEW c \in Cords, CordStep(c) PROVE OwnInv'
  <2>1. CASE Untracked(c)
    BY Zenon, <2>1, OwnTracks
  <2>2. CASE DeleteUnseen(c) \/ Delete(c) \/ DeleteUnqueued(c)
    BY Zenon, <2>2, OwnDeletes
  <2>3. CASE ~(Untracked(c) \/ DeleteUnseen(c) \/ Delete(c) \/ DeleteUnqueued(c))
    BY Zenon, <1>2, <2>3, OwnStays DEF CordStep
  <2> QED
    BY Zenon, <2>1, <2>2, <2>3
<1>3. ASSUME NEW c \in Cords, \E sampled \in BOOLEAN : Emplace(c, sampled) PROVE OwnInv'
  BY Zenon, <1>3, OwnTracks
<1>4. ASSUME NEW c \in Cords, NEW d \in Cords, Copy(c, d) PROVE OwnInv'
  BY Zenon, <1>4, OwnTracks
<1>5. ASSUME NEW c \in Cords, NEW d \in Cords, Assign(c, d) PROVE OwnInv'
  BY Zenon, <1>5, OwnStays
<1> QED
  BY Zenon, <1>1, <1>2, <1>3, <1>4, <1>5, OwnProfiles DEF Next
-----------------------------------------------------------------------------
(* Cordz: the references of the trees. *)

\* The tree an info whose life was extended holds a reference to.
Keeps == [i \in Infos |-> IF Extended(i) THEN rep_[i] ELSE Null]

\* The counts are natural numbers.
LEMMA OwnersFinite ==
    ASSUME NEW r \in Roots
    PROVE  /\ Cardinality(Those(Cords, root, r)) \in Nat /\ Cardinality(Those(Cords, old, r)) \in Nat
           /\ Cardinality(Those(Snapshots, hold, r)) \in Nat /\ Cardinality(Those(Infos, Keeps, r)) \in Nat
<1>1. IsFiniteSet(Snapshots) /\ IsFiniteSet(Cords) /\ IsFiniteSet(Infos)
  BY Zenon, OwnersAreFinite
<1> QED
  BY <1>1, CountPositive, Zenon

\* ReferencesCounted, in terms of these counts.
LEMMA CountedByThose ==
    ReferencesCounted <=>
       \A r \in Roots : refs[r] = Cardinality(Those(Cords, root, r)) + Cardinality(Those(Cords, old, r))
                           + Cardinality(Those(Snapshots, hold, r)) + Cardinality(Those(Infos, Keeps, r))
<1>1. \A r \in Roots : {i \in Infos : rep_[i] = r /\ Extended(i)} = Those(Infos, Keeps, r)
  BY Zenon, CordzAssumption DEF Keeps, Roots, Those
<1> QED
  BY Zenon, <1>1 DEF ReferencesCounted, Those

\* A step of one cord, one profiler and one info whose changes of owners are counted.
StepOf(c, s, i) ==
    /\ Only(Cords, root, root', c) /\ Only(Cords, old, old', c)
    /\ Only(Snapshots, hold, hold', s) /\ Only(Infos, Keeps, Keeps', i)
    /\ \A r \in Roots : refs'[r] = refs[r] + Change(Cords, root, root', c, r) + Change(Cords, old, old', c, r)
                          + Change(Snapshots, hold, hold', s, r) + Change(Infos, Keeps, Keeps', i, r)

\* The references stay counted in such a step.
LEMMA CountsKept ==
    ASSUME ReferencesCounted, NEW c, NEW s, NEW i, StepOf(c, s, i)
    PROVE  ReferencesCounted'
<1>1. IsFiniteSet(Snapshots) /\ IsFiniteSet(Cords) /\ IsFiniteSet(Infos)
  BY Zenon, OwnersAreFinite
<1>2. ASSUME NEW r \in Roots
      PROVE  refs'[r] = Cardinality(Those(Cords, root', r)) + Cardinality(Those(Cords, old', r))
                 + Cardinality(Those(Snapshots, hold', r)) + Cardinality(Those(Infos, Keeps', r))
  <2> DEFINE a == Cardinality(Those(Cords, root, r))
             b == Cardinality(Those(Cords, old, r))
             h == Cardinality(Those(Snapshots, hold, r))
             k == Cardinality(Those(Infos, Keeps, r))
             a2 == Cardinality(Those(Cords, root', r))
             b2 == Cardinality(Those(Cords, old', r))
             h2 == Cardinality(Those(Snapshots, hold', r))
             k2 == Cardinality(Those(Infos, Keeps', r))
  <2>1. a \in Nat /\ a2 \in Nat /\ a2 = a + Change(Cords, root, root', c, r)
    <3>1. Only(Cords, root, root', c)
      BY Zenon DEF StepOf
    <3> QED
      BY <1>1, <3>1, CountUpdate, Zenon
  <2>2. b \in Nat /\ b2 \in Nat /\ b2 = b + Change(Cords, old, old', c, r)
    <3>1. Only(Cords, old, old', c)
      BY Zenon DEF StepOf
    <3> QED
      BY <1>1, <3>1, CountUpdate, Zenon
  <2>3. h \in Nat /\ h2 \in Nat /\ h2 = h + Change(Snapshots, hold, hold', s, r)
    <3>1. Only(Snapshots, hold, hold', s)
      BY Zenon DEF StepOf
    <3> QED
      BY <1>1, <3>1, CountUpdate, Zenon
  <2>4. k \in Nat /\ k2 \in Nat /\ k2 = k + Change(Infos, Keeps, Keeps', i, r)
    <3>1. Only(Infos, Keeps, Keeps', i)
      BY Zenon DEF StepOf
    <3> QED
      BY <1>1, <3>1, CountUpdate, Zenon
  <2>5. refs[r] = a + b + h + k
    BY Zenon, CountedByThose
  <2>6. refs'[r] = refs[r] + Change(Cords, root, root', c, r) + Change(Cords, old, old', c, r)
                      + Change(Snapshots, hold, hold', s, r) + Change(Infos, Keeps, Keeps', i, r)
    BY Zenon DEF StepOf
  <2> DEFINE da == Change(Cords, root, root', c, r)
             db == Change(Cords, old, old', c, r)
             dh == Change(Snapshots, hold, hold', s, r)
             dk == Change(Infos, Keeps, Keeps', i, r)
  <2>7. da \in Int /\ db \in Int /\ dh \in Int /\ dk \in Int
    BY Zenon, ChangeIsInt
  <2> HIDE DEF a, b, h, k, a2, b2, h2, k2, da, db, dh, dk
  <2>8. a2 = a + da /\ b2 = b + db /\ h2 = h + dh /\ k2 = k + dk
    BY Zenon, <2>1, <2>2, <2>3, <2>4 DEF da, db, dh, dk
  <2>9. refs'[r] = a + b + h + k + da + db + dh + dk
    BY Zenon, <2>5, <2>6 DEF da, db, dh, dk
  <2>10. a \in Nat /\ b \in Nat /\ h \in Nat /\ k \in Nat
    BY Zenon, <2>1, <2>2, <2>3, <2>4
  <2>11. refs'[r] = a2 + b2 + h2 + k2
    BY <2>7, <2>8, <2>9, <2>10, SMTT(30)
  <2> QED
    BY Zenon, <2>11 DEF a2, b2, h2, k2
<1>3. \A r \in Roots : {j \in Infos : rep_'[j] = r /\ Extended(j)'} = Those(Infos, Keeps', r)
  BY Zenon, CordzAssumption DEF Keeps, Roots, Those
<1> QED
  BY Zenon, <1>2, <1>3 DEF ReferencesCounted, Those

\* What the infos in a cord's hand keep alive depends on the cord's place.
LEMMA KeepsOf ==
    ASSUME OwnInv, NEW c \in Cords, pc[c] \notin Extending, info[c] # Null
    PROVE  info[c] \in Infos /\ ~Extended(info[c]) /\ Keeps[info[c]] = Null
BY Zenon DEF OwnInv, CordzTypes, InfosOwned, InList, Garbage, Extended, Extending, Keeps

\* Tracking a cord changes nothing that is kept alive.
LEMMA TrackKeeps ==
    ASSUME OwnInv, NEW c \in Cords, NEW r, Room \/ c \in retrack, Track(c, r), pc[c] \notin Extending,
           pc' = [pc EXCEPT ![c] = "idle"], UNCHANGED <<dq, to_delete>>
    PROVE  Keeps' = Keeps
<1>1. PICK i \in Infos \ used : i = (CHOOSE j \in Infos \ used : TRUE)
  BY Zenon, FreshInfo
<1>2. info' = [info EXCEPT ![c] = i] /\ rep_' = [rep_ EXCEPT ![i] = r]
  BY Zenon, <1>1 DEF Track
<1>3. ~Extended(i)
  BY Zenon, CordzAssumption DEF OwnInv, InfosOwned, CordzTypes, Extended, InList, Garbage
<1>4. \A j \in Infos : Extended(j)' <=> Extended(j)
  BY Zenon, <1>2 DEF Extended, Extending, OwnInv, CordzTypes
<1> QED
  BY Zenon, <1>2, <1>3, <1>4 DEF Keeps, OwnInv, CordzTypes

\* A step that leaves Keeps alone.
LEMMA CordCounts ==
    ASSUME OwnInv, ReferencesCounted, NEW c \in Cords, Keeps' = Keeps, hold' = hold,
           DOMAIN root' = Cords, DOMAIN old' = Cords,
           \A d \in Cords \ {c} : root'[d] = root[d] /\ old'[d] = old[d],
           \A r \in Roots : refs'[r] = refs[r] + One(root'[c] = r) - One(root[c] = r)
                               + One(old'[c] = r) - One(old[c] = r)
    PROVE  ReferencesCounted'
<1>1. \A r \in Roots : refs[r] \in Int
  BY CountedByThose, OwnersFinite
<1>2. \A r \in Roots : /\ Change(Cords, root, root', c, r) = One(root'[c] = r) - One(root[c] = r)
                       /\ Change(Cords, old, old', c, r) = One(old'[c] = r) - One(old[c] = r)
                       /\ Change(Snapshots, hold, hold', Null, r) = 0
                       /\ Change(Infos, Keeps, Keeps', Null, r) = 0
  BY DEF Change, One
<1>3. /\ Only(Cords, root, root', c) /\ Only(Cords, old, old', c)
      /\ Only(Snapshots, hold, hold', Null) /\ Only(Infos, Keeps, Keeps', Null)
  BY Zenon DEF Only
<1>4. StepOf(c, Null, Null)
  BY <1>1, <1>2, <1>3 DEF StepOf, One
<1> QED
  BY Zenon, <1>4, CountsKept

\* A step of one profiler that changes only what it holds.
LEMMA HoldCounts ==
    ASSUME ReferencesCounted, NEW s \in Snapshots, Keeps' = Keeps, root' = root, old' = old,
           Only(Snapshots, hold, hold', s),
           \A r \in Roots : refs'[r] = refs[r] + One(hold'[s] = r) - One(hold[s] = r)
    PROVE  ReferencesCounted'
<1>1. \A r \in Roots : refs[r] \in Int
  BY CountedByThose, OwnersFinite
<1>2. Only(Cords, root, root', Null) /\ Only(Cords, old, old', Null) /\ Only(Infos, Keeps, Keeps', Null)
  BY Zenon DEF Only
<1>3. ASSUME NEW r \in Roots
      PROVE  refs'[r] = refs[r] + Change(Cords, root, root', Null, r) + Change(Cords, old, old', Null, r)
                          + Change(Snapshots, hold, hold', s, r) + Change(Infos, Keeps, Keeps', Null, r)
  <2>1. Change(Cords, root, root', Null, r) = 0
    BY DEF Change, One
  <2>2. Change(Cords, old, old', Null, r) = 0
    BY DEF Change, One
  <2>3. Change(Infos, Keeps, Keeps', Null, r) = 0
    BY DEF Change, One
  <2>4. Change(Snapshots, hold, hold', s, r) = One(hold'[s] = r) - One(hold[s] = r)
    BY DEF Change, One
  <2>5. refs[r] \in Int /\ refs'[r] = refs[r] + One(hold'[s] = r) - One(hold[s] = r)
    BY Zenon, <1>1
  <2> QED
    BY SMTT(30), <2>1, <2>2, <2>3, <2>4, <2>5 DEF One
<1>4. StepOf(Null, s, Null)
  BY Zenon, <1>2, <1>3 DEF StepOf
<1> QED
  BY Zenon, <1>4, CountsKept

\* A step that changes only what one info keeps alive.
LEMMA KeepCounts ==
    ASSUME ReferencesCounted, NEW i \in Infos, root' = root, old' = old, hold' = hold,
           \A j \in Infos \ {i} : Keeps'[j] = Keeps[j],
           \A r \in Roots : refs'[r] = refs[r] + One(Keeps'[i] = r) - One(Keeps[i] = r)
    PROVE  ReferencesCounted'
<1>1. \A r \in Roots : refs[r] \in Int
  BY CountedByThose, OwnersFinite
<1>2. /\ Only(Cords, root, root', Null) /\ Only(Cords, old, old', Null)
      /\ Only(Snapshots, hold, hold', Null) /\ Only(Infos, Keeps, Keeps', i)
  BY Zenon DEF Only
<1>3. ASSUME NEW r \in Roots
      PROVE  refs'[r] = refs[r] + Change(Cords, root, root', Null, r) + Change(Cords, old, old', Null, r)
                          + Change(Snapshots, hold, hold', Null, r) + Change(Infos, Keeps, Keeps', i, r)
  <2>1. Change(Cords, root, root', Null, r) = 0
    BY DEF Change, One
  <2>2. Change(Cords, old, old', Null, r) = 0
    BY DEF Change, One
  <2>3. Change(Snapshots, hold, hold', Null, r) = 0
    BY DEF Change, One
  <2>4. Change(Infos, Keeps, Keeps', i, r) = One(Keeps'[i] = r) - One(Keeps[i] = r)
    BY DEF Change, One
  <2>5. refs[r] \in Int /\ refs'[r] = refs[r] + One(Keeps'[i] = r) - One(Keeps[i] = r)
    BY Zenon, <1>1
  <2> QED
    BY <2>1, <2>2, <2>3, <2>4, <2>5 DEF One
<1>4. StepOf(Null, Null, i)
  BY Zenon, <1>2, <1>3 DEF StepOf
<1> QED
  BY Zenon, <1>4, CountsKept

\* A reference more or less to x, which may be no tree.
LEMMA CountsOne ==
    ASSUME ReferencesCounted, NEW x
    PROVE  /\ Counts({x} \cap Roots, {}) => \A r \in Roots : refs'[r] = refs[r] + One(x = r) - One(Null = r)
           /\ Counts({}, {x} \cap Roots) => \A r \in Roots : refs'[r] = refs[r] + One(Null = r) - One(x = r)
<1>1. \A r \in Roots : refs[r] \in Int
  BY CountedByThose, OwnersFinite
<1>2. \A r \in Roots : r # Null
  BY Zenon, CordzAssumption DEF Roots
<1> QED
  BY <1>1, <1>2 DEF Counts, One

\* The steps of a cord.
LEMMA CordReferences ==
    ASSUME OwnInv, ReferencesCounted, NEW c \in Cords,
           \/ CordStep(c) \/ \E sampled \in BOOLEAN : Emplace(c, sampled)
           \/ \E d \in Cords : Copy(c, d) \/ Assign(c, d)
    PROVE  ReferencesCounted'
<1> USE DEF CordzTypes
<1>0. Null \notin Roots /\ \A r \in Roots : refs[r] \in Int
  BY CordzAssumption, CountedByThose, OwnersFinite DEF Roots
<1>1. ASSUME NEW sampled \in BOOLEAN, Emplace(c, sampled) PROVE ReferencesCounted'
  <2>1. Keeps' = Keeps
    <3>1. CASE sampled
      BY Zenon, <1>1, <3>1, TrackKeeps DEF OwnInv, Emplace, Extending, prof
    <3>2. CASE ~sampled
      BY Zenon, <1>1, <3>2 DEF Emplace, Keeps, Extended, prof
    <3> QED
      BY Zenon, <3>1, <3>2
  <2>2. Counts({NewRoot}, {}) /\ root[c] = Null /\ root' = [root EXCEPT ![c] = NewRoot] /\ old' = old /\ hold' = hold
    BY Zenon, <1>1 DEF Emplace, prof
  <2>3. \A r \in Roots : refs'[r] = refs[r] + One(root'[c] = r) - One(root[c] = r)
                             + One(old'[c] = r) - One(old[c] = r)
    BY <1>0, <2>2 DEF Counts, One, OwnInv
  <2> QED
    BY Zenon, <2>1, <2>2, <2>3, CordCounts DEF OwnInv
<1>2. ASSUME NEW d \in Cords, Copy(c, d) PROVE ReferencesCounted'
  <2>1. Keeps' = Keeps
    <3>1. CASE info[d] # Null
      BY Zenon, <1>2, <3>1, TrackKeeps DEF OwnInv, Copy, Extending, prof
    <3>2. CASE info[d] = Null
      BY Zenon, <1>2, <3>2 DEF Copy, Keeps, Extended, prof
    <3> QED
      BY Zenon, <3>1, <3>2
  <2>2. Counts({root[d]}, {}) /\ root[c] = Null /\ root' = [root EXCEPT ![c] = root[d]] /\ old' = old /\ hold' = hold
    BY Zenon, <1>2 DEF Copy, prof
  <2>3. \A r \in Roots : refs'[r] = refs[r] + One(root'[c] = r) - One(root[c] = r)
                             + One(old'[c] = r) - One(old[c] = r)
    BY <1>0, <2>2 DEF Counts, One, OwnInv
  <2> QED
    BY Zenon, <2>1, <2>2, <2>3, CordCounts DEF OwnInv
<1>3. ASSUME NEW d \in Cords, Assign(c, d) PROVE ReferencesCounted'
  <2>1. Keeps' = Keeps
    BY Zenon, <1>3 DEF OwnInv, Assign, Keeps, Extended, prof, To
  <2>2. /\ Counts({root[d]}, {}) /\ root' = [root EXCEPT ![c] = root[d]]
        /\ old' = [old EXCEPT ![c] = root[c]] /\ hold' = hold /\ old[c] = Null
    BY Zenon, <1>3 DEF Assign, prof, OwnInv, InHand
  <2>3. \A r \in Roots : refs'[r] = refs[r] + One(root'[c] = r) - One(root[c] = r)
                             + One(old'[c] = r) - One(old[c] = r)
    BY <1>0, <2>2 DEF Counts, One, OwnInv
  <2> QED
    BY Zenon, <2>1, <2>2, <2>3, CordCounts DEF OwnInv
<1>4. CASE Clear(c)
  <2>1. Keeps' = Keeps
    BY Zenon, <1>4 DEF OwnInv, Clear, Keeps, Extended, prof, To
  <2>2. /\ refs' = refs /\ root' = [root EXCEPT ![c] = Null]
        /\ old' = [old EXCEPT ![c] = root[c]] /\ hold' = hold /\ old[c] = Null
    BY Zenon, <1>4 DEF Clear, prof, OwnInv, InHand
  <2>3. \A r \in Roots : refs'[r] = refs[r] + One(root'[c] = r) - One(root[c] = r)
                             + One(old'[c] = r) - One(old[c] = r)
    BY <1>0, <2>2 DEF One, OwnInv
  <2> QED
    BY Zenon, <2>1, <2>2, <2>3, CordCounts DEF OwnInv
<1>5. CASE Lock(c) \/ InPlace(c) \/ Unlock(c) \/ Delist(c) \/ LookAtQueue(c)
  <2>1. /\ UNCHANGED <<dq, info, to_delete, rep_, refs, root, old, hold>> /\ pc' = [pc EXCEPT ![c] = pc'[c]]
        /\ pc[c] \notin Extending /\ pc'[c] \notin Extending
    BY Zenon, <1>5 DEF OwnInv, Lock, InPlace, Unlock, Delist, LookAtQueue, prof, Extending, To
  <2>2. Keeps' = Keeps
    BY Zenon, <2>1 DEF OwnInv, Keeps, Extended, Extending
  <2>3. \A r \in Roots : refs'[r] = refs[r] + One(root'[c] = r) - One(root[c] = r)
                             + One(old'[c] = r) - One(old[c] = r)
    BY <1>0, <2>1 DEF Counts, One, OwnInv
  <2> QED
    BY Zenon, <2>1, <2>2, <2>3, CordCounts DEF OwnInv
<1>6. CASE Replace(c)
  <2>1. Keeps' = Keeps
    BY Zenon, <1>6 DEF OwnInv, Replace, Keeps, Extended, prof, To
  <2>2. Counts({}, {root[c]}) /\ root' = [root EXCEPT ![c] = Null] /\ old' = old /\ hold' = hold
    BY Zenon, <1>6 DEF Replace, prof
  <2>3. \A r \in Roots : refs'[r] = refs[r] + One(root'[c] = r) - One(root[c] = r)
                             + One(old'[c] = r) - One(old[c] = r)
    BY <1>0, <2>2 DEF Counts, One, OwnInv
  <2> QED
    BY Zenon, <2>1, <2>2, <2>3, CordCounts DEF OwnInv
<1>7. ASSUME NEW r \in Roots \cup {Null}, SetTree(c, r) PROVE ReferencesCounted'
  <2>1. root[c] = Null /\ info[c] # Null /\ pc[c] \notin Extending
    BY Zenon, <1>7 DEF SetTree, OwnInv, InHand, Scope, Extending
  <2>2. /\ UNCHANGED <<dq, info, to_delete, old, hold>> /\ To(c, "unlock")
        /\ root' = [root EXCEPT ![c] = r] /\ rep_' = [rep_ EXCEPT ![info[c]] = r]
        /\ IF r = Null THEN refs' = refs ELSE Counts({r}, {})
    BY Zenon, <1>7 DEF SetTree, prof
  <2>3. Keeps' = Keeps
    <3>1. \A j \in Infos : Extended(j)' <=> Extended(j)
      BY Zenon, <2>1, <2>2 DEF OwnInv, Extended, To, Extending
    <3> QED
      BY <2>1, <2>2, <3>1, KeepsOf, Zenon DEF Keeps, OwnInv
  <2>4. \A q \in Roots : refs'[q] = refs[q] + One(root'[c] = q) - One(root[c] = q)
                             + One(old'[c] = q) - One(old[c] = q)
    <3>1. \A q \in Roots : refs'[q] = refs[q] + One(r = q)
      BY <1>0, <2>2 DEF Counts, One
    <3>2. root'[c] = r /\ old' = old
      BY Zenon, <2>2 DEF OwnInv
    <3> QED
      BY <1>0, <2>1, <3>1, <3>2 DEF One
  <2> QED
    BY Zenon, <2>2, <2>3, <2>4, CordCounts DEF OwnInv
<1>8. CASE DeleteUnseen(c)
  <2>1. /\ UNCHANGED <<dq, to_delete, refs, root, old, hold>> /\ info' = [info EXCEPT ![c] = Null]
        /\ To(c, "untracked") /\ rep_' = [rep_ EXCEPT ![info[c]] = Null] /\ info[c] # Null /\ pc[c] \notin Extending
    BY Zenon, <1>8 DEF DeleteUnseen, prof, Free, OwnInv, InHand, Leaving, Extending
  <2>2. Keeps' = Keeps
    <3>1. \A j \in Infos : Extended(j)' <=> Extended(j)
      BY Zenon, <2>1 DEF OwnInv, Extended, To, Extending
    <3> QED
      BY <2>1, <3>1, KeepsOf, Zenon DEF Keeps, OwnInv
  <2>3. \A r \in Roots : refs'[r] = refs[r] + One(root'[c] = r) - One(root[c] = r)
                             + One(old'[c] = r) - One(old[c] = r)
    BY <1>0, <2>1 DEF Counts, One, OwnInv
  <2> QED
    BY Zenon, <2>1, <2>2, <2>3, CordCounts DEF OwnInv
<1>9. CASE Delete(c)
  <2>1. /\ UNCHANGED <<to_delete, refs, root, old, hold, rep_>> /\ info[c] # Null /\ info[c] \in Infos
    BY Zenon, <1>9 DEF Delete, prof, OwnInv, InHand, InfosOwned, Leaving
  <2>2. \A j \in Infos : Extended(j)' <=> Extended(j)
    <3>1. CASE SafeToDelete
      BY Zenon, <1>9, <3>1 DEF Delete, OwnInv, Extended, To, Extending, prof
    <3>2. CASE ~SafeToDelete
      <4>1. Range(dq') = Range(dq) \cup {info[c]}
        <5>1. dq' = Append(dq, info[c]) /\ dq \in Seq(Infos \cup Snapshots) /\ info[c] \in Infos \cup Snapshots
          BY Zenon, <1>9, <2>1, <3>2 DEF Delete, OwnInv
        <5> QED
          BY <5>1, RangeAppend
      <4>2. /\ info' = [info EXCEPT ![c] = Null] /\ pc' = [pc EXCEPT ![c] = "untracked"] /\ pc[c] = "delete"
        BY Zenon, <1>9, <3>2 DEF Delete, To
      <4> QED
        BY Zenon, <2>1, <4>1, <4>2 DEF OwnInv, Extended
    <3> QED
      BY Zenon, <3>1, <3>2
  <2>3. Keeps' = Keeps
    BY ZenonT(30), <2>1, <2>2 DEF Keeps
  <2>4. \A r \in Roots : refs'[r] = refs[r] + One(root'[c] = r) - One(root[c] = r)
                             + One(old'[c] = r) - One(old[c] = r)
    BY <1>0, <2>1 DEF Counts, One, OwnInv
  <2> QED
    BY Zenon, <2>1, <2>3, <2>4, CordCounts DEF OwnInv
<1>10. CASE Untracked(c)
  <2>1. Keeps' = Keeps
    <3>1. CASE c \in retrack
      BY <1>10, <3>1, TrackKeeps, Zenon DEF OwnInv, Untracked, Extending, prof, To
    <3>2. CASE c \notin retrack
      BY Zenon, <1>10, <3>2 DEF Untracked, OwnInv, Keeps, Extended, prof, To
    <3> QED
      BY Zenon, <3>1, <3>2
  <2>2. Counts({}, {old[c]} \cap Roots) /\ root' = root /\ old' = [old EXCEPT ![c] = Null] /\ hold' = hold
    BY <1>10, Zenon DEF Untracked, prof
  <2>3. \A r \in Roots : refs'[r] = refs[r] + One(root'[c] = r) - One(root[c] = r)
                             + One(old'[c] = r) - One(old[c] = r)
    BY <1>0, <2>2 DEF Counts, One, OwnInv
  <2> QED
    BY <2>1, <2>2, <2>3, CordCounts, Zenon DEF OwnInv
<1>11. CASE ExtendLife(c)
  <2>1. /\ UNCHANGED <<dq, to_delete, info, root, old, hold, rep_>> /\ To(c, "delete")
        /\ info[c] # Null /\ pc[c] \notin Extending /\ Counts({rep_[info[c]]} \cap Roots, {})
    BY Zenon, <1>11 DEF ExtendLife, prof, OwnInv, InHand, Leaving, Extending
  <2>2. info[c] \in Infos /\ Keeps[info[c]] = Null
    BY Zenon, <2>1, KeepsOf
  <2>3. \A j \in Infos : Extended(j)' <=> Extended(j) \/ j = info[c]
    BY Zenon, <2>1 DEF OwnInv, Extended, To, Extending
  <2>4. Keeps'[info[c]] = rep_[info[c]] /\ \A j \in Infos \ {info[c]} : Keeps'[j] = Keeps[j]
    BY Zenon, <2>1, <2>2, <2>3 DEF Keeps
  <2>5. \A r \in Roots : refs'[r] = refs[r] + One(rep_[info[c]] = r) - One(Null = r)
    BY Zenon, <2>1, CountsOne
  <2>6. \A r \in Roots : refs'[r] = refs[r] + One(Keeps'[info[c]] = r) - One(Keeps[info[c]] = r)
    BY <2>2, <2>4, <2>5 DEF One
  <2>7. root' = root /\ old' = old /\ hold' = hold
    BY Zenon, <2>1
  <2> QED
    BY Zenon, <2>2, <2>4, <2>6, <2>7, KeepCounts
<1>12. CASE DeleteUnqueued(c)
  <2>1. /\ UNCHANGED <<dq, to_delete, root, old, hold>> /\ To(c, "untracked") /\ pc[c] = "unqueued"
        /\ info' = [info EXCEPT ![c] = Null] /\ rep_' = [rep_ EXCEPT ![info[c]] = Null]
        /\ info[c] # Null /\ Counts({}, {rep_[info[c]]} \cap Roots)
    BY Zenon, <1>12 DEF DeleteUnqueued, Free, prof, OwnInv, InHand, Leaving
  <2>2. info[c] \in Infos /\ Extended(info[c]) /\ Keeps[info[c]] = rep_[info[c]]
    BY Zenon, <2>1 DEF OwnInv, InfosOwned, Keeps, Extended
  <2>3. \A j \in Infos \ {info[c]} : Extended(j)' <=> Extended(j)
    BY Zenon, <2>1 DEF OwnInv, Extended, To
  <2>4. Keeps'[info[c]] = Null /\ \A j \in Infos \ {info[c]} : Keeps'[j] = Keeps[j]
    BY Zenon, <2>1, <2>2, <2>3 DEF Keeps, OwnInv
  <2>5. \A r \in Roots : refs'[r] = refs[r] + One(Null = r) - One(rep_[info[c]] = r)
    BY Zenon, <2>1, CountsOne
  <2>6. \A r \in Roots : refs'[r] = refs[r] + One(Keeps'[info[c]] = r) - One(Keeps[info[c]] = r)
    BY <2>2, <2>4, <2>5 DEF One
  <2>7. root' = root /\ old' = old /\ hold' = hold
    BY Zenon, <2>1
  <2> QED
    BY Zenon, <2>2, <2>4, <2>6, <2>7, KeepCounts
<1>13. CASE CordStep(c)
  <2>1. CASE Lock(c) \/ Clear(c) \/ InPlace(c) \/ Replace(c) \/ Unlock(c) \/ Delist(c) \/ LookAtQueue(c)
    BY Zenon, <1>4, <1>5, <1>6, <2>1
  <2>2. CASE DeleteUnseen(c) \/ ExtendLife(c) \/ Delete(c) \/ DeleteUnqueued(c) \/ Untracked(c)
    BY Zenon, <1>8, <1>9, <1>10, <1>11, <1>12, <2>2
  <2>3. CASE \E r \in Roots \cup {Null} : SetTree(c, r)
    BY Zenon, <1>7, <2>3
  <2> QED
    BY Zenon, <1>13, <2>1, <2>2, <2>3 DEF CordStep
<1> QED
  BY Zenon, <1>1, <1>2, <1>3, <1>13

\* The steps of a profiler.
LEMMA ProfilerReferences ==
    ASSUME OwnInv, ReferencesCounted, NEW s \in Snapshots, ProfilerStep(s)
    PROVE  ReferencesCounted'
<1> USE DEF CordzTypes
<1>0. Null \notin Roots /\ \A r \in Roots : refs[r] \in Int
  BY CordzAssumption, CountedByThose, OwnersFinite DEF Roots
<1>1. CASE TakeSnapshot(s) \/ Head_(s) \/ Next_(s) \/ DestroySnapshot(s)
  <2>1. UNCHANGED <<cord, rep_, refs, hold>>
    BY Zenon, <1>1 DEF TakeSnapshot, Head_, Next_, DestroySnapshot, cord
  <2>2. \A i \in Infos : InList(i)' \/ Garbage(i)' <=> InList(i) \/ Garbage(i)
    <3>1. CASE TakeSnapshot(s)
      <4>1. dq' = Append(dq, s) /\ to_delete' = to_delete /\ dq \in Seq(Infos \cup Snapshots)
            /\ s \in Infos \cup Snapshots
        BY Zenon, <3>1 DEF TakeSnapshot, OwnInv
      <4>2. Range(dq') = Range(dq) \cup {s}
        BY <4>1, RangeAppend
      <4> QED
        BY Zenon, <4>1, <4>2, CordzAssumption DEF InList, Garbage, Snapshots
    <3>2. CASE Head_(s) \/ Next_(s)
      BY Zenon, <3>2 DEF Head_, Next_, InList, Garbage
    <3>3. CASE DestroySnapshot(s)
      BY Zenon, <3>3, DestroyMoves
    <3> QED
      BY Zenon, <1>1, <3>1, <3>2, <3>3
  <2>4. UNCHANGED <<root, old>>
    BY Zenon, <2>1 DEF cord
  <2>5. \A i \in Infos : Extended(i)' <=> Extended(i)
    BY Zenon, <2>1, <2>2 DEF Extended, InList, Garbage, cord
  <2>6. \A r \in Roots : {i \in Infos : rep_'[i] = r /\ Extended(i)'} = {i \in Infos : rep_[i] = r /\ Extended(i)}
    BY Zenon, <2>1, <2>5
  <2> QED
    BY Zenon, <2>1, <2>4, <2>6 DEF ReferencesCounted
<1>2. CASE RefCordRep(s) \/ Unref(s)
  <2>1. /\ UNCHANGED <<cord, rep_, dq, to_delete>> /\ hold' = [hold EXCEPT ![s] = hold'[s]]
        /\ \A r \in Roots : refs'[r] = refs[r] + One(hold'[s] = r) - One(hold[s] = r)
    <3>1. CASE RefCordRep(s)
      <4>1. hold[s] = Null
        BY Zenon, <3>1 DEF RefCordRep, OwnInv, InHand
      <4> QED
        BY Zenon, <1>0, <3>1, <4>1 DEF RefCordRep, OwnInv, Counts, One, cord
    <3>2. CASE Unref(s)
      BY Zenon, <1>0, <3>2 DEF Unref, OwnInv, Counts, One, cord
    <3> QED
      BY Zenon, <1>2, <3>1, <3>2
  <2>2. UNCHANGED <<root, old>> /\ Keeps' = Keeps
    BY Zenon, <2>1 DEF Keeps, Extended, cord
  <2>3. Only(Snapshots, hold, hold', s)
    BY Zenon, <2>1 DEF Only, OwnInv
  <2>4. root' = root /\ old' = old
    BY Zenon, <2>2
  <2> QED
    BY Zenon, <2>1, <2>2, <2>3, <2>4, HoldCounts
<1>3. ASSUME NEW i \in Infos, DeleteHandle(s, i) PROVE ReferencesCounted'
  <2>1. /\ UNCHANGED <<cord, dq, hold>> /\ rep_' = [rep_ EXCEPT ![i] = Null] /\ Counts({}, {rep_[i]} \cap Roots)
        /\ to_delete' = [to_delete EXCEPT ![s] = @ \ {i}] /\ i \in to_delete[s]
    BY Zenon, <1>3 DEF DeleteHandle, Free
  <2>2. UNCHANGED <<root, old>>
    BY Zenon, <2>1 DEF cord
  <2>3. Keeps[i] = rep_[i] /\ Keeps'[i] = Null
    BY Zenon, <2>1 DEF Keeps, Extended, OwnInv
  <2>4. \A j \in Infos \ {i} : Keeps'[j] = Keeps[j]
    <3>1. \A j \in Infos \ {i} : Extended(j)' <=> Extended(j)
      BY Zenon, <2>1 DEF Extended, OwnInv, cord
    <3> QED
      BY Zenon, <2>1, <3>1 DEF Keeps, OwnInv
  <2>5. \A r \in Roots : refs'[r] = refs[r] + One(Null = r) - One(rep_[i] = r)
    BY Zenon, <2>1, CountsOne
  <2>6. \A r \in Roots : refs'[r] = refs[r] + One(Keeps'[i] = r) - One(Keeps[i] = r)
    BY <2>3, <2>5 DEF One
  <2>7. root' = root /\ old' = old /\ hold' = hold
    BY Zenon, <2>1, <2>2
  <2> QED
    BY Zenon, <2>4, <2>6, <2>7, KeepCounts
<1> QED
  BY Zenon, <1>1, <1>2, <1>3 DEF ProfilerStep

\* At the start no tree has an owner.
LEMMA ReferencesInit == ASSUME Init PROVE ReferencesCounted
<1>1. IsFiniteSet(Snapshots) /\ IsFiniteSet(Cords) /\ IsFiniteSet(Infos)
  BY Zenon, OwnersAreFinite
<1>2. Null \notin Roots
  BY Zenon, CordzAssumption DEF Roots
<1>3. ASSUME NEW r \in Roots
      PROVE  /\ Those(Cords, root, r) = {} /\ Those(Cords, old, r) = {} /\ Those(Snapshots, hold, r) = {}
             /\ Those(Infos, Keeps, r) = {} /\ refs[r] = 0
  BY Zenon, <1>2, <1>3 DEF Init, Those, Keeps
<1>4. Cardinality({}) = 0
  BY Zenon, FS_EmptySet
<1> QED
  BY <1>3, <1>4, CountedByThose

\* Every step of cords and profilers keeps the trees counted.
LEMMA ReferencesNext == ASSUME OwnInv, ReferencesCounted, [Next]_vars PROVE ReferencesCounted'
<1>1. CASE UNCHANGED vars
  <2>1. UNCHANGED <<refs, rep_, dq, to_delete, info, pc, root, old, hold>>
    BY Zenon, <1>1 DEF vars, cord, prof
  <2>2. \A i : Extended(i)' <=> Extended(i)
    BY Zenon, <2>1 DEF Extended
  <2>3. \A r \in Roots : {i \in Infos : rep_'[i] = r /\ Extended(i)'} = {i \in Infos : rep_[i] = r /\ Extended(i)}
    BY Zenon, <2>1, <2>2
  <2> QED
    BY Zenon, <2>1, <2>3 DEF ReferencesCounted
<1>2. ASSUME NEW c \in Cords,
             \/ CordStep(c) \/ \E sampled \in BOOLEAN : Emplace(c, sampled)
             \/ \E d \in Cords : Copy(c, d) \/ Assign(c, d)
      PROVE  ReferencesCounted'
  BY Zenon, <1>2, CordReferences
<1>3. CASE Next
  BY Zenon, <1>2, <1>3, ProfilerReferences DEF Next
<1> QED
  BY Zenon, <1>1, <1>3

\* ReferencesCounted: the reference count of a tree is the number of its owners, for any number
\* of cords, infos, trees and snapshots.
THEOREM CordzReferencesCounted == Spec => []ReferencesCounted
<1>1. Init => OwnInv /\ ReferencesCounted
  BY Zenon, OwnInit, ReferencesInit
<1>2. OwnInv /\ ReferencesCounted /\ [Next]_vars => (OwnInv /\ ReferencesCounted)'
  BY Zenon, OwnNext, ReferencesNext
<1> QED
  BY <1>1, <1>2, PTL DEF Spec
=============================================================================

-------------------------------- MODULE Status --------------------------------
(***************************************************************************)
(* Status: a word that is a code, or a pointer to a reference-counted      *)
(* StatusRep shared by the copies.  A copy is changed in place when it is  *)
(* the only one and cloned otherwise.  Each thread has one Status; what    *)
(* passes between threads is copied or moved while both are at rest.       *)
(***************************************************************************)
EXTENDS Naturals, FiniteSets

CONSTANTS Owners, Reps, Urls, Payloads, None,
    MaxJoins   \* bound on the messages that are joined to one status

VARIABLES
    word,                 \* rep_ of a thread's Status
    live, ref_, content,  \* the StatusReps that exist, their counts and their fields
    place, drop, op       \* of a thread: its place, the rep to unreference, the change to make

statusvars == <<word, live, ref_, content, place, drop, op>>

Inlined == {"ok", "error", "internal", "moved"}
\* A message is the number of parts it was joined from; of the locations, whether there are any.
Fields(code, message, located) ==
    [code |-> code, message |-> message, payloads |-> [u \in Urls |-> None], located |-> located]

AddLocation == [kind |-> "location"]
Ops == [kind : {"set"}, url : Urls, payload : Payloads] \cup [kind : {"erase"}, url : Urls]
       \cup {AddLocation}

ASSUME StatusAssumption ==
    /\ IsFiniteSet(Owners) /\ IsFiniteSet(Urls) /\ MaxJoins \in Nat \ {0}
    /\ Reps \cap Inlined = {} /\ None \notin Payloads \cup Reps \cup Ops

StatusInit ==
    /\ word = [t \in Owners |-> "ok"]
    /\ live = {} /\ ref_ = [r \in Reps |-> 0] /\ content = [r \in Reps |-> None]
    /\ place = [t \in Owners |-> "idle"] /\ drop = [t \in Owners |-> None]
    /\ op = [t \in Owners |-> None]

Go(t, l) == place' = [place EXCEPT ![t] = l]
UnrefOf(r) == IF r \in Reps THEN "unref" ELSE "idle"

\* new StatusRep with fields f, as the word of thread t.
NewRep(t, f) ==
    LET r == CHOOSE x \in Reps \ live : TRUE
    IN  /\ live # Reps    \* the bound on reps
        /\ live' = live \cup {r}
        /\ ref_' = [ref_ EXCEPT ![r] = 1] /\ content' = [content EXCEPT ![r] = f]
        /\ word' = [word EXCEPT ![t] = r]

DeleteRep(r) ==
    /\ live' = live \ {r}
    /\ ref_' = [ref_ EXCEPT ![r] = 0] /\ content' = [content EXCEPT ![r] = None]

\* The constructor from a code, a message and a location, which may be none: MakeStatusRepImpl.
Construct(t, message, located) ==
    /\ place[t] = "idle" /\ word[t] \in Inlined
    /\ IF message = 0
       THEN word' = [word EXCEPT ![t] = "error"] /\ UNCHANGED <<live, ref_, content>>
       ELSE NewRep(t, Fields("error", message, located))
    /\ UNCHANGED <<place, drop, op>>

\* Copy assignment.
CopyAssign(t, x) ==
    /\ place[t] = "idle" /\ place[x] = "idle" /\ word[x] # word[t]
    /\ ref_' = IF word[x] \in Reps THEN [ref_ EXCEPT ![word[x]] = @ + 1] ELSE ref_
    /\ word' = [word EXCEPT ![t] = word[x]]
    /\ drop' = [drop EXCEPT ![t] = IF word[t] \in Reps THEN word[t] ELSE None]
    /\ Go(t, UnrefOf(word[t]))
    /\ UNCHANGED <<live, content, op>>

\* Move assignment, which does nothing when both have the same word.
Move(t, x) ==
    /\ place[t] = "idle" /\ place[x] = "idle" /\ word[x] # word[t]
    /\ word' = [word EXCEPT ![t] = word[x], ![x] = "moved"]
    /\ drop' = [drop EXCEPT ![t] = IF word[t] \in Reps THEN word[t] ELSE None]
    /\ Go(t, UnrefOf(word[t]))
    /\ UNCHANGED <<live, ref_, content, op>>

\* The destructor; a new Status takes its place.
Destroy(t) ==
    /\ place[t] = "idle" /\ word[t] \in Reps
    /\ word' = [word EXCEPT ![t] = "ok"]
    /\ drop' = [drop EXCEPT ![t] = word[t]] /\ Go(t, "unref")
    /\ UNCHANGED <<live, ref_, content, op>>

\* StatusRep::Unref: the only owner need not decrement ...
UnrefRep(t) ==
    /\ place[t] = "unref"
    /\ IF ref_[drop[t]] = 1
       THEN /\ DeleteRep(drop[t]) /\ drop' = [drop EXCEPT ![t] = None]
            /\ Go(t, IF op[t] = None THEN "idle" ELSE "apply")
       ELSE Go(t, "fetch_sub") /\ UNCHANGED <<live, ref_, content, drop>>
    /\ UNCHANGED <<word, op>>

\* ... and the others do, and the last of them deletes.
FetchSub(t) ==
    /\ place[t] = "fetch_sub"
    /\ IF ref_[drop[t]] = 1 THEN DeleteRep(drop[t])
       ELSE ref_' = [ref_ EXCEPT ![drop[t]] = @ - 1] /\ UNCHANGED <<live, content>>
    /\ drop' = [drop EXCEPT ![t] = None] /\ Go(t, IF op[t] = None THEN "idle" ELSE "apply")
    /\ UNCHANGED <<word, op>>

\* The code of an inlined word.
InlinedRepToCode(w) == IF w = "moved" THEN "internal" ELSE w

\* PrepareToModify: a new rep for an inlined word, the rep itself when it has one owner ...
PrepareToModify(t, o) ==
    /\ place[t] = "idle"
    /\ word[t] # "ok" /\ (o.kind \in {"erase", "location"} => word[t] \in Reps)
    /\ op' = [op EXCEPT ![t] = o]
    /\ IF word[t] \in Inlined
       THEN NewRep(t, Fields(InlinedRepToCode(word[t]), 0, 0)) /\ Go(t, "apply")
       ELSE /\ Go(t, IF ref_[word[t]] = 1 THEN "apply" ELSE "clone")
            /\ UNCHANGED <<word, live, ref_, content>>
    /\ UNCHANGED drop

\* Mutant of CloneAndUnref: what is shared is changed all the same.
CloneNothing(t) ==
    /\ place[t] = "clone" /\ Go(t, "apply")
    /\ UNCHANGED <<word, live, ref_, content, drop, op>>

\* ... or else a clone, and the old rep is unreferenced.
CloneAndUnref(t) ==
    /\ place[t] = "clone"
    /\ NewRep(t, content[word[t]])
    /\ drop' = [drop EXCEPT ![t] = word[t]] /\ Go(t, "unref")
    /\ UNCHANGED op

\* The fields after the change.
Changed(f, o) ==
    CASE o.kind = "set" -> [f EXCEPT !.payloads[o.url] = o.payload]
      [] o.kind = "erase" -> [f EXCEPT !.payloads[o.url] = None]
      [] o.kind = "location" -> [f EXCEPT !.located = 1]

Bare(f) == f.message = 0 /\ \A u \in Urls : f.payloads[u] = None

\* Mutant of Apply: the rep stays when its last payload is erased.
ApplyNoInline(t) ==
    /\ place[t] = "apply"
    /\ content' = [content EXCEPT ![word[t]] = Changed(@, op[t])] /\ UNCHANGED <<word, live, ref_>>
    /\ op' = [op EXCEPT ![t] = None] /\ Go(t, "idle")
    /\ UNCHANGED drop

\* SetPayload, ErasePayload and AddSourceLocation on a rep of one's own.  What can be inlined after
\* ErasePayload is inlined.
Apply(t) ==
    /\ place[t] = "apply"
    /\ LET f == content[word[t]]
       IN  IF op[t].kind = "erase" /\ f.payloads[op[t].url] # None /\ Bare(Changed(f, op[t]))
           THEN DeleteRep(word[t]) /\ word' = [word EXCEPT ![t] = f.code]
           ELSE /\ content' = [content EXCEPT ![word[t]] = Changed(f, op[t])]
                /\ UNCHANGED <<word, live, ref_>>
    /\ op' = [op EXCEPT ![t] = None] /\ Go(t, "idle")
    /\ UNCHANGED drop

\* A StatusBuilder's conversion: JoinMessageToStatus clones whoever else has the status, which
\* is then given up, and the location of the builder is added.
Join(t) ==
    /\ place[t] = "idle" /\ word[t] \notin {"ok", "moved"}
    /\ op' = [op EXCEPT ![t] = AddLocation]
    /\ IF word[t] \in Inlined
       THEN NewRep(t, Fields(word[t], 1, 0)) /\ Go(t, "apply") /\ UNCHANGED drop
       ELSE /\ content[word[t]].message < MaxJoins
            /\ NewRep(t, [content[word[t]] EXCEPT !.message = @ + 1])
            /\ drop' = [drop EXCEPT ![t] = word[t]] /\ Go(t, "unref")

Step(t) ==
    \/ Join(t) \/ UnrefRep(t) \/ FetchSub(t) \/ CloneAndUnref(t) \/ Apply(t) \/ Destroy(t)
    \/ \E message, located \in {0, 1} : Construct(t, message, located)
    \/ \E x \in Owners : CopyAssign(t, x) \/ Move(t, x)
    \/ \E o \in Ops : PrepareToModify(t, o)

StatusNext == \E t \in Owners : Step(t)

StatusSpec == StatusInit /\ [][StatusNext]_statusvars
-----------------------------------------------------------------------------
\* StatusRep::operator==, which counts on no url appearing twice.
EqualReps(f, g) ==
    LET Has(h) == {u \in Urls : h.payloads[u] # None}
        fLarger == Cardinality(Has(f)) >= Cardinality(Has(g))
        larger == IF fLarger THEN f ELSE g
        smaller == IF fLarger THEN g ELSE f
    IN  /\ f.code = g.code /\ f.message = g.message
        /\ Cardinality(Has(larger)) - Cardinality(Has(smaller)) <= 1
        /\ \A u \in Has(larger) : larger.payloads[u] = smaller.payloads[u]

Equal(v, w) == v = w \/ (v \in Reps /\ w \in Reps /\ EqualReps(content[v], content[w]))

\* What a word stands for.  The message of a moved-from status is its own.
Contents(w) ==
    IF w \in Reps THEN content[w]
    ELSE Fields(InlinedRepToCode(w), IF w = "moved" THEN MaxJoins + 1 ELSE 0, 0)
ValueOf(w) == [Contents(w) EXCEPT !.located = 0]

\* Every StatusRep is referenced as often as its count says, by the statuses that hold it and
\* the threads about to unreference it, and exists exactly as long: two owners that let go at
\* the same time neither free it twice nor leak it.
RepsCounted ==
    \A r \in Reps :
        /\ ref_[r] = Cardinality({t \in Owners : word[t] = r}) + Cardinality({t \in Owners : drop[t] = r})
        /\ r \in live <=> ref_[r] > 0

\* Two statuses compare equal exactly when they have the same code, message and payloads.
\* operator== relies on what can be inlined being inlined, which ErasePayload must see to.
EqualityIsByValue ==
    \A t, u \in Owners : place[t] = "idle" /\ place[u] = "idle" =>
        (Equal(word[t], word[u]) <=> ValueOf(word[t]) = ValueOf(word[u]))

\* A status has value semantics: what another thread does to its copy never shows in this one.
CopiesIndependent ==
    [][\A t \in Owners : <<word[t], place[t]>>' = <<word[t], place[t]>> =>
          Contents(word[t])' = Contents(word[t])]_statusvars
=============================================================================

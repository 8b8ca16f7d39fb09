---------------------------- MODULE SynchEvents ----------------------------
(***************************************************************************)
(* The event records of mutexes that are debugged (absl/synchronization/   *)
(* mutex.cc): a table under synch_event_mu of counted records, each for    *)
(* the Mutex or CondVar at an address.  A destructor does not remove the   *)
(* record, so one may be left of an earlier object at the address; and all *)
(* records are dropped when there were too many calls.                     *)
(*                                                                         *)
(* All addresses are in one bucket.  With synch_event_mu, a call is one    *)
(* step up to the return of its reference, and a step that gives it back.  *)
(***************************************************************************)
EXTENDS Naturals, Sequences, FiniteSets, FiniteSetsExt, SequencesExt

CONSTANTS
    Threads, Addrs,
    Events,                 \* the memory for records, as addresses: the lowest is used first
    kMaxSynchEventCount,
    MaxObjects,             \* bound on the objects that live at an address in turn
    Nil

VARIABLES
    event_bit,              \* event_bit[a]: kMuEvent or kCvEvent in the word at a
    object,                 \* object[a]: which object lives at a, a number
    synch_event,            \* the chain of the bucket, the newest first
    refcount, masked_addr,  \* of a record; invariant, arg and log are what its users see
    of,                     \* of[e]: the object that e was made for
    free,                   \* the memory that is not allocated
    synch_event_count,
    pc, ref,                \* what t does, the record it holds
    at                      \* and the object it works on

vars == <<event_bit, object, synch_event, refcount, masked_addr, of, free,
          synch_event_count, pc, ref, at>>
recordVars == <<masked_addr, of>>

Init ==
    /\ event_bit = [a \in Addrs |-> FALSE] /\ object = [a \in Addrs |-> 0]
    /\ synch_event = <<>> /\ free = Events /\ synch_event_count = 0
    /\ refcount = [e \in Events |-> 0] /\ of = [e \in Events |-> Nil]
    /\ masked_addr = [e \in Events |-> Nil]
    /\ pc = [t \in Threads |-> "idle"] /\ ref = [t \in Threads |-> Nil]
    /\ at = [t \in Threads |-> Nil]

\* The first record in the chain for the address.
Lookup(chain, a) ==
    IF \E e \in ToSet(chain) : masked_addr[e] = a
    THEN SelectSeq(chain, LAMBDA e : masked_addr[e] = a)[1]
    ELSE Nil

Begin(t, a, l, e) ==
    /\ pc' = [pc EXCEPT ![t] = l]
    /\ at' = [at EXCEPT ![t] = a]
    /\ ref' = [ref EXCEPT ![t] = e]

Finish(t) ==
    /\ pc' = [pc EXCEPT ![t] = "idle"]
    /\ at' = [at EXCEPT ![t] = Nil]
    /\ ref' = [ref EXCEPT ![t] = Nil]

Drops == synch_event_count + 1 > kMaxSynchEventCount
Chain == IF Drops THEN <<>> ELSE synch_event
\* The reference counts, and the free memory, after the records were dropped.
Counts == [e \in Events |-> IF Drops /\ e \in ToSet(synch_event) THEN refcount[e] - 1
                            ELSE refcount[e]]
FreedByDrop == {e \in ToSet(synch_event) : Counts[e] = 0}

Forget(record, gone) == [e \in Events |-> IF e \in gone THEN Nil ELSE record[e]]

\* EnsureSynchEvent, called by EnableDebugLog and EnableInvariantDebugging.
MakeEvent(t, a, e) ==
    /\ synch_event' = <<e>> \o Chain
    /\ refcount' = [Counts EXCEPT ![e] = 2]
    /\ masked_addr' = [Forget(masked_addr, FreedByDrop) EXCEPT ![e] = a]
    /\ of' = [Forget(of, FreedByDrop) EXCEPT ![e] = object[a]]
    /\ free' = (free \cup FreedByDrop) \ {e}
    /\ Begin(t, a, "use", e)

UseEvent(t, a, e) ==
    /\ synch_event' = Chain
    /\ refcount' = [Counts EXCEPT ![e] = @ + 1]
    /\ free' = free \cup FreedByDrop
    /\ masked_addr' = Forget(masked_addr, FreedByDrop)
    /\ of' = Forget(of, FreedByDrop)
    /\ Begin(t, a, "use", e)

EnsureSynchEvent(t, a) ==
    /\ pc[t] = "idle"
    /\ synch_event_count' = IF Drops THEN 0 ELSE synch_event_count + 1
    /\ event_bit' = [event_bit EXCEPT ![a] = TRUE]
    /\ UNCHANGED object
    /\ LET e == IF event_bit[a] THEN Lookup(Chain, a) ELSE Nil
       IN IF e = Nil THEN MakeEvent(t, a, Min(free \cup FreedByDrop)) ELSE UseEvent(t, a, e)

\* PostSynchEvent for an object with its event bit: GetSynchEvent, and what it does with it.
GetSynchEvent(t, a) ==
    /\ pc[t] = "idle" /\ event_bit[a]
    /\ LET e == Lookup(synch_event, a)
       IN /\ refcount' = IF e = Nil THEN refcount ELSE [refcount EXCEPT ![e] = @ + 1]
          /\ Begin(t, a, IF e = Nil THEN "no event" ELSE "use", e)
    /\ UNCHANGED <<event_bit, object, synch_event, recordVars, free, synch_event_count>>

PostNoEvent(t) ==
    /\ pc[t] = "no event"
    /\ Finish(t)
    /\ UNCHANGED <<event_bit, object, synch_event, refcount, recordVars, free,
                   synch_event_count>>

\* UnrefSynchEvent, when the record was used: the last one frees the record after it has left synch_event_mu.
UnrefSynchEvent(t) ==
    /\ pc[t] = "use"
    /\ refcount' = [refcount EXCEPT ![ref[t]] = @ - 1]
    /\ IF refcount[ref[t]] = 1 THEN pc' = [pc EXCEPT ![t] = "free"] /\ UNCHANGED <<ref, at>>
       ELSE Finish(t)
    /\ UNCHANGED <<event_bit, object, synch_event, recordVars, free, synch_event_count>>

Free(t) ==
    /\ pc[t] = "free"
    /\ free' = free \cup {ref[t]}
    /\ masked_addr' = Forget(masked_addr, {ref[t]})
    /\ of' = Forget(of, {ref[t]})
    /\ Finish(t)
    /\ UNCHANGED <<event_bit, object, synch_event, refcount, synch_event_count>>

\* The object at a is destroyed, when nobody uses it, and another one made there.
Replace(a) ==
    /\ \A t \in Threads : at[t] # a
    /\ object[a] < MaxObjects
    /\ object' = [object EXCEPT ![a] = @ + 1]
    /\ event_bit' = [event_bit EXCEPT ![a] = FALSE]
    /\ UNCHANGED <<synch_event, refcount, recordVars, free, synch_event_count, pc, ref, at>>

Next ==
    \/ \E t \in Threads :
          \/ \E a \in Addrs : EnsureSynchEvent(t, a) \/ GetSynchEvent(t, a)
          \/ PostNoEvent(t) \/ UnrefSynchEvent(t) \/ Free(t)
    \/ \E a \in Addrs : Replace(a)

Spec == Init /\ [][Next]_vars
-----------------------------------------------------------------------------
\* A record counts the threads that hold it and its place in the table, and is freed when
\* there are none: never under a thread, though all records may be dropped meanwhile.
EventsCounted ==
    \A e \in Events :
        LET holders == {t \in Threads : ref[t] = e /\ pc[t] # "free"}
            freeing == {t \in Threads : ref[t] = e /\ pc[t] = "free"}
        IN /\ refcount[e] = Cardinality(holders) + (IF e \in ToSet(synch_event) THEN 1 ELSE 0)
           /\ e \in free <=> refcount[e] = 0 /\ freeing = {}
           /\ freeing # {} => refcount[e] = 0 /\ Cardinality(freeing) = 1

\* What an object with its event bit finds was made for it, not for an object that lived at
\* its address before, although such a record may still be in the chain.
EventIsOwn == \A t \in Threads : ref[t] # Nil => of[ref[t]] = object[at[t]]
=============================================================================

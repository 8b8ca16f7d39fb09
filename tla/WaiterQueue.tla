----------------------------- MODULE WaiterQueue -----------------------------
(***************************************************************************)
(* What the waiter queue of a Mutex promises, without pointers: where a    *)
(* new waiter may go, and exactly whom the last unlocker wakes.  MuQueue   *)
(* implements it with the circular list and the skip chains of mutex.cc.   *)
(***************************************************************************)
EXTENDS Naturals, Sequences, SequencesExt

CONSTANTS Waiters, Params

VARIABLES
    list,       \* the waiters, first to last
    waitp,      \* what each waits for: [how, cond, priority]
    true,       \* the conditions that are true
    phase       \* "open", "search" (an unlocker searches), "shared" (readers left)

vars == <<list, waitp, true, phase>>

Init == list = <<>> /\ waitp \in [Waiters -> Params] /\ true = {} /\ phase = "open"

Ready(s) == waitp[s].cond \in true \cup {"null"}
UnconditionalWriter(p) == p.how = "kExclusive" /\ p.cond = "null"

\* A waiter joins at the back; at the front if no search can miss it there; or in front of
\* the waiters of lower priority if nobody searches.
Enqueue(s) ==
    LET lower == SelectInSeq(list, LAMBDA u : waitp[u].priority < waitp[s].priority)
    IN /\ UNCHANGED <<waitp, true, phase>>
       /\ s \notin Range(list)
       /\ \/ list' = Append(list, s)
          \/ (phase # "search" \/ UnconditionalWriter(waitp[s])) /\ list' = <<s>> \o list
          \/ phase # "search" /\ lower > 0 /\ list' = InsertAt(list, lower, s)

\* A waiter whose wait timed out leaves, from anywhere in the queue.
TryRemove(s) ==
    /\ phase = "open" /\ UNCHANGED <<waitp, true, phase>>
    /\ s \in Range(list) /\ list' = Remove(list, s)

Change == phase = "open" /\ true' # true /\ UNCHANGED <<list, waitp, phase>>

\* Whom the last unlocker wakes: a writer without condition at the front, else the first
\* waiter that may run, with all other readers that may run if it is a reader.
Chosen ==
    LET ready == {s \in Range(list) : Ready(s)}
        w     == list[SelectInSeq(list, Ready)]
    IN IF list # <<>> /\ UnconditionalWriter(waitp[Head(list)]) THEN {Head(list)}
       ELSE IF ready = {} THEN {}
       ELSE IF waitp[w].how = "kExclusive" THEN {w}
       ELSE {s \in ready : waitp[s].how = "kShared"}

Release ==
    /\ phase' = "open"
    /\ list # <<>>
    /\ LET woken == Chosen
       IN  list' = SelectSeq(list, LAMBDA s : s \notin woken)
    /\ UNCHANGED <<waitp, true>>

\* A search begins, or is abandoned because another reader joined.
Search == phase' = "search" /\ UNCHANGED <<list, waitp, true>>
Abandon == phase = "search" /\ phase' = "shared" /\ UNCHANGED <<list, waitp, true>>

Next ==
    \/ Search \/ Abandon \/ Change \/ Release
    \/ \E s \in Waiters : Enqueue(s) \/ TryRemove(s)

Spec == Init /\ [][Next]_vars
=============================================================================

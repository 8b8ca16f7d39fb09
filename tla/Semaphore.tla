------------------------------ MODULE Semaphore ------------------------------
(***************************************************************************)
(* What a thread's semaphore promises: a post is counted until the owner   *)
(* takes it, a wait ends with exactly one post taken, or, if it is timed,  *)
(* with none.                                                              *)
(***************************************************************************)
EXTENDS Naturals

VARIABLES
    count,      \* posts not yet taken
    waiting     \* "no", "forever" or "timed"

vars == <<count, waiting>>

Init == count = 0 /\ waiting = "no"
Post == count' = count + 1 /\ UNCHANGED waiting
Wait == waiting = "no" /\ waiting' \in {"forever", "timed"} /\ UNCHANGED count
Take == waiting # "no" /\ count > 0 /\ count' = count - 1 /\ waiting' = "no"
TimesOut == waiting = "timed" /\ waiting' = "no" /\ UNCHANGED count

Next == Post \/ Wait \/ Take \/ TimesOut
Spec == Init /\ [][Next]_vars
=============================================================================

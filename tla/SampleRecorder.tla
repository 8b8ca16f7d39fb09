---------------------------- MODULE SampleRecorder ----------------------------
(***************************************************************************)
(* SampleRecorder: a list of all samples that only grows, walked by        *)
(* Iterate, and a circular graveyard of dead samples, from which Register  *)
(* resurrects.  A sample is dead when its `dead` pointer is set; init_mu   *)
(* of the sample guards it, init_mu of the graveyard guards the chain.     *)
(***************************************************************************)
EXTENDS Naturals, FiniteSets, FiniteSetsExt

CONSTANTS Threads, Samples, graveyard_, Null,
    Limits   \* the arguments of SetMaxSamples

VARIABLES
    all_, next, dead,               \* the two lists
    init_mu,                        \* who holds the mutex of a sample or of the graveyard
    size_estimate_, max_samples_, dropped_samples_,
    allocated,                      \* the samples that exist
    pc, sample,                     \* of a thread: its place, and the sample it registered
    s                               \* where a thread's Iterate is

vars == <<all_, next, dead, init_mu, size_estimate_, max_samples_, dropped_samples_, allocated,
          pc, sample, s>>
counters == <<size_estimate_, max_samples_, dropped_samples_>>

Init ==
    /\ all_ = Null /\ next = [x \in Samples |-> Null]
    /\ dead = [x \in Samples \cup {graveyard_} |-> IF x = graveyard_ THEN graveyard_ ELSE Null]
    /\ init_mu = [x \in Samples \cup {graveyard_} |-> Null]
    /\ size_estimate_ = 0 /\ max_samples_ \in Limits /\ dropped_samples_ = 0
    /\ allocated = {}
    /\ pc = [t \in Threads |-> "idle"] /\ sample = [t \in Threads |-> Null]
    /\ s = [t \in Threads |-> Null]

To(t, l) == pc' = [pc EXCEPT ![t] = l]

SetMaxSamples(max) ==
    /\ max_samples_' = max
    /\ UNCHANGED <<all_, next, dead, init_mu, size_estimate_, dropped_samples_, allocated,
                   pc, sample, s>>

\* Register: the soft limit.
Register(t) ==
    /\ pc[t] = "idle"
    /\ size_estimate_' = size_estimate_ + 1
    /\ To(t, IF size_estimate_ > max_samples_ THEN "drop" ELSE "pop")
    /\ UNCHANGED <<all_, next, dead, init_mu, max_samples_, dropped_samples_, allocated, sample, s>>

\* The count of dropped samples is modelled up to 1.
Drop(t) ==
    /\ pc[t] = "drop"
    /\ size_estimate_' = size_estimate_ - 1 /\ dropped_samples_' = 1
    /\ To(t, "idle")
    /\ UNCHANGED <<all_, next, dead, init_mu, max_samples_, allocated, sample, s>>

\* PopDead and PushDead lock the graveyard first.
LockGraveyard(t) ==
    /\ pc[t] \in {"pop", "bury"} /\ init_mu[graveyard_] = Null
    /\ init_mu' = [init_mu EXCEPT ![graveyard_] = t]
    /\ To(t, IF pc[t] = "pop" THEN "popping" ELSE "burying")
    /\ UNCHANGED <<all_, next, dead, counters, allocated, sample, s>>

\* An empty graveyard: a new sample, prepared before anybody can see it.
\* (A model with too few samples would stop here; see SamplesBounded.)
New(t) ==
    /\ pc[t] = "popping" /\ dead[graveyard_] = graveyard_
    /\ init_mu' = [init_mu EXCEPT ![graveyard_] = Null]
    /\ \E x \in Samples \ allocated :
          allocated' = allocated \cup {x} /\ sample' = [sample EXCEPT ![t] = x]
    /\ To(t, "push")
    /\ UNCHANGED <<all_, next, dead, counters, s>>

\* PushNew: the load, which the compare-and-exchange repeats when it fails.
LoadAll(t) ==
    /\ pc[t] = "push"
    /\ next' = [next EXCEPT ![sample[t]] = all_] /\ To(t, "exchange")
    /\ UNCHANGED <<all_, dead, init_mu, counters, allocated, sample, s>>

\* Mutant of Exchange: the list is stored over, as if nobody else pushed.
ExchangeBlindly(t) ==
    /\ pc[t] = "exchange"
    /\ all_' = sample[t] /\ To(t, "registered")
    /\ UNCHANGED <<next, dead, init_mu, counters, allocated, sample, s>>

Exchange(t) ==
    /\ pc[t] = "exchange"
    /\ IF all_ = next[sample[t]]
       THEN all_' = sample[t] /\ To(t, "registered") /\ UNCHANGED next
       ELSE next' = [next EXCEPT ![sample[t]] = all_] /\ UNCHANGED <<all_, pc>>
    /\ UNCHANGED <<dead, init_mu, counters, allocated, sample, s>>

\* The first of the dead leaves the graveyard, whose mutex is released first.
PopDead(t) ==
    /\ pc[t] = "popping"
    /\ LET x == dead[graveyard_]
       IN  /\ x # graveyard_ /\ init_mu[x] = Null
           /\ dead' = [dead EXCEPT ![graveyard_] = dead[x], ![x] = Null]
           /\ init_mu' = [init_mu EXCEPT ![graveyard_] = Null, ![x] = t]
           /\ sample' = [sample EXCEPT ![t] = x]
    /\ To(t, "prepare")
    /\ UNCHANGED <<all_, next, counters, allocated, s>>

PrepareForSampling(t) ==
    /\ pc[t] = "prepare"
    /\ init_mu' = [init_mu EXCEPT ![sample[t]] = Null] /\ To(t, "registered")
    /\ UNCHANGED <<all_, next, dead, counters, allocated, sample, s>>

\* Unregister calls PushDead (the dispose callback has no effect here) ...
Unregister(t) ==
    /\ pc[t] = "registered" /\ To(t, "bury")
    /\ UNCHANGED <<all_, next, dead, init_mu, counters, allocated, sample, s>>

PushDead(t) ==
    /\ pc[t] = "burying" /\ init_mu[sample[t]] = Null
    /\ dead' = [dead EXCEPT ![sample[t]] = dead[graveyard_], ![graveyard_] = sample[t]]
    /\ init_mu' = [init_mu EXCEPT ![graveyard_] = Null]
    /\ sample' = [sample EXCEPT ![t] = Null] /\ To(t, "uncount")
    /\ UNCHANGED <<all_, next, counters, allocated, s>>

\* ... and then counts the sample out.
Uncount(t) ==
    /\ pc[t] = "uncount"
    /\ size_estimate_' = size_estimate_ - 1 /\ To(t, "idle")
    /\ UNCHANGED <<all_, next, dead, init_mu, max_samples_, dropped_samples_, allocated, sample, s>>

\* Iterate, by a thread that is not registering.
Iterate(t) ==
    /\ pc[t] = "idle"
    /\ s' = [s EXCEPT ![t] = all_] /\ To(t, "iterate")
    /\ UNCHANGED <<all_, next, dead, init_mu, counters, allocated, sample>>

LockSample(t) ==
    /\ pc[t] = "iterate" /\ s[t] # Null /\ init_mu[s[t]] = Null
    /\ init_mu' = [init_mu EXCEPT ![s[t]] = t]
    /\ To(t, IF dead[s[t]] = Null THEN "visit" ELSE "skip")
    /\ UNCHANGED <<all_, next, dead, counters, allocated, sample, s>>

Advance(t) ==
    /\ pc[t] \in {"visit", "skip"}
    /\ init_mu' = [init_mu EXCEPT ![s[t]] = Null]
    /\ s' = [s EXCEPT ![t] = next[s[t]]] /\ To(t, "iterate")
    /\ UNCHANGED <<all_, next, dead, counters, allocated, sample>>

EndIterate(t) ==
    /\ pc[t] = "iterate" /\ s[t] = Null /\ To(t, "idle")
    /\ UNCHANGED <<all_, next, dead, init_mu, counters, allocated, sample, s>>

Step(t) ==
    \/ Register(t) \/ Drop(t) \/ LockGraveyard(t) \/ New(t) \/ LoadAll(t) \/ Exchange(t)
    \/ PopDead(t) \/ PrepareForSampling(t) \/ Unregister(t) \/ PushDead(t) \/ Uncount(t)
    \/ Iterate(t) \/ LockSample(t) \/ Advance(t) \/ EndIterate(t)

Next == (\E t \in Threads : Step(t)) \/ \E max \in Limits : SetMaxSamples(max)

Spec == Init /\ [][Next]_vars
-----------------------------------------------------------------------------
\* What is reached from x by following `link` at most n times.
Chain(link, x, n) ==
    LET f[k \in 0..n] == IF k = 0 THEN x
                         ELSE IF f[k - 1] \in Samples THEN link[f[k - 1]] ELSE f[k - 1]
    IN  f
N == Cardinality(Samples)
On(link, x) == {Chain(link, x, N)[k] : k \in 0..N} \cap Samples

Holders(x) == {t \in Threads : sample[t] = x}

\* What Iterate passes to its callback is a sample that somebody has registered and not yet
\* buried, and that nobody is preparing: resurrection never shows a half-made sample.
VisitsLiveSamples ==
    \A t \in Threads : pc[t] = "visit" =>
        \E u \in Holders(s[t]) : pc[u] \in {"registered", "bury", "burying"}

\* Every sample is owned by exactly one thread or is in the graveyard, and every sample that
\* has been returned by Register or buried is on the list that Iterate walks.  Both lists end.
NoSampleLost ==
    /\ Chain(dead, dead[graveyard_], N)[N] = graveyard_ /\ Chain(next, all_, N)[N] = Null
    /\ \A x \in allocated :
          IF x \in On(dead, dead[graveyard_]) THEN Holders(x) = {} ELSE Cardinality(Holders(x)) = 1
    /\ \A x \in allocated :
          x \in On(next, all_) \/ \E t \in Holders(x) : pc[t] \in {"push", "exchange"}

\* The soft limit of SetMaxSamples bounds the memory: there are never more samples, dead or
\* alive, than one above the largest limit that was in force.
SamplesBounded == Cardinality(allocated) <= 1 + Max(Limits)
=============================================================================

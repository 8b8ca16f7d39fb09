----------------------------- MODULE MCShared ------------------------------
(***************************************************************************)
(* The objects that threads share by reference, for TLC: sampled cords and *)
(* the profilers that inspect them, the samples of a SampleRecorder, the   *)
(* reps of Status, the lock sets of deadlock detection, the arenas of      *)
(* LowLevelAlloc, the log sinks, the identities of threads and the event   *)
(* records of mutexes.  They share no state, so the one called `which`     *)
(* runs and the others stay in their initial state.                        *)
(***************************************************************************)
EXTENDS Cordz, Status

CONSTANTS Threads, Samples, Graveyard, Limits,
          Lockers, MaxMutexes, MaxReused, MaxReuses, MaxHeld,
          Pages, kPagesSize, Requests, kMaxRandom,
          MaxMessages, MaxDepth,
          Identities, MaxWaits, Addrs, Events, kMaxSynchEventCount, MaxObjects

VARIABLES
    which,
    r_all, r_next, r_dead, r_mu, r_size, r_max, r_dropped, r_allocated, r_pc, r_sample, r_s,
    d_graph, d_owner, d_locks, d_overflow, d_wants, d_id, d_reported,
    a_arena, a_mapped, a_pc, a_req,
    l_sinks, l_readers, l_logging, l_stack, l_wait, l_destroyed, l_fatal, l_observed, l_alive,
    l_messages,
    i_freelist, i_fresh, i_current, i_state, i_queued, i_sem, i_locks, i_pc, i_arg, i_queue,
    i_waits, i_timeout, i_ended,
    y_bit, y_object, y_chain, y_refcount, y_addr, y_of, y_free, y_count, y_pc, y_ref, y_at

R == INSTANCE SampleRecorder WITH graveyard_ <- Graveyard, all_ <- r_all, next <- r_next,
        dead <- r_dead, init_mu <- r_mu, size_estimate_ <- r_size, max_samples_ <- r_max,
        dropped_samples_ <- r_dropped, allocated <- r_allocated, pc <- r_pc,
        sample <- r_sample, s <- r_s

\* More mutexes whose nodes are not used again, and fewer whose nodes are.
D == INSTANCE DeadlockCheck WITH Threads <- Lockers, MaxNodes <- MaxMutexes, MaxVersion <- 1,
        graph <- d_graph, owner <- d_owner, locks <- d_locks, overflow <- d_overflow,
        wants <- d_wants, id <- d_id, reported <- d_reported

E == INSTANCE DeadlockCheck WITH Threads <- Lockers, MaxMutexes <- MaxReused,
        MaxNodes <- MaxReused, MaxVersion <- MaxReuses + 1,
        graph <- d_graph, owner <- d_owner, locks <- d_locks, overflow <- d_overflow,
        wants <- d_wants, id <- d_id, reported <- d_reported

A == INSTANCE LowLevelAlloc WITH Threads <- Owners, arena <- a_arena, mapped <- a_mapped,
        pc <- a_pc, req <- a_req

L == INSTANCE LogSinks WITH Threads <- Owners, sinks_ <- l_sinks, readers <- l_readers,
        thread_is_logging <- l_logging, stack <- l_stack, wait <- l_wait,
        destroyed <- l_destroyed, seen_fatal <- l_fatal, observed <- l_observed,
        alive <- l_alive, messages <- l_messages

I == INSTANCE ThreadIdentity WITH Threads <- Owners, Nil <- Null, freelist <- i_freelist,
        fresh <- i_fresh, current <- i_current, state <- i_state, queued <- i_queued,
        sem <- i_sem, all_locks <- i_locks, pc <- i_pc, arg <- i_arg, queue <- i_queue,
        waits <- i_waits, timeout <- i_timeout, ended <- i_ended

Y == INSTANCE SynchEvents WITH Threads <- Owners, Nil <- Null, event_bit <- y_bit,
        object <- y_object, synch_event <- y_chain, refcount <- y_refcount,
        masked_addr <- y_addr, of <- y_of, free <- y_free, synch_event_count <- y_count,
        pc <- y_pc, ref <- y_ref, at <- y_at

rVars == <<r_all, r_next, r_dead, r_mu, r_size, r_max, r_dropped, r_allocated, r_pc, r_sample,
           r_s>>
dVars == <<d_graph, d_owner, d_locks, d_overflow, d_wants, d_id, d_reported>>
aVars == <<a_arena, a_mapped, a_pc, a_req>>
lVars == <<l_sinks, l_readers, l_logging, l_stack, l_wait, l_destroyed, l_fatal, l_observed,
           l_alive, l_messages>>
iVars == <<i_freelist, i_fresh, i_current, i_state, i_queued, i_sem, i_locks, i_pc, i_arg,
           i_queue, i_waits, i_timeout, i_ended>>
yVars == <<y_bit, y_object, y_chain, y_refcount, y_addr, y_of, y_free, y_count, y_pc, y_ref,
           y_at>>
synchVars == <<iVars, yVars>>
allVars == <<which, vars, rVars, statusvars, dVars, aVars, lVars, synchVars>>

AllInit ==
    /\ which \in {"Cordz", "SampleRecorder", "Status", "DeadlockCheck", "DeadlockCheck, reused",
                  "LowLevelAlloc", "LogSinks", "ThreadIdentity", "SynchEvents"}
    /\ Init /\ StatusInit /\ R!Init /\ A!Init /\ L!Init /\ I!Init /\ Y!Init
    /\ IF which = "DeadlockCheck, reused" THEN E!Init ELSE D!Init
    /\ which # "SampleRecorder" => r_max = 0

AllNext ==
    /\ UNCHANGED which
    /\ \/ which = "Cordz" /\ Next /\ UNCHANGED <<rVars, statusvars, dVars, aVars, lVars, synchVars>>
       \/ which = "SampleRecorder" /\ R!Next
          /\ UNCHANGED <<vars, statusvars, dVars, aVars, lVars, synchVars>>
       \/ which = "Status" /\ StatusNext
          /\ UNCHANGED <<vars, rVars, dVars, aVars, lVars, synchVars>>
       \/ which = "DeadlockCheck" /\ D!Next
          /\ UNCHANGED <<vars, rVars, statusvars, aVars, lVars, synchVars>>
       \/ which = "DeadlockCheck, reused" /\ E!Next
          /\ UNCHANGED <<vars, rVars, statusvars, aVars, lVars, synchVars>>
       \/ which = "LowLevelAlloc" /\ A!Next
          /\ UNCHANGED <<vars, rVars, statusvars, dVars, lVars, synchVars>>
       \/ which = "LogSinks" /\ L!Next
          /\ UNCHANGED <<vars, rVars, statusvars, dVars, aVars, synchVars>>
       \/ which = "ThreadIdentity" /\ I!Next
          /\ UNCHANGED <<vars, rVars, statusvars, dVars, aVars, lVars, yVars>>
       \/ which = "SynchEvents" /\ Y!Next
          /\ UNCHANGED <<vars, rVars, statusvars, dVars, aVars, lVars, iVars>>

AllSpec == AllInit /\ [][AllNext]_allVars
-----------------------------------------------------------------------------
\* A reader that holds no lock never meets what is dead or half made: a profiler walking the
\* list of sampled cords while they are untracked and destroyed, SampleRecorder::Iterate
\* while samples are buried and resurrected, and a message on its way to log sinks that are
\* removed and destroyed, also when a sink logs from within Send.  A thread that wakes another
\* writes only to the waiter it took off a queue, although the identity may be reused before
\* its last post arrives, and no post that was meant for another wait ends one; and an object
\* posts events to its own record, not to that of an object that had its address before.
ReadersSafe ==
    /\ which = "Cordz" => ProfilerSafe
    /\ which = "SampleRecorder" => R!VisitsLiveSamples
    /\ which = "LogSinks" => L!SinksAlive /\ L!DispatchNotReentered
    /\ which = "ThreadIdentity" =>
          I!WakerWritesToWaiter /\ I!NotWokenByOthers /\ I!ReuseLosesNoWakeup
    /\ which = "SynchEvents" => Y!EventIsOwn

\* What is handed out has one owner and is given back once: every CordzInfo has somebody who
\* will delete it, every StatusRep exactly the references it counts, every sample an owner or
\* a place in the graveyard and no more samples than the limit, and the blocks of an arena,
\* free or not, share out its pages, the free ones where a search finds them.  An identity
\* belongs to one thread or is on the freelist once, and an event record of a mutex lives as
\* long as a thread holds it.
NothingLost ==
    /\ which = "Cordz" => NoInfoStranded
    /\ which = "Status" => RepsCounted
    /\ which = "SampleRecorder" => R!NoSampleLost /\ R!SamplesBounded
    /\ which = "LowLevelAlloc" => A!BlocksTile /\ A!FreelistSound
    /\ which = "ThreadIdentity" => I!IdentityHasOneOwner
    /\ which = "SynchEvents" => Y!EventsCounted

\* Threads never wait for each other in a circle unreported, for the edges that InsertEdge was
\* given on the way are those of every lock held, unless a mutex of the circle was forgotten
\* meanwhile (ForgetDeadlockInfo); and the list that LockEnter and LockLeave keep has every
\* mutex a thread holds, and besides them only entries whose ids are stale.
DeadlocksReported ==
    /\ which = "DeadlockCheck" => D!DeadlocksReported /\ D!ListsHeldLocks
    /\ which = "DeadlockCheck, reused" => E!DeadlocksReported /\ E!ListsHeldLocks
=============================================================================

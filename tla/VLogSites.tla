----------------------------- MODULE VLogSites -----------------------------
(***************************************************************************)
(* The VLOG sites of absl/log/internal/vlog_config.{h,cc}.  A site caches  *)
(* the verbosity level of its file; the first thread that executes it puts *)
(* it on a list without taking a lock, and whoever changes --v or          *)
(* --vmodule walks that list afterwards.  The setting is kept under        *)
(* `mutex`, the walks exclude each other under `update_sites_mutex`, which *)
(* is taken before `mutex` is released.                                    *)
(*                                                                         *)
(* What a list of patterns says of a file is VModule's subject; here it is *)
(* a function from files to levels or to NoRule.                           *)
(***************************************************************************)
EXTENDS Naturals, FiniteSets

CONSTANTS
    Callers,         \* threads that execute VLOG sites
    Setters,         \* threads that change --v and --vmodule
    Sites, Files, Levels, Callbacks,
    FileOf,          \* the file of each site
    kUninitialized,  \* the largest int
    Null, NoRule, Nobody,
    MaxUpdates       \* bound on the changes of the setting

VARIABLES
    global_v, vmodule_info,     \* guarded by mutex
    mutex, update_sites_mutex,  \* their holders
    site_list_head, next_, v_,
    callbacks,                  \* update_callbacks, with the setting each was told last
    pc, v, h, new_v,            \* the locals of RegisterAndInitialize, v the site
    infos, n,                   \* and those of UpdateVLogSites
    updates,                    \* changes made so far
    raced                       \* the sites that two threads registered at the same time

setting == <<global_v, vmodule_info>>
locks == <<mutex, update_sites_mutex>>
list == <<site_list_head, next_>>
locals == <<v, h, new_v, infos, n>>
history == <<updates, raced>>
vars == <<setting, locks, list, v_, callbacks, pc, locals, history>>

VLogLevel(file, s) == IF s[2][file] = NoRule THEN s[1] ELSE s[2][file]

Go(t, label) == pc' = [pc EXCEPT ![t] = label]

\* The locals of a caller are gone.
Return(t) ==
    /\ Go(t, "idle")
    /\ v' = [v EXCEPT ![t] = Null] /\ h' = [h EXCEPT ![t] = Null]
    /\ new_v' = [new_v EXCEPT ![t] = 0]

(* IsEnabled: any level but kUninitialized is the answer, nothing changes. *)
SlowIsEnabled(t, s) ==
    /\ pc[t] = "idle" /\ v_[s] = kUninitialized
    /\ v' = [v EXCEPT ![t] = s] /\ Go(t, "load_head")
    /\ raced' = IF \E u \in Callers : v[u] = s THEN raced \cup {s} ELSE raced
    /\ UNCHANGED <<setting, locks, list, v_, callbacks, h, new_v, infos, n, updates>>

LoadHead(t) ==
    /\ pc[t] = "load_head"
    /\ h' = [h EXCEPT ![t] = site_list_head] /\ Go(t, "cas_next")
    /\ UNCHANGED <<setting, locks, list, v_, callbacks, v, new_v, infos, n, history>>

\* The thread that changes next_ from null installs the site.
CasNext(t) ==
    /\ pc[t] = "cas_next"
    /\ IF next_[v[t]] = Null
       THEN next_' = [next_ EXCEPT ![v[t]] = h[t]] /\ Go(t, "cas_head")
       ELSE UNCHANGED next_ /\ Go(t, "level")
    /\ UNCHANGED <<setting, locks, site_list_head, v_, callbacks, locals, history>>

CasHead(t) ==
    /\ pc[t] = "cas_head"
    /\ IF site_list_head = h[t]
       THEN site_list_head' = v[t] /\ UNCHANGED h /\ Go(t, "level")
       ELSE h' = [h EXCEPT ![t] = site_list_head] /\ UNCHANGED site_list_head /\ Go(t, "set_next")
    /\ UNCHANGED <<setting, locks, next_, v_, callbacks, v, new_v, infos, n, history>>

SetNext(t) ==
    /\ pc[t] = "set_next"
    /\ next_' = [next_ EXCEPT ![v[t]] = h[t]] /\ Go(t, "cas_head")
    /\ UNCHANGED <<setting, locks, site_list_head, v_, callbacks, locals, history>>

\* VLogLevel(v->file_), under mutex.
ReadLevel(t) ==
    /\ pc[t] = "level" /\ mutex = Nobody
    /\ new_v' = [new_v EXCEPT ![t] = VLogLevel(FileOf[v[t]], setting)] /\ Go(t, "cas_v")
    /\ UNCHANGED <<setting, locks, list, v_, callbacks, v, h, infos, n, history>>

\* Mutant of CasV: the level is stored although another thread has set one.
StoreV(t) ==
    /\ pc[t] = "cas_v"
    /\ v_' = [v_ EXCEPT ![v[t]] = new_v[t]] /\ Return(t)
    /\ UNCHANGED <<setting, locks, list, callbacks, infos, n, history>>

CasV(t) ==
    /\ pc[t] = "cas_v"
    /\ v_' = [v_ EXCEPT ![v[t]] = IF @ = kUninitialized THEN new_v[t] ELSE @] /\ Return(t)
    /\ UNCHANGED <<setting, locks, list, callbacks, infos, n, history>>

\* UpdateVModule, PrependVModule and UpdateGlobalVLogLevel, up to the lock that UpdateVLogSites
\* takes on the sites; mutex stays locked.  Setting the global level to what it is returns.
Update(t, new_global, new_infos) ==
    /\ pc[t] = "idle" /\ mutex = Nobody /\ updates < MaxUpdates
    /\ new_global = global_v \/ new_infos = vmodule_info
    /\ global_v' = new_global /\ vmodule_info' = new_infos
    /\ infos' = [infos EXCEPT ![t] = <<new_global, new_infos>>]
    /\ mutex' = t /\ updates' = updates + 1 /\ Go(t, "lock_sites")
    /\ UNCHANGED <<update_sites_mutex, list, v_, callbacks, v, h, new_v, n, raced>>

LockSites(t) ==
    /\ pc[t] = "lock_sites" /\ update_sites_mutex = Nobody
    /\ update_sites_mutex' = t /\ mutex' = Nobody /\ Go(t, "walk")
    /\ UNCHANGED <<setting, list, v_, callbacks, locals, history>>

WalkFromHead(t) ==
    /\ pc[t] = "walk"
    /\ n' = [n EXCEPT ![t] = site_list_head]
    /\ Go(t, IF site_list_head = Null THEN "call_back" ELSE "set_v")
    /\ UNCHANGED <<setting, locks, list, v_, callbacks, v, h, new_v, infos, history>>

SetV(t) ==
    /\ pc[t] = "set_v"
    /\ v_' = [v_ EXCEPT ![n[t]] = VLogLevel(FileOf[n[t]], infos[t])] /\ Go(t, "walk_on")
    /\ UNCHANGED <<setting, locks, list, callbacks, locals, history>>

WalkOn(t) ==
    /\ pc[t] = "walk_on"
    /\ n' = [n EXCEPT ![t] = next_[n[t]]]
    /\ Go(t, IF next_[n[t]] = Null THEN "call_back" ELSE "set_v")
    /\ UNCHANGED <<setting, locks, list, v_, callbacks, v, h, new_v, infos, history>>

\* The callbacks are called and update_sites_mutex is released.
CallBack(t) ==
    /\ pc[t] = "call_back"
    /\ callbacks' = [c \in DOMAIN callbacks |-> infos[t]]
    /\ update_sites_mutex' = Nobody /\ Go(t, "idle")
    /\ infos' = [infos EXCEPT ![t] = Null]
    /\ UNCHANGED <<setting, mutex, list, v_, v, h, new_v, n, history>>

\* The client knows the setting when it registers a callback.
OnVLogVerbosityUpdate(c) ==
    /\ update_sites_mutex = Nobody /\ c \notin DOMAIN callbacks
    /\ callbacks' = [d \in DOMAIN callbacks \cup {c} |-> IF d = c THEN setting ELSE callbacks[d]]
    /\ UNCHANGED <<setting, locks, list, v_, pc, locals, history>>

RegisterAndInitialize(t) ==
    LoadHead(t) \/ CasNext(t) \/ CasHead(t) \/ SetNext(t) \/ ReadLevel(t) \/ CasV(t)

UpdateVLogSites(t) == LockSites(t) \/ WalkFromHead(t) \/ SetV(t) \/ WalkOn(t) \/ CallBack(t)

Init ==
    /\ global_v = 0 /\ vmodule_info = [f \in Files |-> NoRule]
    /\ mutex = Nobody /\ update_sites_mutex = Nobody
    /\ site_list_head = Null
    /\ next_ = [s \in Sites |-> Null] /\ v_ = [s \in Sites |-> kUninitialized]
    /\ callbacks = [c \in {} |-> setting]
    /\ pc = [t \in Callers \cup Setters |-> "idle"]
    /\ v = [t \in Callers |-> Null] /\ h = [t \in Callers |-> Null]
    /\ new_v = [t \in Callers |-> 0]
    /\ infos = [t \in Setters |-> Null] /\ n = [t \in Setters |-> Null]
    /\ updates = 0 /\ raced = {}

Next ==
    \/ \E t \in Callers : RegisterAndInitialize(t) \/ \E s \in Sites : SlowIsEnabled(t, s)
    \/ \E t \in Setters :
          \/ UpdateVLogSites(t)
          \/ \E l \in Levels, i \in [Files -> Levels \cup {NoRule}] : Update(t, l, i)
    \/ \E c \in Callbacks : OnVLogVerbosityUpdate(c)

Spec == Init /\ [][Next]_vars
-----------------------------------------------------------------------------
\* The k-th pointer on the way from site_list_head.
Link[k \in 0..Cardinality(Sites)] ==
    IF k = 0 THEN site_list_head ELSE IF Link[k - 1] = Null THEN Null ELSE next_[Link[k - 1]]

Listed(s) == \E k \in 0..Cardinality(Sites) : Link[k] = s

\* "By successfully setting `v->next` this thread commits to being *the* thread that installs
\* `v` in the list" (RegisterAndInitialize): a site is installed once.  The list ends, so every
\* walk of UpdateVLogSites does, and a site that has a level is on it.
InstalledOnce ==
    /\ Link[Cardinality(Sites)] = Null
    /\ \A s \in Sites : v_[s] # kUninitialized => Listed(s)

\* InstalledOnce, as long as no two threads registered a site at the same time: registrations
\* of different sites, and walks, may overlap as they like.
InstalledOnceUnlessRaced == raced = {} => InstalledOnce

Quiet == \A t \in Callers \cup Setters : pc[t] = "idle"
Fresh(s) == v_[s] # kUninitialized => v_[s] = VLogLevel(FileOf[s], setting)

\* "`v` itself will always arrive at the freshest value" (RegisterAndInitialize): when no call
\* is under way every site that was initialized has the level that the setting gives its file,
\* also where "multiple threads may attempt to register this site concurrently".
LevelsFresh == Quiet => \A s \in Sites : Fresh(s)

\* When no call is under way every site that has a level has the one that the setting gives its
\* file, however registrations, walks and changes overlapped, unless two threads registered
\* that site at the same time; and every callback was called after the last change.
LevelsFreshUnlessRaced ==
    Quiet => /\ \A s \in Sites \ raced : Fresh(s)
             /\ \A c \in DOMAIN callbacks : callbacks[c] = setting
-----------------------------------------------------------------------------
(* For TLC: all sites are of one file. *)
OneFile == [s \in Sites |-> CHOOSE f \in Files : TRUE]
=============================================================================

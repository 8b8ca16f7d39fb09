--------------------------- MODULE MCContainers ----------------------------
(***************************************************************************)
(* The data structures, for TLC: the Swiss table at a scaled-down group    *)
(* width and, as W, at the width of the portable build, the B-tree, the    *)
(* graph of deadlock detection and the hash tables in it, the list of      *)
(* --vmodule patterns and the lock-free list of VLOG sites.  They share no *)
(* state, so the one called `which` runs and the others stay in their      *)
(* initial state.                                                          *)
(***************************************************************************)
EXTENDS RawHashSet, TLC

CONSTANTS Hashes, WideRequests,
          kNodeSlots, MaxTreeSize, MaxHintSize, Strides,
          MaxGraph, MaxReuseGraph, MaxReused, MaxVersion,
          kInline, Values, MaxTable, kHashTableSize, Pointers, Indexes,
          Levels, NoLevel, MaxRules,
          Callers, Setters, Sites, Callbacks, kUninitialized, Null, NoRule, Nobody, MaxUpdates

VARIABLES
    which,
    w_t, w_contents,
    b_tree, b_contents, b_last,
    g_graph, g_kept,
    n_table, n_occupied, n_members, n_buckets, n_next_hash, n_masked_ptr,
    p_global, p_infos, p_rules,
    v_global, v_infos, v_mutex, v_sites_mutex, v_head, v_next, v_level, v_callbacks, v_pc,
    v_site, v_h, v_new, v_snapshot, v_n, v_updates, v_raced

W == INSTANCE RawHashSet WITH kWidth <- 8, kMaxGrowthLeftLowerBound <- 127,
        kMaxBlockedElementsForLargeTables <- 5, kReuseCapacity <- 128, soo_capacity <- 0,
        Elements <- Hashes, Requests <- WideRequests, MaxSize <- 7,
        t <- w_t, contents <- w_contents

B == INSTANCE BTree WITH MaxSize <- MaxTreeSize, tree <- b_tree, contents <- b_contents,
        last <- b_last

\* A larger graph whose nodes are not reused, and a smaller one whose nodes are.
G == INSTANCE GraphCycles WITH MaxPtrs <- MaxGraph, MaxNodes <- MaxGraph, MaxReused <- 0,
        graph <- g_graph, kept <- g_kept

H == INSTANCE GraphCycles WITH MaxPtrs <- MaxReuseGraph, MaxNodes <- MaxReuseGraph,
        graph <- g_graph, kept <- g_kept

N == INSTANCE NodeSet WITH table_ <- n_table, occupied_ <- n_occupied, members <- n_members,
        buckets <- n_buckets, next_hash <- n_next_hash, masked_ptr <- n_masked_ptr

\* Patterns with and without wildcards and a '/', and the files they are meant for.
P == INSTANCE VModule WITH
        Patterns <- {<<"a">>, <<"a", "*">>, <<"a", "b", "*">>, <<"*">>, <<"a", "?">>, <<"a", "/", "b">>},
        Files <- {<<"a">>, <<"b">>, <<"a", "b", ".", "h">>, <<"a", "/", "b", ".", "h">>,
                  <<"d", "/", "a", "b", "-", "i", "n", "l">>,
                  <<"a", "/", "a", "a", ".", "p", ".", "h">>},
        global_v <- p_global, vmodule_info <- p_infos, rules <- p_rules

\* All sites are of one file.
V == INSTANCE VLogSites WITH Files <- {"f"}, FileOf <- [s \in Sites |-> "f"],
        global_v <- v_global, vmodule_info <- v_infos, mutex <- v_mutex,
        update_sites_mutex <- v_sites_mutex, site_list_head <- v_head, next_ <- v_next,
        v_ <- v_level, callbacks <- v_callbacks, pc <- v_pc, v <- v_site, h <- v_h,
        new_v <- v_new, infos <- v_snapshot, n <- v_n, updates <- v_updates, raced <- v_raced

wVars == <<w_t, w_contents>>
bVars == <<b_tree, b_contents, b_last>>
gVars == <<g_graph, g_kept>>
nVars == <<n_table, n_occupied, n_members, n_buckets, n_next_hash, n_masked_ptr>>
pVars == <<p_global, p_infos, p_rules>>
vVars == <<v_global, v_infos, v_mutex, v_sites_mutex, v_head, v_next, v_level, v_callbacks,
           v_pc, v_site, v_h, v_new, v_snapshot, v_n, v_updates, v_raced>>
logVars == <<pVars, vVars>>
allVars == <<which, vars, wVars, bVars, gVars, nVars, logVars>>

AllInit ==
    /\ which \in {"table", "wide table", "btree", "graph", "reused graph", "node set", "vmodule",
                  "vlog sites"}
    /\ Init /\ W!Init /\ B!Init /\ N!Init /\ P!Init /\ V!Init
    /\ IF which = "reused graph" THEN H!Init ELSE G!Init

AllNext ==
    /\ UNCHANGED which
    /\ \/ which = "table" /\ Next /\ UNCHANGED <<wVars, bVars, gVars, nVars, logVars>>
       \/ which = "wide table" /\ W!Next /\ UNCHANGED <<vars, bVars, gVars, nVars, logVars>>
       \/ which = "btree" /\ B!Next /\ UNCHANGED <<vars, wVars, gVars, nVars, logVars>>
       \/ which = "graph" /\ G!Next /\ UNCHANGED <<vars, wVars, bVars, nVars, logVars>>
       \/ which = "reused graph" /\ H!Next /\ UNCHANGED <<vars, wVars, bVars, nVars, logVars>>
       \/ which = "node set" /\ N!Next /\ UNCHANGED <<vars, wVars, bVars, gVars, logVars>>
       \/ which = "vmodule" /\ P!Next /\ UNCHANGED <<vars, wVars, bVars, gVars, nVars, vVars>>
       \/ which = "vlog sites" /\ V!Next /\ UNCHANGED <<vars, wVars, bVars, gVars, nVars, pVars>>

AllSpec == AllInit /\ [][AllNext]_allVars

\* Nothing tells the threads that execute VLOG sites apart, nor those that change the levels,
\* nor the sites of a file.
Symmetry == {f @@ g @@ k : f \in Permutations(Callers), g \in Permutations(Setters), k \in Permutations(Sites)}
-----------------------------------------------------------------------------
\* A container holds exactly what was put in and not taken out, and finds it: the Swiss table
\* through growth, rehashing in place and copying, the B-tree through splits, merges and
\* rebalancing (and in order, from either end), NodeSet past its tombstones, PointerMap after
\* any removal from a chain; and the list of patterns, although it drops some, gives every file
\* the level of the first rule that matches it, where the text of a pattern tells its files.
ContentsKept ==
    /\ which = "table" => EveryElementIsFound
    /\ which = "wide table" => W!EveryElementIsFound
    /\ which = "btree" => B!TreeIsExactSet
    /\ which = "node set" => N!SetIsExact /\ N!MapIsExact
    /\ which = "vmodule" => P!RulesDecideIfTextTells

\* What the operations count on without looking: growth_left and the control bytes of a Swiss
\* table, so that every probe ends; the shape, parents, positions and end pointers of a B-tree;
\* that the list of VLOG sites ends, with every site that has a level, as long as no two threads
\* registered a site at the same time; and that FNMatch accepts only what a pattern means, and
\* all of it where a text that it tries once occurs once (which depends on no variable: looked
\* at where there are no rules).
StructureSound ==
    /\ which = "table" => GrowthIsAccounted /\ ControlBytesMirrored
    /\ which = "wide table" => W!GrowthIsAccounted /\ W!ControlBytesMirrored
    /\ which = "btree" => B!TreeWellFormed
    /\ which = "vlog sites" => V!InstalledOnceUnlessRaced
    /\ which = "vmodule" /\ p_rules = <<>> => P!FNMatchIsGlob

\* InsertEdge refuses exactly the edges that would close a cycle, by ranks that it renumbers
\* only between the ends of an edge and that stay a topological order; and FindPath finds a
\* path exactly when there is one.
RefusesExactlyCycles ==
    /\ which = "graph" => G!RanksOrderTheGraph /\ G!RefusesExactlyCycles /\ G!FindsPaths
    /\ which = "reused graph" =>
          H!RanksOrderTheGraph /\ H!RefusesExactlyCycles /\ H!FindsPaths

\* A GraphId never comes to mean another mutex, however often its node is removed and reused.
IdsDoNotAlias == which = "reused graph" => H!IdsDoNotAlias

\* Once no call is under way every site that was executed has the level of the last setting,
\* although it registers without a lock while other sites do and updates walk the list, unless
\* two threads registered this very site at the same time; and the callbacks know that setting.
LevelsFreshUnlessRaced == which = "vlog sites" => V!LevelsFreshUnlessRaced
=============================================================================

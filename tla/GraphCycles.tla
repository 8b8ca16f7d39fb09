----------------------------- MODULE GraphCycles -----------------------------
(***************************************************************************)
(* GraphCycles: an acyclic graph under insertion of edges (Pearce and      *)
(* Kelly).  Every node has a rank, edges go up in rank, and an edge that   *)
(* goes down has only the nodes in between renumbered.  Nodes are named by *)
(* ids that carry a version, so that an id outlives its node safely.       *)
(*                                                                         *)
(* The operations are functions on a graph, for DeadlockCheck applies      *)
(* several of them while it holds deadlock_graph_mu.  NodeSet and          *)
(* PointerMap are the sets and the map they stand for; see NodeSet.        *)
(***************************************************************************)
EXTENDS Naturals, Sequences, FiniteSets, SequencesExt

CONSTANTS
    MaxPtrs,      \* bound on the pointers in the graph at a time
    MaxNodes,     \* bound on the nodes that are made
    MaxReused,    \* bound on the nodes that are used again
    MaxVersion    \* the largest uint32_t

VARIABLES
    graph,        \* the Rep
    kept          \* some id that a client has kept, with its pointer

vars == <<graph, kept>>

Ptrs == 1..MaxPtrs
NoPtr == 0

Slots == 0..(MaxNodes - 1)

NewGraph ==
    [size |-> 0, free_nodes_ |-> <<>>,
     rank |-> [i \in Slots |-> i], version |-> [i \in Slots |-> 1],
     ptr |-> [i \in Slots |-> NoPtr],
     in |-> [i \in Slots |-> {}], out |-> [i \in Slots |-> {}]]

MakeId(g, i) == [index |-> i, version |-> g.version[i]]
FindNode(g, id) == g.version[id.index] = id.version
Ptr(g, id) == IF FindNode(g, id) THEN g.ptr[id.index] ELSE NoPtr
Known(g, p) == \E i \in Slots : g.ptr[i] = p
IndexOf(g, p) == CHOOSE i \in Slots : g.ptr[i] = p

\* Whether the bound on nodes allows GetId(p).
CanGetId(g, p) == Known(g, p) \/ g.free_nodes_ # <<>> \/ g.size < MaxNodes

\* GetId: the node of p, a free node with the rank it had, or a new one with the highest rank.
GetId(g, p) ==
    IF Known(g, p) THEN g
    ELSE IF g.free_nodes_ = <<>>
         THEN [g EXCEPT !.size = @ + 1, !.rank[g.size] = g.size, !.ptr[g.size] = p]
         ELSE LET last == Len(g.free_nodes_)
              IN  [g EXCEPT !.free_nodes_ = SubSeq(@, 1, last - 1), !.ptr[g.free_nodes_[last]] = p]

\* Mutant of RemoveNode: the version is kept, so the id survives its node.
RemoveNodeSameVersion(g, p) ==
    IF ~Known(g, p) THEN g
    ELSE LET x == IndexOf(g, p)
         IN  [g EXCEPT !.in = [i \in Slots |-> IF i = x THEN {} ELSE @[i] \ {x}],
                       !.out = [i \in Slots |-> IF i = x THEN {} ELSE @[i] \ {x}],
                       !.ptr[x] = NoPtr,
                       !.free_nodes_ = Append(@, x)]

\* RemoveNode: a node whose version cannot grow is never used again.
RemoveNode(g, p) ==
    IF ~Known(g, p) THEN g
    ELSE LET x == IndexOf(g, p)
             retire == g.version[x] = MaxVersion
         IN  [g EXCEPT !.in = [i \in Slots |-> IF i = x THEN {} ELSE @[i] \ {x}],
                       !.out = [i \in Slots |-> IF i = x THEN {} ELSE @[i] \ {x}],
                       !.ptr[x] = NoPtr,
                       !.version[x] = IF retire THEN @ ELSE @ + 1,
                       !.free_nodes_ = IF retire THEN @ ELSE Append(@, x)]

RemoveEdge(g, x, y) ==
    IF FindNode(g, x) /\ FindNode(g, y)
    THEN [g EXCEPT !.out[x.index] = @ \ {y.index}, !.in[y.index] = @ \ {x.index}]
    ELSE g

\* The nodes that a depth-first search reaches from n over `edges`, through nodes of keep.
Search(edges, n, keep) ==
    LET reach[k \in 0..MaxNodes] ==
            IF k = 0 THEN {n}
            ELSE reach[k - 1] \cup (UNION {edges[v] : v \in reach[k - 1]} \cap keep)
    IN  reach[MaxNodes]

\* ForwardDFS goes on below the bound, and has found a cycle when it meets the bound itself.
ForwardDFS(g, n, upper_bound) == Search(g.out, n, {w \in Slots : g.rank[w] < upper_bound})
Cycle(g, n, upper_bound) ==
    \E v \in ForwardDFS(g, n, upper_bound) : \E w \in g.out[v] : g.rank[w] = upper_bound
BackwardDFS(g, n, lower_bound) == Search(g.in, n, {w \in Slots : lower_bound < g.rank[w]})

\* The number of members of D with a rank below that of v.
Below(g, v, D) == Cardinality({w \in D : g.rank[w] < g.rank[v]})

\* Mutant of Reorder: the nodes ahead come first.
ReorderSwapped(g, deltaf, deltab) ==
    LET all == deltab \cup deltaf
        Position(v) == IF v \in deltaf THEN Below(g, v, deltaf)
                       ELSE Cardinality(deltaf) + Below(g, v, deltab)
        merged(k) == g.rank[CHOOSE w \in all : Below(g, w, all) = k]
    IN  [g EXCEPT !.rank = [v \in Slots |-> IF v \in all THEN merged(Position(v)) ELSE @[v]]]

\* Reorder: the same ranks, given to the nodes behind and then to the nodes ahead, each in
\* the order they had.
Reorder(g, deltaf, deltab) ==
    LET all == deltab \cup deltaf
        Position(v) == IF v \in deltab THEN Below(g, v, deltab)
                       ELSE Cardinality(deltab) + Below(g, v, deltaf)
        merged(k) == g.rank[CHOOSE w \in all : Below(g, w, all) = k]
    IN  [g EXCEPT !.rank = [v \in Slots |-> IF v \in all THEN merged(Position(v)) ELSE @[v]]]

\* Whether InsertEdge accepts the edge.  Expired ids are accepted, and nothing is done.
Accepts(g, idx, idy) ==
    LET x == idx.index  y == idy.index
    IN  \/ ~FindNode(g, idx) \/ ~FindNode(g, idy)
        \/ x # y /\ (y \in g.out[x] \/ g.rank[x] <= g.rank[y] \/ ~Cycle(g, y, g.rank[x]))

\* InsertEdge, and the graph after it.  A rejected edge leaves the graph as it was.
InsertEdge(g, idx, idy) ==
    LET x == idx.index  y == idy.index
        added == [g EXCEPT !.out[x] = @ \cup {y}, !.in[y] = @ \cup {x}]
    IN  IF ~FindNode(g, idx) \/ ~FindNode(g, idy) \/ y \in g.out[x] \/ ~Accepts(g, idx, idy)
        THEN g
        ELSE IF g.rank[x] <= g.rank[y] THEN added
        ELSE Reorder(added, ForwardDFS(added, y, g.rank[x]), BackwardDFS(added, x, g.rank[y]))

\* FindPath: a stack of nodes and of marks (-1) that end a node's turn; here a mark is MaxNodes.
\* The path that the search has built when it meets y, empty if it does not.
FindPath(g, x, y) ==
    LET Push(stack, new) ==
            stack \o SetToSortSeq(new, <)
        step[k \in Nat] ==
            IF k = 0 THEN [stack |-> <<x>>, path |-> <<>>, seen |-> {}]
            ELSE LET s == step[k - 1]
                     n == s.stack[Len(s.stack)]
                     rest == SubSeq(s.stack, 1, Len(s.stack) - 1)
                     new == g.out[n] \ s.seen
                 IN  IF s.stack = <<>> \/ (s.path # <<>> /\ s.path[Len(s.path)] = y) THEN s
                     ELSE IF n = MaxNodes
                     THEN [s EXCEPT !.stack = rest, !.path = SubSeq(@, 1, Len(@) - 1)]
                     ELSE [stack |-> IF n = y THEN rest ELSE Push(Append(rest, MaxNodes), new),
                           path |-> Append(s.path, n), seen |-> s.seen \cup new]
    IN  step[2 * MaxNodes + 2].path
-----------------------------------------------------------------------------
\* The id of a pointer that is in the graph, with the pointer.
IdOf(g, p) == [id |-> MakeId(g, IndexOf(g, p)), ptr |-> p]

Init == graph = GetId(NewGraph, 1) /\ kept = IdOf(graph, 1)

\* The client may keep the id.  Pointers not in the graph and not kept are alike, so the least
\* of them is taken.
DoGetId(p) ==
    /\ CanGetId(graph, p) /\ \A q \in 1..(p - 1) : Known(graph, q) \/ q = kept.ptr
    /\ graph' = GetId(graph, p)
    /\ kept' \in {kept, IdOf(graph', p)}

DoRemoveNode(p) ==
    /\ Known(graph, p)
    /\ Cardinality({i \in Slots : graph.version[i] > 1} \cup {IndexOf(graph, p)}) <= MaxReused
    /\ graph' = RemoveNode(graph, p) /\ UNCHANGED kept

DoInsertEdge(x, y) ==
    y.index \notin graph.out[x.index] /\ graph' = InsertEdge(graph, x, y) /\ UNCHANGED kept
DoRemoveEdge(x, y) ==
    y.index \in graph.out[x.index] /\ graph' = RemoveEdge(graph, x, y) /\ UNCHANGED kept

\* The ids a client can use: the one it kept, and any that GetId would return again.
Ids == {kept.id} \cup {IdOf(graph, p).id : p \in {q \in Ptrs : Known(graph, q)}}

Next ==
    \/ \E p \in Ptrs : DoGetId(p) \/ DoRemoveNode(p)
    \/ \E x, y \in Ids : DoInsertEdge(x, y) \/ DoRemoveEdge(x, y)

Spec == Init /\ [][Next]_vars
-----------------------------------------------------------------------------
Nodes == 0..(graph.size - 1)
Edges == {e \in Slots \X Slots : e[2] \in graph.out[e[1]]}

\* Whether there is a way from x to y, of one edge or more.
Reaches(x, y) == \E v \in graph.out[x] : y \in Search(graph.out, v, Slots)

\* CheckInvariants: the ranks are a permutation of the nodes, every edge goes up in rank, and
\* is known at both ends.  A long sequence of insertions, each of which renumbers only the
\* nodes between its ends, keeps this.
RanksOrderTheGraph ==
    /\ {graph.rank[i] : i \in Nodes} = Nodes
    /\ \A x, y \in Slots :
          /\ y \in graph.out[x] <=> x \in graph.in[y]
          /\ y \in graph.out[x] => graph.rank[x] < graph.rank[y] /\ {x, y} \subseteq Nodes

\* InsertEdge refuses an edge between live nodes exactly when it would close a cycle, although
\* it searches only up to the rank of its source.
RefusesExactlyCycles ==
    \A x, y \in Nodes : Accepts(graph, MakeId(graph, x), MakeId(graph, y)) <=> x # y /\ ~Reaches(y, x)

\* FindPath finds a path exactly when there is one, and what it finds is one: from x to y along
\* edges, no node twice.
FindsPaths ==
    \A x, y \in Nodes :
        LET path == FindPath(graph, x, y)
        IN  IF x = y \/ Reaches(x, y)
            THEN /\ path[1] = x /\ path[Len(path)] = y
                 /\ \A k \in 1..(Len(path) - 1) : path[k + 1] \in graph.out[path[k]]
                 /\ \A j, k \in 1..Len(path) : path[j] = path[k] => j = k
            ELSE path = <<>>

\* An id never comes to mean another pointer, however often its node is removed and reused;
\* and once its pointer is removed it means none.
IdsDoNotAlias ==
    Ptr(graph, kept.id) =
        IF Known(graph, kept.ptr) /\ IdOf(graph, kept.ptr) = kept THEN kept.ptr ELSE NoPtr
=============================================================================

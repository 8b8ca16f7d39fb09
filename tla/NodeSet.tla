------------------------------- MODULE NodeSet -------------------------------
(***************************************************************************)
(* The two hash tables inside GraphCycles.  NodeSet is an open-addressing  *)
(* set with linear probing and tombstones: an erased cell is reused by an  *)
(* insertion that passes it, and still counts as occupied.  PointerMap is  *)
(* a chained table whose links live in the nodes.                          *)
(***************************************************************************)
EXTENDS Integers, FiniteSets, Sequences

LOCAL INSTANCE SequencesExt

CONSTANTS
    kInline,         \* 8: the first size of the table, a power of two
    Values,          \* the members, natural numbers
    MaxTable,        \* bound on the size of the table
    kHashTableSize,  \* 262139: the buckets of PointerMap
    Pointers,        \* the pointers, natural numbers that are not 0
    Indexes          \* the node indexes

VARIABLES
    table_, occupied_,  \* the NodeSet
    members,            \* ghost: what was inserted and not erased
    buckets, next_hash, masked_ptr   \* PointerMap, and two fields of the nodes

setVars == <<table_, occupied_, members>>
mapVars == <<buckets, next_hash, masked_ptr>>
vars == <<setVars, mapVars>>

kEmpty == -1
kDel == -2
Size(table) == Cardinality(DOMAIN table)
EmptyTable(n) == [i \in 0..(n - 1) |-> kEmpty]
Hash(v) == v * 41

\* FindIndex: the cell of v, else the first deleted cell before an empty one, else that one.
FindIndex(table, v) ==
    LET n == Size(table)
        Cell(k) == (Hash(v) + k) % n
        Stops(k) == table[Cell(k)] \in {v, kEmpty}
        last == CHOOSE k \in 0..(n - 1) : Stops(k) /\ \A j \in 0..(k - 1) : ~Stops(j)
        deleted == {k \in 0..last : table[Cell(k)] = kDel}
    IN  IF table[Cell(last)] = v \/ deleted = {} THEN Cell(last)
        ELSE Cell(CHOOSE k \in deleted : \A j \in deleted : k <= j)

\* insert without the growth at its end.
Put(s, v) ==
    LET i == FindIndex(s.table, v)
    IN  [table |-> [s.table EXCEPT ![i] = v],
         occupied |-> IF s.table[i] = kEmpty THEN s.occupied + 1 ELSE s.occupied]

\* Grow: the members again, in the order of their cells, in a table of twice the size.  The
\* inserts do not grow it again.
Grow(s) ==
    LET n == Size(s.table)
    IN  FoldLeft(LAMBDA new, i : IF s.table[i - 1] >= 0 THEN Put(new, s.table[i - 1]) ELSE new,
                 [table |-> EmptyTable(2 * n), occupied |-> 0], [i \in 1..n |-> i])

Full(s) == s.occupied >= Size(s.table) - Size(s.table) \div 4

insert(v) ==
    LET before == [table |-> table_, occupied |-> occupied_]
        put == Put(before, v)
        after == IF Full(put) THEN Grow(put) ELSE put
    IN  /\ table_[FindIndex(table_, v)] # v
        /\ Full(put) => Size(table_) < MaxTable
        /\ table_' = after.table /\ occupied_' = after.occupied
        /\ members' = members \cup {v} /\ UNCHANGED mapVars

erase(v) ==
    LET i == FindIndex(table_, v)
    IN  /\ table_[i] = v
        /\ table_' = [table_ EXCEPT ![i] = kDel]
        /\ members' = members \ {v} /\ UNCHANGED <<occupied_, mapVars>>

clear ==
    table_' = EmptyTable(kInline) /\ occupied_' = 0 /\ members' = {} /\ UNCHANGED mapVars
-----------------------------------------------------------------------------
PtrHash(p) == p % kHashTableSize

\* The nodes of a bucket, in the order of their links.
Chain(b) ==
    LET chain[k \in 0..Cardinality(Indexes)] ==
            IF k = 0 THEN <<buckets[b]>>
            ELSE LET c == chain[k - 1]
                 IN  IF Last(c) = -1 THEN c ELSE Append(c, next_hash[Last(c)])
    IN  Front(chain[Cardinality(Indexes)])

\* Find: -1 if no node of the bucket has the pointer.
Find(p) ==
    LET c == Chain(PtrHash(p))
        at == {k \in DOMAIN c : masked_ptr[c[k]] = p}
    IN  IF at = {} THEN -1 ELSE c[CHOOSE k \in at : \A j \in at : k <= j]

\* GetId of a new pointer: its node i is a free one.
AddPtr(p, i) ==
    /\ Find(p) = -1 /\ masked_ptr[i] = 0
    /\ next_hash' = [next_hash EXCEPT ![i] = buckets[PtrHash(p)]]
    /\ buckets' = [buckets EXCEPT ![PtrHash(p)] = i]
    /\ masked_ptr' = [masked_ptr EXCEPT ![i] = p] /\ UNCHANGED setVars

\* Remove: the slot that points to the node, a bucket or a link, gets the node's link.
RemovePtr(p) ==
    LET i == Find(p)
        next == next_hash[i]
    IN  /\ i # -1
        /\ buckets' = [b \in DOMAIN buckets |-> IF buckets[b] = i THEN next ELSE buckets[b]]
        /\ next_hash' = [j \in Indexes |-> IF j = i THEN -1
                                           ELSE IF next_hash[j] = i THEN next ELSE next_hash[j]]
        /\ masked_ptr' = [masked_ptr EXCEPT ![i] = 0] /\ UNCHANGED setVars
-----------------------------------------------------------------------------
Init ==
    /\ table_ = EmptyTable(kInline) /\ occupied_ = 0 /\ members = {}
    /\ buckets = [b \in 0..(kHashTableSize - 1) |-> -1]
    /\ next_hash = [i \in Indexes |-> -1] /\ masked_ptr = [i \in Indexes |-> 0]

\* The two tables do not interact: a behaviour uses one of them.
UseSet == buckets = [b \in DOMAIN buckets |-> -1]
UseMap == members = {} /\ occupied_ = 0 /\ Size(table_) = kInline

Next ==
    \/ UseSet /\ (clear \/ \E v \in Values : insert(v) \/ erase(v))
    \/ UseMap /\ \E p \in Pointers : RemovePtr(p) \/ \E i \in Indexes : AddPtr(p, i)

Spec == Init /\ [][Next]_vars
-----------------------------------------------------------------------------
\* What HASH_FOR_EACH meets, and what contains answers, are the values inserted and not erased,
\* each in one cell, however many tombstones the probes pass; and a cell that was never used is
\* left for a probe to stop at.
SetIsExact ==
    /\ \A v \in Values : v \in members <=> table_[FindIndex(table_, v)] = v
    /\ \A v \in Values : Cardinality({i \in DOMAIN table_ : table_[i] = v}) <= 1
    /\ occupied_ = Cardinality({i \in DOMAIN table_ : table_[i] # kEmpty})
    /\ occupied_ < Size(table_) - Size(table_) \div 4

\* A pointer is found exactly when a node has it, after any removals from the middle of a
\* chain, and then as that node; no node is in a chain twice.
MapIsExact ==
    \A p \in Pointers : \A i \in Indexes :
        /\ Find(p) = i <=> masked_ptr[i] = p
        /\ Cardinality({k \in DOMAIN Chain(PtrHash(p)) : Chain(PtrHash(p))[k] = i}) <= 1
=============================================================================

------------------------------- MODULE BTree -------------------------------
(***************************************************************************)
(* absl/container/internal/btree.h: the tree behind btree_set and          *)
(* btree_map.  Nodes hold up to kNodeSlots sorted values; an internal node *)
(* with n values has n + 1 children.  The root's parent pointer is the     *)
(* leftmost leaf, and the tree keeps a pointer to the rightmost one, so    *)
(* begin() and end() need no descent; every operation that moves nodes     *)
(* about must keep those two, and each node's parent and position, right.  *)
(*                                                                         *)
(* Only the order of the keys and the identity of the nodes matter to the  *)
(* code.  The keys of a settled tree are therefore 2, 4, ..., 2n (an odd   *)
(* key is one not yet present), and Renumber, which stands for no code,    *)
(* renames keys and nodes back to that form after an operation.  Positions *)
(* count from 0 as in the code; sequences are read at position + 1.        *)
(***************************************************************************)
EXTENDS Integers, Sequences, FiniteSets, FiniteSetsExt, SequencesExt, TLC

CONSTANTS kNodeSlots,   \* values in a full node
          MaxSize,      \* bound: no insertion into a tree this large
          MaxHintSize,  \* bound: hinted insertions only into trees this small
          Strides       \* erase_if drops every s-th value, s in Strides

VARIABLES tree,      \* the btree and its allocated nodes
          contents,  \* the keys a correct set would hold
          last       \* the last operation and the key its result designates

vars == <<tree, contents, last>>

kMinNodeValues == kNodeSlots \div 2
kInternalNodeMaxCount == 0
EmptyNode == 0
Nullptr == <<-1, 0>>
None == -1
Idle == [op |-> "idle", key |-> None, reply |-> None]

NewNode(max, parent_, position_) ==
  [max_count |-> max, parent |-> parent_, position |-> position_,
   slots |-> <<>>, children |-> <<>>]

EmptyTree ==
  [root |-> EmptyNode, rightmost |-> EmptyNode, size |-> 0,
   node |-> (EmptyNode :> NewNode(kInternalNodeMaxCount + 1, EmptyNode, 0))]

(***************************************************************************)
(* btree_node.                                                             *)
(***************************************************************************)
is_leaf(t, n) == t.node[n].max_count # kInternalNodeMaxCount
max_count(t, n) == IF is_leaf(t, n) THEN t.node[n].max_count ELSE kNodeSlots
finish(t, n) == Len(t.node[n].slots)
parent(t, n) == t.node[n].parent
position(t, n) == t.node[n].position
child(t, n, i) == t.node[n].children[i + 1]
is_root(t, n) == is_leaf(t, parent(t, n))
key(t, it) == t.node[it[1]].slots[it[2] + 1]

allocate(t, rec) ==
  LET id == Cardinality(DOMAIN t.node) IN
  [t EXCEPT !.node = @ @@ (id :> rec)]
LastAllocated(t) == Cardinality(DOMAIN t.node) - 1

\* init_child or set_child for every member of kids, from position i on.
init_children(t, n, i, kids) ==
  LET place(N, j) == [N EXCEPT ![kids[j]].parent = n,
                               ![kids[j]].position = i + j - 1]
  IN  [t EXCEPT !.node =
         FoldLeft(place, [@ EXCEPT ![n].children = SubSeq(@, 1, i) \o kids],
                  [j \in 1..Len(kids) |-> j])]

set_child_noupdate_position(t, n, i, c) ==
  [t EXCEPT !.node[n].children =
     IF i < Len(@) THEN [@ EXCEPT ![i + 1] = c] ELSE Append(@, c)]

\* linear_search; binary_search finds the same position.
lower_bound(t, n, k) ==
  LET s == t.node[n].slots IN
  CHOOSE p \in 0..Len(s) : /\ \A j \in 1..p : s[j] < k
                           /\ p < Len(s) => s[p + 1] >= k

upper_bound(t, n, k) == lower_bound(t, n, k + 1)

emplace_value(t, n, i, v) ==
  LET s  == t.node[n].slots
      c  == t.node[n].children
      t1 == [t EXCEPT !.node[n].slots =
               SubSeq(s, 1, i) \o <<v>> \o SubSeq(s, i + 1, Len(s))]
  IN  IF ~is_leaf(t, n) /\ Len(s) + 1 > i + 1
      THEN init_children(t1, n, i + 2, SubSeq(c, i + 2, Len(c)))
      ELSE t1

RECURSIVE Subtree(_, _)
Subtree(t, n) ==
  {n} \cup (IF is_leaf(t, n) \/ finish(t, n) = 0 THEN {}
            ELSE UNION {Subtree(t, child(t, n, i)) : i \in 0..finish(t, n)})

\* The freed nodes keep their records until the operation ends.
clear_and_delete(t, n) ==
  LET free(d, N) == [N EXCEPT ![d].max_count = None] IN
  [t EXCEPT !.node = FoldSet(free, @, Subtree(t, n))]

remove_values(t, n, i, to_erase) ==
  LET s  == t.node[n].slots
      c  == t.node[n].children
      t1 == [t EXCEPT !.node[n].slots =
               SubSeq(s, 1, i) \o SubSeq(s, i + to_erase + 1, Len(s))]
      t2 == FoldLeft(clear_and_delete, t1, SubSeq(c, i + 2, i + to_erase + 1))
  IN  IF is_leaf(t, n) THEN t1
      ELSE init_children(t2, n, i + 1, SubSeq(c, i + to_erase + 2, Len(c)))

rebalance_right_to_left(t, left, right, to_move) ==
  LET p  == parent(t, left)
      ls == t.node[left].slots
      rs == t.node[right].slots
      rc == t.node[right].children
      t1 == [t EXCEPT
               !.node[left].slots =
                  ls \o <<key(t, <<p, position(t, left)>>)>>
                     \o SubSeq(rs, 1, to_move - 1),
               !.node[p].slots[position(t, left) + 1] = rs[to_move],
               !.node[right].slots = SubSeq(rs, to_move + 1, Len(rs))]
  IN  IF is_leaf(t, left) THEN t1
      ELSE init_children(
             init_children(t1, left, Len(ls) + 1, SubSeq(rc, 1, to_move)),
             right, 0, SubSeq(rc, to_move + 1, Len(rc)))

rebalance_left_to_right(t, left, right, to_move) ==
  LET p  == parent(t, left)
      ls == t.node[left].slots
      rs == t.node[right].slots
      lc == t.node[left].children
      k  == Len(ls) - to_move
      t1 == [t EXCEPT
               !.node[right].slots =
                  SubSeq(ls, k + 2, Len(ls))
                     \o <<key(t, <<p, position(t, left)>>)>> \o rs,
               !.node[p].slots[position(t, left) + 1] = ls[k + 1],
               !.node[left].slots = SubSeq(ls, 1, k)]
  IN  IF is_leaf(t, left) THEN t1
      ELSE init_children(
             [t1 EXCEPT !.node[left].children = SubSeq(lc, 1, k + 1)],
             right, 0, SubSeq(lc, k + 2, Len(lc)) \o t.node[right].children)

split(t, n, insert_position, dest) ==
  LET s  == t.node[n].slots
      c  == t.node[n].children
      d  == CASE insert_position = 0          -> Len(s) - 1
              [] insert_position = kNodeSlots -> 0
              [] OTHER                        -> Len(s) \div 2
      k  == Len(s) - d
      t1 == [t EXCEPT !.node[dest].slots = SubSeq(s, k + 1, Len(s)),
                      !.node[n].slots = SubSeq(s, 1, k - 1)]
      t2 == set_child_noupdate_position(
              emplace_value(t1, parent(t, n), position(t, n), s[k]),
              parent(t, n), position(t, n) + 1, dest)
  IN  IF is_leaf(t, n) THEN t2
      ELSE init_children([t2 EXCEPT !.node[n].children = SubSeq(c, 1, k)],
                         dest, 0, SubSeq(c, k + 1, Len(c)))

merge(t, left, src) ==
  LET ls == t.node[left].slots
      rs == t.node[src].slots
      t1 == [t EXCEPT
               !.node[left].slots =
                  ls \o <<key(t, <<parent(t, left), position(t, left)>>)>> \o rs,
               !.node[src].slots = <<>>]
      t2 == IF is_leaf(t, left) THEN t1
            ELSE init_children(t1, left, Len(ls) + 1, t.node[src].children)
  IN  remove_values(t2, parent(t, left), position(t, left), 1)

(***************************************************************************)
(* btree_iterator: a pair <<node, position>>.                              *)
(***************************************************************************)
leftmost(t) == parent(t, t.root)
begin(t) == <<leftmost(t), 0>>
end(t) == <<t.rightmost, finish(t, t.rightmost)>>

RECURSIVE FirstLeaf(_, _)
FirstLeaf(t, n) == IF is_leaf(t, n) THEN n ELSE FirstLeaf(t, child(t, n, 0))

RECURSIVE LastLeaf(_, _)
LastLeaf(t, n) ==
  IF is_leaf(t, n) THEN n ELSE LastLeaf(t, child(t, n, finish(t, n)))

RECURSIVE ClimbRight(_, _)
ClimbRight(t, it) ==
  IF it[2] = finish(t, it[1]) /\ ~is_root(t, it[1])
  THEN ClimbRight(t, <<parent(t, it[1]), position(t, it[1])>>) ELSE it

RECURSIVE ClimbLeft(_, _)
ClimbLeft(t, it) ==
  IF it[2] < 0 /\ ~is_root(t, it[1])
  THEN ClimbLeft(t, <<parent(t, it[1]), position(t, it[1]) - 1>>) ELSE it

increment(t, it) ==
  LET next == <<it[1], it[2] + 1>>
      up   == ClimbRight(t, next)
  IN  CASE ~is_leaf(t, it[1]) ->
             <<FirstLeaf(t, child(t, it[1], it[2] + 1)), 0>>
        [] is_leaf(t, it[1]) /\ up[2] = finish(t, up[1]) -> next
        [] OTHER -> up

decrement(t, it) ==
  LET prev == <<it[1], it[2] - 1>>
      up   == ClimbLeft(t, prev)
      leaf == LastLeaf(t, child(t, it[1], it[2]))
  IN  CASE ~is_leaf(t, it[1]) -> <<leaf, finish(t, leaf) - 1>>
        [] is_leaf(t, it[1]) /\ up[2] < 0 -> prev
        [] OTHER -> up

\* distance_slow counts leaves rightwards (Right) and climbs (Up) when the
\* children of a node are exhausted.
RECURSIVE DistanceRight(_, _, _, _, _)
RECURSIVE DistanceUp(_, _, _, _)
DistanceRight(t, last_, par, pos, n) ==
  LET leaf == FirstLeaf(t, child(t, par, pos))
      p    == parent(t, leaf)
      i    == position(t, leaf)
      m    == n + finish(t, leaf) + 1
  IN  CASE leaf = last_[1]                -> n + last_[2]
        [] p = last_[1] /\ i = last_[2]   -> n + finish(t, leaf)
        [] OTHER -> IF i + 1 <= finish(t, p)
                    THEN DistanceRight(t, last_, p, i + 1, m)
                    ELSE DistanceUp(t, last_, p, m)
DistanceUp(t, last_, n, m) ==
  LET p == parent(t, n)
      i == position(t, n)
  IN  CASE p = last_[1] /\ i = last_[2] -> m - 1
        [] i + 1 > finish(t, p)         -> DistanceUp(t, last_, p, m)
        [] OTHER                        -> DistanceRight(t, last_, p, i + 1, m)

distance(t, first, last_) ==
  LET n    == first[1]
      leaf == FirstLeaf(t, IF is_leaf(t, n) THEN n ELSE child(t, n, first[2] + 1))
  IN  CASE n = last_[1] /\ is_leaf(t, n) -> last_[2] - first[2]
        [] first = last_ -> 0
        [] OTHER -> DistanceRight(t, last_, parent(t, leaf), position(t, leaf),
                                  IF is_leaf(t, n) THEN -first[2] ELSE 1)

(***************************************************************************)
(* btree: search.  three_way says whether the comparator tells equality,   *)
(* in which case the descent stops at an internal match.                   *)
(***************************************************************************)
RECURSIVE internal_last(_, _)
internal_last(t, it) ==
  LET n == it[1] IN
  CASE it[2] # finish(t, n)   -> it
    [] is_leaf(t, parent(t, n)) -> Nullptr
    [] OTHER -> internal_last(t, <<parent(t, n), position(t, n)>>)

RECURSIVE Descend(_, _, _, _)
Descend(t, n, k, three_way) ==
  LET p  == lower_bound(t, n, k)
      eq == three_way /\ p < finish(t, n) /\ key(t, <<n, p>>) = k
  IN  IF eq \/ is_leaf(t, n) THEN [value |-> <<n, p>>, eq |-> eq]
      ELSE Descend(t, child(t, n, p), k, three_way)

internal_locate(t, k, three_way) == Descend(t, t.root, k, three_way)

internal_find(t, k, three_way) ==
  LET res == internal_locate(t, k, three_way)
      it  == internal_last(t, res.value)
  IN  CASE three_way              -> IF res.eq THEN res.value ELSE Nullptr
        [] it # Nullptr /\ ~three_way -> IF k < key(t, it) THEN Nullptr ELSE it
        [] OTHER                  -> Nullptr

internal_end(t, it) == IF it = Nullptr THEN end(t) ELSE it

internal_lower_bound(t, k, three_way) ==
  internal_end(t, internal_last(t, internal_locate(t, k, three_way).value))

RECURSIVE DescendUpper(_, _, _)
DescendUpper(t, n, k) ==
  LET p == upper_bound(t, n, k) IN
  IF is_leaf(t, n) THEN <<n, p>> ELSE DescendUpper(t, child(t, n, p), k)

internal_upper_bound(t, k) ==
  internal_end(t, internal_last(t, DescendUpper(t, t.root, k)))

(***************************************************************************)
(* btree: insertion.  Operators that move an iterator return the tree and  *)
(* the iterator.                                                           *)
(***************************************************************************)
Result(t, it) == [t |-> t, it |-> it]
AtEnd(t) == Result(t, end(t))
AtLeast1(n) == IF n < 1 THEN 1 ELSE n
LeftMove(t, left, i) ==
  AtLeast1((kNodeSlots - finish(t, left)) \div (IF i < kNodeSlots THEN 2 ELSE 1))
RightMove(t, right, i) ==
  AtLeast1((kNodeSlots - finish(t, right)) \div (IF i > 0 THEN 2 ELSE 1))

\* Whether room can be made by moving values to the left or right sibling.
CanMoveLeft(t, n, i) ==
  /\ n # t.root /\ position(t, n) > 0
  /\ LET left == child(t, parent(t, n), position(t, n) - 1)
         m    == LeftMove(t, left, i)
     IN  /\ finish(t, left) < kNodeSlots
         /\ i - m >= 0 \/ finish(t, left) + m < kNodeSlots

CanMoveRight(t, n, i) ==
  /\ n # t.root /\ position(t, n) < finish(t, parent(t, n))
  /\ LET right == child(t, parent(t, n), position(t, n) + 1)
         m     == RightMove(t, right, i)
     IN  /\ finish(t, right) < kNodeSlots
         /\ i <= finish(t, n) - m \/ finish(t, right) + m < kNodeSlots

MoveLeft(t, n, i) ==
  LET left == child(t, parent(t, n), position(t, n) - 1)
      m    == LeftMove(t, left, i)
      t1   == rebalance_right_to_left(t, left, n, m)
  IN  Result(t1, IF i - m < 0 THEN <<left, i - m + finish(t1, left) + 1>>
                 ELSE <<n, i - m>>)

\* The iterator goes to right when the values past position n now are there.
AfterSplit(t, n, i, right) ==
  Result(t, IF i > finish(t, n) THEN <<right, i - finish(t, n) - 1>> ELSE <<n, i>>)

MoveRight(t, n, i) ==
  LET right == child(t, parent(t, n), position(t, n) + 1) IN
  AfterSplit(rebalance_left_to_right(t, n, right, RightMove(t, right, i)),
             n, i, right)

\* A new root above node, which was the root.
GrowRoot(t) ==
  LET t1 == allocate(t, NewNode(kInternalNodeMaxCount, parent(t, t.root), 0))
      r  == LastAllocated(t1)
  IN  [init_children(t1, r, 0, <<t.root>>) EXCEPT !.root = r]

SplitNode(t, n, i) ==
  LET t1   == allocate(t, NewNode(t.node[n].max_count, parent(t, n),
                                  position(t, n) + 1))
      dest == LastAllocated(t1)
      t2   == split(t1, n, i, dest)
  IN  AfterSplit(IF t.rightmost = n THEN [t2 EXCEPT !.rightmost = dest] ELSE t2,
                 n, i, dest)

RECURSIVE rebalance_or_split(_, _)
rebalance_or_split(t, it) ==
  LET n == it[1]
      i == it[2]
      full == n # t.root /\ finish(t, parent(t, n)) = kNodeSlots
  IN  CASE CanMoveLeft(t, n, i) -> MoveLeft(t, n, i)
        [] ~CanMoveLeft(t, n, i) /\ CanMoveRight(t, n, i) -> MoveRight(t, n, i)
        [] OTHER ->
             SplitNode(
               CASE n = t.root -> GrowRoot(t)
                 [] full  -> rebalance_or_split(
                               t, <<parent(t, n), position(t, n)>>).t
                 [] OTHER -> t,
               n, i)

\* A leaf root with room for more than the old one.
replace_leaf_root_node(t, new_node_size) ==
  LET id == Cardinality(DOMAIN t.node)
      t1 == allocate(t, [NewNode(new_node_size, id, 0) EXCEPT
                           !.slots = t.node[t.root].slots])
  IN  [clear_and_delete(t1, t.root) EXCEPT !.root = id, !.rightmost = id]

\* A position of an internal node is past the last value of the leaf before it.
LeafPosition(t, iter) ==
  LET prev == decrement(t, iter) IN
  IF is_leaf(t, iter[1]) THEN iter ELSE <<prev[1], prev[2] + 1>>

InRoot(t, i) == Result(t, <<t.root, i>>)

MakeRoom(t, it) ==
  LET max == max_count(t, it[1]) IN
  CASE finish(t, it[1]) < max -> Result(t, it)
    [] finish(t, it[1]) = max /\ max < kNodeSlots ->
         InRoot(replace_leaf_root_node(t, Min({2 * max, kNodeSlots})), it[2])
    [] OTHER -> rebalance_or_split(t, it)

EmplaceAt(r, v) ==
  Result([emplace_value(r.t, r.it[1], r.it[2], v) EXCEPT !.size = @ + 1], r.it)

internal_emplace(t, iter, v) ==
  EmplaceAt(MakeRoom(t, LeafPosition(t, iter)), v)

new_leaf_root_node(t, max) ==
  LET id == Cardinality(DOMAIN t.node) IN
  [allocate(t, NewNode(max, id, 0)) EXCEPT !.root = id, !.rightmost = id]

\* insert_unique and insert_hint_unique return [t, it, inserted].
Inserted(r) == [t |-> r.t, it |-> r.it, inserted |-> TRUE]
Present(t, it) == [t |-> t, it |-> it, inserted |-> FALSE]

InsertUnlessAt(t, res, pre, k, three_way) ==
  CASE res.eq -> Present(t, res.value)
    [] ~res.eq /\ ~three_way /\ pre # Nullptr /\ ~(k < key(t, pre)) -> Present(t, pre)
    [] OTHER -> Inserted(internal_emplace(t, res.value, k))

InsertLocated(t, res, k, three_way) ==
  InsertUnlessAt(t, res, internal_last(t, res.value), k, three_way)

InsertInto(t, k, three_way) ==
  InsertLocated(t, internal_locate(t, k, three_way), k, three_way)

insert_unique(t, k, three_way) ==
  InsertInto(IF t.size = 0 THEN new_leaf_root_node(t, 1) ELSE t, k, three_way)

insert_hint_unique(t, hint, k, three_way) ==
  LET next   == increment(t, hint)
      before == hint = end(t) \/ k < key(t, hint)
      after  == ~before /\ key(t, hint) < k
  IN  CASE /\ t.size > 0 /\ before
           /\ hint = begin(t) \/ key(t, decrement(t, hint)) < k ->
             Inserted(internal_emplace(t, hint, k))
        [] /\ t.size > 0 /\ after
           /\ next = end(t) \/ k < key(t, next) ->
             Inserted(internal_emplace(t, next, k))
        [] t.size > 0 /\ ~before /\ ~after -> Present(t, hint)
        [] OTHER -> insert_unique(t, k, three_way)

\* copy_or_move_values_in_order appends the values to a new tree.
Append_(t, v) == internal_emplace(t, end(t), v).t
copy_or_move_values_in_order(values) ==
  IF values = <<>> THEN EmptyTree
  ELSE FoldLeft(Append_, new_leaf_root_node(EmptyTree, 1), values)

(***************************************************************************)
(* btree: erasure.                                                         *)
(***************************************************************************)
merge_nodes(t, left, right) ==
  LET t1 == merge(t, left, right) IN
  IF t.rightmost = right THEN [t1 EXCEPT !.rightmost = left] ELSE t1

HalfDifference(t, from, to) ==
  LET m == (finish(t, from) - finish(t, to)) \div 2 IN
  IF m < finish(t, from) - 1 THEN m ELSE finish(t, from) - 1

\* Returns [t, it, merged].
try_merge_or_rebalance(t, it) ==
  LET n     == it[1]
      p     == parent(t, n)
      left  == child(t, p, position(t, n) - 1)
      right == child(t, p, position(t, n) + 1)
      hasL  == position(t, n) > 0
      hasR  == position(t, n) < finish(t, p)
      fitsL == hasL /\ 1 + finish(t, left) + finish(t, n) <= kNodeSlots
      fitsR == hasR /\ 1 + finish(t, n) + finish(t, right) <= kNodeSlots
      fromR == /\ hasR /\ finish(t, right) > kMinNodeValues
               /\ finish(t, n) = 0 \/ it[2] > 0
      fromL == /\ hasL /\ finish(t, left) > kMinNodeValues
               /\ finish(t, n) = 0 \/ it[2] < finish(t, n)
      mr    == HalfDifference(t, right, n)
      ml    == HalfDifference(t, left, n)
  IN  CASE fitsL ->
             [t |-> merge_nodes(t, left, n), merged |-> TRUE,
              it |-> <<left, it[2] + 1 + finish(t, left)>>]
        [] ~fitsL /\ fitsR ->
             [t |-> merge_nodes(t, n, right), merged |-> TRUE, it |-> it]
        [] ~fitsL /\ ~fitsR /\ fromR ->
             [t |-> rebalance_right_to_left(t, n, right, mr),
              merged |-> FALSE, it |-> it]
        [] ~fitsL /\ ~fitsR /\ ~fromR /\ fromL ->
             [t |-> rebalance_left_to_right(t, left, n, ml),
              merged |-> FALSE, it |-> <<n, it[2] + ml>>]
        [] OTHER -> [t |-> t, merged |-> FALSE, it |-> it]

try_shrink(t) ==
  LET r == t.root
      c == child(t, r, 0)
  IN  CASE finish(t, r) > 0 -> t
        [] finish(t, r) = 0 /\ is_leaf(t, r) ->
             [clear_and_delete(t, r) EXCEPT !.root = EmptyNode,
                                            !.rightmost = EmptyNode]
        [] OTHER -> [clear_and_delete(t, r) EXCEPT !.root = c,
                                            !.node[c].parent = parent(t, r)]

\* The walk up; it returns the tree and, from its first iteration, res.
RECURSIVE MergeUpwards(_, _, _, _)
AfterMerge(m, res) ==
  IF m.merged
  THEN MergeUpwards(m.t, <<parent(m.t, m.it[1]), position(m.t, m.it[1])>>, res, FALSE)
  ELSE Result(m.t, res)
FirstMerge(m) == AfterMerge(m, m.it)
MergeUpwards(t, it, res, first_iteration) ==
  CASE it[1] = t.root -> Result(try_shrink(t), res)
    [] it[1] # t.root /\ finish(t, it[1]) >= kMinNodeValues -> Result(t, res)
    [] OTHER -> IF first_iteration THEN FirstMerge(try_merge_or_rebalance(t, it))
                ELSE AfterMerge(try_merge_or_rebalance(t, it), res)

\* The iterator goes to the next value if it is past the values of its node.
ToNextValue(r) ==
  CASE r.t.size = 0 -> AtEnd(r.t)
    [] r.t.size # 0 /\ r.it[2] = finish(r.t, r.it[1]) ->
         Result(r.t, increment(r.t, <<r.it[1], r.it[2] - 1>>))
    [] OTHER -> r

rebalance_after_delete(t, it) == ToNextValue(MergeUpwards(t, it, it, TRUE))

EraseFromLeaf(t, it) ==
  rebalance_after_delete(
    [t EXCEPT !.node[it[1]].slots = RemoveAt(@, it[2] + 1), !.size = @ - 1], it)

Incremented(r) == Result(r.t, increment(r.t, r.it))

\* A value of an internal node is replaced by its predecessor, prev.
EraseInternal(t, iter, prev) ==
  Incremented(EraseFromLeaf(
    [t EXCEPT !.node[iter[1]].slots[iter[2] + 1] = key(t, prev)], prev))

erase(t, iter) ==
  IF is_leaf(t, iter[1]) THEN EraseFromLeaf(t, iter)
  ELSE EraseInternal(t, iter, decrement(t, iter))

\* Values of one node, and n values of the tree with the subtrees between.
EraseInNode(t, it, values, n) ==
  rebalance_after_delete(
    [remove_values(t, it[1], it[2], values) EXCEPT !.size = @ - n], it)

EraseSome(t, it, n) == EraseInNode(t, it, n, n)

\* r is the tree and the iterator, as they are returned by each erasure.
RECURSIVE EraseDownTo(_, _)
EraseDownTo(r, target_size) ==
  LET left == r.t.size - target_size
      here == finish(r.t, r.it[1]) - r.it[2]
  IN  IF left = 0 THEN r
      ELSE EraseDownTo(IF is_leaf(r.t, r.it[1]) THEN EraseSome(r.t, r.it, Min({left, here}))
                       ELSE erase(r.t, r.it),
                       target_size)

clear(t) ==
  [(IF t.size = 0 THEN t ELSE clear_and_delete(t, t.root))
     EXCEPT !.root = EmptyNode, !.rightmost = EmptyNode, !.size = 0]

erase_range(t, first, last_) ==
  LET n == distance(t, first, last_) IN
  CASE n = 0 -> Result(t, first)
    [] n # 0 /\ n = t.size -> AtEnd(clear(t))
    [] n # 0 /\ n # t.size /\ first[1] = last_[1] ->
         EraseInNode(t, first, last_[2] - first[2], n)
    [] OTHER -> EraseDownTo(Result(t, first), t.size - n)

\* btree_access::erase_if: all the matches of a leaf go before one rebalancing.
EraseLeafMatches(t, it, matches) ==
  LET sl   == t.node[it[1]].slots
      kept == SubSeq(sl, 1, it[2])
                \o SelectSeq(SubSeq(sl, it[2] + 1, Len(sl)),
                             LAMBDA k : k \notin matches)
  IN  rebalance_after_delete(
        [t EXCEPT !.node[it[1]].slots = kept, !.size = @ - (Len(sl) - Len(kept))],
        <<it[1], Len(kept)>>)

RECURSIVE EraseIf(_, _)
EraseIf(r, matches) ==
  IF r.it = end(r.t) THEN r
  ELSE EraseIf(CASE key(r.t, r.it) \notin matches -> Incremented(r)
                 [] key(r.t, r.it) \in matches /\ is_leaf(r.t, r.it[1]) ->
                      EraseLeafMatches(r.t, r.it, matches)
                 [] OTHER -> erase(r.t, r.it),
               matches)

(***************************************************************************)
(* Operations.                                                             *)
(***************************************************************************)
Settled == last = Idle
KeyAt(t, it) == IF it = end(t) THEN None ELSE key(t, it)
At(k) == internal_end(tree, internal_find(tree, k, TRUE))
ToTree(t) == [t EXCEPT !.node = [n \in {m \in DOMAIN t.node :
                                   t.node[m].max_count # None} |-> t.node[n]]]
Reply(op, k, r) ==
  /\ tree' = ToTree(r.t)
  /\ last' = [op |-> op, key |-> k, reply |-> KeyAt(r.t, r.it)]

Keys == 1..(2 * tree.size + 1)

Insert(k, three_way) ==
  /\ Settled /\ tree.size < MaxSize
  /\ Reply("insert", k, insert_unique(tree, k, three_way))
  /\ contents' = contents \cup {k}

InsertHint(k, h, three_way) ==
  /\ Settled /\ tree.size < MaxHintSize
  /\ Reply("insert", k, insert_hint_unique(tree, h, k, three_way))
  /\ contents' = contents \cup {k}

Erase(k) ==
  /\ Settled
  /\ Reply("erase", k, erase(tree, At(k)))
  /\ contents' = contents \ {k}

\* Erases the keys from k up to but not including l; l may be past the end.
EraseRange(k, l) ==
  /\ Settled /\ k < l
  /\ Reply("erase", k, erase_range(tree, internal_lower_bound(tree, k, TRUE),
                                   internal_lower_bound(tree, l, TRUE)))
  /\ contents' = contents \ (k..(l - 1))

EraseIfStride(d) ==
  LET matches == {k \in contents : k % (2 * d) = 0} IN
  /\ Settled /\ contents # {}
  /\ Reply("erase_if", None, EraseIf(Result(tree, begin(tree)), matches))
  /\ contents' = contents \ matches

\* Copy assignment from a tree with the same values.
Copy ==
  /\ Settled
  /\ Reply("copy", None,
           AtEnd(copy_or_move_values_in_order([i \in 1..tree.size |-> 2 * i])))
  /\ UNCHANGED contents

Clear ==
  /\ Settled /\ contents # {}
  /\ Reply("clear", None, AtEnd(clear(tree)))
  /\ contents' = {}

RECURSIVE Preorder(_, _)
Preorder(t, n) ==
  <<n>> \o (IF is_leaf(t, n) THEN <<>>
            ELSE FlattenSeq([i \in 1..(finish(t, n) + 1) |->
                               Preorder(t, child(t, n, i - 1))]))

\* Names nodes in preorder and keys by rank: no code, a change of names.
Renumber ==
  LET order   == IF tree.root = EmptyNode THEN <<>> ELSE Preorder(tree, tree.root)
      name(n) == IF n = EmptyNode THEN n ELSE CHOOSE i \in DOMAIN order : order[i] = n
      rank(k) == 2 * Cardinality({x \in contents : x <= k})
      renamed(r) == [r EXCEPT
                       !.parent = name(@),
                       !.slots = [i \in DOMAIN @ |-> rank(@[i])],
                       !.children = [i \in DOMAIN @ |-> name(@[i])]]
  IN  /\ ~Settled
      /\ tree' = [tree EXCEPT
                    !.root = name(@), !.rightmost = name(@),
                    !.node = [m \in 0..Len(order) |->
                                IF m = EmptyNode THEN @[m]
                                ELSE renamed(@[order[m]])]]
      /\ contents' = {rank(k) : k \in contents}
      /\ last' = Idle

Init ==
  /\ tree = EmptyTree
  /\ contents = {}
  /\ last = Idle

Next ==
  \/ \E k \in Keys, three_way \in BOOLEAN : Insert(k, three_way)
  \/ \E k \in Keys, h \in contents \cup {2 * tree.size + 1}, three_way \in BOOLEAN :
       InsertHint(k, At(h), three_way)
  \/ \E k \in contents : Erase(k) \/ \E l \in Keys : EraseRange(k, l)
  \/ \E d \in Strides : EraseIfStride(d)
  \/ Copy
  \/ Clear
  \/ Renumber

Spec == Init /\ [][Next]_vars

(***************************************************************************)
(* Properties.                                                             *)
(***************************************************************************)
RECURSIVE Depth(_)
Depth(n) == IF is_root(tree, n) THEN 0 ELSE 1 + Depth(parent(tree, n))

RECURSIVE WalkForward(_)
WalkForward(it) ==
  IF it = end(tree) THEN <<>>
  ELSE <<key(tree, it)>> \o WalkForward(increment(tree, it))

RECURSIVE WalkBackward(_)
WalkBackward(it) ==
  IF it = begin(tree) THEN <<>>
  ELSE LET prev == decrement(tree, it) IN
       Append(WalkBackward(prev), key(tree, prev))

\* What verify() asserts and what it cannot see: no node is lost or left
\* dangling by a split, merge, root change or range erase (the allocated nodes
\* are exactly those reached from the root), none is empty or overfull, parent
\* and position pointers agree with the children, all leaves have one depth,
\* only a leaf root may be small, and the leftmost and rightmost pointers are
\* the ends of the tree.
TreeWellFormed ==
  LET live == DOMAIN tree.node \ {EmptyNode} IN
  IF tree.root = EmptyNode
  THEN live = {} /\ tree.rightmost = EmptyNode /\ tree.size = 0
  ELSE /\ live = Subtree(tree, tree.root)
       /\ \A n \in live :
            /\ finish(tree, n) \in 1..max_count(tree, n)
            /\ ~is_leaf(tree, n) =>
                 /\ Len(tree.node[n].children) = finish(tree, n) + 1
                 /\ \A i \in 0..finish(tree, n) :
                      /\ parent(tree, child(tree, n, i)) = n
                      /\ position(tree, child(tree, n, i)) = i
            /\ n # tree.root => max_count(tree, n) = kNodeSlots
       /\ \A m, n \in {x \in live : is_leaf(tree, x)} : Depth(m) = Depth(n)
       /\ leftmost(tree) = FirstLeaf(tree, tree.root)
       /\ tree.rightmost = LastLeaf(tree, tree.root)

\* Every operation leaves exactly the keys a set would hold: iterating forwards
\* and backwards visits them in order, size_ counts them, find tells a present
\* key from an absent one by either kind of comparator, lower_bound and
\* upper_bound bracket it, and the iterator an insertion returns is on its key
\* and the one an erasure returns on the next surviving key, however far
\* rebalancing moved that key.
TreeIsExactSet ==
  LET w == WalkForward(begin(tree))
      above(k) == {x \in contents : x > k}
      first(S) == IF S = {} THEN None ELSE Min(S)
  IN  /\ \A i \in 1..(Len(w) - 1) : w[i] < w[i + 1]
      /\ {w[i] : i \in DOMAIN w} = contents
      /\ Len(w) = tree.size
      /\ tree.size > 0 => WalkBackward(end(tree)) = w
      /\ \A k \in Keys, three_way \in BOOLEAN :
           /\ internal_find(tree, k, three_way) # Nullptr <=> k \in contents
           /\ KeyAt(tree, internal_lower_bound(tree, k, three_way))
                = first(above(k - 1))
           /\ KeyAt(tree, internal_upper_bound(tree, k)) = first(above(k))
      /\ last.op = "insert" => last.reply = last.key
      /\ last.op = "erase" => last.reply = first(above(last.key))

=============================================================================

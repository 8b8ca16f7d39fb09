----------------------------- MODULE RawHashSet -----------------------------
(* absl::container_internal::raw_hash_set, the open-addressing table behind  *)
(* flat_hash_set and its relatives: the control bytes with their cloned      *)
(* tail, the slots, the growth counter split into a low byte and an          *)
(* overflow, the tombstones, and every operation that moves elements.        *)
(* An element is the hash its key has under seed 0; its hash under another   *)
(* seed is another number.  Two elements of one hash are different keys, so  *)
(* a slot is identified by its index and the key comparison never matters    *)
(* except for finding the element itself.  Tables are not sampled, the       *)
(* buffers of the probed-item encoder are a sequence, and allocation always  *)
(* succeeds.                                                                 *)
EXTENDS Integers, FiniteSets, FiniteSetsExt, SequencesExt

CONSTANTS
  kWidth,                   \* Group::kWidth: 8 or 16 in the builds
  kMaxGrowthLeftLowerBound, \* 127: what the low byte of the counter can hold
  kMaxBlockedElementsForLargeTables,
  kReuseCapacity,           \* 128: clear() keeps smaller arrays
  soo_capacity,             \* 1 when one element is stored inline, else 0
  Elements, Seeds, HashRange,
  Requests,                 \* the arguments of reserve and rehash
  MaxSize, MaxCapacity      \* bounds of the model

ASSUME WidthAssumption == kWidth \in {4, 8, 16} /\ soo_capacity \in {0, 1}

VARIABLES
  t,        \* the table
  contents  \* ghost: how many elements of each hash were put in

vars == <<t, contents>>

kEmpty == -128

kDeleted == -2

kSentinel == -1

\* What a control byte holds before anything writes it.
kGarbage == -1000

IsFull(c) == c >= 0

EmptyOrDeleted == {kEmpty, kDeleted}
NonFull == {kEmpty, kDeleted, kSentinel, kGarbage}

hash_of(e, seed) == (e + 5 * seed) % HashRange

H1(hash) == hash

H2(hash) == hash \div (HashRange \div 2)

-----------------------------------------------------------------------------
(* Capacities. *)

IsSmallCapacity(cap) == cap <= 1

is_single_group(cap) == cap <= kWidth

NormalizeCapacity(n) ==
  Min({c \in {2^m - 1 : m \in 1..7} : c >= n})

NextCapacity(n) == 2 * n + 1

kMaxCapacityForLoadFactorOne == 4 * kWidth - 1

CapacityToGrowth(cap) ==
  IF cap <= kMaxCapacityForLoadFactorOne
  THEN IF cap >= kWidth - 1 THEN cap - 1 ELSE cap
  ELSE cap - cap \div 8

SizeToCapacity(size) ==
  LET least == NormalizeCapacity(IF size >= kWidth \div 2 THEN size + 1 ELSE size)
  IN  CASE size = 0 -> 0
        [] size > 0 /\ size < kMaxCapacityForLoadFactorOne -> least
        [] OTHER -> IF size > 7 * ((least + 1) \div 8) THEN NextCapacity(least)
                                                       ELSE least

BlockedElementCountForReservedTable(cap, reserved) ==
  LET blocked == CapacityToGrowth(cap) - reserved
  IN  CASE IsSmallCapacity(cap) -> 0
        [] ~IsSmallCapacity(cap) /\ is_single_group(cap) -> blocked
        [] OTHER -> Min({blocked, kMaxBlockedElementsForLargeTables})

-----------------------------------------------------------------------------
(* The growth counter: lower is the low byte, overflow the bytes above it,   *)
(* deleted its top bit.                                                      *)

InitGrowthLeftNoDeleted(left, cap) ==
  LET lower == IF cap <= kMaxGrowthLeftLowerBound
               THEN left ELSE Min({left, kMaxGrowthLeftLowerBound})
  IN  [lower |-> lower, overflow |-> left - lower, deleted |-> 0]

ResetGrowthLeft(cap, occupied) ==
  InitGrowthLeftNoDeleted(CapacityToGrowth(cap) - occupied, cap)

GetGrowthLeftTotalSlow(g) == g.lower + g.overflow

\* Mutant: only the low byte is refilled, the overflow keeps what it lent.
RebalanceTwice(g, cap) ==
  [g EXCEPT !.lower = IF cap <= kMaxGrowthLeftLowerBound THEN @
                      ELSE @ + Min({g.overflow, kMaxGrowthLeftLowerBound - @})]

RebalanceGrowthLeftLowerBound(g, cap) ==
  LET moved == Min({g.overflow, kMaxGrowthLeftLowerBound - g.lower})
  IN  IF cap <= kMaxGrowthLeftLowerBound \/ (g.deleted = 1 /\ g.lower > 0)
      THEN g
      ELSE [g EXCEPT !.lower = @ + moved, !.overflow = @ - moved]

OverwriteEmptyAsFull(g) == [g EXCEPT !.lower = @ - 1]

OverwriteControlAsFull(g, c) ==
  IF c = kEmpty THEN OverwriteEmptyAsFull(g) ELSE g

OverwriteFullAsEmpty(g) ==
  IF g.lower < kMaxGrowthLeftLowerBound
  THEN [g EXCEPT !.lower = @ + 1] ELSE [g EXCEPT !.overflow = @ + 1]

OverwriteFullAsDeleted(g) == [g EXCEPT !.deleted = 1]

-----------------------------------------------------------------------------
(* Control bytes: 0..cap-1 for the slots, the sentinel at cap, then the      *)
(* kWidth - 1 clones.                                                        *)

NumClonedBytes == kWidth - 1

SetCtrl(ctrl, cap, i, h) ==
  LET mirrored == ((i - NumClonedBytes) % (cap + 1)) + (NumClonedBytes % (cap + 1))
  IN  [ctrl EXCEPT ![i] = h, ![mirrored] = h]

BlockControlBytes(ctrl, cap, blocked) ==
  FoldLeft(LAMBDA c, b : SetCtrl(c, cap, cap - b, kSentinel),
           ctrl, [b \in 1..blocked |-> b])

ResetCtrl(cap, blocked) ==
  BlockControlBytes([i \in 0..(cap + NumClonedBytes) |->
                       IF i = cap THEN kSentinel ELSE kEmpty], cap, blocked)

\* probe_seq: the start of the n-th group, growing by triangular numbers.
Probe(cap, h1, n) == (h1 + kWidth * ((n * (n + 1)) \div 2)) % (cap + 1)

\* The probes of one sequence: seq.index() = kWidth * n never passes cap.
ProbeNumbers(cap) == 0..(cap \div kWidth)

\* The offsets within the group at pos of the given bytes.
Mask(ctrl, pos, bytes) == {j \in 0..(kWidth - 1) : ctrl[pos + j] \in bytes}

\* Where the first group with such a byte starts; -1 in a full table.
FirstGroup(ctrl, cap, h1, bytes) ==
  LET hits == {n \in ProbeNumbers(cap) : Mask(ctrl, Probe(cap, h1, n), bytes) # {}}
  IN  IF hits = {} THEN -1 ELSE Probe(cap, h1, Min(hits))

\* The first slot with such a byte in the group at pos.
FirstInGroup(ctrl, cap, pos, bytes) == (pos + Min(Mask(ctrl, pos, bytes))) % (cap + 1)

find_first_non_full_from_h1(ctrl, cap, h1) ==
  IF ctrl[h1 % (cap + 1)] \in EmptyOrDeleted
  THEN h1 % (cap + 1)
  ELSE FirstInGroup(ctrl, cap, FirstGroup(ctrl, cap, h1, EmptyOrDeleted), EmptyOrDeleted)

find_first_non_full(ctrl, cap, hash) ==
  find_first_non_full_from_h1(ctrl, cap, H1(hash))

\* find_large for the element in slot i: the probes of its hash that read a
\* group before, or in, the first one with an empty byte reach its slot.
FoundAt(tb, i) ==
  LET hash == hash_of(tb.slots[i], tb.seed)
      ends == {n \in ProbeNumbers(tb.cap) :
                 Mask(tb.ctrl, Probe(tb.cap, H1(hash), n), {kEmpty}) # {}}
      last == IF ends = {} THEN Max(ProbeNumbers(tb.cap)) ELSE Min(ends)
  IN  \E n \in 0..last :
        \E j \in Mask(tb.ctrl, Probe(tb.cap, H1(hash), n), {H2(hash)}) :
          i = (Probe(tb.cap, H1(hash), n) + j) % (tb.cap + 1)

-----------------------------------------------------------------------------
(* Tables. *)

kNoElement == -1

kNoGrowth == [lower |-> 0, overflow |-> 0, deleted |-> 0]

\* An empty backing array; a small one has no control bytes.
Allocated(cap, blocked, seed) ==
  [cap |-> cap, size |-> 0, seed |-> seed, blocked |-> blocked, ok |-> 1,
   ctrl |-> IF IsSmallCapacity(cap) THEN <<>> ELSE ResetCtrl(cap, blocked),
   slots |-> [i \in 0..(cap - 1) |-> kNoElement],
   growth |-> IF IsSmallCapacity(cap) THEN kNoGrowth
                                      ELSE ResetGrowthLeft(cap, blocked)]

\* CommonFields{soo_tag_t{}} or CommonFields{non_soo_tag_t{}}.
NonAllocated == Allocated(soo_capacity, 0, 0)

FullSlots(tb) ==
  IF IsSmallCapacity(tb.cap) THEN 0..(tb.size - 1)
  ELSE {i \in 0..(tb.cap - 1) : IsFull(tb.ctrl[i])}

\* The elements in the order the loops over the full slots meet them.
IterateOverFullSlots(tb) ==
  LET full == SelectSeq([n \in 1..tb.cap |-> n - 1], LAMBDA i : i \in FullSlots(tb))
  IN  [n \in DOMAIN full |-> tb.slots[full[n]]]

\* e is written to slot i and its h2 to the control bytes.
FillSlot(tb, i, e) ==
  [tb EXCEPT !.ctrl = SetCtrl(@, tb.cap, i, H2(hash_of(e, tb.seed))),
             !.slots[i] = e]

\* insert_slot of FindNewPositionsAndTransferSlots, and Copy's loop.
insert_slot(tb, e) ==
  IF IsSmallCapacity(tb.cap) THEN [tb EXCEPT !.slots[0] = e]
  ELSE FillSlot(tb, find_first_non_full(tb.ctrl, tb.cap, hash_of(e, tb.seed)), e)

\* The elements of tb reinserted into an empty table.
FindNewPositionsAndTransferSlots(tb, empty) ==
  LET filled == FoldLeft(insert_slot, empty, IterateOverFullSlots(tb))
  IN  [filled EXCEPT !.size = tb.size, !.ok = tb.ok,
         !.growth = IF IsSmallCapacity(empty.cap) THEN kNoGrowth ELSE ResetGrowthLeft(empty.cap, tb.size + empty.blocked)]

ResizeAllocatedTableWithSeedChange(tb, cap) ==
  {FindNewPositionsAndTransferSlots(tb, Allocated(cap, 0, s)) : s \in Seeds}

ResizeEmptyNonAllocatedTable(cap, blocked) ==
  {Allocated(cap, blocked, s) : s \in Seeds}

\* The inline element goes to the first slot of its probe, or to slot 0 when
\* that is the sentinel.
ResizeFullSooTable(tb, cap) ==
  {LET h1 == H1(hash_of(tb.slots[0], s)) % (cap + 1)
       at == IF h1 = cap THEN 0 ELSE h1
   IN  [FillSlot(Allocated(cap, 0, s), at, tb.slots[0])
          EXCEPT !.size = 1, !.growth = ResetGrowthLeft(cap, 1)] : s \in Seeds}

-----------------------------------------------------------------------------
(* Insertion. *)

\* Capacity 1 to 3: the old element in the middle, the new one at an end.
\* The code writes kNewCapacity - 2 for the growth left, which is this at
\* both group widths.
Grow1To3AndPrepareInsert(tb, e) ==
  {[FillSlot(FillSlot(Allocated(3, 0, s), 1, tb.slots[0]), at, e)
      EXCEPT !.size = 2,
             !.growth = InitGrowthLeftNoDeleted(CapacityToGrowth(3) - 2, 3)] :
     s \in Seeds, at \in {0, 2}}

PrepareInsertSmall(tb, e) ==
  CASE tb.cap = 0 -> {[Allocated(1, 0, tb.seed) EXCEPT !.size = 1, !.slots[0] = e]}
    [] tb.cap = 1 /\ tb.size = 0 -> {[tb EXCEPT !.size = 1, !.slots[0] = e]}
    [] tb.cap = 1 /\ tb.size = 1 -> Grow1To3AndPrepareInsert(tb, e)

\* GrowIntoSingleGroupShuffleControlBytes and the transfer of all slots by
\* one; blocked bytes become empty.  The old table is full.
GrowIntoSingleGroup(tb, e) ==
  LET cap == NextCapacity(tb.cap)
      moved == FoldLeft(LAMBDA n, i : FillSlot(n, i, tb.slots[i - 1]),
                        Allocated(cap, 0, tb.seed), [i \in 1..tb.size |-> i])
  IN  {[FillSlot(moved, at, e) EXCEPT
          !.ok = IF tb.size + tb.blocked = tb.cap /\ moved.ctrl[at] = kEmpty
                 THEN tb.ok ELSE 0] : at \in {0, cap - 1}}

\* TryFindNewIndexWithoutProbing: -1 when full probing is required.
TryFindNewIndexWithoutProbing(h1, old, oldCap, newCtrl, newCap) ==
  LET inGroup == (old - h1) % kWidth
      free    == Mask(newCtrl, h1 % (newCap + 1), NonFull)
  IN  CASE (old - h1 - inGroup) % (oldCap + 1) = 0 -> (h1 + inGroup) % (newCap + 1)
        [] OTHER -> IF h1 % (oldCap + 1) >= old \/ free = {}
                    THEN -1 ELSE (h1 % (newCap + 1)) + Min(free)

\* One old slot of transfer_unprobed_elements_to_next_capacity_fn: its group's
\* two images are cleared with its first slot, then a full slot is moved or
\* kept for the probing pass.  s.ok records the function's two assertions.
TransferSlot(tb, s, i) ==
  LET oldCap  == tb.cap
      cleared == IF i % kWidth # 0 THEN s.ctrl
                 ELSE [j \in DOMAIN s.ctrl |->
                        IF j % (oldCap + 1) \in i..(i + kWidth - 1) /\ j <= 2 * oldCap + 1
                        THEN kEmpty ELSE s.ctrl[j]]
      hash    == hash_of(tb.slots[i], tb.seed)
      new     == TryFindNewIndexWithoutProbing(H1(hash), i, oldCap, cleared, s.cap)
  IN  CASE ~IsFull(tb.ctrl[i]) -> [s EXCEPT !.ctrl = cleared]
        [] IsFull(tb.ctrl[i]) /\ new = -1 ->
             [s EXCEPT !.ctrl = cleared, !.probed = Append(@, tb.slots[i])]
        [] OTHER ->
             [s EXCEPT !.ctrl = [cleared EXCEPT ![new] = H2(hash)],
                       !.slots[new] = tb.slots[i],
                       !.ok = IF cleared[new] = kEmpty /\ new % (oldCap + 1) <= i
                              THEN @ ELSE 0]

InitializeMirroredControlBytes(ctrl, cap) ==
  [i \in DOMAIN ctrl |-> CASE i < cap -> ctrl[i]
                           [] i = cap -> kSentinel
                           [] i > cap -> ctrl[i - cap - 1]]

\* GrowToNextCapacityDispatch: elements that keep their place or find room in
\* their first group move first, the others are probed for afterwards.
ProbeForTheRest(tb, moved) ==
  FoldLeft(insert_slot,
           [f \in DOMAIN tb |->
              IF f = "ctrl" THEN InitializeMirroredControlBytes(moved.ctrl, moved.cap)
                            ELSE moved[f]],
           moved.probed)

GrowToNextCapacity(tb) ==
  LET cap   == NextCapacity(tb.cap)
      fresh == [cap |-> cap, size |-> tb.size, seed |-> tb.seed, blocked |-> 0,
                ok |-> tb.ok, probed |-> <<>>, growth |-> kNoGrowth,
                ctrl |-> [i \in 0..(cap + NumClonedBytes) |-> kGarbage],
                slots |-> [i \in 0..(cap - 1) |-> kNoElement]]
  IN  ProbeForTheRest(tb, FoldLeft(LAMBDA s, i : TransferSlot(tb, s, i - 1),
                                   fresh, [i \in 1..tb.cap |-> i]))

GrowToNextCapacityAndPrepareInsert(tb, e) ==
  LET cap   == NextCapacity(tb.cap)
      grown == IF is_single_group(cap) THEN GrowIntoSingleGroup(tb, e)
               ELSE {insert_slot(GrowToNextCapacity(tb), e)}
  IN  {[g EXCEPT !.size = tb.size + 1, !.growth = ResetGrowthLeft(cap, tb.size + 1),
                 !.ok = IF GetGrowthLeftTotalSlow(tb.growth) = 0 THEN @ ELSE 0] :
         g \in grown}

\* ConvertDeletedToEmptyAndFullToDeleted, then BlockControlBytes again.
ConvertDeletedToEmptyAndFullToDeleted(tb) ==
  BlockControlBytes(
    [i \in DOMAIN tb.ctrl |->
       CASE i = tb.cap -> kSentinel
         [] i # tb.cap /\ IsFull(tb.ctrl[i]) -> kDeleted
         [] OTHER -> kEmpty], tb.cap, tb.blocked)

\* The element of slot d.i goes to slot new, where filled has it.  An element
\* that was there comes back to slot d.i, which is then looked at again.
\* tb.ok records that FindEmptySlot finds the temporary slot a swap needs.
DropDeletesMove(d, filled, new) ==
  LET empties == {j \in (d.i + 1)..(d.tb.cap - 1) : filled.ctrl[j] = kEmpty}
  IN  IF d.tb.ctrl[new] = kEmpty
      THEN [d EXCEPT !.i = @ + 1, !.tmp = d.i,
                     !.tb.ctrl = SetCtrl(filled.ctrl, d.tb.cap, d.i, kEmpty),
                     !.tb.slots = [filled.slots EXCEPT ![d.i] = kNoElement]]
      ELSE [d EXCEPT !.tb.ctrl = filled.ctrl,
                     !.tb.slots = [filled.slots EXCEPT ![d.i] = d.tb.slots[new]],
                     !.tmp = IF @ = -1 /\ empties # {} THEN Min(empties) ELSE @,
                     !.tb.ok = IF d.tmp = -1 /\ empties = {} THEN 0 ELSE @]

\* It stays where it is if new is in the same group of its probe sequence.
DropDeletesFull(d, hash, new) ==
  LET Index(pos) == ((pos - H1(hash)) % (d.tb.cap + 1)) \div kWidth
  IN  IF Index(new) = Index(d.i)
      THEN [d EXCEPT !.i = @ + 1, !.tb.ctrl = SetCtrl(@, d.tb.cap, d.i, H2(hash))]
      ELSE DropDeletesMove(d, FillSlot(d.tb, new, d.tb.slots[d.i]), new)

DropDeletesDeleted(d, hash) ==
  DropDeletesFull(d, hash, find_first_non_full(d.tb.ctrl, d.tb.cap, hash))

\* One turn of the loop of DropDeletesWithoutResizeAndPrepareInsert at slot d.i.
DropDeletesTurn(d) ==
  LET c == d.tb.ctrl[d.i]
  IN  CASE d.i = d.tb.cap -> d
        [] d.i < d.tb.cap /\ c # kDeleted ->
             [d EXCEPT !.i = @ + 1, !.tmp = IF c = kEmpty THEN d.i ELSE @]
        [] OTHER -> DropDeletesDeleted(d, hash_of(d.tb.slots[d.i], d.tb.seed))

\* Every turn moves on by one slot or puts one more element in its place.
DropDeletesWithoutResizeAndPrepareInsert(tb, e) ==
  LET start == [tb |-> [tb EXCEPT !.ctrl = ConvertDeletedToEmptyAndFullToDeleted(tb)],
                i |-> 0, tmp |-> -1]
      done  == FoldLeft(LAMBDA d, n : DropDeletesTurn(d),
                        start, [n \in 1..(tb.cap + tb.size) |-> n]).tb
  IN  [insert_slot(done, e) EXCEPT !.size = tb.size + 1,
         !.growth = ResetGrowthLeft(tb.cap, tb.size + 1 + tb.blocked)]

RehashOrGrowToNextCapacityAndPrepareInsert(tb, e) ==
  IF tb.size * 32 <= (tb.cap - kMaxBlockedElementsForLargeTables) * 25
  THEN {DropDeletesWithoutResizeAndPrepareInsert(tb, e)}
  ELSE GrowToNextCapacityAndPrepareInsert(tb, e)

PrepareInsertLargeSlow(tb, e) ==
  LET g  == RebalanceGrowthLeftLowerBound(tb.growth, tb.cap)
      rb == [tb EXCEPT !.growth = g]
      at == find_first_non_full(tb.ctrl, tb.cap, hash_of(e, tb.seed))
  IN  CASE g.lower = 0 /\ g.deleted = 0 -> GrowToNextCapacityAndPrepareInsert(rb, e)
        [] g.lower = 0 /\ g.deleted = 1 ->
             RehashOrGrowToNextCapacityAndPrepareInsert(rb, e)
        [] OTHER -> {[FillSlot(rb, at, e) EXCEPT !.size = @ + 1,
                        !.growth = OverwriteControlAsFull(@, tb.ctrl[at])]}

\* PrepareInsertLargeImpl with the group find_or_prepare_insert_large stopped
\* at: the first one with an empty byte.
PrepareInsertLarge(tb, e) ==
  LET pos == FirstGroup(tb.ctrl, tb.cap, H1(hash_of(e, tb.seed)), {kEmpty})
      at  == FirstInGroup(tb.ctrl, tb.cap, pos, {kEmpty})
  IN  IF tb.growth.lower > 0 /\ tb.growth.deleted = 0
      THEN {[FillSlot(tb, at, e) EXCEPT !.size = @ + 1,
               !.growth = OverwriteEmptyAsFull(@)]}
      ELSE PrepareInsertLargeSlow(tb, e)

\* Sanitizer builds may move the table before the insertion.
PrepareInsertLargeGenerationsEnabled(tb, e) ==
  IF GetGrowthLeftTotalSlow(tb.growth) > 0
  THEN UNION {PrepareInsertLarge(m, e) :
                m \in ResizeAllocatedTableWithSeedChange(tb, tb.cap)}
  ELSE PrepareInsertLarge(tb, e)

-----------------------------------------------------------------------------
(* Erasure and the operations on the whole table. *)

\* Mutant: the empties of the two sides may leave a whole group between them.
WasNeverFullEither(ctrl, cap, i) ==
  \/ is_single_group(cap)
  \/ Mask(ctrl, i, {kEmpty}) # {} /\ Mask(ctrl, (i - kWidth) % (cap + 1), {kEmpty}) # {}

WasNeverFull(ctrl, cap, i) ==
  LET after  == Mask(ctrl, i, {kEmpty})
      before == Mask(ctrl, (i - kWidth) % (cap + 1), {kEmpty})
  IN  \/ is_single_group(cap)
      \/ /\ after # {} /\ before # {}
         /\ Min(after) + (kWidth - 1 - Max(before)) < kWidth

EraseMetaOnlyLarge(tb, i) ==
  LET never == WasNeverFull(tb.ctrl, tb.cap, i)
  IN  [tb EXCEPT !.size = @ - 1, !.slots[i] = kNoElement,
         !.ctrl = SetCtrl(@, tb.cap, i, IF never THEN kEmpty ELSE kDeleted),
         !.growth = IF never THEN OverwriteFullAsEmpty(@) ELSE OverwriteFullAsDeleted(@)]

EraseMetaOnlySmall(tb) == [tb EXCEPT !.size = 0, !.slots[0] = kNoElement]

ClearBackingArray(tb, reuse) ==
  IF reuse THEN Allocated(tb.cap, tb.blocked, tb.seed) ELSE NonAllocated

ReserveAllocatedTable(tb, n) ==
  IF tb.cap = soo_capacity THEN ResizeFullSooTable(tb, SizeToCapacity(n))
  ELSE ResizeAllocatedTableWithSeedChange(tb, SizeToCapacity(n))

ReserveTableToFitNewSize(tb, n) ==
  LET cap   == SizeToCapacity(n)
      limit == IF IsSmallCapacity(tb.cap) THEN tb.cap
               ELSE tb.size + GetGrowthLeftTotalSlow(tb.growth)
  IN  CASE tb.size = 0 /\ tb.cap <= soo_capacity ->
             ResizeEmptyNonAllocatedTable(cap, BlockedElementCountForReservedTable(cap, n))
        [] ~(tb.size = 0 /\ tb.cap <= soo_capacity) /\ n <= limit -> {tb}
        [] OTHER -> ReserveAllocatedTable(tb, n)

\* rehash(n); n = 0 shrinks the table to its size, back to no backing array
\* when that holds nothing or the one inline element.
RehashTable(tb, n) ==
  LET cap == NormalizeCapacity(Max({n, SizeToCapacity(tb.size)}))
  IN  CASE n = 0 /\ (tb.cap <= soo_capacity) -> {tb}
        [] n = 0 /\ tb.cap > soo_capacity /\ tb.size <= soo_capacity ->
             {[NonAllocated EXCEPT !.size = tb.size, !.slots =
                 IF tb.size = 0 THEN @ ELSE [@ EXCEPT ![0] = IterateOverFullSlots(tb)[1]]]}
        [] (n = 0 /\ tb.size > soo_capacity /\ tb.cap > soo_capacity)
             \/ (n > 0 /\ cap > tb.cap) ->
             CASE tb.cap # soo_capacity -> ResizeAllocatedTableWithSeedChange(tb, cap)
               [] tb.cap = soo_capacity /\ tb.size = 0 ->
                    ResizeEmptyNonAllocatedTable(cap, 0)
               [] OTHER -> ResizeFullSooTable(tb, cap)
        [] OTHER -> {tb}

\* A copy of tb into a table that was just constructed.
CopyTable(tb) ==
  IF tb.size = 1
  THEN {[Allocated(1, 0, 0) EXCEPT !.size = 1, !.slots[0] = IterateOverFullSlots(tb)[1]]}
  ELSE {FindNewPositionsAndTransferSlots(tb, new) :
          new \in ReserveTableToFitNewSize(NonAllocated, tb.size)}

-----------------------------------------------------------------------------

Init ==
  /\ t = NonAllocated
  /\ contents = [e \in Elements |-> 0]

Insert(e) ==
  /\ t.size < MaxSize /\ t.cap <= MaxCapacity
  /\ t' \in IF IsSmallCapacity(t.cap) THEN PrepareInsertSmall(t, e)
                                      ELSE PrepareInsertLarge(t, e)
  /\ contents' = [contents EXCEPT ![e] = @ + 1]

InsertGenerations(e) ==
  /\ t.size < MaxSize /\ t.cap <= MaxCapacity /\ ~IsSmallCapacity(t.cap)
  /\ t' \in PrepareInsertLargeGenerationsEnabled(t, e)
  /\ contents' = [contents EXCEPT ![e] = @ + 1]

Erase(i) ==
  /\ t.cap <= MaxCapacity
  /\ t' = IF IsSmallCapacity(t.cap) THEN EraseMetaOnlySmall(t)
                                    ELSE EraseMetaOnlyLarge(t, i)
  /\ contents' = [contents EXCEPT ![t.slots[i]] = @ - 1]

Clear ==
  /\ t' = IF IsSmallCapacity(t.cap)
          THEN IF t.size = 0 THEN t ELSE EraseMetaOnlySmall(t)
          ELSE ClearBackingArray(t, t.cap < kReuseCapacity)
  /\ contents' = [e \in Elements |-> 0]

\* erase(begin(), end()) keeps the backing array whatever its size.
EraseAll ==
  /\ t.size > 0
  /\ t' = IF IsSmallCapacity(t.cap) THEN EraseMetaOnlySmall(t)
                                    ELSE ClearBackingArray(t, TRUE)
  /\ contents' = [e \in Elements |-> 0]

Reserve(n) ==
  /\ n > soo_capacity
  /\ t' \in ReserveTableToFitNewSize(t, n)
  /\ UNCHANGED contents

Rehash(n) == t' \in RehashTable(t, n) /\ UNCHANGED contents

Copy == t.size > 0 /\ t' \in CopyTable(t) /\ UNCHANGED contents

Next ==
  \/ \E e \in Elements : Insert(e) \/ InsertGenerations(e)
  \/ \E i \in FullSlots(t) : Erase(i)
  \/ Clear \/ EraseAll \/ Copy
  \/ \E n \in Requests : Reserve(n) \/ Rehash(n)

Spec == Init /\ [][Next]_vars

-----------------------------------------------------------------------------

Deleted == {i \in 0..(t.cap - 1) : t.ctrl[i] = kDeleted}

\* Every element put into the table and not erased is in it exactly once,
\* whatever growth, rehash in place, shrinking or copying moved it, and a
\* lookup that starts from its hash reaches its slot before a group with an
\* empty byte ends the search; the assertions on the way hold.
EveryElementIsFound ==
  /\ t.ok = 1 /\ t.size = Cardinality(FullSlots(t))
  /\ \A e \in Elements : contents[e] = Cardinality({i \in FullSlots(t) : t.slots[i] = e})
  /\ IsSmallCapacity(t.cap) \/ \A i \in FullSlots(t) : FoundAt(t, i)

\* The growth left, low byte and overflow together, is what the load factor
\* allows minus the full, the deleted and the blocked slots; the deleted bit
\* is set whenever a tombstone is left; the low byte alone is 0 only when
\* nothing is left or the overflow can refill it.  Hence no lookup runs on
\* in a table without an empty byte.
GrowthIsAccounted ==
  IsSmallCapacity(t.cap) \/
    /\ GetGrowthLeftTotalSlow(t.growth) =
         CapacityToGrowth(t.cap) - t.size - Cardinality(Deleted) - t.blocked
    /\ t.growth.lower \in 0..kMaxGrowthLeftLowerBound /\ t.growth.overflow >= 0
    /\ Deleted # {} => t.growth.deleted = 1
    /\ t.cap <= kMaxGrowthLeftLowerBound => t.growth.overflow = 0
    /\ \A h \in 0..t.cap : FirstGroup(t.ctrl, t.cap, h, {kEmpty}) # -1

\* The cloned tail repeats the first control bytes, the bytes after them in a
\* half-group table are empty, and the sentinel and the blocked slots are
\* where iteration and probing expect them.
ControlBytesMirrored ==
  IsSmallCapacity(t.cap) \/
    /\ t.ctrl[t.cap] = kSentinel
    /\ \A j \in 0..(NumClonedBytes - 1) :
         t.ctrl[t.cap + 1 + j] = IF j < t.cap THEN t.ctrl[j] ELSE kEmpty
    /\ \A i \in 0..(t.cap - 1) : t.ctrl[i] = kSentinel <=> i >= t.cap - t.blocked

=============================================================================

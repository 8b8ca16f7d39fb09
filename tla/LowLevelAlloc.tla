---------------------------- MODULE LowLevelAlloc ----------------------------
(***************************************************************************)
(* base_internal::LowLevelAlloc: a first-fit allocator over mapped pages.  *)
(* Its free list is a skip list in address order, free neighbours are      *)
(* coalesced, and the arena's lock is given up around mmap, so that other  *)
(* threads allocate and free before the new pages are added.               *)
(*                                                                         *)
(* Addresses and sizes count units of round_up (the size of a header).     *)
(* What a thread does under the arena's spin lock is one step.             *)
(***************************************************************************)
EXTENDS Integers, FiniteSets, FiniteSetsExt

CONSTANTS
    Threads,
    Pages,       \* bound on the chunks mmap returns
    kPagesSize,  \* pagesize * 16: what mmap is asked for
    Requests,    \* the rounded-up requests, header included
    kMaxRandom   \* bound on Random()

VARIABLES
    arena,   \* the arena, with the headers and the links inside its blocks
    mapped,  \* the addresses of the chunks mmap has returned
    pc, req  \* of each thread: "idle" or "mmap", and its rounded-up request

vars == <<arena, mapped, pc, req>>

freelist == 0                                  \* &arena->freelist
Chunk(k) == 1 + (k - 1) * kPagesSize       \* where mmap may place a chunk
Addresses == 1..(Pages * kPagesSize)
Nil == Pages * kPagesSize + 1              \* nullptr, after every address
min_size == 2
Draws == [1..3 -> 1..kMaxRandom]             \* of three calls of Random()
kMaxLevel == 6

IntLog2(size, base) == Min({k \in 0..kMaxLevel : size \div 2^k <= base})

\* What is left of a block of 32-byte units after the header and `levels` holds 8-byte links.
MaxFit(size) == 4 * size - 5

\* random is 1 for a null generator.
LLA_SkiplistLevels(size, random) ==
    Min({IntLog2(size, min_size) + random, MaxFit(size), kMaxLevel - 1})

\* The elements linked at a level, kept in address order by the search before each insertion.
Level(a, l) == {b \in Addresses : <<l, b>> \in a.links}
freelist_levels(a) == Cardinality({l \in 0..kMaxLevel : Level(a, l) # {}})

\* prev[0] of LLA_SkiplistSearch, and what follows b at level 0.
Prev(a, e) == Max({freelist} \cup {b \in Level(a, 0) : b < e})
Succ(a, b) == Min({Nil} \cup {n \in Level(a, 0) : n > b})

LLA_SkiplistInsert(a, e, levels) ==
    [a EXCEPT !.links = @ \cup {<<l, e>> : l \in 0..(levels - 1)}]

LLA_SkiplistDelete(a, e) ==
    [a EXCEPT !.links = {link \in @ : link[2] # e},
              !.ok = IF e \in Level(a, 0) THEN @ ELSE 0]

\* Coalesce block b with its successor on the list if they are adjacent.  The head is adjacent
\* to no block.
Coalesce(a, b, random) ==
    LET n == Succ(a, b)
        size == a.size[b] + a.size[n]
        alone == LLA_SkiplistDelete(LLA_SkiplistDelete(a, n), b)
    IN  IF b = freelist \/ n = Nil \/ b + a.size[b] # n THEN a
        ELSE LLA_SkiplistInsert([alone EXCEPT !.size[b] = size, !.size[n] = 0, !.magic[n] = 0],
                                b, LLA_SkiplistLevels(size, random))

\* The predecessor is the one found before the coalescing.  Each call draws its own number.
AddToFreelist(a, f, random) ==
    LET prev == Prev(a, f)
        inserted == [LLA_SkiplistInsert(a, f, LLA_SkiplistLevels(a.size[f], random[1]))
                       EXCEPT !.magic[f] = 2, !.ok = IF a.magic[f] = 1 THEN @ ELSE 0]
    IN  Coalesce(Coalesce(inserted, f, random[2]), prev, random[3])

\* The first block that is large enough on the list of the levels that its size implies, or Nil.
FirstFit(a, size) ==
    LET i == LLA_SkiplistLevels(size, 1) - 1
        fits == {b \in Level(a, i) : a.size[b] >= size}
    IN  IF i < freelist_levels(a) THEN Min({Nil} \cup fits) ELSE Nil

\* The block is taken from the list, and split if what is left is large enough for a block.
Take(a, s, size, random) ==
    LET taken == [LLA_SkiplistDelete(a, s) EXCEPT !.magic[s] = 1, !.allocated = @ \cup {s}]
        rest == s + size
        split == [taken EXCEPT !.size[rest] = a.size[s] - size, !.magic[rest] = 1,
                               !.size[s] = size]
    IN  IF size + min_size <= a.size[s] THEN AddToFreelist(split, rest, random) ELSE taken
-----------------------------------------------------------------------------
NewArena ==
    [size |-> [b \in Addresses |-> 0], magic |-> [b \in Addresses |-> 0],
     links |-> {}, allocated |-> {}, ok |-> 1]

Init ==
    /\ arena = NewArena /\ mapped = {}
    /\ pc = [t \in Threads |-> "idle"] /\ req = [t \in Threads |-> 0]

\* One turn of the loop of DoAllocWithArena with the lock held: to the end of the call if a
\* block is found, and else to the unlock before mmap.
Search(t, a, size) ==
    LET s == FirstFit(a, size)
    IN  \/ /\ s # Nil
           /\ \E random \in Draws : arena' = Take(a, s, size, random)
           /\ pc' = [pc EXCEPT ![t] = "idle"] /\ req' = [req EXCEPT ![t] = 0]
        \/ /\ s = Nil
           /\ arena' = a /\ pc' = [pc EXCEPT ![t] = "mmap"] /\ req' = [req EXCEPT ![t] = size]

AllocWithArena(t, size) == pc[t] = "idle" /\ Search(t, arena, size) /\ UNCHANGED mapped

\* mmap returns a chunk anywhere, and with the lock again it is added and the search repeated.
MapPages(t) ==
    /\ pc[t] = "mmap"
    /\ \E k \in 1..Pages : \E random \in Draws :
          LET s == Chunk(k)
              fresh == [arena EXCEPT !.size[s] = kPagesSize, !.magic[s] = 1]
          IN  /\ s \notin mapped
              /\ mapped' = mapped \cup {s}
              /\ Search(t, AddToFreelist(fresh, s, random), req[t])

Free(t, f) ==
    /\ pc[t] = "idle" /\ f \in arena.allocated
    /\ \E random \in Draws :
          arena' = [AddToFreelist(arena, f, random) EXCEPT !.allocated = @ \ {f}]
    /\ UNCHANGED <<mapped, pc, req>>

\* DeleteArena, when no thread uses the arena and nothing is allocated from it: the blocks
\* of the free list are unmapped, and the arena can be made anew.
DeleteArena ==
    /\ arena.allocated = {} /\ mapped # {} /\ \A t \in Threads : pc[t] = "idle"
    /\ LET Unmapped(b) == arena.size[b] % kPagesSize = 0 /\ b % kPagesSize = 1
           blocks == {b \in Addresses : arena.magic[b] = 2}
       IN  arena' = [NewArena EXCEPT !.ok = IF \A b \in blocks : Unmapped(b) THEN arena.ok ELSE 0]
    /\ mapped' = {} /\ UNCHANGED <<pc, req>>

Next ==
    \/ DeleteArena
    \/ \E t \in Threads :
          \/ MapPages(t)
          \/ \E size \in Requests : AllocWithArena(t, size)
          \/ \E f \in Addresses : Free(t, f)

Spec == Init /\ [][Next]_vars
-----------------------------------------------------------------------------
FreeBlocks == {b \in Addresses : arena.magic[b] = 2}
Extent(b) == b..(b + arena.size[b] - 1)

\* The blocks that clients hold and the free ones share out the mapped chunks: none overlaps
\* another and nothing is lost, whatever was split, coalesced, or mapped by two threads at
\* once; and the checks that the code makes on the way hold.
BlocksTile ==
    /\ arena.ok = 1
    /\ \A b, c \in FreeBlocks \cup arena.allocated : b # c => Extent(b) \cap Extent(c) = {}
    /\ UNION {Extent(b) : b \in FreeBlocks \cup arena.allocated} =
           UNION {c..(c + kPagesSize - 1) : c \in mapped}

\* The skip list links exactly the free blocks, each at its lowest levels; free blocks do not
\* touch; and a search at the level of its request sees a block that is large enough whenever
\* there is one.
FreelistSound ==
    /\ Level(arena, 0) = FreeBlocks
    /\ \A l \in 0..(kMaxLevel - 1) : Level(arena, l + 1) \subseteq Level(arena, l)
    /\ \A b, c \in FreeBlocks : b + arena.size[b] # c
    /\ \A size \in Requests : FirstFit(arena, size) = Nil <=> \A b \in FreeBlocks : arena.size[b] < size
=============================================================================

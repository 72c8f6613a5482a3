-------------------------------- MODULE Tlsf --------------------------------
(***************************************************************************)
(* The two-level segregated fit allocator (tlsf_t): free blocks are kept   *)
(* in one list per class of sizes, and bitmaps tell which lists have a     *)
(* block.  Nothing in the repository calls it from two tasks, and a call   *)
(* is one step here.                                                       *)
(*                                                                         *)
(* Addresses count from _sheap.  size_flag is the fields size, free and    *)
(* prev_is_free of a header; a bitmap is the set of its bits.              *)
(***************************************************************************)
EXTENDS Integers

CONSTANTS
  pool_size,
  TLSF_HEADER_SIZE, TLSF_ALIGN, TLSF_MIN_BLOCK_SIZE,
  TLSF_FLI_COUNT, TLSF_SLI_LOG2, TLSF_OFFSET,
  Sizes           \* the arguments of tlsf_malloc()

(* 1 << n *)
Shift[n \in 0 .. 30] == IF n = 0 THEN 1 ELSE 2 * Shift[n - 1]

ASSUME TlsfAssumption ==
  /\ {TLSF_HEADER_SIZE, TLSF_ALIGN, TLSF_FLI_COUNT} \subseteq Nat \ {0}
  /\ TLSF_SLI_LOG2 \in Nat /\ TLSF_OFFSET \in Nat
  /\ TLSF_SLI_LOG2 <= TLSF_OFFSET
  /\ TLSF_OFFSET + TLSF_FLI_COUNT <= 30
  /\ TLSF_MIN_BLOCK_SIZE \in Nat /\ TLSF_MIN_BLOCK_SIZE >= Shift[TLSF_OFFSET]
  /\ pool_size \in Nat
  /\ pool_size >= TLSF_HEADER_SIZE + TLSF_MIN_BLOCK_SIZE
  /\ pool_size < Shift[TLSF_OFFSET + TLSF_FLI_COUNT]
  /\ Sizes \subseteq Nat

TLSF_SLI_COUNT == Shift[TLSF_SLI_LOG2]

Addrs       == 0 .. pool_size - 1
Null        == -1
first_block == 0

Headers == [prev_physical : Addrs \cup {Null}, size : Addrs, free : BOOLEAN,
            prev_is_free : BOOLEAN, next_free : Addrs \cup {Null},
            prev_free : Addrs \cup {Null}]

(* Bytes that are no header, or no longer one. *)
NoHeader == [prev_physical |-> Null, size |-> 0, free |-> FALSE,
             prev_is_free |-> FALSE, next_free |-> Null, prev_free |-> Null]

Levels  == 0 .. TLSF_FLI_COUNT - 1
Classes == Levels \X (0 .. TLSF_SLI_COUNT - 1)

(* The values of a tlsf_t: the headers, the heads of the lists, the bitmaps. *)
Pools == [block : [Addrs -> Headers], blocks : [Classes -> Addrs \cup {Null}],
          fli_bitmap : SUBSET Levels,
          sli_bitmap : [Levels -> SUBSET (0 .. TLSF_SLI_COUNT - 1)]]

VARIABLES
  tlsf,      \* the tlsf_t, with the headers of the pool
  regions    \* what tlsf_malloc() gave out and tlsf_free() has not taken back

tlsfVars == <<tlsf, regions>>
-----------------------------------------------------------------------------
(* The class <<fli, sli>> of a size.                                       *)
find_fls(size) == CHOOSE n \in 0 .. 30 : size \div Shift[n] = 1

mapping_insert(size) ==
  IF size < Shift[TLSF_OFFSET]
  THEN <<0, size \div Shift[TLSF_OFFSET - TLSF_SLI_LOG2]>>
  ELSE LET f == find_fls(size)
       IN  <<f - TLSF_OFFSET,
             (size \div Shift[f - TLSF_SLI_LOG2]) % TLSF_SLI_COUNT>>

(* A search that does not round up. *)
mapping_search_down(size) == mapping_insert(size)

(* The first class all of whose blocks are large enough. *)
mapping_search(size) ==
  IF size < Shift[TLSF_OFFSET] THEN mapping_insert(size)
  ELSE mapping_insert(size + Shift[find_fls(size) - TLSF_SLI_LOG2] - 1)

tlsf_init ==
  LET size == pool_size - TLSF_HEADER_SIZE
      c == mapping_insert(size)
  IN  tlsf = [block |-> [a \in Addrs |->
                        IF a = first_block
                        THEN [NoHeader EXCEPT !.size = size, !.free = TRUE]
                        ELSE NoHeader],
           blocks |-> [d \in Classes |-> IF d = c THEN first_block ELSE Null],
           fli_bitmap |-> {c[1]},
           sli_bitmap |-> [i \in Levels |-> IF i = c[1] THEN {c[2]} ELSE {}]]

TlsfInit == tlsf_init /\ regions = {}
-----------------------------------------------------------------------------
(* The free lists.  h is a value of tlsf.                                    *)
SetPrevFree(m, a, v) == IF a = Null THEN m ELSE [m EXCEPT ![a].prev_free = v]

SetNextFree(m, a, v) == IF a = Null THEN m ELSE [m EXCEPT ![a].next_free = v]

insert_free_block(h, b) ==
  LET c == mapping_insert(h.block[b].size)
      first == h.blocks[c]
      linked == [h.block EXCEPT ![b].next_free = first, ![b].prev_free = Null]
  IN  [h EXCEPT !.block = SetPrevFree(linked, first, b),
                !.blocks[c] = b,
                !.fli_bitmap = @ \cup {c[1]},
                !.sli_bitmap[c[1]] = @ \cup {c[2]}]

(* The removal that leaves the bits of an emptied list. *)
Bits_kept(h, c, first) == h

(* The bits of class c, whose list now begins with first. *)
Bits(h, c, first) ==
  LET sli == h.sli_bitmap[c[1]] \ {c[2]}
  IN  IF first # Null THEN h
      ELSE [h EXCEPT !.sli_bitmap[c[1]] = sli,
                     !.fli_bitmap = IF sli = {} THEN @ \ {c[1]} ELSE @]

remove_free_block(h, b) ==
  LET c == mapping_insert(h.block[b].size)
      p == h.block[b].prev_free
      n == h.block[b].next_free
      first == IF p = Null THEN n ELSE h.blocks[c]
      around == SetPrevFree(SetNextFree(h.block, p, n), n, p)
  IN  [Bits(h, c, first) EXCEPT
         !.block = [around EXCEPT ![b].next_free = Null, ![b].prev_free = Null],
         !.blocks[c] = first]

(* A search that keeps its second level on every first level. *)
From_samesli(c) == { d \in Classes : d[1] >= c[1] /\ d[2] >= c[2] }

From(c) == { d \in Classes : d[1] > c[1] \/ (d[1] = c[1] /\ d[2] >= c[2]) }

find_free_block(h, c) ==
  LET found == { d \in From(c) : d[1] \in h.fli_bitmap /\ d[2] \in h.sli_bitmap[d[1]] }
  IN  IF found = {} THEN Null
      ELSE h.blocks[CHOOSE d \in found : found \subseteq From(d)]
-----------------------------------------------------------------------------
(* The block that begins where b ends; it is one if it is in the pool.     *)
NextPhysical(h, b) == b + TLSF_HEADER_SIZE + h.block[b].size

(* A next block that is told nothing. *)
TellNext_not(h, b) == h

(* The block after b, a free block, learns where b is and that it is free. *)
TellNext(h, b) ==
  LET next == NextPhysical(h, b)
  IN  IF next >= pool_size THEN h
      ELSE [h EXCEPT !.block[next].prev_physical = b,
                     !.block[next].prev_is_free = TRUE]

size_aligned(size) ==
  LET up == size + TLSF_ALIGN - 1
      aligned == up - (up % TLSF_ALIGN)
  IN  IF aligned < TLSF_MIN_BLOCK_SIZE THEN TLSF_MIN_BLOCK_SIZE ELSE aligned

Chosen(h, size) ==
  IF size = 0 \/ size_aligned(size) > pool_size - TLSF_HEADER_SIZE THEN Null
  ELSE find_free_block(h, mapping_search(size_aligned(size)))

Splits(h, b, n) ==
  h.block[b].size - n >= TLSF_MIN_BLOCK_SIZE + TLSF_HEADER_SIZE

Split(h, b, n) ==
  LET remaining == b + TLSF_HEADER_SIZE + n
      cut == [h EXCEPT
        !.block[remaining] = [NoHeader EXCEPT
           !.prev_physical = b, !.free = TRUE,
           !.size = h.block[b].size - n - TLSF_HEADER_SIZE],
        !.block[b].size = n,
        !.block[b].free = FALSE]
  IN  insert_free_block(TellNext(cut, remaining), remaining)

Whole(h, b) ==
  LET next == NextPhysical(h, b)
      used == [h EXCEPT !.block[b].free = FALSE]
  IN  IF next >= pool_size THEN used
      ELSE [used EXCEPT !.block[next].prev_is_free = FALSE]

tlsf_malloc(size) ==
  LET b == Chosen(tlsf, size)
      n == size_aligned(size)
      h == remove_free_block(tlsf, b)
  IN  IF b = Null THEN UNCHANGED tlsfVars
      ELSE /\ tlsf' = IF Splits(tlsf, b, n) THEN Split(h, b, n) ELSE Whole(h, b)
           /\ regions' = regions \cup {[at |-> b + TLSF_HEADER_SIZE, len |-> n]}

MergedSize(x, y) == x.size + y.size + TLSF_HEADER_SIZE

(* Block b absorbs the block after it. *)
Absorb(h, b) ==
  LET next == NextPhysical(h, b)
  IN  [h EXCEPT !.block[b].size = MergedSize(h.block[b], h.block[next]),
                !.block[next] = NoHeader]

FreeAt(h, a) == a \in Addrs /\ h.block[a].free

tlsf_free(r) ==
  LET b0 == r.at - TLSF_HEADER_SIZE
      h0 == [tlsf EXCEPT !.block[b0].free = TRUE]
      prev == tlsf.block[b0].prev_physical
      b == IF FreeAt(tlsf, prev) THEN prev ELSE b0
      h1 == IF b = prev THEN Absorb(remove_free_block(h0, prev), prev) ELSE h0
      next == NextPhysical(h1, b)
      h2 == IF FreeAt(h1, next)
            THEN Absorb(remove_free_block(h1, next), b) ELSE h1
  IN  /\ tlsf' = insert_free_block(TellNext(h2, b), b)
      /\ regions' = regions \ {r}

TlsfNext ==
  \/ \E size \in Sizes : tlsf_malloc(size)
  \/ \E r \in regions : tlsf_free(r)

TlsfSpec == TlsfInit /\ [][TlsfNext]_tlsfVars
-----------------------------------------------------------------------------
(* Types; no block is larger than the pool. *)
TlsfTypeOK == tlsf \in Pools

(* No byte is given out twice, and every region is as long as the rounded  *)
(* request.                                                                *)
held == [c \in {"caller"} |-> regions]

Allocator == INSTANCE Arena WITH
  Clients <- {"caller"}, ArenaSize <- pool_size, regions <- held

TlsfImplementsArena == Allocator!Spec

(* What is reached from a by following succ, in as many steps as there are *)
(* addresses.                                                              *)
Chain(a, succ) ==
  LET reached[n \in 0 .. pool_size] ==
        IF n = 0 THEN {a} \cap Addrs
        ELSE LET before == reached[n - 1]
             IN  before \cup ({ succ[x] : x \in before } \cap Addrs)
  IN  reached[pool_size]

InPool == Chain(first_block, [a \in Addrs |-> NextPhysical(tlsf, a)])

(***************************************************************************)
(* The blocks tile the pool; each block but the first knows the block      *)
(* before it and whether that is free; no two free blocks are neighbours;  *)
(* and the blocks in use are those given out.                              *)
(***************************************************************************)
PoolTiled ==
  /\ \E b \in InPool : NextPhysical(tlsf, b) = pool_size
  /\ \A b \in InPool :
       LET next == NextPhysical(tlsf, b)
       IN  next < pool_size =>
             /\ tlsf.block[next].prev_physical = b
             /\ tlsf.block[next].prev_is_free = tlsf.block[b].free
             /\ ~ (tlsf.block[b].free /\ tlsf.block[next].free)
  /\ { b \in InPool : ~ tlsf.block[b].free } =
       { r.at - TLSF_HEADER_SIZE : r \in regions }

(* No block is too small to be cut off, the first has none before it, and   *)
(* every region has a block to itself.                                      *)
RegionsFit ==
  /\ \A b \in InPool : tlsf.block[b].size >= TLSF_MIN_BLOCK_SIZE
  /\ tlsf.block[first_block].prev_physical = Null
  /\ regions \subseteq [at : Nat, len : Nat]
  /\ \A r \in regions : r.len <= tlsf.block[r.at - TLSF_HEADER_SIZE].size
  /\ \A r, s \in regions : r.at = s.at => r = s

(* Types and bounds of sizes, and a pool without gaps and overlaps, after   *)
(* any sequence of allocations and frees.                                   *)
TlsfInv == TlsfTypeOK /\ PoolTiled /\ RegionsFit

(***************************************************************************)
(* The index is exact: the list of a class holds the free blocks of the    *)
(* class and no others, linked both ways, and a bit is set exactly when    *)
(* there is something below it.                                            *)
(***************************************************************************)
IndexExact ==
  /\ LET free == { b \in InPool : tlsf.block[b].free } IN \A c \in Classes :
       LET members == Chain(tlsf.blocks[c], [a \in Addrs |-> tlsf.block[a].next_free])
       IN  /\ members = { b \in free : mapping_insert(tlsf.block[b].size) = c }
           /\ \A b \in members :
                /\ tlsf.block[b].prev_free = Null <=> tlsf.blocks[c] = b
                /\ tlsf.block[b].next_free # Null =>
                     tlsf.block[tlsf.block[b].next_free].prev_free = b
           /\ c[2] \in tlsf.sli_bitmap[c[1]] <=> members # {}
  /\ \A i \in Levels : i \in tlsf.fli_bitmap <=> tlsf.sli_bitmap[i] # {}

(***************************************************************************)
(* Good fit: a request fails only when every free block is smaller than    *)
(* the request and one part in TLSF_SLI_COUNT more, the most that rounding *)
(* up to a class can add.                                                  *)
(***************************************************************************)
GoodFit == \A size \in Sizes \ {0} :
  Chosen(tlsf, size) = Null =>
    \A b \in InPool : tlsf.block[b].free =>
      tlsf.block[b].size * TLSF_SLI_COUNT < size_aligned(size) * (TLSF_SLI_COUNT + 1)
=============================================================================

-------------------------------- MODULE Heap --------------------------------
(***************************************************************************)
(* The first-fit heap: a list of blocks, each a header (heap_block_t)      *)
(* followed by its payload, laid out in one arena.  Addresses and sizes    *)
(* are small integers.                                                     *)
(*                                                                         *)
(* os_malloc() and os_mfree() do not mask interrupts.  A step is one       *)
(* iteration of a loop, or the writes that end a search; clients may       *)
(* preempt one another between steps.                                      *)
(***************************************************************************)
EXTENDS Integers

CONSTANTS
  ArenaSize,    \* &_eheap - &_sheap
  HEADER,       \* sizeof(heap_block_t)
  ALIGN,        \* the alignment of sizes, 8 ...
  MPU_ALIGN,    \* ... and 32 once the MPU is enabled
  WORD,         \* 2^32
  Sizes,        \* the arguments of os_malloc()
  Clients       \* the tasks that allocate

ASSUME HeapAssumption ==
  /\ {HEADER, ALIGN, MPU_ALIGN} \subseteq Nat \ {0}
  /\ ArenaSize \in Nat /\ ArenaSize > HEADER
  /\ WORD \in Nat /\ WORD > ArenaSize
  /\ Sizes \subseteq 0 .. WORD - 1

Addrs     == 0 .. ArenaSize - 1
Null      == -1
heap_head == 0

VARIABLES
  mpu_status, \* 1 once os_mpu_init() has enabled the MPU
  block,      \* the header at each address, where there is one
  pc,         \* for each client: "run", "search", "found" or "merge"
  current,    \* its local variable current
  want,       \* its local variable aligned_size
  regions     \* what it was given and has not freed

locals   == <<pc, current, want>>
heapVars == <<mpu_status, block, locals, regions>>

os_heap_init ==
  block = [a \in Addrs |->
    [size    |-> IF a = heap_head THEN ArenaSize - HEADER ELSE 0,
     is_free |-> a = heap_head,
     next    |-> Null]]

HeapInit ==
  /\ mpu_status = 0
  /\ os_heap_init
  /\ pc = [c \in Clients |-> "run"]
  /\ current = [c \in Clients |-> heap_head]
  /\ want = [c \in Clients |-> 0]
  /\ regions = [c \in Clients |-> {}]

(* ((x) + ((a) - 1)) & ~((a) - 1), on 32 bits. *)
AlignedTo(x, a) == LET up == (x + a - 1) % WORD IN up - (up % a)

Aligned(size) == AlignedTo(size, IF mpu_status = 0 THEN ALIGN ELSE MPU_ALIGN)

Goto(c, label, a) ==
  /\ pc' = [pc EXCEPT ![c] = label]
  /\ current' = [current EXCEPT ![c] = a]
-----------------------------------------------------------------------------
os_malloc(c, size) ==
  /\ pc[c] = "run"
  /\ Goto(c, "search", heap_head)
  /\ want' = [want EXCEPT ![c] = Aligned(size)]
  /\ UNCHANGED <<mpu_status, block, regions>>

(* The test that forgets to look at is_free. *)
Fits_any(b, n) == b.size >= n

(* The test that passes a block of exactly the right size. *)
Fits_larger(b, n) == b.is_free /\ b.size > n

Fits(b, n) == b.is_free /\ b.size >= n

Search(c) ==
  /\ pc[c] = "search" /\ current[c] # Null
  /\ LET b == block[current[c]]
     IN  \/ Fits(b, want[c]) /\ Goto(c, "found", current[c])
         \/ ~ Fits(b, want[c]) /\ Goto(c, "search", b.next)
  /\ UNCHANGED <<mpu_status, block, want, regions>>

(* The end of the list: os_malloc returns 0. *)
GiveUp(c) ==
  /\ pc[c] = "search" /\ current[c] = Null
  /\ Goto(c, "run", Null)
  /\ UNCHANGED <<mpu_status, block, want, regions>>

(* The remainder that forgets the room its header takes. *)
Split_headerless(a, n) ==
  LET new == a + HEADER + n
  IN  [block EXCEPT
        ![new] = [size |-> block[a].size - n, is_free |-> TRUE,
                  next |-> block[a].next],
        ![a]   = [size |-> n, is_free |-> FALSE, next |-> new]]

Split(a, n) ==
  LET new == a + HEADER + n
  IN  [block EXCEPT
        ![new] = [size |-> block[a].size - n - HEADER, is_free |-> TRUE,
                  next |-> block[a].next],
        ![a]   = [size |-> n, is_free |-> FALSE, next |-> new]]

Take(c) ==
  /\ pc[c] = "found"
  /\ LET a == current[c]
         n == want[c]
     IN  /\ block' = IF block[a].size > n + HEADER
                     THEN Split(a, n) ELSE [block EXCEPT ![a].is_free = FALSE]
         /\ regions' = [regions EXCEPT ![c] = @ \cup {[at |-> a + HEADER, len |-> n]}]
         /\ Goto(c, "run", a)
  /\ UNCHANGED <<mpu_status, want>>
-----------------------------------------------------------------------------
os_mfree(c, r) ==
  /\ pc[c] = "run"
  /\ block' = [block EXCEPT ![r.at - HEADER].is_free = TRUE]
  /\ regions' = [regions EXCEPT ![c] = @ \ {r}]
  /\ Goto(c, "merge", heap_head)
  /\ UNCHANGED <<mpu_status, want>>

Merged(b, succ) ==
  [b EXCEPT !.size = b.size + HEADER + succ.size, !.next = succ.next]

Merge(c) ==
  /\ pc[c] = "merge" /\ block[current[c]].next # Null
  /\ LET a == current[c]
         b == block[a]
         succ == block[b.next]
     IN  \/ /\ b.is_free /\ succ.is_free
            /\ block' = [block EXCEPT ![a] = Merged(b, succ)]
            /\ Goto(c, "merge", a)
         \/ /\ ~ (b.is_free /\ succ.is_free)
            /\ Goto(c, "merge", b.next)
            /\ UNCHANGED block
  /\ UNCHANGED <<mpu_status, want, regions>>

MergeEnds(c) ==
  /\ pc[c] = "merge" /\ block[current[c]].next = Null
  /\ Goto(c, "run", current[c])
  /\ UNCHANGED <<mpu_status, block, want, regions>>

HeapNext == \E c \in Clients :
  \/ \E size \in Sizes : os_malloc(c, size)
  \/ Search(c) \/ GiveUp(c) \/ Take(c)
  \/ \E r \in regions[c] : os_mfree(c, r)
  \/ Merge(c) \/ MergeEnds(c)

HeapSpec == HeapInit /\ [][HeapNext]_heapVars
-----------------------------------------------------------------------------
(* Types; a block fits into the arena. *)
HeapTypeOK ==
  /\ mpu_status \in {0, 1}
  /\ block \in [Addrs -> [size : Addrs, is_free : BOOLEAN, next : Addrs \cup {Null}]]
  /\ pc \in [Clients -> {"run", "search", "found", "merge"}]
  /\ current \in [Clients -> Addrs \cup {Null}]
  /\ want \in [Clients -> 0 .. WORD - 1]

(***************************************************************************)
(* No byte is given out twice: whatever allocations and frees came before, *)
(* a pointer os_malloc returns is to as many bytes as the rounded request, *)
(* in the arena and apart from all others in use.                          *)
(***************************************************************************)
Allocator == INSTANCE Arena

ImplementsArena == Allocator!Spec

(* The blocks of the list: what is reached from its head. *)
ReachedIn(b) ==
  LET reached[n \in 0 .. ArenaSize] ==
        IF n = 0 THEN {heap_head}
        ELSE LET before == reached[n - 1]
             IN  before \cup ({ b[a].next : a \in before } \ {Null})
  IN  reached[ArenaSize]

InList == ReachedIn(block)

AtRest == \A c \in Clients : pc[c] # "merge"

(***************************************************************************)
(* The list tiles the arena: each block ends where the next begins, and    *)
(* the last where the arena ends; the blocks in use are those the clients  *)
(* hold; and outside os_mfree no two free blocks are neighbours.           *)
(***************************************************************************)
BlocksTile ==
  /\ \A a \in InList :
       a + HEADER + block[a].size =
         IF block[a].next = Null THEN ArenaSize ELSE block[a].next
  /\ { a \in InList : ~ block[a].is_free } =
       { r.at - HEADER : r \in UNION { regions[c] : c \in Clients } }
  /\ AtRest => \A a \in InList : block[a].next # Null =>
       ~ (block[a].is_free /\ block[block[a].next].is_free)

(***************************************************************************)
(* First fit finds what is there: when os_malloc returns 0, no hole        *)
(* between the blocks in use could hold the request and its header.        *)
(***************************************************************************)
Used == UNION { r.at - HEADER .. r.at + block[r.at - HEADER].size - 1 :
                  r \in UNION { regions[c] : c \in Clients } }

FindsRoom ==
  \A c \in Clients : pc[c] = "search" /\ current[c] = Null =>
    \A a \in Addrs :
      a + HEADER + want[c] <= ArenaSize =>
        (a .. a + HEADER + want[c] - 1) \cap Used # {}
-----------------------------------------------------------------------------
(***************************************************************************)
(* The inductive invariant behind them while one client at a time is in    *)
(* the heap's code.  The blocks of S tile the arena, from its head on.     *)
(***************************************************************************)
Tiling(S, b) ==
  /\ heap_head \in S /\ S \subseteq Addrs
  /\ \A a \in S :
       /\ b[a].next \in S \cup {Null}
       /\ a + HEADER + b[a].size = IF b[a].next = Null THEN ArenaSize ELSE b[a].next
  /\ \A a \in S \ {heap_head} : \E p \in S : b[p].next = a

OneInside == \A c, d \in Clients : pc[c] # "run" /\ pc[d] # "run" => c = d

(* A region is the payload of a block in use, of one region each. *)
RegionsAreBlocks ==
  /\ regions \in [Clients -> SUBSET [at : 0 .. ArenaSize, len : 0 .. ArenaSize]]
  /\ \A c \in Clients : \A r \in regions[c] :
       /\ r.at - HEADER \in InList
       /\ ~ block[r.at - HEADER].is_free
       /\ r.len <= block[r.at - HEADER].size
  /\ \A c, d \in Clients : \A r \in regions[c], s \in regions[d] :
       r.at = s.at => c = d /\ r = s
  /\ \A a \in InList :
       block[a].is_free \/ \E c \in Clients : \E r \in regions[c] : r.at = a + HEADER

(* A search has passed what does not fit; a merge leaves no two free blocks *)
(* next to each other behind it.                                            *)
WalksOn ==
  /\ \A c \in Clients :
       /\ pc[c] = "search" =>
            /\ current[c] \in InList \cup {Null}
            /\ \A a \in InList :
                 current[c] = Null \/ a < current[c] => ~ Fits(block[a], want[c])
       /\ pc[c] = "found" => current[c] \in InList /\ Fits(block[current[c]], want[c])
       /\ pc[c] = "merge" => current[c] \in InList
  /\ \A a \in InList :
       block[a].next # Null /\ block[a].is_free /\ block[block[a].next].is_free =>
         \E c \in Clients : pc[c] = "merge" /\ current[c] <= a

HeapInv ==
  /\ HeapTypeOK
  /\ Tiling(InList, block)
  /\ OneInside
  /\ RegionsAreBlocks
  /\ WalksOn
=============================================================================

----------------------------- MODULE KernelHeap -----------------------------
(***************************************************************************)
(* Memory/heap.c: the linked-list allocator behind kmalloc/kfree and, over *)
(* a second Heap and without clearing the payload, umalloc/ufree.          *)
(*                                                                         *)
(* The list lives inside the heap: every block starts with a HeapBlock     *)
(* header.  Addresses are byte offsets from heap.start.  hdr maps the      *)
(* address of every block of the list to its header; live records what     *)
(* callers hold, since kfree trusts them to pass back only such pointers.  *)
(***************************************************************************)
EXTENDS Integers, FiniteSets

CONSTANTS HEAP_SIZE,   \* heap.size
          REQUESTS     \* sizes that callers ask for

HEAP_BLOCK_HEADER_SIZE == 12
ALIGN_SIZE == 16
FREE == 1
OCCUPIED == 0

\* HEAP_PHYSICAL_START .. END and USER_HEAP_START .. END are page aligned.
ASSUME HeapAssumption ==
  /\ HEAP_SIZE \in Nat \ {0}
  /\ HEAP_SIZE % ALIGN_SIZE = 0

\* No caller asks for a size near 2^32, so alignUpBlock does not wrap.
ASSUME RequestAssumption == REQUESTS \subseteq Nat

VARIABLES hdr,    \* block address |-> [size, free, next]
          live    \* outstanding pointer |-> size its caller asked for

vars == <<hdr, live>>

NULL == -1       \* address 0 in the code, which is outside the heap

Blocks == DOMAIN hdr

Init ==
  /\ hdr = [b \in {0} |-> [size |-> HEAP_SIZE, free |-> FREE, next |-> NULL]]
  /\ live = [p \in {} |-> 0]

\* Mutant: rounds down.
alignUpBlock_Down(size) == (size \div ALIGN_SIZE) * ALIGN_SIZE

alignUpBlock(size) == ((size + ALIGN_SIZE - 1) \div ALIGN_SIZE) * ALIGN_SIZE

\* findFreeBlock stops at the first block that is free and large enough; the
\* list is in address order (Tiled below).
Fits(b, size) == hdr[b].free = FREE /\ hdr[b].size >= size

\* Mutant: best fit instead of first fit.
findFreeBlock_Best(size) ==
  {b \in Blocks : Fits(b, size) /\
     \A c \in Blocks : Fits(c, size) => hdr[b].size <= hdr[c].size}

\* Mutant: the free flag is not looked at.
findFreeBlock_Any(size) ==
  {b \in Blocks : hdr[b].size >= size /\
     \A c \in Blocks : hdr[c].size >= size => b <= c}

findFreeBlock(size) ==
  {b \in Blocks : Fits(b, size) /\ \A c \in Blocks : Fits(c, size) => b <= c}

\* Mutant: splits whenever the block is large enough, even with nothing left.
splitBlock_Greedy(b, size) ==
  [c \in Blocks \cup {b + size} |->
     CASE c = b        -> [hdr[b] EXCEPT !.size = size, !.next = b + size]
       [] c = b + size -> [size |-> hdr[b].size - size,
                           free |-> FREE,
                           next |-> hdr[b].next]
       [] OTHER        -> hdr[c]]

\* The list after block b is cut down to size, its tail becoming a free block
\* when it can hold a header and a minimal payload.
splitBlock(b, size) ==
  IF hdr[b].size >= size + HEAP_BLOCK_HEADER_SIZE + ALIGN_SIZE
  THEN [c \in Blocks \cup {b + size} |->
          CASE c = b        -> [hdr[b] EXCEPT !.size = size, !.next = b + size]
            [] c = b + size -> [size |-> hdr[b].size - size,
                                free |-> FREE,
                                next |-> hdr[b].next]
            [] OTHER        -> hdr[c]]
  ELSE hdr

\* mergeBlocks walks the list once and folds every free block into the free
\* block before it: the first block of each run of free blocks survives.
Absorbed(h, b) ==
  h[b].free = FREE /\ \E a \in DOMAIN h : h[a].free = FREE /\ h[a].next = b

EndsRun(h, a, z) ==
  /\ a <= z
  /\ \A b \in DOMAIN h : a <= b /\ b <= z => h[b].free = FREE
  /\ h[z].next # NULL => h[h[z].next].free # FREE

lastOfRun(h, a) == CHOOSE z \in DOMAIN h : EndsRun(h, a, z)

\* Mutant: kfree without the walk.
mergeBlocks_Skipped(h) == h

mergeBlocks(h) ==
  [a \in {b \in DOMAIN h : ~ Absorbed(h, b)} |->
     IF h[a].free = FREE
     THEN LET z == lastOfRun(h, a)
          IN  [size |-> z + h[z].size - a, free |-> FREE, next |-> h[z].next]
     ELSE h[a]]

-----------------------------------------------------------------------------
(* The loops of heap.c turn by turn.  No list is longer than MAX_BLOCKS.   *)

MAX_BLOCKS == HEAP_SIZE \div ALIGN_SIZE

\* findFreeBlock goes on from block b.
LookOn(b, size) == IF b = NULL \/ Fits(b, size) THEN b ELSE hdr[b].next

findFreeBlockLoop(size) ==
  LET current[n \in 0 .. MAX_BLOCKS] ==
        IF n = 0 THEN 0 ELSE LookOn(current[n - 1], size)
  IN  current[MAX_BLOCKS]

\* One turn of mergeBlocks, over the list w.list at the block w.current: it takes
\* in the next block, or goes on to it.
MergeTurn(w) ==
  LET l == w.list
      b == w.current
      n == l[b].next
  IN  IF n = NULL THEN w
      ELSE IF l[b].free = FREE /\ l[n].free = FREE
      THEN [list    |-> [c \in DOMAIN l \ {n} |->
                           IF c # b THEN l[c]
                           ELSE [size |-> l[b].size + l[n].size, free |-> FREE, next |-> l[n].next]],
            current |-> b]
      ELSE [list |-> l, current |-> n]

mergeBlocksLoop(h) ==
  LET after[n \in 0 .. MAX_BLOCKS] ==
        IF n = 0 THEN [list |-> h, current |-> 0] ELSE MergeTurn(after[n - 1])
  IN  after[MAX_BLOCKS]

-----------------------------------------------------------------------------
(* The calls.                                                              *)

\* kmalloc and umalloc: first fit, split, mark occupied.
Malloc(n) ==
  LET totalSize == alignUpBlock(n + HEAP_BLOCK_HEADER_SIZE)
  IN  /\ n > 0
      /\ \E b \in findFreeBlock(totalSize) :
           LET ptr == b + HEAP_BLOCK_HEADER_SIZE
           IN  /\ hdr' = [splitBlock(b, totalSize) EXCEPT ![b].free = OCCUPIED]
               /\ live' = [p \in DOMAIN live \cup {ptr} |->
                             IF p = ptr THEN n ELSE live[p]]

\* The calls that return NULL: size 0, or no block that fits.
MallocFails(n) ==
  /\ n = 0 \/ findFreeBlock(alignUpBlock(n + HEAP_BLOCK_HEADER_SIZE)) = {}
  /\ UNCHANGED vars

\* kfree and ufree of a pointer the caller holds.
Free(ptr) ==
  /\ hdr' = mergeBlocks([hdr EXCEPT ![ptr - HEAP_BLOCK_HEADER_SIZE].free = FREE])
  /\ live' = [p \in DOMAIN live \ {ptr} |-> live[p]]

Next ==
  \/ \E n \in REQUESTS : Malloc(n)
  \/ \E n \in REQUESTS : MallocFails(n)
  \/ \E ptr \in DOMAIN live : Free(ptr)

Spec == Init /\ [][Next]_vars

-----------------------------------------------------------------------------
\* Type invariant: every header field has its type and every pointer its size.
TypeOK ==
  /\ Blocks \subseteq 0 .. (HEAP_SIZE - 1)
  /\ hdr \in [Blocks -> [size : Nat, free : {FREE, OCCUPIED}, next : Blocks \cup {NULL}]]
  /\ DOMAIN live \subseteq 0 .. (HEAP_SIZE - 1)
  /\ live \in [DOMAIN live -> Nat \ {0}]

\* The blocks tile the heap in list order: each is aligned, the next one starts
\* exactly where it ends, the last one ends where the heap ends, every block but
\* the first follows another, and no header lies inside another block.
Tiled ==
  /\ 0 \in Blocks
  /\ \A b \in Blocks \ {0} : \E a \in Blocks : hdr[a].next = b
  /\ \A b \in Blocks :
       /\ b % ALIGN_SIZE = 0
       /\ hdr[b].size % ALIGN_SIZE = 0
       /\ hdr[b].size >= ALIGN_SIZE
       /\ b + hdr[b].size <= HEAP_SIZE
       /\ hdr[b].next = IF b + hdr[b].size = HEAP_SIZE
                        THEN NULL ELSE b + hdr[b].size
  /\ \A b, c \in Blocks : b < c => b + hdr[b].size <= c

\* No free block is followed by a free block: kfree coalesces, and splitBlock
\* leaves no two free neighbours.  So a request fails only when no contiguous
\* free space can serve it (kernel.c: "Merge adjacent free blocks").
Coalesced ==
  \A b \in Blocks : hdr[b].free = FREE /\ hdr[b].next # NULL => hdr[hdr[b].next].free # FREE

\* The occupied blocks are exactly those behind the outstanding pointers, and
\* each is large enough: no caller's bytes reach the next header.
LiveBacked ==
  /\ \A p \in DOMAIN live :
       /\ p - HEAP_BLOCK_HEADER_SIZE \in Blocks
       /\ hdr[p - HEAP_BLOCK_HEADER_SIZE].free # FREE
       /\ live[p] + HEAP_BLOCK_HEADER_SIZE <= hdr[p - HEAP_BLOCK_HEADER_SIZE].size
  /\ \A b \in Blocks : hdr[b].free # FREE => b + HEAP_BLOCK_HEADER_SIZE \in DOMAIN live

\* The list is sound after every call of kmalloc and kfree: it tiles the heap,
\* is coalesced, and backs every outstanding pointer.
WellFormed == Tiled /\ Coalesced /\ LiveBacked

\* Nothing is lost to fragmentation for good: once every pointer is freed the
\* heap is again the single free block that initKernelHeap made.
AllFreedIsWhole ==
  DOMAIN live = {} =>
    hdr = [b \in {0} |-> [size |-> HEAP_SIZE, free |-> FREE, next |-> NULL]]

\* The loops of heap.c end, after at most one turn for each block there can be,
\* and compute what the definitions above say, in every reachable list:
\* findFreeBlock for every size, and mergeBlocks whatever subset of the blocks is
\* freed, so also when long runs are free at once.
WalksAgree ==
  /\ \A size \in 1 .. HEAP_SIZE + 1 :
       findFreeBlock(size) = {findFreeBlockLoop(size)} \ {NULL}
  /\ \A freed \in SUBSET Blocks :
       LET h == [b \in Blocks |-> [hdr[b] EXCEPT !.free = IF b \in freed THEN FREE ELSE @]]
           w == mergeBlocksLoop(h)
       IN  w.list = mergeBlocks(h) /\ w.list[w.current].next = NULL

\* The allocator implements its contract: kmalloc hands out only bytes that no
\* other caller holds, and kfree takes back exactly the caller's range.
Contract == INSTANCE Allocator
Implements == Contract!Spec
=============================================================================

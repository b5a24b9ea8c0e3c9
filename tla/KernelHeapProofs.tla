-------------------------- MODULE KernelHeapProofs --------------------------
(***************************************************************************)
(* The heap list stays well formed, and the allocator implements its       *)
(* contract, for every heap size and every set of request sizes.           *)
(***************************************************************************)
EXTENDS KernelHeap, WellFoundedInduction, TLAPS

USE DEF FREE, OCCUPIED

\* The inductive invariant: the types and the shape of the list.
IInv == TypeOK /\ WellFormed

\* alignUpBlock rounds a request up to a multiple of ALIGN_SIZE.
LEMMA AlignUp ==
  ASSUME NEW n \in Nat, n > 0
  PROVE  /\ alignUpBlock(n) \in Nat
         /\ alignUpBlock(n) % ALIGN_SIZE = 0
         /\ alignUpBlock(n) >= n
         /\ alignUpBlock(n) >= ALIGN_SIZE
  BY DEF alignUpBlock, ALIGN_SIZE

-----------------------------------------------------------------------------
\* The initial list is one free block.
LEMMA InitInv == Init => IInv
  <1> SUFFICES ASSUME Init PROVE IInv
    OBVIOUS
  <1>1. /\ HEAP_SIZE \in Nat /\ HEAP_SIZE >= 16 /\ HEAP_SIZE % 16 = 0
    BY HeapAssumption DEF ALIGN_SIZE
  <1>2. /\ Blocks = {0} /\ DOMAIN live = {}
        /\ hdr[0] = [size |-> HEAP_SIZE, free |-> FREE, next |-> NULL]
    BY DEF Init, Blocks
  <1>3. TypeOK
    BY <1>1, <1>2 DEF TypeOK, Init, Blocks, NULL
  <1>4. WellFormed
    BY <1>1, <1>2 DEF WellFormed, Tiled, Coalesced, LiveBacked, ALIGN_SIZE, NULL
  <1> QED
    BY <1>3, <1>4 DEF IInv

\* A successful kmalloc keeps the list well formed.
LEMMA MallocInv ==
  ASSUME IInv, NEW n \in REQUESTS, Malloc(n)
  PROVE  IInv'
  <1> DEFINE total == alignUpBlock(n + HEAP_BLOCK_HEADER_SIZE)
  <1>1. n \in Nat /\ n > 0
    BY RequestAssumption DEF Malloc
  <1>2. /\ total \in Nat /\ total % 16 = 0
        /\ total >= n + 12 /\ total >= 16
    BY <1>1, AlignUp DEF HEAP_BLOCK_HEADER_SIZE, ALIGN_SIZE
  <1>3. PICK b \in findFreeBlock(total) :
          /\ hdr' = [splitBlock(b, total) EXCEPT ![b].free = OCCUPIED]
          /\ live' = [p \in DOMAIN live \cup {b + 12} |-> IF p = b + 12 THEN n ELSE live[p]]
    BY DEF Malloc, HEAP_BLOCK_HEADER_SIZE
  <1>4. b \in Blocks /\ hdr[b].free = FREE /\ hdr[b].size >= total
    BY <1>3 DEF findFreeBlock, Fits
  <1>5. b \in Nat /\ hdr[b].size \in Nat /\ HEAP_SIZE \in Nat /\ b + hdr[b].size <= HEAP_SIZE
    BY <1>4, HeapAssumption DEF IInv, TypeOK, WellFormed, Tiled
  <1> HIDE DEF total
  <1>6. live' \in [DOMAIN live' -> Nat \ {0}] /\ DOMAIN live' = DOMAIN live \cup {b + 12}
    BY <1>1, <1>3 DEF IInv, TypeOK
  <1>7. DOMAIN live' \subseteq 0 .. (HEAP_SIZE - 1)
    BY <1>6, <1>2, <1>4, <1>5 DEF IInv, TypeOK
  <1>8. CASE hdr[b].size >= total + 28
    <2> DEFINE t == b + total
    <2>1. splitBlock(b, total) =
            [c \in Blocks \cup {t} |->
               CASE c = b -> [hdr[b] EXCEPT !.size = total, !.next = t]
                 [] c = t -> [size |-> hdr[b].size - total, free |-> FREE, next |-> hdr[b].next]
                 [] OTHER -> hdr[c]]
      BY <1>2, <1>5, <1>8 DEF splitBlock, HEAP_BLOCK_HEADER_SIZE, ALIGN_SIZE
    <2>2. t \notin Blocks /\ t # b
      BY <1>2, <1>4, <1>5, <1>8 DEF IInv, TypeOK, WellFormed, Tiled
    <2>3. /\ Blocks' = Blocks \cup {t}
          /\ hdr' = [c \in Blocks' |-> hdr'[c]]
          /\ hdr'[b] = [size |-> total, free |-> OCCUPIED, next |-> t]
          /\ hdr'[t] = [size |-> hdr[b].size - total, free |-> FREE, next |-> hdr[b].next]
          /\ \A c \in Blocks : c # b => hdr'[c] = hdr[c]
      <3> DEFINE f == splitBlock(b, total)
      <3>1. hdr[b] = [size |-> hdr[b].size, free |-> hdr[b].free, next |-> hdr[b].next]
        BY <1>4 DEF IInv, TypeOK
      <3>2. /\ DOMAIN f = Blocks \cup {t}
            /\ f[b] = [size |-> total, free |-> hdr[b].free, next |-> t]
            /\ f[t] = [size |-> hdr[b].size - total, free |-> FREE, next |-> hdr[b].next]
            /\ \A c \in Blocks : c # b => f[c] = hdr[c]
        BY <2>1, <2>2, <1>4, <3>1
      <3>3. hdr' = [f EXCEPT ![b] = [f[b] EXCEPT !.free = OCCUPIED]]
        BY <1>3
      <3> HIDE DEF f
      <3>4. /\ DOMAIN hdr' = DOMAIN f
            /\ hdr' = [c \in DOMAIN f |-> hdr'[c]]
            /\ hdr'[b] = [f[b] EXCEPT !.free = OCCUPIED]
            /\ \A c \in DOMAIN f : c # b => hdr'[c] = f[c]
        BY <3>2, <3>3, <1>4
      <3>5. [f[b] EXCEPT !.free = OCCUPIED] = [size |-> total, free |-> OCCUPIED, next |-> t]
        <4>1. f[b] = [size |-> total, free |-> hdr[b].free, next |-> t]
          BY <3>2
        <4>2. [[size |-> total, free |-> hdr[b].free, next |-> t] EXCEPT !.free = OCCUPIED]
                = [size |-> total, free |-> OCCUPIED, next |-> t]
          OBVIOUS
        <4> QED
          BY <4>1, <4>2, Zenon
      <3> QED
        BY <3>2, <3>4, <3>5, <2>2, <1>4 DEF Blocks
    <2> HIDE DEF t
    <2>5. t \in Nat /\ t = b + total
      BY <1>2, <1>5 DEF t
    <2>6. TypeOK'
      <3>1. Blocks' \subseteq 0 .. (HEAP_SIZE - 1)
        BY <2>3, <2>5, <1>2, <1>4, <1>5, <1>8 DEF IInv, TypeOK
      <3>2. hdr' \in [Blocks' -> [size : Nat, free : {FREE, OCCUPIED}, next : Blocks' \cup {NULL}]]
        <4>1. \A c \in Blocks' : hdr'[c] \in [size : Nat, free : {FREE, OCCUPIED}, next : Blocks' \cup {NULL}]
          <5>1. ASSUME NEW c \in Blocks
                PROVE  hdr[c] \in [size : Nat, free : {FREE, OCCUPIED}, next : Blocks' \cup {NULL}]
            <6>1. hdr[c] \in [size : Nat, free : {FREE, OCCUPIED}, next : Blocks \cup {NULL}]
              BY DEF IInv, TypeOK
            <6> QED
              BY <6>1, <2>3
          <5>2. [size |-> total, free |-> OCCUPIED, next |-> t]
                  \in [size : Nat, free : {FREE, OCCUPIED}, next : Blocks' \cup {NULL}]
            BY <2>3, <1>2
          <5>3. [size |-> hdr[b].size - total, free |-> FREE, next |-> hdr[b].next]
                  \in [size : Nat, free : {FREE, OCCUPIED}, next : Blocks' \cup {NULL}]
            BY <5>1, <1>2, <1>4, <1>5, <1>8
          <5> QED
            BY <5>1, <5>2, <5>3, <2>3
        <4> QED
          BY <4>1, <2>3
      <3> QED
        BY <3>1, <3>2, <1>6, <1>7 DEF TypeOK
    <2>7. Tiled'
      <3>1. b % 16 = 0 /\ hdr[b].size % 16 = 0
        BY <1>4 DEF IInv, WellFormed, Tiled, ALIGN_SIZE
      <3>2. t % 16 = 0 /\ (hdr[b].size - total) % 16 = 0
        BY <3>1, <1>2, <1>5, <2>5
      <3>3. 0 \in Blocks'
        BY <2>3 DEF IInv, WellFormed, Tiled
      <3>4. \A c \in Blocks' \ {0} : \E a \in Blocks' : hdr'[a].next = c
        <4> SUFFICES ASSUME NEW c \in Blocks', c # 0
                     PROVE  \E a \in Blocks' : hdr'[a].next = c
          OBVIOUS
        <4>1. CASE c = t
          BY <4>1, <2>3, <1>4
        <4>2. CASE c # t
          <5>1. PICK a \in Blocks : hdr[a].next = c
            BY <4>2, <2>3 DEF IInv, WellFormed, Tiled
          <5>2. hdr'[IF a = b THEN t ELSE a].next = c
            BY <5>1, <2>3
          <5> QED
            BY <5>2, <5>1, <2>3
        <4> QED
          BY <4>1, <4>2
      <3>5. ASSUME NEW c \in Blocks'
            PROVE  /\ c % 16 = 0
                   /\ hdr'[c].size % 16 = 0
                   /\ hdr'[c].size >= 16
                   /\ c + hdr'[c].size <= HEAP_SIZE
                   /\ hdr'[c].next = IF c + hdr'[c].size = HEAP_SIZE
                                     THEN NULL ELSE c + hdr'[c].size
        <4>1. CASE c = b
          BY <4>1, <3>1, <2>3, <2>5, <1>2, <1>5, <1>8
        <4>2. CASE c = t
          <5>1. t + hdr'[t].size = b + hdr[b].size
            BY <2>3, <2>5, <1>2, <1>5
          <5> QED
            BY <5>1, <4>2, <3>2, <2>3, <2>5, <1>2, <1>4, <1>5, <1>8 DEF IInv, WellFormed, Tiled
        <4>3. CASE c # b /\ c # t
          BY <4>3, <2>3 DEF IInv, WellFormed, Tiled, ALIGN_SIZE
        <4> QED
          BY <4>1, <4>2, <4>3
      <3>6. ASSUME NEW c \in Blocks', NEW d \in Blocks', c < d
            PROVE  c + hdr'[c].size <= d
        <4>1. c \in Nat /\ d \in Nat
          BY <2>3, <2>5 DEF IInv, TypeOK
        <4>2. \A e \in Blocks : /\ e < b => e + hdr[e].size <= b
                                /\ b < e => b + hdr[b].size <= e
          BY <1>4 DEF IInv, WellFormed, Tiled
        <4>3. \A e \in Blocks : e \in Nat /\ hdr[e].size \in Nat
          BY DEF IInv, TypeOK
        <4>4. CASE c \in Blocks /\ d \in Blocks
          <5>1. c + hdr[c].size <= d
            BY <4>4, <3>6 DEF IInv, WellFormed, Tiled
          <5> QED
            BY <5>1, <4>1, <4>3, <4>4, <2>3, <1>2, <1>4, <1>5, <1>8
        <4>5. CASE c = t /\ d \in Blocks
          BY <4>1, <4>2, <4>3, <4>5, <3>6, <2>3, <2>5, <1>2, <1>5, <1>8
        <4>6. CASE c \in Blocks /\ d = t
          BY <4>1, <4>2, <4>3, <4>6, <3>6, <2>3, <2>5, <1>2, <1>5, <1>8
        <4> QED
          BY <4>4, <4>5, <4>6, <3>6, <4>1, <2>3
      <3> QED
        BY <3>3, <3>4, <3>5, <3>6 DEF Tiled, ALIGN_SIZE
    <2>8. Coalesced'
      <3> SUFFICES ASSUME NEW c \in Blocks', hdr'[c].free = FREE, hdr'[c].next # NULL
                   PROVE  hdr'[hdr'[c].next].free # FREE
        BY DEF Coalesced
      <3>1. c # b
        BY <2>3
      <3>2. CASE c = t
        <4>1. hdr[b].next \in Blocks /\ hdr[hdr[b].next].free # FREE
          BY <3>2, <2>3, <1>4 DEF IInv, TypeOK, WellFormed, Coalesced
        <4> QED
          BY <4>1, <3>2, <2>3, <1>4
      <3>3. CASE c # t
        <4>1. c \in Blocks /\ hdr'[c] = hdr[c]
          BY <3>1, <3>3, <2>3
        <4>2. hdr[c].next \in Blocks /\ hdr[hdr[c].next].free # FREE
          BY <4>1 DEF IInv, TypeOK, WellFormed, Coalesced
        <4> QED
          BY <4>1, <4>2, <2>3
      <3> QED
        BY <3>2, <3>3
    <2>9. LiveBacked'
      <3>1. ASSUME NEW p \in DOMAIN live'
            PROVE  /\ p - 12 \in Blocks'
                   /\ hdr'[p - 12].free # FREE
                   /\ live'[p] + 12 <= hdr'[p - 12].size
        <4>1. CASE p = b + 12
          BY <4>1, <2>3, <1>1, <1>2, <1>3, <1>4, <1>5
        <4>2. CASE p # b + 12
          <5>1. p \in DOMAIN live /\ live'[p] = live[p] /\ p \in Int
            BY <4>2, <1>3 DEF IInv, TypeOK
          <5>2. p - 12 \in Blocks /\ p - 12 # b
            BY <5>1, <4>2, <1>5 DEF IInv, WellFormed, LiveBacked, HEAP_BLOCK_HEADER_SIZE
          <5> QED
            BY <5>1, <5>2, <2>3 DEF IInv, WellFormed, LiveBacked, HEAP_BLOCK_HEADER_SIZE
        <4> QED
          BY <4>1, <4>2
      <3>2. ASSUME NEW c \in Blocks', hdr'[c].free # FREE
            PROVE  c + 12 \in DOMAIN live'
        BY <3>2, <2>3, <1>6 DEF IInv, WellFormed, LiveBacked, HEAP_BLOCK_HEADER_SIZE
      <3> QED
        BY <3>1, <3>2 DEF LiveBacked, HEAP_BLOCK_HEADER_SIZE
    <2> QED
      BY <2>6, <2>7, <2>8, <2>9 DEF IInv, WellFormed
  <1>9. CASE ~ (hdr[b].size >= total + 28)
    <2>1. hdr' = [hdr EXCEPT ![b].free = OCCUPIED]
      <3>1. ~ (hdr[b].size >= total + HEAP_BLOCK_HEADER_SIZE + ALIGN_SIZE)
        BY <1>2, <1>5, <1>9 DEF HEAP_BLOCK_HEADER_SIZE, ALIGN_SIZE
      <3>2. splitBlock(b, total) = hdr
        BY <3>1 DEF splitBlock
      <3> QED
        BY <3>2, <1>3
    <2>2. Blocks' = Blocks
      BY <2>1 DEF Blocks
    <2>3. /\ hdr'[b] = [size |-> hdr[b].size, free |-> OCCUPIED, next |-> hdr[b].next]
          /\ \A c \in Blocks : /\ c # b => hdr'[c] = hdr[c]
                               /\ hdr'[c].size = hdr[c].size /\ hdr'[c].next = hdr[c].next
      BY <2>1, <1>4 DEF IInv, TypeOK, Blocks
    <2>4. TypeOK'
      <3>1. hdr' \in [Blocks' -> [size : Nat, free : {FREE, OCCUPIED}, next : Blocks' \cup {NULL}]]
        <4>1. \A c \in Blocks : hdr'[c] \in [size : Nat, free : {FREE, OCCUPIED}, next : Blocks \cup {NULL}]
          <5>1. ASSUME NEW c \in Blocks
                PROVE  hdr[c] \in [size : Nat, free : {FREE, OCCUPIED}, next : Blocks \cup {NULL}]
            BY DEF IInv, TypeOK
          <5>2. [size |-> hdr[b].size, free |-> OCCUPIED, next |-> hdr[b].next]
                  \in [size : Nat, free : {FREE, OCCUPIED}, next : Blocks \cup {NULL}]
            BY <5>1, <1>4
          <5> QED
            BY <5>1, <5>2, <2>3
        <4>2. hdr' = [c \in Blocks |-> hdr'[c]]
          BY <2>1 DEF IInv, TypeOK, Blocks
        <4> QED
          BY <4>1, <4>2, <2>2
      <3> QED
        BY <3>1, <2>2, <1>6, <1>7 DEF IInv, TypeOK
    <2>5. Tiled'
      BY <2>2, <2>3 DEF IInv, WellFormed, Tiled
    <2>6. Coalesced'
      <3> SUFFICES ASSUME NEW c \in Blocks', hdr'[c].free = FREE, hdr'[c].next # NULL
                   PROVE  hdr'[hdr'[c].next].free # FREE
        BY DEF Coalesced
      <3>1. c \in Blocks /\ hdr'[c] = hdr[c]
        BY <2>2, <2>3
      <3>2. hdr[c].next \in Blocks /\ hdr[hdr[c].next].free # FREE
        BY <3>1 DEF IInv, TypeOK, WellFormed, Coalesced
      <3> QED
        BY <3>1, <3>2, <2>3
    <2>7. LiveBacked'
      <3>1. ASSUME NEW p \in DOMAIN live'
            PROVE  /\ p - 12 \in Blocks'
                   /\ hdr'[p - 12].free # FREE
                   /\ live'[p] + 12 <= hdr'[p - 12].size
        <4>1. CASE p = b + 12
          BY <4>1, <2>2, <2>3, <1>1, <1>2, <1>3, <1>4, <1>5
        <4>2. CASE p # b + 12
          BY <4>2, <2>2, <2>3, <1>3 DEF IInv, WellFormed, LiveBacked, HEAP_BLOCK_HEADER_SIZE
        <4> QED
          BY <4>1, <4>2
      <3>2. ASSUME NEW c \in Blocks', hdr'[c].free # FREE
            PROVE  c + 12 \in DOMAIN live'
        BY <3>2, <2>2, <2>3, <1>6 DEF IInv, WellFormed, LiveBacked, HEAP_BLOCK_HEADER_SIZE
      <3> QED
        BY <3>1, <3>2 DEF LiveBacked, HEAP_BLOCK_HEADER_SIZE
    <2> QED
      BY <2>4, <2>5, <2>6, <2>7 DEF IInv, WellFormed
  <1> QED
    BY <1>8, <1>9

-----------------------------------------------------------------------------
\* In a tiled list, a block that lies before another ends where it starts or
\* earlier, and the block before a given one is unique.
LEMMA TiledOrder ==
  ASSUME TypeOK, Tiled
  PROVE  /\ \A a, b \in Blocks : hdr[a].next = b =>
              a < b /\ a + hdr[a].size = b
         /\ \A a, b, c \in Blocks : hdr[a].next = c /\ hdr[b].next = c => a = b
         /\ \A a, b \in Blocks : a < b => hdr[a].next \in Blocks /\ hdr[a].next <= b
  <1>1. \A a \in Blocks : a \in Nat /\ hdr[a].size \in Nat /\ hdr[a].size >= 16
    BY DEF TypeOK, Tiled, ALIGN_SIZE
  <1>2. ASSUME NEW a \in Blocks, NEW b \in Blocks, hdr[a].next = b
        PROVE  a < b /\ a + hdr[a].size = b
    BY <1>1, <1>2 DEF Tiled, NULL
  <1>3. ASSUME NEW a \in Blocks, NEW b \in Blocks, a < b
        PROVE  hdr[a].next \in Blocks /\ hdr[a].next <= b
    <2>1. a + hdr[a].size <= b
      BY <1>3 DEF Tiled
    <2>2. b < HEAP_SIZE /\ HEAP_SIZE \in Nat
      BY HeapAssumption DEF TypeOK
    <2>3. hdr[a].next = a + hdr[a].size
      BY <1>1, <2>1, <2>2 DEF Tiled
    <2>4. hdr[a].next \in Blocks \cup {NULL}
      BY DEF TypeOK
    <2> QED
      BY <1>1, <2>1, <2>3, <2>4 DEF NULL
  <1>4. ASSUME NEW a \in Blocks, NEW b \in Blocks, NEW c \in Blocks,
               hdr[a].next = c, hdr[b].next = c
        PROVE  a = b
    <2>1. a + hdr[a].size = c /\ b + hdr[b].size = c
      BY <1>2, <1>4
    <2>2. CASE a < b
      BY <2>1, <2>2, <1>1 DEF Tiled
    <2>3. CASE b < a
      BY <2>1, <2>3, <1>1 DEF Tiled
    <2> QED
      BY <2>2, <2>3, <1>1
  <1> QED
    BY <1>2, <1>3, <1>4

\* A successful kfree keeps the list well formed: mergeBlocks folds the freed
\* block into its free neighbours, of which there are at most two.
LEMMA FreeInv ==
  ASSUME IInv, NEW ptr \in DOMAIN live, Free(ptr)
  PROVE  IInv'
  <1> DEFINE f == ptr - 12
             h == [hdr EXCEPT ![f].free = FREE]
             Nx(a) == h[a].next
             Fr(a) == h[a].free = FREE
  <1>1. hdr' = mergeBlocks(h)
    BY DEF Free, HEAP_BLOCK_HEADER_SIZE
  <1>2. live' = [p \in DOMAIN live \ {ptr} |-> live[p]]
    BY DEF Free
  <1>3. f \in Blocks /\ hdr[f].free # FREE /\ ptr \in Int
    BY DEF IInv, TypeOK, WellFormed, LiveBacked, HEAP_BLOCK_HEADER_SIZE
  <1>4. /\ DOMAIN h = Blocks
        /\ Fr(f) = TRUE
        /\ \A a \in Blocks : /\ h[a].size = hdr[a].size
                             /\ Nx(a) = hdr[a].next
                             /\ a # f => h[a] = hdr[a]
    BY <1>3 DEF IInv, TypeOK, Blocks
  <1>5. \A a \in Blocks : /\ a \in Nat /\ a < HEAP_SIZE
                          /\ hdr[a].size \in Nat /\ hdr[a].size >= 16
                          /\ hdr[a].next \in Blocks \cup {NULL}
    <2>1. HEAP_SIZE \in Nat
      BY HeapAssumption
    <2>2. \A a \in Blocks : a \in Nat /\ a < HEAP_SIZE
      BY <2>1 DEF IInv, TypeOK
    <2>3. \A a \in Blocks : hdr[a].size \in Nat /\ hdr[a].next \in Blocks \cup {NULL}
      BY DEF IInv, TypeOK
    <2>4. \A a \in Blocks : hdr[a].size >= 16
      BY DEF IInv, WellFormed, Tiled, ALIGN_SIZE
    <2> QED
      BY <2>2, <2>3, <2>4
  <1>6. TypeOK /\ Tiled /\ Coalesced /\ LiveBacked
    BY DEF IInv, WellFormed
  <1>7. /\ \A a, b \in Blocks : hdr[a].next = b => a < b /\ a + hdr[a].size = b
        /\ \A a, b, c \in Blocks : hdr[a].next = c /\ hdr[b].next = c => a = b
        /\ \A a, b \in Blocks : a < b => hdr[a].next \in Blocks /\ hdr[a].next <= b
    BY <1>6, TiledOrder
  <1>8. NULL \notin Blocks
    BY DEF NULL, IInv, TypeOK
  <1> HIDE DEF h, f
  \* Two free neighbours always involve the freed block.
  <1>9. ASSUME NEW a \in Blocks, NEW b \in Blocks, Nx(a) = b, Fr(a), Fr(b)
        PROVE  a = f \/ b = f
    <2> SUFFICES ASSUME a # f, b # f PROVE FALSE
      OBVIOUS
    <2>1. hdr[a].free = FREE /\ hdr[b].free = FREE /\ hdr[a].next = b
      BY <1>4, <1>9
    <2> QED
      BY <2>1, <1>6, <1>8 DEF Coalesced
  \* So every run of free blocks has a last block.
  <1>10. ASSUME NEW a \in Blocks, Fr(a)
         PROVE  \E z \in DOMAIN h : EndsRun(h, a, z)
    <2> DEFINE s == Nx(a)
               r == Nx(s)
    <2>1. CASE s = NULL \/ (s \in Blocks /\ ~ Fr(s))
      <3>1. \A b \in Blocks : a <= b /\ b <= a => b = a
        BY <1>5
      <3> QED
        BY <3>1, <2>1, <1>4, <1>5, <1>10 DEF EndsRun
    <2>2. CASE s \in Blocks /\ Fr(s) /\ (r = NULL \/ (r \in Blocks /\ ~ Fr(r)))
      <3>1. \A b \in Blocks : a <= b /\ b <= s => b = a \/ b = s
        BY <2>2, <1>4, <1>5, <1>7
      <3>2. a <= s
        BY <2>2, <1>4, <1>5, <1>7
      <3> QED
        BY <3>1, <3>2, <2>2, <1>4, <1>10 DEF EndsRun
    <2>3. CASE s \in Blocks /\ Fr(s) /\ r \in Blocks /\ Fr(r)
      <3>1. a < s /\ s < r
        BY <2>3, <1>4, <1>7
      <3>2. \A b \in Blocks : a <= b /\ b <= r => b = a \/ b = s \/ b = r
        BY <2>3, <1>4, <1>5, <1>7
      <3>3. s = f
        BY <1>5, <1>9, <1>10, <2>3, <3>1
      <3>4. Nx(r) # NULL => ~ Fr(Nx(r))
        <4> SUFFICES ASSUME Nx(r) \in Blocks, Fr(Nx(r)) PROVE FALSE
          BY <2>3, <1>4, <1>5
        <4>1. r < Nx(r)
          BY <2>3, <1>4, <1>7
        <4>2. r = f \/ Nx(r) = f
          BY <2>3, <1>9
        <4>3. s \in Nat /\ r \in Nat /\ Nx(r) \in Nat
          BY <2>3, <1>5
        <4> QED
          BY <4>1, <4>2, <4>3, <3>1, <3>3
      <3>5. a <= r
        BY <3>1, <2>3, <1>5
      <3> QED
        BY <3>2, <3>4, <3>5, <2>3, <1>4, <1>10 DEF EndsRun
    <2>4. s \in Blocks \cup {NULL} /\ (s \in Blocks => r \in Blocks \cup {NULL})
      BY <1>4, <1>5
    <2> QED
      BY <2>1, <2>2, <2>3, <2>4, <1>5
  <1> DEFINE z(a) == lastOfRun(h, a)
  <1>11. ASSUME NEW a \in Blocks, Fr(a)
         PROVE  /\ z(a) \in Blocks
                /\ a <= z(a)
                /\ \A b \in Blocks : a <= b /\ b <= z(a) => Fr(b)
                /\ Nx(z(a)) # NULL => Nx(z(a)) \in Blocks /\ ~ Fr(Nx(z(a)))
    <2>1. z(a) \in DOMAIN h /\ EndsRun(h, a, z(a))
      BY <1>10, <1>11 DEF lastOfRun
    <2> QED
      BY <2>1, <1>4, <1>5 DEF EndsRun
  <1> HIDE DEF z
  <1>12. \A b \in Blocks : Absorbed(h, b) <=> Fr(b) /\ \E a \in Blocks : Fr(a) /\ Nx(a) = b
    BY <1>4 DEF Absorbed
  <1>13. /\ Blocks' = {b \in Blocks : ~ Absorbed(h, b)}
         /\ hdr' = [a \in Blocks' |-> hdr'[a]]
         /\ \A a \in Blocks' : Fr(a) =>
              hdr'[a] = [size |-> z(a) + h[z(a)].size - a, free |-> FREE, next |-> Nx(z(a))]
         /\ \A a \in Blocks' : ~ Fr(a) => hdr'[a] = hdr[a]
    <2>1. hdr' = [a \in {b \in Blocks : ~ Absorbed(h, b)} |->
                    IF Fr(a)
                    THEN [size |-> z(a) + h[z(a)].size - a, free |-> FREE, next |-> Nx(z(a))]
                    ELSE h[a]]
      BY <1>1, <1>4 DEF mergeBlocks, z
    <2>2. \A a \in Blocks : ~ Fr(a) => h[a] = hdr[a]
      BY <1>3, <1>4
    <2> QED
      BY <2>1, <2>2 DEF Blocks
  <1>14. \A a \in Blocks' : a \in Blocks
    BY <1>13
  \* A block whose predecessor is occupied, or which is occupied, survives.
  <1>15. \A b \in Blocks : ~ Fr(b) => b \in Blocks'
    BY <1>12, <1>13
  <1>16. ASSUME NEW a \in Blocks, ~ Fr(a), Nx(a) # NULL
         PROVE  Nx(a) \in Blocks'
    <2>1. Nx(a) \in Blocks
      BY <1>4, <1>5, <1>16
    <2>2. ~ \E c \in Blocks : Fr(c) /\ Nx(c) = Nx(a)
      BY <2>1, <1>4, <1>7, <1>16
    <2> QED
      BY <2>1, <2>2, <1>12, <1>13
  <1>17. ASSUME NEW a \in Blocks', Fr(a)
         PROVE  /\ hdr'[a].next = Nx(z(a)) /\ hdr'[a].next \in Blocks' \cup {NULL}
                /\ hdr'[a].size \in Nat
                /\ a + hdr'[a].size = z(a) + h[z(a)].size
                /\ hdr'[a].free = FREE
    <2>1. /\ a \in Nat /\ z(a) \in Nat /\ a <= z(a) /\ h[z(a)].size \in Nat
      BY <1>4, <1>5, <1>11, <1>14, <1>17
    <2>2. Nx(z(a)) \in Blocks' \cup {NULL}
      BY <1>11, <1>14, <1>15, <1>17
    <2> QED
      BY <2>1, <2>2, <1>13, <1>17
  <1>18. TypeOK'
    <2>1. Blocks' \subseteq 0 .. (HEAP_SIZE - 1)
      BY <1>6, <1>14 DEF TypeOK
    <2>2. ASSUME NEW a \in Blocks'
          PROVE  hdr'[a] \in [size : Nat, free : {FREE, OCCUPIED}, next : Blocks' \cup {NULL}]
      <3>1. CASE Fr(a)
        BY <3>1, <1>13, <1>17
      <3>2. CASE ~ Fr(a)
        <4>1. hdr'[a] = hdr[a] /\ hdr[a] \in [size : Nat, free : {FREE, OCCUPIED}, next : Blocks \cup {NULL}]
          BY <3>2, <1>6, <1>13, <1>14 DEF TypeOK
        <4>2. hdr[a].next \in Blocks' \cup {NULL}
          BY <3>2, <1>4, <1>14, <1>16
        <4> QED
          BY <4>1, <4>2
      <3> QED
        BY <3>1, <3>2
    <2>3. hdr' \in [Blocks' -> [size : Nat, free : {FREE, OCCUPIED}, next : Blocks' \cup {NULL}]]
      BY <2>2, <1>13
    <2>4. DOMAIN live' \subseteq 0 .. (HEAP_SIZE - 1) /\ live' \in [DOMAIN live' -> Nat \ {0}]
      BY <1>2, <1>6 DEF TypeOK
    <2> QED
      BY <2>1, <2>3, <2>4 DEF TypeOK
  \* The block before a surviving block, seen from the new list.
  <1>19. ASSUME NEW c \in Blocks', c # 0
         PROVE  \E a \in Blocks' : hdr'[a].next = c
    <2>1. PICK p \in Blocks : Nx(p) = c
      BY <1>4, <1>6, <1>14, <1>19 DEF Tiled
    <2>2. CASE ~ Fr(p)
      BY <2>1, <2>2, <1>4, <1>13, <1>15
    <2>3. CASE Fr(p)
      <3>1. ~ Fr(c)
        BY <2>1, <2>3, <1>12, <1>13, <1>14
      \* Every free block of the run that p ends has p as its last block.
      <3>2. ASSUME NEW a \in Blocks, Fr(a), a <= p, Nx(a) = p \/ a = p
            PROVE  z(a) = p
        <4> SUFFICES ASSUME z(a) # p PROVE FALSE
          OBVIOUS
        <4>1. z(a) \in Blocks /\ a <= z(a) /\ a \in Nat /\ z(a) \in Nat /\ p \in Nat /\ c \in Nat
          BY <1>5, <1>11, <1>14, <3>2
        <4>2. CASE p < z(a)
          <5>1. c <= z(a) /\ a <= c
            BY <4>1, <4>2, <3>2, <2>1, <1>4, <1>7
          <5> QED
            BY <5>1, <3>1, <3>2, <1>11, <1>14
        <4>3. CASE z(a) < p
          <5>1. z(a) = a
            <6> SUFFICES ASSUME a < z(a) PROVE FALSE
              BY <4>1
            <6>1. Nx(a) = p
              BY <4>1, <4>3, <3>2
            <6> QED
              BY <6>1, <4>1, <4>3, <3>2, <1>4, <1>7
          <5>2. Nx(a) = p
            BY <5>1, <4>3, <4>1, <3>2
          <5> QED
            BY <5>1, <5>2, <2>3, <3>2, <1>8, <1>11
        <4> QED
          BY <4>1, <4>2, <4>3
      <3>3. CASE p \in Blocks'
        <4>1. z(p) = p
          BY <3>2, <2>3, <1>5
        <4> QED
          BY <4>1, <3>3, <2>1, <2>3, <1>17
      <3>4. CASE p \notin Blocks'
        <4>1. PICK q \in Blocks : Fr(q) /\ Nx(q) = p
          BY <3>4, <2>3, <1>12, <1>13
        <4>2. q < p /\ z(q) = p
          BY <4>1, <3>2, <1>4, <1>5, <1>7
        <4>3. CASE q \in Blocks'
          BY <4>1, <4>2, <4>3, <2>1, <1>17
        <4>4. CASE q \notin Blocks'
          <5>1. PICK r \in Blocks : Fr(r) /\ Nx(r) = q
            BY <4>4, <4>1, <1>12, <1>13
          <5>2. r < q /\ r < p
            BY <5>1, <4>2, <1>4, <1>5, <1>7
          <5>3. q = f
            BY <5>1, <5>2, <4>1, <4>2, <2>3, <1>5, <1>9
          <5>4. r \in Blocks'
            <6> SUFFICES ASSUME NEW t \in Blocks, Fr(t), Nx(t) = r PROVE FALSE
              BY <5>1, <1>12, <1>13
            <6>1. t < r
              BY <5>1, <1>4, <1>7
            <6>2. t = f \/ r = f
              BY <5>1, <1>9
            <6>3. t \in Nat /\ r \in Nat /\ q \in Nat
              BY <1>5
            <6> QED
              BY <6>1, <6>2, <6>3, <5>2, <5>3
          <5>5. z(r) = p
            <6>1. z(r) \in Blocks /\ r <= z(r) /\ z(r) \in Nat /\ r \in Nat /\ q \in Nat /\ p \in Nat
              BY <5>1, <1>5, <1>11
            <6>2. z(r) # r /\ z(r) # q
              BY <5>1, <4>1, <2>3, <1>8, <1>11
            <6>3. q <= z(r)
              BY <6>1, <6>2, <5>1, <1>4, <1>7
            <6>4. p <= z(r)
              BY <6>1, <6>2, <6>3, <4>1, <1>4, <1>7
            <6>5. ~ (p < z(r))
              <7> SUFFICES ASSUME p < z(r) PROVE FALSE
                OBVIOUS
              <7>1. c <= z(r)
                BY <6>1, <2>1, <1>4, <1>7
              <7>2. r <= c
                <8>1. p < c /\ c \in Nat
                  BY <2>1, <1>4, <1>5, <1>7, <1>14
                <8> QED
                  BY <8>1, <6>1, <5>2
              <7> QED
                BY <7>1, <7>2, <3>1, <5>1, <1>11, <1>14
            <6> QED
              BY <6>1, <6>4, <6>5
          <5> QED
            BY <5>1, <5>4, <5>5, <2>1, <1>17
        <4> QED
          BY <4>3, <4>4
      <3> QED
        BY <3>3, <3>4
    <2> QED
      BY <2>2, <2>3
  <1>20. Tiled'
    <2>1. 0 \in Blocks'
      <3>1. 0 \in Blocks /\ ~ \E a \in Blocks : Nx(a) = 0
        BY <1>4, <1>5, <1>6, <1>7 DEF Tiled
      <3> QED
        BY <3>1, <1>12, <1>13
    <2>2. ASSUME NEW a \in Blocks'
          PROVE  /\ a % 16 = 0
                 /\ hdr'[a].size % 16 = 0
                 /\ hdr'[a].size >= 16
                 /\ a + hdr'[a].size <= HEAP_SIZE
                 /\ hdr'[a].next = IF a + hdr'[a].size = HEAP_SIZE
                                   THEN NULL ELSE a + hdr'[a].size
      <3>1. CASE Fr(a)
        <4>1. /\ z(a) \in Blocks /\ a \in Nat /\ z(a) \in Nat /\ a <= z(a)
              /\ h[z(a)].size \in Nat /\ h[z(a)].size >= 16
          BY <3>1, <1>4, <1>5, <1>11, <1>14
        <4>2. /\ a % 16 = 0 /\ z(a) % 16 = 0 /\ h[z(a)].size % 16 = 0
              /\ z(a) + h[z(a)].size <= HEAP_SIZE
              /\ Nx(z(a)) = IF z(a) + h[z(a)].size = HEAP_SIZE THEN NULL ELSE z(a) + h[z(a)].size
          BY <4>1, <1>4, <1>6, <1>14 DEF Tiled, ALIGN_SIZE
        <4>3. hdr'[a].size = z(a) + h[z(a)].size - a
          BY <3>1, <1>13
        <4>4. hdr'[a].size % 16 = 0 /\ hdr'[a].size >= 16
          <5>1. (z(a) + h[z(a)].size) % 16 = 0
            BY <4>1, <4>2
          <5>2. (z(a) + h[z(a)].size - a) % 16 = 0
            BY <4>1, <4>2, <5>1
          <5> QED
            BY <4>1, <4>3, <5>2
        <4> QED
          BY <4>2, <4>4, <3>1, <1>17
      <3>2. CASE ~ Fr(a)
        BY <3>2, <1>6, <1>13, <1>14 DEF Tiled, ALIGN_SIZE
      <3> QED
        BY <3>1, <3>2
    <2>3. ASSUME NEW a \in Blocks', NEW c \in Blocks', a < c
          PROVE  a + hdr'[a].size <= c
      <3>1. CASE ~ Fr(a)
        BY <3>1, <2>3, <1>6, <1>13, <1>14 DEF Tiled
      <3>2. CASE Fr(a)
        <4>1. z(a) \in Blocks /\ a \in Nat /\ c \in Nat /\ z(a) \in Nat
          BY <3>2, <1>5, <1>11, <1>14
        <4>2. ~ (c <= z(a))
          <5> SUFFICES ASSUME c <= z(a) PROVE FALSE
            OBVIOUS
          <5>1. PICK p \in Blocks : Nx(p) = c
            BY <4>1, <2>3, <1>4, <1>6, <1>14 DEF Tiled
          <5>2. p < c /\ p \in Nat
            BY <5>1, <1>4, <1>5, <1>7, <1>14
          <5>3. a <= p
            BY <5>1, <5>2, <4>1, <2>3, <1>4, <1>5, <1>7, <1>14
          <5>4. Fr(p) /\ Fr(c)
            BY <5>2, <5>3, <4>1, <3>2, <2>3, <1>11, <1>14
          <5> QED
            BY <5>1, <5>4, <1>12, <1>13, <1>14
        <4>3. z(a) + h[z(a)].size <= c
          BY <4>1, <4>2, <1>4, <1>6, <1>14 DEF Tiled
        <4> QED
          BY <4>3, <3>2, <1>17
      <3> QED
        BY <3>1, <3>2
    <2> QED
      BY <2>1, <2>2, <2>3, <1>19 DEF Tiled, ALIGN_SIZE
  <1>21. Coalesced'
    <2> SUFFICES ASSUME NEW a \in Blocks', hdr'[a].free = FREE, hdr'[a].next # NULL
                 PROVE  hdr'[hdr'[a].next].free # FREE
      BY DEF Coalesced
    <2>1. Fr(a)
      BY <1>4, <1>13, <1>14
    <2>2. hdr'[a].next \in Blocks' /\ ~ Fr(hdr'[a].next)
      BY <2>1, <1>11, <1>14, <1>17
    <2> QED
      BY <2>2, <1>3, <1>4, <1>13, <1>14
  <1>22. LiveBacked'
    <2>1. ASSUME NEW p \in DOMAIN live'
          PROVE  /\ p - 12 \in Blocks'
                 /\ hdr'[p - 12].free # FREE
                 /\ live'[p] + 12 <= hdr'[p - 12].size
      <3>1. /\ p \in DOMAIN live /\ p # ptr /\ live'[p] = live[p] /\ p \in Int
            /\ p - 12 \in Blocks /\ hdr[p - 12].free # FREE
            /\ live[p] + 12 <= hdr[p - 12].size
        BY <1>2, <1>6 DEF TypeOK, LiveBacked, HEAP_BLOCK_HEADER_SIZE
      <3>2. p - 12 # f
        BY <3>1, <1>3 DEF f
      <3>3. ~ Fr(p - 12)
        BY <3>1, <3>2, <1>4
      <3> QED
        BY <3>1, <3>3, <1>13, <1>15
    <2>2. ASSUME NEW b \in Blocks', hdr'[b].free # FREE
          PROVE  b + 12 \in DOMAIN live'
      <3>1. ~ Fr(b) /\ b \in Blocks /\ b \in Nat
        BY <2>2, <1>5, <1>13, <1>14
      <3>2. b # f /\ hdr[b].free # FREE
        BY <3>1, <1>4
      <3>3. b + 12 \in DOMAIN live
        BY <3>1, <3>2, <1>6 DEF LiveBacked, HEAP_BLOCK_HEADER_SIZE
      <3>4. b + 12 # ptr
        BY <3>1, <3>2, <1>3 DEF f
      <3> QED
        BY <3>3, <3>4, <1>2
    <2> QED
      BY <2>1, <2>2 DEF LiveBacked, HEAP_BLOCK_HEADER_SIZE
  <1> QED
    BY <1>18, <1>20, <1>21, <1>22 DEF IInv, WellFormed

-----------------------------------------------------------------------------
(* The loops.  Each turn of a loop is at a block that lies ALIGN_SIZE bytes*)
(* further on, so MAX_BLOCKS turns are enough.                             *)

\* MAX_BLOCKS blocks of ALIGN_SIZE bytes are the whole heap.
LEMMA LoopFacts ==
  /\ MAX_BLOCKS \in Nat /\ 16 * MAX_BLOCKS = HEAP_SIZE
  /\ HEAP_SIZE \in Nat
  BY HeapAssumption DEF MAX_BLOCKS, ALIGN_SIZE

\* A set of naturals that is not empty has a least element.
LEMMA FirstIsIn ==
  ASSUME NEW S \in SUBSET Nat, S # {}
  PROVE  \E x \in S : \A y \in S : x <= y
  <1> DEFINE less == OpToRel(<, Nat)
  <1>1. IsWellFoundedOn(less, Nat)
    BY NatLessThanWellFounded
  <1>2. \A x, y \in Nat : x < y <=> <<x, y>> \in less
    BY DEF OpToRel
  <1> HIDE DEF less
  <1>3. PICK x \in S : \A y \in S : <<y, x>> \notin less
    BY <1>1, WFMin
  <1>4. ASSUME NEW y \in S PROVE x <= y
    <2>1. x \in Nat /\ y \in Nat
      OBVIOUS
    <2>2. ~ y < x
      BY <1>2, <1>3, <2>1
    <2> QED
      BY <2>1, <2>2
  <1> QED
    BY <1>4

\* Induction over an interval.
LEMMA Induction ==
  ASSUME NEW n \in Nat, NEW S, 0 \in S, \A k \in 1 .. n : k - 1 \in S => k \in S
  PROVE  0 .. n \subseteq S
  <1> SUFFICES ASSUME (0 .. n) \ S # {} PROVE FALSE
    OBVIOUS
  <1>1. PICK first \in (0 .. n) \ S : \A y \in (0 .. n) \ S : first <= y
    <2> DEFINE T == (0 .. n) \ S
    <2>1. T \in SUBSET Nat /\ T # {}
      OBVIOUS
    <2> HIDE DEF T
    <2>2. \E x \in T : \A y \in T : x <= y
      BY <2>1, FirstIsIn
    <2> QED
      BY <2>2 DEF T
  <1>2. first - 1 \in S /\ first \in 1 .. n
    BY <1>1
  <1> QED
    BY <1>1, <1>2

\* The block findFreeBlock looks at, turn by turn.
LEMMA FindTurns ==
  ASSUME NEW size
  PROVE  \E f : /\ f[0] = 0 /\ findFreeBlockLoop(size) = f[MAX_BLOCKS]
               /\ \A k \in 1 .. MAX_BLOCKS : f[k] = LookOn(f[k - 1], size)
  <1> DEFINE n == MAX_BLOCKS
             x == 0
             Step(v) == LookOn(v, size)
             Is(f) == f = [k \in 0 .. n |-> IF k = 0 THEN x ELSE Step(f[k - 1])]
             current == CHOOSE f : Is(f)
             Upto(k, f) == /\ DOMAIN f = 0 .. k /\ f = [l \in 0 .. k |-> f[l]]
                           /\ \A l \in 0 .. k : f[l] = IF l = 0 THEN x ELSE Step(f[l - 1])
             S == {k \in 0 .. n : \E f : Upto(k, f)}
  <1>1. n \in Nat
    BY LoopFacts
  <1>2. findFreeBlockLoop(size) = current[n]
    BY DEF findFreeBlockLoop
  <1> HIDE DEF n, x, Step
  <1>3. 0 \in S
    <2>1. Upto(0, [l \in 0 .. 0 |-> x])
      OBVIOUS
    <2> HIDE DEF Upto
    <2> QED
      BY <1>1, <2>1
  <1>4. ASSUME NEW k \in 1 .. n, k - 1 \in S PROVE k \in S
    <2>1. PICK f : Upto(k - 1, f)
      BY <1>4
    <2> DEFINE g == [l \in 0 .. k |-> IF l = k THEN Step(f[k - 1]) ELSE f[l]]
    <2>2. DOMAIN g = 0 .. k /\ g = [l \in 0 .. k |-> g[l]]
      OBVIOUS
    <2>3. ASSUME NEW l \in 0 .. k PROVE g[l] = IF l = 0 THEN x ELSE Step(g[l - 1])
      <3>1. CASE l = k
        <4>1. k - 1 \in 0 .. k /\ k - 1 # k /\ g[k - 1] = f[k - 1]
          BY <1>1
        <4> QED
          BY <1>1, <3>1, <4>1
      <3>2. CASE l # k
        <4>1. l \in 0 .. k - 1 /\ g[l] = f[l]
          BY <1>1, <3>2
        <4>2. l # 0 => l - 1 \in 0 .. k - 1 /\ l - 1 # k /\ g[l - 1] = f[l - 1]
          BY <1>1, <4>1
        <4> QED
          BY <2>1, <4>1, <4>2
      <3> QED
        BY <3>1, <3>2
    <2> HIDE DEF g
    <2>4. Upto(k, g)
      BY <2>2, <2>3
    <2> HIDE DEF Upto
    <2> QED
      BY <2>4
  <1>5. n \in S
    <2> HIDE DEF S
    <2>1. 0 .. n \subseteq S
      BY <1>1, <1>3, <1>4, Induction
    <2> QED
      BY <1>1, <2>1
  <1>6. PICK f : Upto(n, f)
    BY <1>5
  <1>7. Is(f)
    BY <1>6
  <1>8. Is(current)
    <2> HIDE DEF Is
    <2> QED
      BY <1>7
  <1> HIDE DEF current
  <1>9. current[0] = x /\ \A k \in 1 .. n : current[k] = Step(current[k - 1])
    BY <1>1, <1>8
  <1> QED
    BY <1>2, <1>9 DEF n, x, Step

\* The list mergeBlocks works on, turn by turn.
LEMMA MergeTurns ==
  ASSUME NEW h
  PROVE  \E f : /\ f[0] = [list |-> h, current |-> 0] /\ mergeBlocksLoop(h) = f[MAX_BLOCKS]
               /\ \A k \in 1 .. MAX_BLOCKS : f[k] = MergeTurn(f[k - 1])
  <1> DEFINE n == MAX_BLOCKS
             x == [list |-> h, current |-> 0]
             Step(v) == MergeTurn(v)
             Is(f) == f = [k \in 0 .. n |-> IF k = 0 THEN x ELSE Step(f[k - 1])]
             after == CHOOSE f : Is(f)
             Upto(k, f) == /\ DOMAIN f = 0 .. k /\ f = [l \in 0 .. k |-> f[l]]
                           /\ \A l \in 0 .. k : f[l] = IF l = 0 THEN x ELSE Step(f[l - 1])
             S == {k \in 0 .. n : \E f : Upto(k, f)}
  <1>1. n \in Nat
    BY LoopFacts
  <1>2. mergeBlocksLoop(h) = after[n]
    BY DEF mergeBlocksLoop
  <1> HIDE DEF n, x, Step
  <1>3. 0 \in S
    <2>1. Upto(0, [l \in 0 .. 0 |-> x])
      OBVIOUS
    <2> HIDE DEF Upto
    <2> QED
      BY <1>1, <2>1
  <1>4. ASSUME NEW k \in 1 .. n, k - 1 \in S PROVE k \in S
    <2>1. PICK f : Upto(k - 1, f)
      BY <1>4
    <2> DEFINE g == [l \in 0 .. k |-> IF l = k THEN Step(f[k - 1]) ELSE f[l]]
    <2>2. DOMAIN g = 0 .. k /\ g = [l \in 0 .. k |-> g[l]]
      OBVIOUS
    <2>3. ASSUME NEW l \in 0 .. k PROVE g[l] = IF l = 0 THEN x ELSE Step(g[l - 1])
      <3>1. CASE l = k
        <4>1. k - 1 \in 0 .. k /\ k - 1 # k /\ g[k - 1] = f[k - 1]
          BY <1>1
        <4> QED
          BY <1>1, <3>1, <4>1
      <3>2. CASE l # k
        <4>1. l \in 0 .. k - 1 /\ g[l] = f[l]
          BY <1>1, <3>2
        <4>2. l # 0 => l - 1 \in 0 .. k - 1 /\ l - 1 # k /\ g[l - 1] = f[l - 1]
          BY <1>1, <4>1
        <4> QED
          BY <2>1, <4>1, <4>2
      <3> QED
        BY <3>1, <3>2
    <2> HIDE DEF g
    <2>4. Upto(k, g)
      BY <2>2, <2>3
    <2> HIDE DEF Upto
    <2> QED
      BY <2>4
  <1>5. n \in S
    <2> HIDE DEF S
    <2>1. 0 .. n \subseteq S
      BY <1>1, <1>3, <1>4, Induction
    <2> QED
      BY <1>1, <2>1
  <1>6. PICK f : Upto(n, f)
    BY <1>5
  <1>7. Is(f)
    BY <1>6
  <1>8. Is(after)
    <2> HIDE DEF Is
    <2> QED
      BY <1>7
  <1> HIDE DEF after
  <1>9. after[0] = x /\ \A k \in 1 .. n : after[k] = Step(after[k - 1])
    BY <1>1, <1>8
  <1> QED
    BY <1>2, <1>9 DEF n, x, Step

\* findFreeBlock's loop finds the first block that fits, or NULL: what it has
\* passed does not fit.
LEMMA FindLoopFinds ==
  ASSUME TypeOK, Tiled, NEW size
  PROVE  findFreeBlock(size) = {findFreeBlockLoop(size)} \ {NULL}
  <1>1. PICK f : /\ f[0] = 0 /\ findFreeBlockLoop(size) = f[MAX_BLOCKS]
                 /\ \A k \in 1 .. MAX_BLOCKS : f[k] = LookOn(f[k - 1], size)
    BY FindTurns
  <1>2. \A a \in Blocks : /\ a \in Nat /\ a < HEAP_SIZE /\ hdr[a].size \in Nat /\ hdr[a].size >= 16
                          /\ hdr[a].next \in Blocks \cup {NULL}
    BY LoopFacts DEF TypeOK, Tiled, ALIGN_SIZE
  <1>3. NULL \notin Blocks
    BY <1>2 DEF NULL
  <1>4. /\ \A a, b \in Blocks : hdr[a].next = b => a < b /\ a + hdr[a].size = b
        /\ \A a, b \in Blocks : a < b => hdr[a].next \in Blocks /\ hdr[a].next <= b
    BY TiledOrder
  <1> DEFINE Passed(b) == \A c \in Blocks : c < b => ~ Fits(c, size)
             Looking(k) == \/ f[k] = NULL /\ \A c \in Blocks : ~ Fits(c, size)
                           \/ /\ f[k] \in Blocks /\ Passed(f[k])
                              /\ Fits(f[k], size) \/ f[k] >= 16 * k
             S == {k \in 0 .. MAX_BLOCKS : Looking(k)}
  <1>5. 0 \in S
    <2>1. f[0] \in Blocks /\ f[0] >= 16 * 0
      BY <1>1, <1>2 DEF Tiled
    <2>2. Passed(f[0])
      BY <1>1, <1>2
    <2> QED
      BY <2>1, <2>2, LoopFacts
  <1>6. ASSUME NEW k \in 1 .. MAX_BLOCKS, k - 1 \in S PROVE k \in S
    <2>1. k \in Nat /\ k - 1 \in Nat /\ k \in 0 .. MAX_BLOCKS /\ Looking(k - 1)
      BY <1>6, LoopFacts
    <2>2. f[k] = LookOn(f[k - 1], size)
      BY <1>1
    <2>3. CASE f[k - 1] = NULL \/ Fits(f[k - 1], size)
      <3>1. f[k] = f[k - 1]
        BY <2>2, <2>3 DEF LookOn
      <3>2. CASE f[k - 1] = NULL
        BY <3>1, <3>2, <2>1, <1>3
      <3>3. CASE f[k - 1] # NULL
        BY <3>1, <3>3, <2>1, <2>3
      <3> QED
        BY <3>2, <3>3
    <2>4. CASE ~ (f[k - 1] = NULL \/ Fits(f[k - 1], size))
      <3> DEFINE b == f[k - 1]
      <3>1. b \in Blocks /\ Passed(b) /\ b >= 16 * (k - 1) /\ ~ Fits(b, size)
        BY <2>1, <2>4
      <3>2. f[k] = hdr[b].next
        BY <2>2, <2>4 DEF LookOn
      <3> HIDE DEF b
      <3>3. CASE hdr[b].next = NULL
        <4>1. ASSUME NEW c \in Blocks PROVE ~ Fits(c, size)
          <5>1. ~ b < c
            BY <3>1, <3>3, <1>3, <1>4
          <5>2. b \in Nat /\ c \in Nat
            BY <3>1, <1>2
          <5>3. c < b \/ c = b
            BY <5>1, <5>2
          <5> QED
            BY <5>3, <3>1
        <4> QED
          BY <4>1, <3>2, <3>3, <2>1
      <3>4. CASE hdr[b].next \in Blocks
        <4> DEFINE n == hdr[b].next
        <4>1. n \in Blocks /\ b + hdr[b].size = n
          BY <3>1, <3>4, <1>4
        <4>2. n >= 16 * k
          BY <4>1, <3>1, <2>1, <1>2
        <4>3. Passed(n)
          <5> SUFFICES ASSUME NEW c \in Blocks, c < n PROVE ~ Fits(c, size)
            OBVIOUS
          <5>1. ~ b < c
            BY <3>1, <4>1, <1>2, <1>4
          <5>2. b \in Nat /\ c \in Nat
            BY <3>1, <1>2
          <5>3. c < b \/ c = b
            BY <5>1, <5>2
          <5> QED
            BY <5>3, <3>1
        <4> QED
          BY <4>1, <4>2, <4>3, <3>2, <2>1
      <3> QED
        BY <3>1, <3>3, <3>4, <1>2
    <2> QED
      BY <2>3, <2>4
  <1>7. MAX_BLOCKS \in S
    <2> HIDE DEF S
    <2>1. 0 .. MAX_BLOCKS \subseteq S
      BY <1>5, <1>6, LoopFacts, Induction
    <2> QED
      BY <2>1, LoopFacts
  <1>8. CASE f[MAX_BLOCKS] = NULL
    <2>1. \A c \in Blocks : ~ Fits(c, size)
      BY <1>3, <1>7, <1>8
    <2> QED
      BY <2>1, <1>1, <1>8 DEF findFreeBlock
  <1>9. CASE f[MAX_BLOCKS] # NULL
    <2> DEFINE b == f[MAX_BLOCKS]
    <2>1. b \in Blocks /\ Passed(b)
      BY <1>7, <1>9
    <2>2. Fits(b, size)
      <3>1. ~ b >= 16 * MAX_BLOCKS
        BY <2>1, <1>2, LoopFacts
      <3> QED
        BY <3>1, <1>7, <1>9
    <2> HIDE DEF b
    <2>3. \A c \in Blocks : Fits(c, size) => b <= c
      BY <2>1, <1>2
    <2>4. \A c \in Blocks : Fits(c, size) /\ c <= b => c = b
      BY <2>1, <2>3, <1>2
    <2>5. findFreeBlock(size) = {b}
      BY <2>1, <2>2, <2>3, <2>4 DEF findFreeBlock
    <2>6. b # NULL
      BY <2>1, <1>3
    <2> QED
      BY <2>5, <2>6, <1>1 DEF b
  <1> QED
    BY <1>8, <1>9

\* What mergeBlocks needs of a list: its blocks lie one behind the other, from
\* address 0 on.
List(h) ==
  /\ h = [b \in DOMAIN h |-> h[b]] /\ 0 \in DOMAIN h
  /\ \A b \in DOMAIN h :
       /\ b \in Nat /\ b < HEAP_SIZE /\ h[b].size \in Nat /\ h[b].size >= 16
       /\ h[b].next \in DOMAIN h \cup {NULL}
       /\ h[b] = [size |-> h[b].size, free |-> h[b].free, next |-> h[b].next]
  /\ \A b \in DOMAIN h : b # 0 => \E a \in DOMAIN h : h[a].next = b
  /\ \A a, b \in DOMAIN h : h[a].next = b => a < b /\ a + h[a].size = b
  /\ \A a, b \in DOMAIN h : a < b => h[a].next \in DOMAIN h /\ h[a].next <= b

\* Freeing blocks keeps it so.
LEMMA ListOf ==
  ASSUME TypeOK, Tiled, NEW freed,
         NEW h, h = [b \in Blocks |-> [hdr[b] EXCEPT !.free = IF b \in freed THEN FREE ELSE @]]
  PROVE  List(h) /\ DOMAIN h = Blocks
  <1>1. DOMAIN h = Blocks /\ h = [b \in DOMAIN h |-> h[b]]
    OBVIOUS
  <1>2. ASSUME NEW b \in Blocks
        PROVE  /\ h[b].size = hdr[b].size /\ h[b].next = hdr[b].next
               /\ h[b] = [size |-> h[b].size, free |-> h[b].free, next |-> h[b].next]
    <2>1. hdr[b] \in [size : Nat, free : {FREE, OCCUPIED}, next : Blocks \cup {NULL}]
      BY DEF TypeOK
    <2>2. h[b] = [hdr[b] EXCEPT !.free = IF b \in freed THEN FREE ELSE hdr[b].free]
      OBVIOUS
    <2> QED
      BY ONLY <2>1, <2>2
  <1>3. \A b \in Blocks : /\ b \in Nat /\ b < HEAP_SIZE /\ hdr[b].size \in Nat /\ hdr[b].size >= 16
                          /\ hdr[b].next \in Blocks \cup {NULL}
    BY LoopFacts DEF TypeOK, Tiled, ALIGN_SIZE
  <1>4. 0 \in Blocks /\ \A b \in Blocks : b # 0 => \E a \in Blocks : hdr[a].next = b
    BY DEF Tiled
  <1>5. /\ \A a, b \in Blocks : hdr[a].next = b => a < b /\ a + hdr[a].size = b
        /\ \A a, b \in Blocks : a < b => hdr[a].next \in Blocks /\ hdr[a].next <= b
    BY TiledOrder
  <1>6. \A b \in Blocks :
           /\ b \in Nat /\ b < HEAP_SIZE /\ h[b].size \in Nat /\ h[b].size >= 16
           /\ h[b].next \in Blocks \cup {NULL}
           /\ h[b] = [size |-> h[b].size, free |-> h[b].free, next |-> h[b].next]
    BY ONLY <1>2, <1>3
  <1>7. \A b \in Blocks : b # 0 => \E a \in Blocks : h[a].next = b
    BY ONLY <1>2, <1>4
  <1>8. ASSUME NEW a \in Blocks, NEW b \in Blocks, h[a].next = b
        PROVE  a < b /\ a + h[a].size = b
    <2>1. h[a].next = hdr[a].next /\ h[a].size = hdr[a].size
      BY <1>2
    <2>2. a < b /\ a + hdr[a].size = b
      BY <2>1, <1>5, <1>8
    <2> QED
      BY <2>1, <2>2
  <1>9. ASSUME NEW a \in Blocks, NEW b \in Blocks, a < b
        PROVE  h[a].next \in Blocks /\ h[a].next <= b
    <2>1. hdr[a].next \in Blocks /\ hdr[a].next <= b
      BY <1>5, <1>9
    <2>2. h[a].next = hdr[a].next
      BY <1>2
    <2> QED
      BY <2>1, <2>2
  <1> QED
    BY ONLY <1>1, <1>4, <1>6, <1>7, <1>8, <1>9 DEF List

\* From b to z all blocks are free, or b is z.
Run(h, b, z) ==
  /\ b \in DOMAIN h /\ z \in DOMAIN h /\ b <= z
  /\ b # z => \A x \in DOMAIN h : b <= x /\ x <= z => h[x].free = FREE

\* mergeBlocks is at b and has taken in all up to z: what lies before b is done,
\* what lies behind z is as it was.
Merging(h, w, b, z) ==
  /\ Run(h, b, z) /\ ~ Absorbed(h, b) /\ w.current = b
  /\ w.list = [x \in DOMAIN w.list |-> w.list[x]]
  /\ DOMAIN w.list = {x \in DOMAIN h : z < x \/ (x <= b /\ ~ Absorbed(h, x))}
  /\ w.list[b] = [size |-> z + h[z].size - b, free |-> h[b].free, next |-> h[z].next]
  /\ \A x \in DOMAIN h : z < x => w.list[x] = h[x]
  /\ \A x \in DOMAIN h : x < b /\ ~ Absorbed(h, x) => w.list[x] = mergeBlocks(h)[x]

\* All blocks of a run but the first are taken in.
LEMMA RunIsAbsorbed ==
  ASSUME NEW h, List(h), NEW b, NEW z, Run(h, b, z), NEW x \in DOMAIN h, b < x, x <= z
  PROVE  Absorbed(h, x)
  <1>1. b \in DOMAIN h /\ b \in Nat /\ x \in Nat /\ z \in Nat
    BY DEF List, Run
  <1>2. PICK p \in DOMAIN h : h[p].next = x
    BY <1>1 DEF List
  <1>3. p \in Nat /\ p < x
    BY <1>2 DEF List
  <1>4. b <= p
    <2> SUFFICES ASSUME p < b PROVE FALSE
      BY <1>1, <1>3
    <2>1. h[p].next <= b
      BY <1>1 DEF List
    <2> QED
      BY <2>1, <1>1, <1>2
  <1>5. h[p].free = FREE /\ h[x].free = FREE
    BY <1>1, <1>3, <1>4 DEF Run
  <1> QED
    BY <1>2, <1>5 DEF Absorbed

\* A run that cannot go on is one block of the merged list.
LEMMA RunIsOneBlock ==
  ASSUME NEW h, List(h), NEW b, NEW z, Run(h, b, z), ~ Absorbed(h, b),
         h[z].next # NULL => h[b].free # FREE \/ h[h[z].next].free # FREE
  PROVE  mergeBlocks(h)[b] = [size |-> z + h[z].size - b, free |-> h[b].free, next |-> h[z].next]
  <1>1. /\ b \in DOMAIN h /\ z \in DOMAIN h /\ b \in Nat /\ z \in Nat /\ b <= z
        /\ h[b].size \in Nat
        /\ h[b] = [size |-> h[b].size, free |-> h[b].free, next |-> h[b].next]
    BY DEF List, Run
  <1>2. CASE h[b].free = FREE
    <2>1. \A x \in DOMAIN h : b <= x /\ x <= z => h[x].free = FREE
      <3>1. \A x \in DOMAIN h : x \in Nat
        BY DEF List
      <3>2. \A x \in DOMAIN h : b <= x /\ x <= b => x = b
        BY <3>1, <1>1
      <3> QED
        BY <3>2, <1>2 DEF Run
    <2>2. EndsRun(h, b, z)
      BY <2>1, <1>1, <1>2 DEF EndsRun
    <2>3. ASSUME NEW y \in DOMAIN h, EndsRun(h, b, y) PROVE y = z
      <3>1. y \in Nat /\ b <= y
        BY <2>3 DEF List, EndsRun
      <3>2. ~ z < y
        <4> SUFFICES ASSUME z < y PROVE FALSE
          OBVIOUS
        <4>1. h[z].next \in DOMAIN h /\ h[z].next <= y
          BY <1>1 DEF List
        <4>2. z < h[z].next /\ h[z].next \in Nat /\ h[z].next # NULL
          BY <4>1, <1>1 DEF List, NULL
        <4>3. b <= h[z].next
          BY <4>2, <1>1
        <4>4. h[h[z].next].free = FREE
          BY <4>1, <4>3, <2>3 DEF EndsRun
        <4> QED
          BY <4>2, <4>4, <1>2
      <3>3. ~ y < z
        <4> SUFFICES ASSUME y < z PROVE FALSE
          OBVIOUS
        <4>1. h[y].next \in DOMAIN h /\ h[y].next <= z
          BY <1>1 DEF List
        <4>2. y < h[y].next /\ h[y].next \in Nat /\ h[y].next # NULL
          BY <4>1 DEF List, NULL
        <4>3. b <= h[y].next
          BY <4>2, <3>1, <1>1
        <4>4. h[h[y].next].free = FREE
          BY <4>1, <4>3, <2>1
        <4> QED
          BY <4>2, <4>4, <2>3 DEF EndsRun
      <3> QED
        BY <3>1, <3>2, <3>3, <1>1
    <2>4. lastOfRun(h, b) = z
      BY <2>2, <2>3, <1>1 DEF lastOfRun
    <2> QED
      BY <2>4, <1>1, <1>2 DEF mergeBlocks
  <1>3. CASE h[b].free # FREE
    <2>1. b = z
      BY <1>1, <1>3 DEF Run
    <2>2. mergeBlocks(h)[b] = h[b]
      BY <1>1, <1>3 DEF mergeBlocks
    <2>3. z + h[z].size - b = h[b].size
      BY <2>1, <1>1
    <2> QED
      BY <2>1, <2>2, <2>3, <1>1
  <1> QED
    BY <1>2, <1>3

\* One turn takes in the next block, or goes on to it.
LEMMA MergeGoesOn ==
  ASSUME NEW h, List(h), NEW w, NEW b, NEW z, Merging(h, w, b, z), h[z].next # NULL
  PROVE  LET n == h[z].next
         IN  /\ n \in DOMAIN h /\ n >= z + 16
             /\ Merging(h, MergeTurn(w), b, n) \/ Merging(h, MergeTurn(w), n, n)
  <1> DEFINE n == h[z].next
             l == w.list
  <1>1. /\ b \in DOMAIN h /\ z \in DOMAIN h /\ b \in Nat /\ z \in Nat /\ b <= z
        /\ h[z].size \in Nat /\ h[z].size >= 16
    BY DEF List, Run, Merging
  <1>2. n \in DOMAIN h /\ n \in Nat /\ z + h[z].size = n
    BY <1>1 DEF List
  <1>3. z < n /\ b < n /\ n >= z + 16 /\ n # b
    BY <1>1, <1>2
  <1>4. n # NULL
    OBVIOUS
  <1> HIDE DEF n
  <1>5. /\ w.current = b /\ l[b].next = n /\ l[b].free = h[b].free /\ l[n] = h[n]
        /\ l[b].size = z + h[z].size - b
    BY <1>2, <1>3 DEF Merging, n
  <1>6. \A x \in DOMAIN h : z < x => n <= x
    BY <1>1 DEF List, n
  <1>7. \A x \in DOMAIN h : x \in Nat
    BY DEF List
  <1>8. /\ l = [x \in DOMAIN l |-> l[x]]
        /\ DOMAIN l = {x \in DOMAIN h : z < x \/ (x <= b /\ ~ Absorbed(h, x))}
        /\ \A x \in DOMAIN h : z < x => l[x] = h[x]
        /\ \A x \in DOMAIN h : x < b /\ ~ Absorbed(h, x) => l[x] = mergeBlocks(h)[x]
        /\ Run(h, b, z) /\ ~ Absorbed(h, b)
        /\ l[b] = [size |-> z + h[z].size - b, free |-> h[b].free, next |-> n]
    BY DEF Merging, n
  <1> HIDE DEF l
  <1>9. CASE h[b].free = FREE /\ h[n].free = FREE
    <2> DEFINE v == MergeTurn(w)
               g == [x \in DOMAIN l \ {n} |->
                       IF x # b THEN l[x]
                       ELSE [size |-> l[b].size + l[n].size, free |-> FREE, next |-> l[n].next]]
    <2>1. v = [list |-> g, current |-> b]
      BY <1>4, <1>5, <1>9 DEF MergeTurn, l
    <2>2. v.list = g /\ v.current = b
      BY <2>1
    <2> HIDE DEF v
    <2>3. DOMAIN g = {x \in DOMAIN h : n < x \/ (x <= b /\ ~ Absorbed(h, x))}
      <3>1. \A x \in DOMAIN h : (z < x /\ x # n) <=> n < x
        BY <1>1, <1>2, <1>3, <1>6, <1>7
      <3>2. ~ n <= b
        BY <1>1, <1>2, <1>3
      <3>3. DOMAIN g = DOMAIN l \ {n}
        OBVIOUS
      <3> QED
        BY <3>1, <3>2, <3>3, <1>8
    <2>4. b \in DOMAIN l \ {n}
      BY <1>1, <1>3, <1>8
    <2>5. g[b] = [size |-> n + h[n].size - b, free |-> h[b].free, next |-> h[n].next]
      <3>1. h[n].size \in Nat /\ h[n].next = l[n].next /\ h[n].size = l[n].size
        BY <1>2, <1>5 DEF List
      <3>2. g[b] = [size |-> l[b].size + h[n].size, free |-> h[b].free, next |-> h[n].next]
        BY <3>1, <2>4, <1>9
      <3>3. l[b].size + h[n].size = n + h[n].size - b
        BY <3>1, <1>1, <1>2, <1>5
      <3> QED
        BY <3>2, <3>3
    <2>6. \A x \in DOMAIN h : n < x => g[x] = h[x]
      BY <1>1, <1>2, <1>3, <1>7, <1>8
    <2>7. \A x \in DOMAIN h : x < b /\ ~ Absorbed(h, x) => g[x] = mergeBlocks(h)[x]
      BY <1>1, <1>2, <1>3, <1>7, <1>8
    <2>8. Run(h, b, n)
      <3>1. b <= n
        BY <1>1, <1>2, <1>3
      <3>2. ASSUME NEW x \in DOMAIN h, b <= x, x <= n PROVE h[x].free = FREE
        <4>1. x <= z \/ x = n
          BY <3>2, <1>1, <1>2, <1>6, <1>7
        <4>2. CASE x = n
          BY <4>2, <1>9
        <4>3. CASE x <= z
          <5>1. b = z => x = b
            BY <4>3, <3>2, <1>1, <1>7
          <5> QED
            BY <5>1, <4>3, <3>2, <1>8, <1>9 DEF Run
        <4> QED
          BY <4>1, <4>2, <4>3
      <3> QED
        BY <3>1, <3>2, <1>1, <1>2 DEF Run
    <2>9. g = [x \in DOMAIN g |-> g[x]]
      OBVIOUS
    <2> HIDE DEF g
    <2>10. Merging(h, v, b, n)
      BY <2>2, <2>3, <2>5, <2>6, <2>7, <2>8, <2>9, <1>8 DEF Merging
    <2> QED
      BY <2>10, <1>2, <1>3 DEF v, n
  <1>10. CASE ~ (h[b].free = FREE /\ h[n].free = FREE)
    <2> DEFINE v == MergeTurn(w)
    <2>1. v = [list |-> l, current |-> n]
      BY <1>4, <1>5, <1>10 DEF MergeTurn, l
    <2>2. v.list = l /\ v.current = n
      BY <2>1
    <2> HIDE DEF v
    <2>3. ~ Absorbed(h, n)
      <3> SUFFICES ASSUME NEW a \in DOMAIN h, h[a].next = n, h[a].free = FREE, h[n].free = FREE
                   PROVE  FALSE
        BY DEF Absorbed
      <3>1. a = z
        <4>1. a \in Nat /\ a < n /\ ~ z < a
          BY <1>1, <1>2, <1>6, <1>7 DEF List
        <4>2. ~ a < z
          <5> SUFFICES ASSUME a < z PROVE FALSE
            OBVIOUS
          <5>1. h[a].next <= z
            BY <1>1 DEF List
          <5> QED
            BY <5>1, <1>1, <1>2, <1>3
        <4> QED
          BY <4>1, <4>2, <1>1
      <3>2. h[b].free = FREE
        BY <3>1, <1>1, <1>8 DEF Run
      <3> QED
        BY <3>2, <1>10
    <2>4. DOMAIN l = {x \in DOMAIN h : n < x \/ (x <= n /\ ~ Absorbed(h, x))}
      <3>1. ASSUME NEW x \in DOMAIN h
            PROVE  (z < x \/ (x <= b /\ ~ Absorbed(h, x)))
                     <=> (n < x \/ (x <= n /\ ~ Absorbed(h, x)))
        <4>1. x \in Nat
          BY <1>7
        <4>2. CASE z < x
          <5>1. n < x \/ x = n
            BY <4>1, <4>2, <1>2, <1>6
          <5> QED
            BY <5>1, <4>2, <2>3, <1>2
        <4>3. CASE b < x /\ x <= z
          <5>1. Absorbed(h, x)
            BY <4>3, <1>8, RunIsAbsorbed
          <5>2. ~ z < x /\ ~ n < x
            BY <4>1, <4>3, <1>1, <1>2, <1>3
          <5> QED
            BY <5>1, <5>2
        <4>4. CASE x <= b
          <5>1. ~ z < x /\ ~ n < x /\ x <= n
            BY <4>1, <4>4, <1>1, <1>2, <1>3
          <5> QED
            BY <5>1, <4>4
        <4> QED
          BY <4>1, <4>2, <4>3, <4>4, <1>1
      <3> QED
        BY <3>1, <1>8
    <2>5. l[n] = [size |-> n + h[n].size - n, free |-> h[n].free, next |-> h[n].next]
      <3>1. /\ h[n] = [size |-> h[n].size, free |-> h[n].free, next |-> h[n].next]
            /\ h[n].size \in Nat
        BY <1>2 DEF List
      <3>2. n + h[n].size - n = h[n].size
        BY <3>1, <1>2
      <3> QED
        BY <3>1, <3>2, <1>5
    <2>6. \A x \in DOMAIN h : n < x => l[x] = h[x]
      BY <1>1, <1>2, <1>3, <1>7, <1>8
    <2>7. ASSUME NEW x \in DOMAIN h, x < n, ~ Absorbed(h, x) PROVE l[x] = mergeBlocks(h)[x]
      <3>1. x \in Nat
        BY <1>7
      <3>2. x <= z
        BY <3>1, <2>7, <1>1, <1>2, <1>6
      <3>3. x <= b
        BY <3>1, <3>2, <2>7, <1>1, <1>8, RunIsAbsorbed
      <3>4. CASE x = b
        <4>1. mergeBlocks(h)[b] = [size |-> z + h[z].size - b, free |-> h[b].free, next |-> h[z].next]
          BY <1>8, <1>10, RunIsOneBlock DEF n
        <4> QED
          BY <4>1, <3>4, <1>8 DEF n
      <3>5. CASE x # b
        BY <3>1, <3>3, <3>5, <2>7, <1>1, <1>8
      <3> QED
        BY <3>4, <3>5
    <2>8. Run(h, n, n)
      BY <1>2 DEF Run
    <2>9. Merging(h, v, n, n)
      BY <2>2, <2>3, <2>4, <2>5, <2>6, <2>7, <2>8, <1>8 DEF Merging
    <2> QED
      BY <2>9, <1>2, <1>3 DEF v, n
  <1> QED
    BY <1>9, <1>10

\* At the end of the list it is the merged one.
LEMMA MergeEnds ==
  ASSUME NEW h, List(h), NEW w, NEW b, NEW z, Merging(h, w, b, z), h[z].next = NULL
  PROVE  w.list = mergeBlocks(h) /\ w.list[w.current].next = NULL /\ MergeTurn(w) = w
  <1>1. /\ Run(h, b, z) /\ ~ Absorbed(h, b) /\ w.current = b
        /\ w.list = [x \in DOMAIN w.list |-> w.list[x]]
        /\ DOMAIN w.list = {x \in DOMAIN h : z < x \/ (x <= b /\ ~ Absorbed(h, x))}
        /\ w.list[b] = [size |-> z + h[z].size - b, free |-> h[b].free, next |-> h[z].next]
        /\ \A x \in DOMAIN h : x < b /\ ~ Absorbed(h, x) => w.list[x] = mergeBlocks(h)[x]
    BY DEF Merging
  <1>2. b \in DOMAIN h /\ b \in Nat /\ z \in DOMAIN h /\ z \in Nat /\ \A x \in DOMAIN h : x \in Nat
    BY <1>1 DEF List, Run
  <1>3. w.list[w.current].next = NULL
    BY <1>1
  <1>4. MergeTurn(w) = w
    BY <1>3 DEF MergeTurn
  <1>5. \A x \in DOMAIN h : ~ z < x
    <2> SUFFICES ASSUME NEW x \in DOMAIN h, z < x PROVE FALSE
      OBVIOUS
    <2>1. NULL \in Nat
      BY <1>2 DEF List
    <2> QED
      BY <2>1 DEF NULL
  <1>6. \A x \in DOMAIN h : ~ Absorbed(h, x) => x <= b
    BY <1>1, <1>2, <1>5, RunIsAbsorbed
  <1>7. DOMAIN w.list = {x \in DOMAIN h : ~ Absorbed(h, x)}
    BY <1>1, <1>5, <1>6
  <1>8. /\ DOMAIN mergeBlocks(h) = {x \in DOMAIN h : ~ Absorbed(h, x)}
        /\ mergeBlocks(h) = [x \in DOMAIN mergeBlocks(h) |-> mergeBlocks(h)[x]]
    BY DEF mergeBlocks
  <1>9. w.list[b] = mergeBlocks(h)[b]
    BY <1>1, RunIsOneBlock
  <1>10. \A x \in DOMAIN w.list : w.list[x] = mergeBlocks(h)[x]
    <2> TAKE x \in DOMAIN w.list
    <2>1. x \in DOMAIN h /\ ~ Absorbed(h, x) /\ x <= b /\ x \in Nat
      BY <1>2, <1>6, <1>7
    <2>2. x < b \/ x = b
      BY <2>1, <1>2
    <2> QED
      BY <2>1, <2>2, <1>1, <1>9
  <1>11. w.list = mergeBlocks(h)
    BY ONLY <1>1, <1>7, <1>8, <1>10
  <1> QED
    BY <1>3, <1>4, <1>11

\* mergeBlocks' loop ends and leaves the merged list.
LEMMA MergeLoopMerges ==
  ASSUME NEW h, List(h)
  PROVE  LET w == mergeBlocksLoop(h)
         IN  w.list = mergeBlocks(h) /\ w.list[w.current].next = NULL
  <1>1. PICK f : /\ f[0] = [list |-> h, current |-> 0] /\ mergeBlocksLoop(h) = f[MAX_BLOCKS]
                 /\ \A k \in 1 .. MAX_BLOCKS : f[k] = MergeTurn(f[k - 1])
    BY MergeTurns
  <1> DEFINE Far(k, b, z) == Merging(h, f[k], b, z) /\ (h[z].next = NULL \/ z >= 16 * k)
             S == {k \in 0 .. MAX_BLOCKS : \E b, z : Far(k, b, z)}
  <1>2. 0 \in S
    <2>1. 0 \in DOMAIN h /\ h[0].size \in Nat /\ f[0].list = h /\ f[0].current = 0
      BY <1>1 DEF List
    <2>2. ~ Absorbed(h, 0)
      <3> SUFFICES ASSUME NEW a \in DOMAIN h, h[a].next = 0 PROVE FALSE
        BY DEF Absorbed
      <3>1. a \in Nat /\ a < 0
        BY <2>1 DEF List
      <3> QED
        BY <3>1
    <2>3. Run(h, 0, 0)
      BY <2>1 DEF Run
    <2>4. \A x \in DOMAIN h : x \in Nat /\ (0 < x \/ x = 0) /\ ~ x < 0
      BY DEF List
    <2>5. h[0] = [size |-> 0 + h[0].size - 0, free |-> h[0].free, next |-> h[0].next]
      <3>1. h[0] = [size |-> h[0].size, free |-> h[0].free, next |-> h[0].next]
        BY <2>1 DEF List
      <3>2. 0 + h[0].size - 0 = h[0].size
        BY <2>1
      <3> QED
        BY <3>1, <3>2
    <2>6. DOMAIN h = {x \in DOMAIN h : 0 < x \/ (x <= 0 /\ ~ Absorbed(h, x))}
      BY <2>2, <2>4
    <2>7. h = [x \in DOMAIN h |-> h[x]]
      BY DEF List
    <2>8. Merging(h, f[0], 0, 0)
      BY <2>1, <2>2, <2>3, <2>4, <2>5, <2>6, <2>7 DEF Merging
    <2>9. Far(0, 0, 0)
      BY <2>8
    <2> QED
      BY <2>9, LoopFacts
  <1>3. ASSUME NEW k \in 1 .. MAX_BLOCKS, k - 1 \in S PROVE k \in S
    <2>1. PICK b, z : Far(k - 1, b, z)
      BY <1>3
    <2>2. f[k] = MergeTurn(f[k - 1]) /\ k \in Nat /\ k \in 0 .. MAX_BLOCKS
      BY <1>1, LoopFacts
    <2>3. CASE h[z].next = NULL
      <3>1. Far(k, b, z)
        BY <2>1, <2>2, <2>3, MergeEnds
      <3> QED
        BY <3>1, <2>2
    <2>4. CASE h[z].next # NULL
      <3> DEFINE n == h[z].next
      <3>1. /\ n \in DOMAIN h /\ n >= z + 16
            /\ Merging(h, f[k], b, n) \/ Merging(h, f[k], n, n)
        BY <2>1, <2>2, <2>4, MergeGoesOn
      <3>2. z \in Nat /\ n \in Nat
        BY <3>1, <2>1 DEF Merging, Run, List
      <3>3. n >= 16 * k
        BY <3>1, <3>2, <2>1, <2>2, <2>4
      <3>4. Far(k, b, n) \/ Far(k, n, n)
        BY <3>1, <3>3
      <3> QED
        BY <3>4, <2>2
    <2> QED
      BY <2>3, <2>4
  <1>4. MAX_BLOCKS \in S
    <2> HIDE DEF S
    <2>1. 0 .. MAX_BLOCKS \subseteq S
      BY <1>2, <1>3, LoopFacts, Induction
    <2> QED
      BY <2>1, LoopFacts
  <1>5. PICK b, z : Far(MAX_BLOCKS, b, z)
    BY <1>4
  <1>6. h[z].next = NULL
    <2>1. z \in Nat /\ z < HEAP_SIZE
      BY <1>5 DEF Merging, Run, List
    <2> QED
      BY <2>1, <1>5, LoopFacts
  <1> QED
    BY <1>1, <1>5, <1>6, MergeEnds

-----------------------------------------------------------------------------
\* The invariant holds initially and every action keeps it.
THEOREM Invariance == Spec => []IInv
  <1>1. IInv /\ [Next]_vars => IInv'
    <2> SUFFICES ASSUME IInv, [Next]_vars PROVE IInv'
      OBVIOUS
    <2>1. ASSUME NEW n \in REQUESTS, Malloc(n) PROVE IInv'
      BY <2>1, MallocInv
    <2>2. ASSUME NEW ptr \in DOMAIN live, Free(ptr) PROVE IInv'
      BY <2>2, FreeInv
    <2>3. CASE UNCHANGED vars
      BY <2>3 DEF vars, IInv, TypeOK, WellFormed, Tiled, Coalesced, LiveBacked, Blocks
    <2> QED
      BY <2>1, <2>2, <2>3 DEF Next, MallocFails
  <1> QED
    BY <1>1, InitInv, PTL DEF Spec

\* Every header field and every outstanding pointer keeps its type
\* (heap.c: kmalloc, kfree).
THEOREM TypeCorrect == Spec => []TypeOK
  <1>1. IInv => TypeOK
    BY DEF IInv
  <1> QED
    BY <1>1, Invariance, PTL

\* The list always tiles the heap, is coalesced and backs every outstanding
\* pointer (heap.c: splitBlock, mergeBlocks).
THEOREM ListWellFormed == Spec => []WellFormed
  <1>1. IInv => WellFormed
    BY DEF IInv
  <1> QED
    BY <1>1, Invariance, PTL

\* The loops of findFreeBlock and mergeBlocks end and compute what kmalloc and
\* kfree are proved with: the first block that fits, and the list in which each
\* run of free blocks is one (heap.c: findFreeBlock, mergeBlocks).
THEOREM LoopsAgree == Spec => []WalksAgree
  <1>1. IInv => WalksAgree
    <2> SUFFICES ASSUME TypeOK, Tiled PROVE WalksAgree
      BY DEF IInv, WellFormed
    <2>1. \A size : findFreeBlock(size) = {findFreeBlockLoop(size)} \ {NULL}
      BY FindLoopFinds
    <2>2. ASSUME NEW freed \in SUBSET Blocks
          PROVE  LET h == [b \in Blocks |-> [hdr[b] EXCEPT !.free = IF b \in freed THEN FREE ELSE @]]
                     w == mergeBlocksLoop(h)
                 IN  w.list = mergeBlocks(h) /\ w.list[w.current].next = NULL
      <3> DEFINE h == [b \in Blocks |-> [hdr[b] EXCEPT !.free = IF b \in freed THEN FREE ELSE @]]
      <3>1. List(h)
        BY ListOf
      <3> HIDE DEF h
      <3>2. LET w == mergeBlocksLoop(h)
            IN  w.list = mergeBlocks(h) /\ w.list[w.current].next = NULL
        BY <3>1, MergeLoopMerges
      <3> QED
        BY <3>2 DEF h
    <2> QED
      BY <2>1, <2>2 DEF WalksAgree
  <1> QED
    BY <1>1, Invariance, PTL

\* When nothing is allocated the heap is one free block again (heap.c: kfree).
THEOREM NoLeakByFragmentation == Spec => []AllFreedIsWhole
  <1>1. IInv => AllFreedIsWhole
    <2> SUFFICES ASSUME IInv, DOMAIN live = {}
                 PROVE  hdr = [b \in {0} |-> [size |-> HEAP_SIZE, free |-> FREE, next |-> NULL]]
      BY DEF AllFreedIsWhole
    <2>1. HEAP_SIZE \in Nat
      BY HeapAssumption
    <2>2. 0 \in Blocks /\ \A b \in Blocks : hdr[b].free = FREE
      BY DEF IInv, WellFormed, Tiled, LiveBacked
    <2>3. hdr[0].next = NULL
      BY <2>2 DEF IInv, TypeOK, WellFormed, Coalesced
    <2>4. 0 + hdr[0].size = HEAP_SIZE
      <3>1. hdr[0].size \in Nat
        BY <2>2 DEF IInv, TypeOK
      <3>2. 0 + hdr[0].size # NULL
        BY <3>1 DEF NULL
      <3> QED
        BY <3>2, <2>2, <2>3 DEF IInv, WellFormed, Tiled
    <2>5. Blocks = {0}
      <3> SUFFICES ASSUME NEW b \in Blocks, b # 0 PROVE FALSE
        BY <2>2
      <3>1. b \in Nat /\ b < HEAP_SIZE
        BY <2>1 DEF IInv, TypeOK
      <3>2. 0 + hdr[0].size <= b
        BY <3>1, <2>2 DEF IInv, WellFormed, Tiled
      <3> QED
        BY <3>1, <3>2, <2>1, <2>4
    <2>6. hdr[0] = [size |-> HEAP_SIZE, free |-> FREE, next |-> NULL]
      <3>1. hdr[0] \in [size : Nat, free : {FREE, OCCUPIED}, next : Blocks \cup {NULL}]
        BY <2>2 DEF IInv, TypeOK
      <3>2. hdr[0].size = HEAP_SIZE
        BY <2>4, <3>1
      <3> QED
        BY <3>1, <3>2, <2>2, <2>3
    <2> QED
      BY <2>5, <2>6 DEF IInv, TypeOK
  <1> QED
    BY <1>1, Invariance, PTL

\* The list implements the allocator's contract: what a caller is handed is
\* unused by every other caller and lies in the heap, whatever list of blocks
\* earlier calls left behind (heap.c: kmalloc, kfree).
THEOREM Implementation == Spec => Implements
  <1>1. Init => Contract!Init
    BY DEF Init, Contract!Init
  <1>2. IInv /\ [Next]_vars => [Contract!Next]_live
    <2> SUFFICES ASSUME IInv, [Next]_vars PROVE [Contract!Next]_live
      OBVIOUS
    <2>1. ASSUME NEW n \in REQUESTS, Malloc(n) PROVE Contract!Malloc
      <3> DEFINE total == alignUpBlock(n + 12)
      <3>1. PICK b \in findFreeBlock(total) :
              live' = [p \in DOMAIN live \cup {b + 12} |-> IF p = b + 12 THEN n ELSE live[p]]
        BY <2>1 DEF Malloc, HEAP_BLOCK_HEADER_SIZE
      <3>2. n \in Nat /\ n > 0
        BY <2>1, RequestAssumption DEF Malloc
      <3>3. total \in Nat /\ total >= n + 12
        BY <3>2, AlignUp
      <3>4. b \in Blocks /\ hdr[b].free = FREE /\ hdr[b].size >= total
        BY <3>1 DEF findFreeBlock, Fits
      <3> HIDE DEF total
      <3>5. /\ b \in Nat /\ hdr[b].size \in Nat /\ HEAP_SIZE \in Nat
            /\ b + hdr[b].size <= HEAP_SIZE
        BY <3>4, HeapAssumption DEF IInv, TypeOK, WellFormed, Tiled
      <3>6. \A q \in DOMAIN live :
              /\ q \in Nat /\ live[q] \in Nat /\ q - 12 \in Blocks /\ hdr[q - 12].free # FREE
              /\ live[q] + 12 <= hdr[q - 12].size
        BY DEF IInv, TypeOK, WellFormed, LiveBacked, HEAP_BLOCK_HEADER_SIZE
      <3>7. b + 12 \notin DOMAIN live
        BY <3>4, <3>5, <3>6
      <3>8. ASSUME NEW q \in DOMAIN live
            PROVE  q + live[q] <= b + 12 \/ (b + 12) + n <= q
        <4>1. /\ q \in Nat /\ live[q] \in Nat /\ q - 12 \in Blocks /\ q - 12 \in Nat
              /\ hdr[q - 12].size \in Nat /\ live[q] + 12 <= hdr[q - 12].size
          BY <3>6 DEF IInv, TypeOK
        <4>2. q - 12 # b
          BY <3>4, <3>6
        <4>3. CASE q - 12 < b
          <5>1. (q - 12) + hdr[q - 12].size <= b
            BY <4>1, <4>3, <3>4 DEF IInv, WellFormed, Tiled
          <5> QED
            BY <5>1, <4>1, <3>5
        <4>4. CASE b < q - 12
          <5>1. b + hdr[b].size <= q - 12
            BY <4>1, <4>4, <3>4 DEF IInv, WellFormed, Tiled
          <5> QED
            BY <5>1, <4>1, <3>2, <3>3, <3>4, <3>5
        <4> QED
          BY <4>1, <4>2, <4>3, <4>4, <3>5
      <3>9. (b + 12) + n <= HEAP_SIZE /\ b + 12 \in 0 .. HEAP_SIZE
        BY <3>2, <3>3, <3>4, <3>5
      <3>10. Contract!Unused(b + 12, n)
        BY <3>8, <3>9 DEF Contract!Unused
      <3> QED
        BY <3>1, <3>2, <3>7, <3>9, <3>10 DEF Contract!Malloc
    <2>2. ASSUME NEW ptr \in DOMAIN live, Free(ptr) PROVE Contract!Free
      BY <2>2 DEF Free, Contract!Free
    <2>3. CASE UNCHANGED vars
      BY <2>3 DEF vars
    <2> QED
      BY <2>1, <2>2, <2>3 DEF Next, MallocFails, Contract!Next, vars
  <1> QED
    BY <1>1, <1>2, Invariance, PTL DEF Spec, Implements, Contract!Spec
=============================================================================

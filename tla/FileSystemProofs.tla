-------------------------- MODULE FileSystemProofs --------------------------
(***************************************************************************)
(* Proofs about FileSystem, for every geometry of the disk, any names and  *)
(* any content.                                                            *)
(*                                                                         *)
(*   TypeCorrect     Spec => []TypeOK                                      *)
(*   DiskAgreement   ... => []DiskAgrees                                   *)
(*   BlocksStayApart ... => []BlocksOwnedOnce                              *)
(*   TreeStands      ... => []TreeOK                                       *)
(*   WalksEnd        ... => []WalkEnds                                     *)
(*   BystandersAreKept ... => BystandersStay                               *)
(*                                                                         *)
(* An operation is a function on machine records, so most lemmas say what  *)
(* one of them makes of a machine m: that the result is a machine (Does),  *)
(* that no block gets two owners in memory, on the disk or in any image    *)
(* of the trail (Steady, Keeps), what it makes of the entries of a         *)
(* directory, and what that means for the tree (Shape, for the set T of    *)
(* the inodes below the root) and for the bytes of files (Kept).  The      *)
(* steps of the specification come last in each part.  All but the first   *)
(* theorem need InFirstBitmapBlock.                                        *)
(***************************************************************************)
EXTENDS FileSystem, FiniteSetTheorems, TLAPS

NameSet == Names \cup Data \cup {"", ".", "..", "root"}
Entries == [inodeNumber : INodes, name : NameSet]
Types == {"File", "Directory"}
INodeSet == [type : Types, fileSize : 0 .. MAX_BLOCKS_PER_FILE * ENTRIES_PER_BLOCK,
             isUsed : BOOLEAN, parentINode : INodes, blocks : [FileBlocks -> Blocks]]
Tables == [INodes -> INodeSet]
BlockSet == [Slots -> Entries]
DataSet == [Blocks -> BlockSet]
Disks == [magic : BOOLEAN, ino : Tables, bm : SUBSET Blocks, data : DataSet]
Machines == [ino : Tables, bm : SUBSET Blocks, disk : Disks, ok : BOOLEAN, ret : Nat,
             trail : SUBSET Disks, fault : BOOLEAN]

-----------------------------------------------------------------------------
(* Numbers, least elements and recursion over an interval.                 *)

\* The sets that constants and positions range over hold what the code uses.
LEMMA Ranges ==
  /\ 0 \in INodes /\ 0 \in Blocks /\ 0 \in Slots /\ 1 \in Slots /\ 0 \in FileBlocks
  /\ INodes \subseteq Nat /\ Blocks \subseteq Nat /\ NONE \notin INodes
  BY GeometryAssumption DEF INodes, Blocks, Slots, FileBlocks, NONE

\* Block and slot of an entry's number.
LEMMA Place ==
  ASSUME NEW i \in Nat
  PROVE  /\ BlockOf(i) \in Nat /\ SlotOf(i) \in Slots
         /\ i = ENTRIES_PER_BLOCK * BlockOf(i) + SlotOf(i)
  BY GeometryAssumption DEF BlockOf, SlotOf, Slots

\* An entry number below the largest size lies in a block a file can have.
LEMMA PlaceInFile ==
  ASSUME NEW i \in Nat, i < MAX_BLOCKS_PER_FILE * ENTRIES_PER_BLOCK
  PROVE  BlockOf(i) \in FileBlocks
  <1>1. \A q, n, e \in Nat : q >= n => e * q >= n * e
    OBVIOUS
  <1>2. ~ BlockOf(i) >= MAX_BLOCKS_PER_FILE
    <2> SUFFICES ASSUME BlockOf(i) >= MAX_BLOCKS_PER_FILE PROVE FALSE
      OBVIOUS
    <2>1. ENTRIES_PER_BLOCK * BlockOf(i) >= MAX_BLOCKS_PER_FILE * ENTRIES_PER_BLOCK
      BY <1>1, Place, GeometryAssumption
    <2> QED
      BY <2>1, Place, GeometryAssumption DEF Slots
  <1> QED
    BY <1>2, Place, GeometryAssumption DEF FileBlocks

\* Different entries have different places.
LEMMA PlaceIsUnique ==
  ASSUME NEW i \in Nat, NEW j \in Nat, BlockOf(i) = BlockOf(j), SlotOf(i) = SlotOf(j)
  PROVE  i = j
  BY Place, GeometryAssumption DEF Slots

\* Blocks are filled in order.
LEMMA PlaceGrows ==
  ASSUME NEW i \in Nat, NEW j \in Nat
  PROVE  /\ i <= j => BlockOf(i) <= BlockOf(j)
         /\ (SlotOf(i) = 0 /\ j < i) => BlockOf(j) < BlockOf(i)
  BY GeometryAssumption DEF BlockOf, SlotOf

\* The dots are the first two entries of the first block.
LEMMA PlaceOfDots == BlockOf(0) = 0 /\ SlotOf(0) = 0 /\ BlockOf(1) = 0 /\ SlotOf(1) = 1
  BY GeometryAssumption DEF BlockOf, SlotOf

\* A set of numbers has a least one, and Min is it.
LEMMA MinIs ==
  ASSUME NEW S \in SUBSET Nat, S # {}
  PROVE  Min(S) \in S /\ \A y \in S : Min(S) <= y
  <1> DEFINE less == OpToRel(<, Nat)
  <1>1. IsWellFoundedOn(less, Nat)
    BY NatLessThanWellFounded
  <1>2. \A x \in Nat, y \in Nat : x < y => <<x, y>> \in less
    BY DEF OpToRel
  <1> HIDE DEF less
  <1>3. PICK x \in S : \A y \in S : <<y, x>> \notin less
    BY <1>1, WFMin
  <1>4. ASSUME NEW y \in S PROVE x <= y
    <2>1. x \in Nat /\ y \in Nat
      OBVIOUS
    <2>2. ~ y < x
      BY <1>2, <1>3, <2>1
    <2> QED
      BY <2>1, <2>2
  <1> QED
    BY <1>4 DEF Min

\* Induction over an interval.
LEMMA Induction ==
  ASSUME NEW n \in Nat, NEW S, 0 \in S, \A k \in 1 .. n : k - 1 \in S => k \in S
  PROVE  0 .. n \subseteq S
  <1> SUFFICES ASSUME (0 .. n) \ S # {} PROVE FALSE
    OBVIOUS
  <1> DEFINE first == Min((0 .. n) \ S)
  <1>1. first \in (0 .. n) \ S /\ \A y \in (0 .. n) \ S : first <= y
    BY MinIs
  <1> HIDE DEF first
  <1>2. first - 1 \in S /\ first \in 1 .. n
    BY <1>1
  <1> QED
    BY <1>1, <1>2

\* f is defined by recursion over an interval.
Recurs(f, n, x, F) == f = [k \in 0 .. n |-> IF k = 0 THEN x ELSE F[<<k, f[k - 1]>>]]

\* A function can be defined by recursion over an interval.
LEMMA Recursion ==
  ASSUME NEW n \in Nat, NEW V, NEW x \in V, NEW F \in [(0 .. n) \X V -> V]
  PROVE  \E f \in [0 .. n -> V] : Recurs(f, n, x, F)
  <1> DEFINE Upto(k, f) == f \in [0 .. k -> V] /\ \A l \in 0 .. k :
                             f[l] = IF l = 0 THEN x ELSE F[<<l, f[l - 1]>>]
             S == {k \in 0 .. n : \E f : Upto(k, f)}
  <1> HIDE DEF Upto
  <1>1. 0 \in S
    <2>1. Upto(0, [l \in 0 .. 0 |-> x])
      BY DEF Upto
    <2> QED
      BY <2>1
  <1>2. ASSUME NEW k \in 1 .. n, k - 1 \in S PROVE k \in S
    <2>1. PICK f : Upto(k - 1, f)
      BY <1>2
    <2> DEFINE g == [l \in 0 .. k |-> IF l = k THEN F[<<k, f[k - 1]>>] ELSE f[l]]
    <2>2. f[k - 1] \in V
      BY <2>1 DEF Upto
    <2>3. F[<<k, f[k - 1]>>] \in V
      BY <2>2
    <2>4. g \in [0 .. k -> V]
      BY <2>1, <2>3 DEF Upto
    <2>5. ASSUME NEW l \in 0 .. k PROVE g[l] = IF l = 0 THEN x ELSE F[<<l, g[l - 1]>>]
      <3>1. CASE l = k
        <4>1. k - 1 \in 0 .. k /\ k - 1 # k /\ g[k - 1] = f[k - 1]
          OBVIOUS
        <4> QED
          BY <3>1, <4>1
      <3>2. CASE l # k
        <4>1. l \in 0 .. k - 1 /\ g[l] = f[l]
          BY <3>2
        <4>2. l # 0 => l - 1 \in 0 .. k - 1 /\ l - 1 # k /\ g[l - 1] = f[l - 1]
          BY <4>1
        <4> QED
          BY <2>1, <4>1, <4>2 DEF Upto
      <3> QED
        BY <3>1, <3>2
    <2>6. Upto(k, g)
      BY <2>4, <2>5 DEF Upto
    <2> QED
      BY <2>6
  <1>3. n \in S
    <2> HIDE DEF S
    <2> QED
      BY <1>1, <1>2, Induction
  <1>4. PICK f : Upto(n, f)
    BY <1>3
  <1> QED
    BY <1>4 DEF Upto, Recurs

-----------------------------------------------------------------------------
(* What the operations on one machine are made of.                         *)

\* The fields of a machine have their types.
LEMMA Fields ==
  ASSUME NEW m \in Machines
  PROVE  /\ m.ino \in Tables /\ m.bm \in SUBSET Blocks /\ m.disk \in Disks /\ m.ok \in BOOLEAN
         /\ m.ret \in Nat /\ m.trail \in SUBSET Disks /\ m.fault \in BOOLEAN
         /\ m.disk.ino \in Tables /\ m.disk.bm \in SUBSET Blocks /\ m.disk.data \in DataSet
         /\ m.disk.magic \in BOOLEAN
  BY DEF Machines, Disks

\* The fields of an inode have theirs.
LEMMA INodeFields ==
  ASSUME NEW t \in Tables, NEW i \in INodes
  PROVE  /\ t[i] \in INodeSet
         /\ t[i].type \in Types /\ t[i].isUsed \in BOOLEAN
         /\ t[i].fileSize \in 0 .. MAX_BLOCKS_PER_FILE * ENTRIES_PER_BLOCK /\ t[i].fileSize \in Nat
         /\ t[i].parentINode \in INodes /\ t[i].blocks \in [FileBlocks -> Blocks]
  BY GeometryAssumption DEF Tables, INodeSet

\* A call that only reports.
LEMMA Reports ==
  ASSUME NEW m \in Machines, NEW v \in BOOLEAN, NEW r, r = [m EXCEPT !.ok = v]
  PROVE  /\ r \in Machines /\ r.ok = v
         /\ r.ino = m.ino /\ r.bm = m.bm /\ r.disk = m.disk /\ r.ret = m.ret
         /\ r.trail = m.trail /\ r.fault = m.fault
  BY DEF Machines

\* The inode table in memory changes.
LEMMA TableChanges ==
  ASSUME NEW m \in Machines, NEW t \in Tables, NEW r, r = [m EXCEPT !.ino = t]
  PROVE  /\ r \in Machines /\ r.ino = t
         /\ r.ok = m.ok /\ r.bm = m.bm /\ r.disk = m.disk /\ r.ret = m.ret
         /\ r.trail = m.trail /\ r.fault = m.fault
  BY DEF Machines

\* One block of one inode changes.
LEMMA WithBlockDoes ==
  ASSUME NEW t \in Tables, NEW i \in INodes, NEW b \in FileBlocks, NEW x \in Blocks,
         NEW u, u = WithBlock(t, i, b, x)
  PROVE  /\ u \in Tables
         /\ \A j \in INodes :
              /\ u[j].type = t[j].type /\ u[j].fileSize = t[j].fileSize
              /\ u[j].isUsed = t[j].isUsed /\ u[j].parentINode = t[j].parentINode
              /\ \A y \in FileBlocks : u[j].blocks[y] =
                   IF j = i /\ y = b THEN x ELSE t[j].blocks[y]
  <1> DEFINE bl == [t[i].blocks EXCEPT ![b] = x]
             n == [t[i] EXCEPT !.blocks = bl]
  <1>1. t[i] \in INodeSet /\ t[i].blocks \in [FileBlocks -> Blocks]
    BY INodeFields
  <1>2. u = [t EXCEPT ![i] = n]
    BY DEF WithBlock
  <1>3. bl \in [FileBlocks -> Blocks] /\ \A y \in FileBlocks : bl[y] = IF y = b THEN x ELSE t[i].blocks[y]
    BY <1>1
  <1> HIDE DEF bl
  <1>4. /\ n \in INodeSet /\ n.type = t[i].type /\ n.fileSize = t[i].fileSize
        /\ n.parentINode = t[i].parentINode /\ n.blocks = bl
    BY <1>1, <1>3 DEF INodeSet
  <1>5. n.isUsed = t[i].isUsed
    BY <1>1, <1>3 DEF INodeSet
  <1> HIDE DEF n
  <1>6. u \in Tables /\ \A j \in INodes : u[j] = IF j = i THEN n ELSE t[j]
    BY <1>2, <1>4 DEF Tables
  <1> QED
    BY <1>3, <1>4, <1>5, <1>6

\* writeBlock
LEMMA WriteBlockDoes ==
  ASSUME NEW m \in Machines, NEW b \in Blocks, NEW content \in BlockSet,
         NEW r, r = WriteBlock(m, b, content)
  PROVE  /\ r \in Machines
         /\ r.ino = m.ino /\ r.bm = m.bm /\ r.ret = m.ret
         /\ r.disk.ino = m.disk.ino /\ r.disk.bm = m.disk.bm /\ r.disk.magic = m.disk.magic
         /\ r.ok <=> b \notin bad
         /\ r.fault <=> m.fault \/ b \in bad
         /\ \A x \in Blocks :
              r.disk.data[x] = IF x = b /\ b \notin bad THEN content ELSE m.disk.data[x]
         /\ r.trail \subseteq m.trail \cup {r.disk}
  <1>1. CASE b \in bad
    BY <1>1 DEF WriteBlock, Machines
  <1>2. CASE b \notin bad
    <2> DEFINE d == [m.disk EXCEPT !.data = [@ EXCEPT ![b] = content]]
               m1 == [m EXCEPT !.ok = TRUE]
    <2>1. d \in Disks /\ d.ino = m.disk.ino /\ d.bm = m.disk.bm /\ d.magic = m.disk.magic
          /\ \A x \in Blocks : d.data[x] = IF x = b THEN content ELSE m.disk.data[x]
      BY DEF Machines, Disks, DataSet
    <2>2. r = [m1 EXCEPT !.disk = d, !.trail = @ \cup {d}]
      BY <1>2 DEF WriteBlock, Machines, Save
    <2> HIDE DEF d
    <2>3. m1 \in Machines /\ m1.ok = TRUE
          /\ m1.ino = m.ino /\ m1.bm = m.bm /\ m1.ret = m.ret /\ m1.fault = m.fault
          /\ m1.trail = m.trail
      BY Reports
    <2> HIDE DEF m1
    <2>4. r \in Machines /\ r.disk = d /\ r.trail = m1.trail \cup {d} /\ r.ok = m1.ok
          /\ r.ino = m1.ino /\ r.bm = m1.bm /\ r.ret = m1.ret /\ r.fault = m1.fault
      <3>1. d \in Disks /\ m1 \in Machines
        BY <2>1, <2>3
      <3> QED
        BY <3>1, <2>2 DEF Machines
    <2> QED BY <1>2, <2>1, <2>3, <2>4
  <1> QED BY <1>1, <1>2

\* Power fails after inode k has been written.
UpTo(m, k) ==
  [m.disk EXCEPT !.ino = [i \in INodes |-> IF i <= k THEN m.ino[i] ELSE m.disk.ino[i]]]

\* flushInodeTable
LEMMA FlushDoes ==
  ASSUME NEW m \in Machines, NEW r, r = flushInodeTable(m)
  PROVE  /\ r \in Machines
         /\ r.ino = m.ino /\ r.bm = m.bm /\ r.ret = m.ret /\ r.ok = m.ok /\ r.fault = m.fault
         /\ r.disk.ino = m.ino /\ r.disk.bm = m.disk.bm /\ r.disk.magic = m.disk.magic
         /\ r.disk.data = m.disk.data
         /\ r.trail = m.trail \cup {UpTo(m, k) : k \in INodes}
  <1> DEFINE d == [m.disk EXCEPT !.ino = m.ino]
             more == {UpTo(m, k) : k \in INodes}
  <1>1. d \in Disks /\ d.ino = m.ino /\ d.bm = m.disk.bm /\ d.magic = m.disk.magic
        /\ d.data = m.disk.data
    BY DEF Machines, Disks
  <1>2. ASSUME NEW k \in INodes PROVE UpTo(m, k) \in Disks
    BY DEF Machines, Disks, Tables, UpTo
  <1>3. r = [m EXCEPT !.disk = d, !.trail = @ \cup more]
    BY DEF flushInodeTable, UpTo, Machines
  <1> HIDE DEF d, more
  <1>4. more \in SUBSET Disks
    BY <1>2 DEF more
  <1>5. r \in Machines /\ r.disk = d /\ r.trail = m.trail \cup more /\ r.ok = m.ok
        /\ r.ino = m.ino /\ r.bm = m.bm /\ r.ret = m.ret /\ r.fault = m.fault
    BY <1>1, <1>3, <1>4 DEF Machines
  <1> QED
    BY <1>1, <1>5 DEF more

\* The bit of one block goes to the disk.
LEMMA FlushBitDoes ==
  ASSUME NEW m \in Machines, NEW b, NEW r, r = flushBit(m, b)
  PROVE  /\ r \in Machines
         /\ r.ino = m.ino /\ r.bm = m.bm /\ r.ret = m.ret /\ r.ok = m.ok /\ r.fault = m.fault
         /\ r.disk.ino = m.disk.ino /\ r.disk.magic = m.disk.magic /\ r.disk.data = m.disk.data
         /\ r.disk.bm = (m.disk.bm \ Covered(b)) \cup (m.bm \cap Covered(b))
         /\ r.trail = m.trail \cup {r.disk}
  <1> DEFINE bits == (m.disk.bm \ Covered(b)) \cup (m.bm \cap Covered(b))
             d == [m.disk EXCEPT !.bm = bits]
  <1>1. bits \in SUBSET Blocks
    BY Fields
  <1>2. r = [m EXCEPT !.disk = d, !.trail = @ \cup {d}]
    BY DEF flushBit, Save, Machines, Disks
  <1> HIDE DEF bits
  <1>3. d \in Disks /\ d.ino = m.disk.ino /\ d.bm = bits /\ d.magic = m.disk.magic
        /\ d.data = m.disk.data
    BY <1>1 DEF Machines, Disks
  <1> HIDE DEF d
  <1>4. r \in Machines /\ r.disk = d /\ r.trail = m.trail \cup {d} /\ r.ok = m.ok
        /\ r.ino = m.ino /\ r.bm = m.bm /\ r.ret = m.ret /\ r.fault = m.fault
    BY <1>2, <1>3 DEF Machines
  <1> QED
    BY <1>3, <1>4 DEF bits

\* allocateBlock: the first free block, marked in memory and on the disk.
LEMMA AllocateDoes ==
  ASSUME NEW m \in Machines, NEW r, r = allocateBlock(m)
  PROVE  /\ r \in Machines
         /\ r.ino = m.ino /\ r.fault = m.fault
         /\ r.disk.ino = m.disk.ino /\ r.disk.magic = m.disk.magic /\ r.disk.data = m.disk.data
         /\ r.ok <=> m.bm # Blocks
         /\ ~ r.ok => r.bm = m.bm /\ r.disk = m.disk /\ r.trail = m.trail /\ r.ret = m.ret
         /\ r.ok => /\ r.ret \in Blocks \ m.bm /\ r.bm = m.bm \cup {r.ret}
                    /\ m.disk.bm = m.bm => r.disk.bm = r.bm
                    /\ r.trail = m.trail \cup {r.disk}
  <1> DEFINE free == Blocks \ m.bm
             b == Min(free)
  <1>1. m.bm \in SUBSET Blocks
    BY Fields
  <1>2. CASE free = {}
    <2>1. r = [m EXCEPT !.ok = FALSE]
      BY <1>2 DEF allocateBlock
    <2> QED
      BY <1>1, <1>2, <2>1, Reports
  <1>3. CASE free # {}
    <2>1. b \in Blocks \ m.bm /\ b \in Nat
      BY <1>3, MinIs, Ranges
    <2> DEFINE m1 == [m EXCEPT !.ok = TRUE]
               m2 == [m1 EXCEPT !.ret = b]
               m3 == [m2 EXCEPT !.bm = m.bm \cup {b}]
    <2>2. r = flushBit(m3, b)
      BY <1>3 DEF allocateBlock, Machines
    <2> HIDE DEF b
    <2>3. m1 \in Machines /\ m1.ok = TRUE
          /\ m1.ino = m.ino /\ m1.bm = m.bm /\ m1.disk = m.disk /\ m1.fault = m.fault
          /\ m1.trail = m.trail
      BY Reports
    <2> HIDE DEF m1
    <2>4. m2 \in Machines /\ m2.ok = TRUE /\ m2.ret = b
          /\ m2.ino = m.ino /\ m2.bm = m.bm /\ m2.disk = m.disk /\ m2.fault = m.fault
          /\ m2.trail = m.trail
      BY <2>1, <2>3 DEF Machines
    <2> HIDE DEF m2
    <2>5. m3 \in Machines /\ m3.ok = TRUE /\ m3.ret = b
          /\ m3.ino = m.ino /\ m3.bm = m.bm \cup {b} /\ m3.disk = m.disk /\ m3.fault = m.fault
          /\ m3.trail = m.trail
      BY <1>1, <2>1, <2>4 DEF Machines
    <2> HIDE DEF m3
    <2>6. b \in Covered(b)
      BY <2>1 DEF Covered
    <2>7. /\ r \in Machines
          /\ r.ino = m.ino /\ r.bm = m.bm \cup {b} /\ r.ret = b /\ r.ok = TRUE /\ r.fault = m.fault
          /\ r.disk.ino = m.disk.ino /\ r.disk.magic = m.disk.magic /\ r.disk.data = m.disk.data
          /\ r.disk.bm = (m.disk.bm \ Covered(b)) \cup ((m.bm \cup {b}) \cap Covered(b))
          /\ r.trail = m.trail \cup {r.disk}
      BY <2>2, <2>5, FlushBitDoes
    <2>8. m.bm # Blocks
      BY <1>3
    <2>9. m.disk.bm = m.bm => r.disk.bm = r.bm
      BY <2>6, <2>7
    <2> QED
      BY <2>1, <2>7, <2>8, <2>9
  <1> QED
    BY <1>2, <1>3

\* freeBlock: right for a block of the bitmap's first block.
LEMMA FreeDoes ==
  ASSUME NEW m \in Machines, NEW b \in Nat, NEW r, r = freeBlock(m, b)
  PROVE  /\ r \in Machines
         /\ r.ino = m.ino /\ r.fault = m.fault /\ r.ok = m.ok /\ r.ret = m.ret
         /\ r.disk.ino = m.disk.ino /\ r.disk.magic = m.disk.magic /\ r.disk.data = m.disk.data
         /\ b < BITS_PER_BLOCK => r.bm = m.bm \ {b}
         /\ (b < BITS_PER_BLOCK /\ m.disk.bm = m.bm) => r.disk.bm = r.bm
  <1> DEFINE bits == m.bm \ {b % BITS_PER_BLOCK}
             m1 == [m EXCEPT !.bm = bits]
  <1>1. bits \in SUBSET Blocks
    BY Fields
  <1>2. r = flushBit(m1, b)
    BY DEF freeBlock, Machines
  <1>3. b < BITS_PER_BLOCK => b % BITS_PER_BLOCK = b
    BY GeometryAssumption
  <1>4. b < BITS_PER_BLOCK => bits = m.bm \ {b}
    BY <1>3
  <1> HIDE DEF bits
  <1>5. m1 \in Machines /\ m1.bm = bits /\ m1.ret = m.ret /\ m1.ok = m.ok
        /\ m1.ino = m.ino /\ m1.disk = m.disk /\ m1.fault = m.fault
    BY <1>1 DEF Machines
  <1> HIDE DEF m1
  <1>6. (b < BITS_PER_BLOCK /\ b \in Blocks) => b \in Covered(b)
    BY DEF Covered
  <1>7. m.bm \in SUBSET Blocks
    BY Fields
  <1>8. (b < BITS_PER_BLOCK /\ m.disk.bm = m.bm)
          => (m.disk.bm \ Covered(b)) \cup (bits \cap Covered(b)) = bits
    BY <1>4, <1>6, <1>7
  <1>9. /\ r \in Machines
        /\ r.ino = m.ino /\ r.bm = bits /\ r.ret = m.ret /\ r.ok = m.ok /\ r.fault = m.fault
        /\ r.disk.ino = m.disk.ino /\ r.disk.magic = m.disk.magic /\ r.disk.data = m.disk.data
        /\ r.disk.bm = (m.disk.bm \ Covered(b)) \cup (bits \cap Covered(b))
    BY <1>2, <1>5, FlushBitDoes
  <1> QED
    BY <1>4, <1>8, <1>9


\* A machine with another inode i.
WithINode(m, i, n) == [m EXCEPT !.ino = [m.ino EXCEPT ![i] = n]]

\* A machine with another size of inode i.
WithSize(m, i, k) == WithINode(m, i, [m.ino[i] EXCEPT !.fileSize = k])

\* One inode changes in memory.
LEMMA INodeChanges ==
  ASSUME NEW m \in Machines, NEW i \in INodes, NEW n \in INodeSet,
         NEW r, r = WithINode(m, i, n)
  PROVE  /\ r \in Machines
         /\ r.ok = m.ok /\ r.bm = m.bm /\ r.disk = m.disk /\ r.ret = m.ret
         /\ r.trail = m.trail /\ r.fault = m.fault
         /\ \A j \in INodes : r.ino[j] = IF j = i THEN n ELSE m.ino[j]
  <1> DEFINE t == [m.ino EXCEPT ![i] = n]
  <1>1. t \in Tables /\ \A j \in INodes : t[j] = IF j = i THEN n ELSE m.ino[j]
    BY Fields DEF Tables
  <1> HIDE DEF t
  <1>2. r = [m EXCEPT !.ino = t]
    BY DEF t, WithINode
  <1>3. /\ r \in Machines /\ r.ino = t
        /\ r.ok = m.ok /\ r.bm = m.bm /\ r.disk = m.disk /\ r.ret = m.ret
        /\ r.trail = m.trail /\ r.fault = m.fault
    BY ONLY m \in Machines, <1>1, <1>2, TableChanges
  <1> QED
    BY <1>1, <1>3

\* The size of a file or directory changes.
LEMMA SizeChanges ==
  ASSUME NEW m \in Machines, NEW i \in INodes,
         NEW k \in 0 .. MAX_BLOCKS_PER_FILE * ENTRIES_PER_BLOCK,
         NEW r, r = WithSize(m, i, k)
  PROVE  /\ r \in Machines
         /\ r.ok = m.ok /\ r.bm = m.bm /\ r.disk = m.disk /\ r.ret = m.ret
         /\ r.trail = m.trail /\ r.fault = m.fault
         /\ \A j \in INodes :
              /\ r.ino[j].type = m.ino[j].type /\ r.ino[j].isUsed = m.ino[j].isUsed
              /\ r.ino[j].parentINode = m.ino[j].parentINode
              /\ r.ino[j].blocks = m.ino[j].blocks
              /\ r.ino[j].fileSize = IF j = i THEN k ELSE m.ino[j].fileSize
  <1> DEFINE n == [m.ino[i] EXCEPT !.fileSize = k]
  <1>1. m.ino[i] \in INodeSet
    BY Fields, INodeFields
  <1>2. /\ n \in INodeSet /\ n.fileSize = k /\ n.type = m.ino[i].type
        /\ n.parentINode = m.ino[i].parentINode /\ n.blocks = m.ino[i].blocks
    BY <1>1 DEF INodeSet
  <1>3. n.isUsed = m.ino[i].isUsed
    BY <1>1 DEF INodeSet
  <1>4. r = WithINode(m, i, n)
    BY DEF WithSize
  <1> HIDE DEF n
  <1>5. /\ r \in Machines
        /\ r.ok = m.ok /\ r.bm = m.bm /\ r.disk = m.disk /\ r.ret = m.ret
        /\ r.trail = m.trail /\ r.fault = m.fault
        /\ \A j \in INodes : r.ino[j] = IF j = i THEN n ELSE m.ino[j]
    BY ONLY m \in Machines, i \in INodes, <1>2, <1>4, INodeChanges
  <1> QED
    BY <1>2, <1>3, <1>5
-----------------------------------------------------------------------------
(* Blocks owned once: in memory, on the disk, and whatever mixture of the  *)
(* two tables a power failure leaves.                                      *)

Meta == 0 .. META_BLOCKS - 1

\* The blocks of a table are marked and behind the metadata.
Behind(t, b) ==
  \A i \in INodes, x \in FileBlocks : t[i].blocks[x] # 0 => t[i].blocks[x] \in b \ Meta

\* The two tables have a block in common only at the same place.
Apart(t, u) ==
  \A i, j \in INodes, x, y \in FileBlocks :
    t[i].blocks[x] # 0 /\ t[i].blocks[x] = u[j].blocks[y] => i = j /\ x = y

\* What loadSuperBlock makes a sound machine of.
Recoverable(d) == d.magic /\ Meta \subseteq d.bm /\ Behind(d.ino, d.bm) /\ Apart(d.ino, d.ino)

Steady(m) ==
  /\ m.disk.magic /\ m.disk.bm = m.bm /\ Meta \subseteq m.bm
  /\ Behind(m.ino, m.bm) /\ Behind(m.disk.ino, m.bm)
  /\ Apart(m.ino, m.ino) /\ Apart(m.disk.ino, m.disk.ino) /\ Apart(m.disk.ino, m.ino)

Safe(m) == \A d \in m.trail : Recoverable(d)

\* r comes of m by steps that power may interrupt.
Keeps(m, r) ==
  /\ r \in Machines
  /\ Steady(m) => Steady(r)
  /\ Steady(m) /\ Safe(m) => Safe(r)

SameBlocks(t, u) == \A i \in INodes : t[i].blocks = u[i].blocks
SameElse(t, u, i) == \A j \in INodes \ {i} : t[j] = u[j]

\* Steps follow each other.
LEMMA KeepsOn ==
  ASSUME NEW m, NEW r, NEW s, Keeps(m, r), Keeps(r, s)
  PROVE  Keeps(m, s)
  BY DEF Keeps

\* The disk of a steady machine can be recovered from.
LEMMA SteadyDisk ==
  ASSUME NEW m, Steady(m)
  PROVE  Recoverable(m.disk)
  BY DEF Steady, Recoverable

\* Nothing happens to the blocks.
LEMMA SameKeeps ==
  ASSUME NEW m \in Machines, NEW r \in Machines, r.bm = m.bm,
         SameBlocks(r.ino, m.ino), r.disk.ino = m.disk.ino, r.disk.bm = m.disk.bm,
         r.disk.magic = m.disk.magic, r.trail \subseteq m.trail \cup {r.disk}
  PROVE  Keeps(m, r)
  <1>1. ASSUME Steady(m) PROVE Steady(r)
    BY <1>1 DEF Steady, Behind, Apart, SameBlocks
  <1>2. ASSUME Steady(m), Safe(m) PROVE Safe(r)
    BY <1>1, <1>2, SteadyDisk DEF Safe
  <1> QED
    BY <1>1, <1>2 DEF Keeps

\* writeBlock leaves table and bitmap alone.
LEMMA WriteBlockKeeps ==
  ASSUME NEW m \in Machines, NEW b \in Blocks, NEW content \in BlockSet
  PROVE  Keeps(m, WriteBlock(m, b, content))
  <1> DEFINE r == WriteBlock(m, b, content)
  <1>0. r = WriteBlock(m, b, content)
    OBVIOUS
  <1> HIDE DEF r
  <1>1. /\ r \in Machines /\ r.ino = m.ino /\ r.bm = m.bm
        /\ r.disk.ino = m.disk.ino /\ r.disk.bm = m.disk.bm /\ r.disk.magic = m.disk.magic
        /\ r.trail \subseteq m.trail \cup {r.disk}
    BY <1>0, WriteBlockDoes
  <1>2. SameBlocks(r.ino, m.ino)
    BY <1>1 DEF SameBlocks
  <1>3. Keeps(m, r)
    BY <1>1, <1>2, SameKeeps
  <1> QED
    BY <1>3 DEF r

\* A call that only reports.
LEMMA ReportKeeps ==
  ASSUME NEW m \in Machines, NEW v \in BOOLEAN,
         NEW r, r = [m EXCEPT !.ok = v]
  PROVE  Keeps(m, r)
  <1>1. /\ r \in Machines /\ r.ino = m.ino /\ r.bm = m.bm /\ r.disk = m.disk /\ r.trail = m.trail
    BY Reports
  <1>2. SameBlocks(r.ino, m.ino)
    BY <1>1 DEF SameBlocks
  <1> QED
    BY <1>1, <1>2, SameKeeps

\* The table in memory changes, but no block changes hands.
LEMMA TableKeeps ==
  ASSUME NEW m \in Machines, NEW t \in Tables, SameBlocks(t, m.ino),
         NEW r, r = [m EXCEPT !.ino = t]
  PROVE  Keeps(m, r)
  <1>1. /\ r \in Machines /\ r.ino = t /\ r.bm = m.bm /\ r.disk = m.disk /\ r.trail = m.trail
    BY TableChanges
  <1> QED
    BY <1>1, SameKeeps

\* A table that is written inode by inode is at any moment a mixture of the two.
LEMMA MixtureIsApart ==
  ASSUME NEW t, NEW u, NEW w, NEW b, Apart(t, t), Apart(u, u), Apart(u, t),
         Behind(t, b), Behind(u, b), \A i \in INodes : w[i] \in {t[i], u[i]}
  PROVE  Apart(w, w) /\ Behind(w, b)
  <1>1. Behind(w, b)
    BY DEF Behind
  <1>2. ASSUME NEW i \in INodes, NEW j \in INodes, NEW x \in FileBlocks, NEW y \in FileBlocks,
               w[i].blocks[x] # 0, w[i].blocks[x] = w[j].blocks[y]
        PROVE  i = j /\ x = y
    <2>1. CASE w[i] = t[i] /\ w[j] = t[j]
      BY <1>2, <2>1 DEF Apart
    <2>2. CASE w[i] = t[i] /\ w[j] = u[j]
      BY <1>2, <2>2 DEF Apart
    <2>3. CASE w[i] = u[i] /\ w[j] = t[j]
      BY <1>2, <2>3 DEF Apart
    <2>4. CASE w[i] = u[i] /\ w[j] = u[j]
      BY <1>2, <2>4 DEF Apart
    <2> QED
      BY <2>1, <2>2, <2>3, <2>4
  <1> QED
    BY <1>1, <1>2 DEF Apart

\* flushInodeTable can be interrupted at every inode.
LEMMA FlushKeeps ==
  ASSUME NEW m \in Machines
  PROVE  Keeps(m, flushInodeTable(m))
  <1> DEFINE r == flushInodeTable(m)
  <1>1. /\ r \in Machines /\ r.ino = m.ino /\ r.bm = m.bm
        /\ r.disk.ino = m.ino /\ r.disk.bm = m.disk.bm /\ r.disk.magic = m.disk.magic
        /\ r.trail = m.trail \cup {UpTo(m, k) : k \in INodes}
    BY FlushDoes
  <1> HIDE DEF r
  <1>2. ASSUME Steady(m) PROVE Steady(r)
    BY <1>1, <1>2 DEF Steady
  <1>3. ASSUME Steady(m), NEW k \in INodes PROVE Recoverable(UpTo(m, k))
    <2>1. /\ UpTo(m, k).bm = m.bm /\ UpTo(m, k).magic = m.disk.magic
          /\ UpTo(m, k).ino = [i \in INodes |-> IF i <= k THEN m.ino[i] ELSE m.disk.ino[i]]
      BY <1>3 DEF UpTo, Machines, Disks, Steady
    <2>2. \A i \in INodes : UpTo(m, k).ino[i] \in {m.ino[i], m.disk.ino[i]}
      BY <2>1
    <2>3. Apart(UpTo(m, k).ino, UpTo(m, k).ino) /\ Behind(UpTo(m, k).ino, m.bm)
      BY <1>3, <2>2, MixtureIsApart DEF Steady
    <2> QED
      BY <1>3, <2>1, <2>3 DEF Steady, Recoverable
  <1>4. ASSUME Steady(m), Safe(m) PROVE Safe(r)
    BY <1>1, <1>3, <1>4 DEF Safe
  <1>5. Keeps(m, r)
    BY <1>1, <1>2, <1>4 DEF Keeps
  <1> QED
    BY <1>5 DEF r

\* allocateBlock marks a block, on the disk too, before anyone owns it.
LEMMA AllocateKeeps ==
  ASSUME NEW m \in Machines
  PROVE  Keeps(m, allocateBlock(m))
  <1> DEFINE r == allocateBlock(m)
  <1>1. /\ r \in Machines /\ r.ino = m.ino
        /\ r.disk.ino = m.disk.ino /\ r.disk.magic = m.disk.magic
        /\ ~ r.ok => r.bm = m.bm /\ r.disk = m.disk /\ r.trail = m.trail
        /\ r.ok => /\ r.bm = m.bm \cup {r.ret}
                   /\ m.disk.bm = m.bm => r.disk.bm = r.bm
                   /\ r.trail = m.trail \cup {r.disk}
    BY AllocateDoes
  <1> HIDE DEF r
  <1>2. ASSUME Steady(m) PROVE Steady(r)
    <2>1. m.bm \subseteq r.bm /\ r.disk.bm = r.bm
      BY <1>1, <1>2 DEF Steady
    <2> QED
      BY <1>1, <1>2, <2>1 DEF Steady, Behind
  <1>3. ASSUME Steady(m), Safe(m) PROVE Safe(r)
    <2>1. r.trail \subseteq m.trail \cup {r.disk}
      BY <1>1
    <2> QED
      BY <1>2, <1>3, <2>1, SteadyDisk DEF Safe
  <1>4. Keeps(m, r)
    BY <1>1, <1>2, <1>3 DEF Keeps
  <1> QED
    BY <1>4 DEF r

\* The blocks of t are those of u, but for one place.
Takes(t, u, i, x, v) ==
  \A j \in INodes, y \in FileBlocks :
    t[j].blocks[y] = IF j = i /\ y = x THEN v ELSE u[j].blocks[y]

\* The block that allocateBlock returned goes to one place of one inode.
LEMMA TakingKeeps ==
  ASSUME NEW m \in Machines, NEW a, a = allocateBlock(m), a.ok,
         NEW t \in Tables, NEW i \in INodes, NEW x \in FileBlocks,
         Takes(t, m.ino, i, x, a.ret), NEW r, r = [a EXCEPT !.ino = t]
  PROVE  Keeps(m, r)
  <1> DEFINE v == a.ret
  <1>1. Keeps(m, a) /\ a \in Machines
    BY AllocateKeeps DEF Keeps
  <1>2. a.ino = m.ino /\ a.disk.ino = m.disk.ino /\ v \in Blocks \ m.bm /\ v \in a.bm
    BY AllocateDoes
  <1>3. /\ r \in Machines /\ r.ino = t /\ r.bm = a.bm /\ r.disk = a.disk /\ r.trail = a.trail
    BY <1>1, TableChanges
  <1> HIDE DEF v
  <1> USE DEF Takes
  <1>4. ASSUME Steady(m) PROVE Steady(r)
    <2>1. Steady(a)
      BY <1>1, <1>4 DEF Keeps
    <2>2. v \notin Meta /\ Meta \subseteq m.bm
      BY <1>2, <1>4 DEF Steady
    <2>3. \A j \in INodes, y \in FileBlocks :
            /\ m.ino[j].blocks[y] # 0 => m.ino[j].blocks[y] # v
            /\ m.disk.ino[j].blocks[y] # 0 => m.disk.ino[j].blocks[y] # v
      BY <1>2, <1>4 DEF Steady, Behind
    <2>4. 0 \in Meta
      BY GeometryAssumption DEF Meta
    <2>5. v # 0
      BY <2>2, <2>4
    <2>6. Behind(t, r.bm)
      BY <1>2, <1>3, <2>1, <2>2 DEF Steady, Behind, v
    <2>7. Apart(t, t)
      <3>1. Apart(m.ino, m.ino)
        BY <1>4 DEF Steady
      <3> SUFFICES ASSUME NEW j \in INodes, NEW k \in INodes, NEW y \in FileBlocks, NEW z \in FileBlocks,
                          t[j].blocks[y] # 0, t[j].blocks[y] = t[k].blocks[z]
                   PROVE  j = k /\ y = z
        BY DEF Apart
      <3>2. CASE (j = i /\ y = x) \/ (k = i /\ z = x)
        BY <2>3, <2>5, <3>2 DEF v
      <3>3. CASE ~ (j = i /\ y = x) /\ ~ (k = i /\ z = x)
        BY <3>1, <3>3 DEF Apart
      <3> QED
        BY <3>2, <3>3
    <2>8. Apart(m.disk.ino, t)
      <3>1. Apart(m.disk.ino, m.ino)
        BY <1>4 DEF Steady
      <3> QED
        BY <2>3, <3>1 DEF Apart, v
    <2> QED
      BY <1>2, <1>3, <2>1, <2>6, <2>7, <2>8 DEF Steady
  <1>5. ASSUME Steady(m), Safe(m) PROVE Safe(r)
    BY <1>1, <1>3, <1>5 DEF Keeps, Safe
  <1> QED
    BY <1>3, <1>4, <1>5 DEF Keeps

-----------------------------------------------------------------------------
(* The calls keep machines machines, and what is steady steady.            *)

\* Entries are read from blocks of the directory.
LEMMA EntryType ==
  ASSUME NEW m \in Machines, NEW dir \in INodes, NEW p \in Positions(m, dir)
  PROVE  /\ p \in Nat /\ p < m.ino[dir].fileSize /\ BlockOf(p) \in FileBlocks
         /\ m.ino[dir].blocks[BlockOf(p)] \in Blocks
         /\ EntryAt(m, dir, p) \in Entries
         /\ EntryAt(m, dir, p).inodeNumber \in INodes /\ EntryAt(m, dir, p).name \in NameSet
  <1>1. m.ino \in Tables /\ m.disk.data \in DataSet
    BY Fields
  <1>2. m.ino[dir].fileSize \in Nat /\ m.ino[dir].blocks \in [FileBlocks -> Blocks]
    BY <1>1, INodeFields
  <1>3. p \in Nat /\ p < m.ino[dir].fileSize /\ BlockOf(p) \in FileBlocks
    BY <1>2 DEF Positions
  <1>4. SlotOf(p) \in Slots
    BY <1>3, Place
  <1>5. EntryAt(m, dir, p) \in Entries
    BY <1>1, <1>2, <1>3, <1>4 DEF EntryAt, DataSet, BlockSet
  <1> QED
    BY <1>2, <1>3, <1>5 DEF Entries

\* findFile returns the first entry with the name, or none.
LEMMA FindDoes ==
  ASSUME NEW m \in Machines, NEW dir \in INodes, NEW name
  PROVE  /\ Matches(m, dir, name) = {} => findFile(m, dir, name) = NONE
         /\ Matches(m, dir, name) # {} =>
              /\ Min(Matches(m, dir, name)) \in Positions(m, dir)
              /\ EntryAt(m, dir, Min(Matches(m, dir, name))).name = name
              /\ findFile(m, dir, name) = EntryAt(m, dir, Min(Matches(m, dir, name))).inodeNumber
              /\ findFile(m, dir, name) \in INodes
  <1>1. Matches(m, dir, name) = {} => findFile(m, dir, name) = NONE
    BY DEF findFile
  <1>2. ASSUME Matches(m, dir, name) # {}
        PROVE  /\ Min(Matches(m, dir, name)) \in Positions(m, dir)
               /\ EntryAt(m, dir, Min(Matches(m, dir, name))).name = name
               /\ findFile(m, dir, name) = EntryAt(m, dir, Min(Matches(m, dir, name))).inodeNumber
               /\ findFile(m, dir, name) \in INodes
    <2>1. Matches(m, dir, name) \subseteq Nat
      BY EntryType DEF Matches
    <2>2. Min(Matches(m, dir, name)) \in Matches(m, dir, name)
      BY <1>2, <2>1, MinIs
    <2>3. findFile(m, dir, name) = EntryAt(m, dir, Min(Matches(m, dir, name))).inodeNumber
      BY <1>2 DEF findFile
    <2> QED
      BY <2>2, <2>3, EntryType DEF Matches
  <1> QED
    BY <1>1, <1>2

\* findFile returns an inode or NONE.
LEMMA FindType ==
  ASSUME NEW m \in Machines, NEW dir \in INodes, NEW name, findFile(m, dir, name) # NONE
  PROVE  findFile(m, dir, name) \in INodes /\ Matches(m, dir, name) # {}
  BY FindDoes

\* A block with room: the last one, or a new one.
LEMMA RoomDoes ==
  ASSUME NEW m \in Machines, NEW dir \in INodes, NEW r, r = roomFor(m, dir),
         NEW fs, fs = m.ino[dir].fileSize
  PROVE  /\ Keeps(m, r)
         /\ r.disk.ino = m.disk.ino /\ r.disk.data = m.disk.data /\ r.fault = m.fault
         /\ r.ok => BlockOf(fs) \in FileBlocks /\ fs < MAX_BLOCKS_PER_FILE * ENTRIES_PER_BLOCK
         /\ ~ r.ok => m.bm = Blocks \/ BlockOf(fs) \notin FileBlocks
         /\ ~ (r.ok /\ SlotOf(fs) = 0) => /\ r.ino = m.ino /\ r.bm = m.bm
                                          /\ r.disk = m.disk /\ r.trail = m.trail
         /\ (r.ok /\ SlotOf(fs) = 0) =>
              \E v \in Blocks \ m.bm :
                /\ r.bm = m.bm \cup {v}
                /\ \A i \in INodes :
                     /\ r.ino[i].type = m.ino[i].type /\ r.ino[i].fileSize = m.ino[i].fileSize
                     /\ r.ino[i].isUsed = m.ino[i].isUsed
                     /\ r.ino[i].parentINode = m.ino[i].parentINode
                     /\ \A x \in FileBlocks : r.ino[i].blocks[x] =
                          IF i = dir /\ x = BlockOf(fs) THEN v ELSE m.ino[i].blocks[x]
  <1> DEFINE b == BlockOf(fs)
             a == allocateBlock(m)
  <1>1. m.ino \in Tables /\ fs \in Nat /\ fs <= MAX_BLOCKS_PER_FILE * ENTRIES_PER_BLOCK
    BY Fields, INodeFields, GeometryAssumption
  <1>2. b \in Nat /\ SlotOf(fs) \in Nat /\ SlotOf(fs) < ENTRIES_PER_BLOCK
        /\ fs = ENTRIES_PER_BLOCK * b + SlotOf(fs)
    <2>1. \A k \in Slots : k \in Nat /\ k < ENTRIES_PER_BLOCK
      BY GeometryAssumption DEF Slots
    <2> QED
      BY <1>1, <2>1, Place
  <1>3. SlotOf(fs) # 0 => b \in FileBlocks
    <2>1. \A q, n, e \in Nat : q >= n => e * q >= n * e
      OBVIOUS
    <2> SUFFICES ASSUME SlotOf(fs) # 0, b >= MAX_BLOCKS_PER_FILE PROVE FALSE
      BY <1>2, GeometryAssumption DEF FileBlocks
    <2>2. ENTRIES_PER_BLOCK * b >= MAX_BLOCKS_PER_FILE * ENTRIES_PER_BLOCK
      BY <2>1, <1>2, GeometryAssumption
    <2> QED
      BY <1>1, <1>2, <2>2, GeometryAssumption
  <1>4. b \in FileBlocks => fs < MAX_BLOCKS_PER_FILE * ENTRIES_PER_BLOCK
    <2>1. \A q, n, e \in Nat : q + 1 <= n => e * q + e <= n * e
      <3> SUFFICES ASSUME NEW q \in Nat, NEW n \in Nat, NEW e \in Nat, q + 1 <= n
                   PROVE  e * q + e <= n * e
        OBVIOUS
      <3>1. n * e = (q + 1) * e + (n - (q + 1)) * e
        OBVIOUS
      <3>2. (n - (q + 1)) * e >= 0
        OBVIOUS
      <3> QED
        BY <3>1, <3>2
    <2> SUFFICES ASSUME b + 1 <= MAX_BLOCKS_PER_FILE
                 PROVE  fs < MAX_BLOCKS_PER_FILE * ENTRIES_PER_BLOCK
      BY <1>2, GeometryAssumption DEF FileBlocks
    <2>2. ENTRIES_PER_BLOCK * b + ENTRIES_PER_BLOCK <= MAX_BLOCKS_PER_FILE * ENTRIES_PER_BLOCK
      BY <2>1, <1>2, GeometryAssumption
    <2> QED
      BY <1>1, <1>2, <2>2, GeometryAssumption
  <1>5. CASE SlotOf(fs) # 0
    <2>1. r = [m EXCEPT !.ok = TRUE]
      BY <1>5 DEF roomFor
    <2>2. Keeps(m, r)
      BY <2>1, ReportKeeps
    <2>3. /\ r.ino = m.ino /\ r.bm = m.bm /\ r.disk = m.disk /\ r.trail = m.trail
          /\ r.fault = m.fault /\ r.ok = TRUE
      BY <2>1, Reports
    <2> QED
      BY <1>3, <1>4, <1>5, <2>2, <2>3
  <1>6. CASE SlotOf(fs) = 0 /\ b \notin FileBlocks
    <2>1. r = [m EXCEPT !.ok = FALSE]
      BY <1>6 DEF roomFor
    <2>2. Keeps(m, r)
      BY <2>1, ReportKeeps
    <2>3. /\ r.ino = m.ino /\ r.bm = m.bm /\ r.disk = m.disk /\ r.trail = m.trail
          /\ r.fault = m.fault /\ r.ok = FALSE
      BY <2>1, Reports
    <2> QED
      BY <1>6, <2>2, <2>3
  <1>7. CASE SlotOf(fs) = 0 /\ b \in FileBlocks /\ ~ a.ok
    <2>1. r = a
      BY <1>7 DEF roomFor
    <2> QED
      BY <1>4, <1>7, <2>1, AllocateDoes, AllocateKeeps
  <1>8. CASE SlotOf(fs) = 0 /\ b \in FileBlocks /\ a.ok
    <2>1. /\ a \in Machines /\ a.ino = m.ino /\ a.fault = m.fault
          /\ a.disk.ino = m.disk.ino /\ a.disk.data = m.disk.data
          /\ a.ret \in Blocks \ m.bm /\ a.bm = m.bm \cup {a.ret}
      BY <1>8, AllocateDoes
    <2> DEFINE t == WithBlock(m.ino, dir, b, a.ret)
    <2>2. r = [a EXCEPT !.ino = t]
      BY <1>8, <2>1 DEF roomFor
    <2>3. t \in Tables
          /\ \A i \in INodes :
            /\ t[i].type = m.ino[i].type /\ t[i].fileSize = m.ino[i].fileSize
            /\ t[i].isUsed = m.ino[i].isUsed /\ t[i].parentINode = m.ino[i].parentINode
            /\ \A x \in FileBlocks : t[i].blocks[x] =
                 IF i = dir /\ x = b THEN a.ret ELSE m.ino[i].blocks[x]
      BY <1>1, <1>8, <2>1, WithBlockDoes
    <2> HIDE DEF t
    <2>4. /\ a = allocateBlock(m) /\ a.ok /\ t \in Tables /\ b \in FileBlocks
          /\ Takes(t, m.ino, dir, b, a.ret)
      BY <1>8, <2>3 DEF Takes
    <2> HIDE DEF a, b
    <2>5. Keeps(m, r)
      BY <2>2, <2>4, TakingKeeps
    <2>6. /\ r.ino = t /\ r.bm = a.bm /\ r.disk = a.disk /\ r.fault = a.fault /\ r.ok = a.ok
      BY <2>1, <2>2, <2>3, TableChanges
    <2> QED
      BY <1>4, <1>8, <2>1, <2>2, <2>3, <2>5, <2>6 DEF b
  <1> QED
    BY <1>5, <1>6, <1>7, <1>8


\* What addDirEntry did when it returned 0.
Added(m, r, dir, inode, name) ==
  LET fs == m.ino[dir].fileSize
  IN  /\ fs < MAX_BLOCKS_PER_FILE * ENTRIES_PER_BLOCK
      /\ \A i \in INodes :
           /\ r.ino[i].type = m.ino[i].type /\ r.ino[i].isUsed = m.ino[i].isUsed
           /\ r.ino[i].parentINode = m.ino[i].parentINode
           /\ r.ino[i].fileSize = IF i = dir THEN fs + 1 ELSE m.ino[i].fileSize
      /\ \E at \in Blocks :
           /\ IF SlotOf(fs) = 0 THEN at \notin m.bm ELSE at = m.ino[dir].blocks[BlockOf(fs)]
           /\ r.bm \subseteq m.bm \cup {at}
           /\ Takes(r.ino, m.ino, dir, BlockOf(fs), at)
           /\ \A x \in Blocks, s \in Slots :
                r.disk.data[x][s] = IF x # at THEN m.disk.data[x][s]
                                    ELSE IF s = SlotOf(fs) THEN Entry(inode, name)
                                    ELSE IF SlotOf(fs) = 0 THEN ZeroEntry
                                    ELSE m.disk.data[x][s]

\* A block with another entry in slot s.
WithEntry(old, s, e) == [old EXCEPT ![s] = e]

\* An entry is written into a block of entries.
LEMMA EntryFits ==
  ASSUME NEW old \in BlockSet, NEW s \in Slots, NEW e \in Entries,
         NEW c, c = WithEntry(old, s, e)
  PROVE  c \in BlockSet /\ \A x \in Slots : c[x] = IF x = s THEN e ELSE old[x]
  BY DEF BlockSet, WithEntry

\* An empty block.
LEMMA ZeroFits ==
  /\ ZeroEntry \in Entries /\ ZeroBlock \in BlockSet
  /\ \A s \in Slots : ZeroBlock[s] = ZeroEntry
  <1>1. ZeroEntry \in Entries
    BY Ranges DEF ZeroEntry, Entry, Entries, NameSet
  <1> QED
    BY <1>1 DEF ZeroBlock, BlockSet

\* addDirEntry: the entry is written, then the directory grows; nothing has
\* happened when there is no room; a fault is a write that failed.
LEMMA AddDoes ==
  ASSUME NEW m \in Machines, NEW dir \in INodes, NEW inode \in INodes, NEW name \in NameSet,
         NEW r, r = addDirEntry(m, dir, inode, name)
  PROVE  /\ Keeps(m, r)
         /\ m.fault => r.fault
         /\ ~ r.ok => r.fault \/ (r.ino = m.ino /\ r.bm = m.bm /\ r.disk = m.disk)
         /\ ~ r.ok => \/ r.fault \/ m.bm = Blocks
                      \/ m.ino[dir].fileSize >= MAX_BLOCKS_PER_FILE * ENTRIES_PER_BLOCK
         /\ r.ok => /\ r.fault <=> m.fault
                    /\ r.disk.ino = r.ino
                    /\ Added(m, r, dir, inode, name)
  <1> DEFINE fs == m.ino[dir].fileSize
             m1 == roomFor(m, dir)
             at == m1.ino[dir].blocks[BlockOf(fs)]
             old == IF SlotOf(fs) = 0 THEN ZeroBlock ELSE m1.disk.data[at]
             content == [old EXCEPT ![SlotOf(fs)] = Entry(inode, name)]
             m2 == WriteBlock(m1, at, content)
             m3 == WithSize(m2, dir, fs + 1)
  <1>m1. m1 = roomFor(m, dir)
    OBVIOUS
  <1>c. content = WithEntry(old, SlotOf(fs), Entry(inode, name))
    BY DEF WithEntry
  <1>m2. m2 = WriteBlock(m1, at, content)
    OBVIOUS
  <1>m3. m3 = WithSize(m2, dir, fs + 1)
    OBVIOUS
  <1>1. fs \in Nat /\ SlotOf(fs) \in Slots /\ m.disk.data \in DataSet
    BY Fields, INodeFields, Place
  <1>2. /\ Keeps(m, m1) /\ m1 \in Machines
        /\ m1.disk.ino = m.disk.ino /\ m1.disk.data = m.disk.data /\ m1.fault = m.fault
        /\ m1.ok => BlockOf(fs) \in FileBlocks /\ fs < MAX_BLOCKS_PER_FILE * ENTRIES_PER_BLOCK
        /\ ~ m1.ok => m.bm = Blocks \/ BlockOf(fs) \notin FileBlocks
        /\ ~ (m1.ok /\ SlotOf(fs) = 0) => m1.ino = m.ino /\ m1.bm = m.bm /\ m1.disk = m.disk
    BY RoomDoes DEF Keeps
  <1>3. CASE ~ m1.ok
    <2>1. r = m1
      BY <1>3 DEF addDirEntry
    <2>2. m.bm = Blocks \/ fs >= MAX_BLOCKS_PER_FILE * ENTRIES_PER_BLOCK
      <3> HIDE DEF fs, m1
      <3>1. fs < MAX_BLOCKS_PER_FILE * ENTRIES_PER_BLOCK => BlockOf(fs) \in FileBlocks
        BY <1>1, PlaceInFile
      <3>2. MAX_BLOCKS_PER_FILE * ENTRIES_PER_BLOCK \in Nat
        BY GeometryAssumption
      <3> QED
        BY <1>1, <1>2, <1>3, <3>1, <3>2
    <2> QED
      BY <1>2, <1>3, <2>1, <2>2
  <1>4. CASE m1.ok
    <2>1. at \in Blocks /\ BlockOf(fs) \in FileBlocks
      BY <1>2, <1>4, Fields, INodeFields
    <2>2. \A i \in INodes :
            /\ m1.ino[i].type = m.ino[i].type /\ m1.ino[i].isUsed = m.ino[i].isUsed
            /\ m1.ino[i].parentINode = m.ino[i].parentINode
            /\ m1.ino[i].fileSize = m.ino[i].fileSize
      BY <1>2, <1>4, RoomDoes
    <2>3. /\ IF SlotOf(fs) = 0 THEN at \notin m.bm ELSE at = m.ino[dir].blocks[BlockOf(fs)]
          /\ m1.bm \subseteq m.bm \cup {at}
          /\ Takes(m1.ino, m.ino, dir, BlockOf(fs), at)
      <3>1. CASE SlotOf(fs) = 0
        <4>1. PICK v \in Blocks \ m.bm :
                /\ m1.bm = m.bm \cup {v}
                /\ \A i \in INodes, x \in FileBlocks : m1.ino[i].blocks[x] =
                     IF i = dir /\ x = BlockOf(fs) THEN v ELSE m.ino[i].blocks[x]
          BY <1>4, <3>1, RoomDoes
        <4>2. at = v
          BY <2>1, <4>1
        <4> QED
          BY <3>1, <4>1, <4>2 DEF Takes
      <3>2. CASE SlotOf(fs) # 0
        <4>1. m1.ino = m.ino /\ m1.bm = m.bm
          BY <1>2, <3>2
        <4> QED
          BY <3>2, <4>1 DEF Takes
      <3> QED
        BY <3>1, <3>2
    <2>4. old \in BlockSet
      BY <1>1, <1>2, <2>1, ZeroFits DEF DataSet
    <2>5. /\ content \in BlockSet
          /\ \A s \in Slots : content[s] = IF s = SlotOf(fs) THEN Entry(inode, name) ELSE old[s]
      <3>1. Entry(inode, name) \in Entries
        BY DEF Entry, Entries
      <3> HIDE DEF old, content, fs
      <3> QED
        BY <1>1, <1>c, <2>4, <3>1, EntryFits
    <2>6. r = IF ~ m2.ok THEN m2 ELSE flushInodeTable(m3)
      <3>1. m2.ino[dir].fileSize = fs
        <4>1. m2.ino = m1.ino
          <5> HIDE DEF m1, m2, at, content
          <5> QED
            BY <1>2, <1>m2, <2>1, <2>5, WriteBlockDoes
        <4> QED
          BY <2>2, <4>1
      <3>2. m3 = [m2 EXCEPT !.ino[dir].fileSize = @ + 1]
        <4> HIDE DEF m2, fs
        <4> QED
          BY <3>1 DEF WithSize, WithINode
      <3> QED
        BY <1>4, <3>2 DEF addDirEntry
    <2>7. \A s \in Slots : content[s] = IF s = SlotOf(fs) THEN Entry(inode, name)
                                        ELSE IF SlotOf(fs) = 0 THEN ZeroEntry ELSE m.disk.data[at][s]
      <3>1. \A s \in Slots : old[s] = IF SlotOf(fs) = 0 THEN ZeroEntry ELSE m1.disk.data[at][s]
        BY ZeroFits
      <3> HIDE DEF old, content
      <3> QED
        BY <1>2, <2>3, <2>5, <3>1
    <2> HIDE DEF old, content
    <2>8. /\ m2 \in Machines /\ m2.ino = m1.ino /\ m2.bm = m1.bm
          /\ m2.disk.bm = m1.disk.bm /\ m2.disk.ino = m1.disk.ino
          /\ m2.ok <=> at \notin bad
          /\ m2.fault <=> m1.fault \/ at \in bad
          /\ \A x \in Blocks : m2.disk.data[x] = IF x = at /\ at \notin bad THEN content
                                                 ELSE m1.disk.data[x]
      <3> HIDE DEF m1, m2, at
      <3> QED
        BY <1>2, <1>m2, <2>1, <2>5, WriteBlockDoes
    <2>9. Keeps(m, m2)
      BY <1>2, <2>1, <2>5, WriteBlockKeeps, KeepsOn
    <2>10. CASE ~ m2.ok
      BY <1>2, <1>4, <2>6, <2>8, <2>9, <2>10
    <2>11. CASE m2.ok
      <3> HIDE DEF m2
      <3>1. fs + 1 \in 0 .. MAX_BLOCKS_PER_FILE * ENTRIES_PER_BLOCK
        BY <1>1, <1>2, <1>4, GeometryAssumption
      <3>2. /\ m3 \in Machines
            /\ m3.ok = m2.ok /\ m3.bm = m2.bm /\ m3.disk = m2.disk
            /\ m3.trail = m2.trail /\ m3.fault = m2.fault
            /\ \A j \in INodes :
                 /\ m3.ino[j].type = m2.ino[j].type /\ m3.ino[j].isUsed = m2.ino[j].isUsed
                 /\ m3.ino[j].parentINode = m2.ino[j].parentINode
                 /\ m3.ino[j].blocks = m2.ino[j].blocks
                 /\ m3.ino[j].fileSize = IF j = dir THEN fs + 1 ELSE m2.ino[j].fileSize
        <4> DEFINE k == fs + 1
        <4>1. m3 = WithSize(m2, dir, k) /\ k \in 0 .. MAX_BLOCKS_PER_FILE * ENTRIES_PER_BLOCK
          BY <1>m3, <3>1
        <4>2. k = fs + 1
          OBVIOUS
        <4> HIDE DEF fs, m3, k
        <4> QED
          BY <2>8, <4>1, <4>2, SizeChanges
      <3> HIDE DEF m3
      <3>3. Keeps(m2, m3)
        BY <2>8, <3>2, SameKeeps DEF SameBlocks
      <3>4. /\ r.ino = m3.ino /\ r.bm = m3.bm /\ r.ok = m3.ok /\ r.fault = m3.fault
            /\ r.disk.ino = m3.ino /\ r.disk.bm = m3.disk.bm /\ r.disk.data = m3.disk.data
        <4>1. r = flushInodeTable(m3)
          BY <2>6, <2>11
        <4> QED
          BY <3>2, <4>1, FlushDoes
      <3>5. Keeps(m3, r)
        BY <2>6, <2>11, <3>2, FlushKeeps
      <3>6. Keeps(m, r)
        BY <2>9, <3>3, <3>5, KeepsOn
      <3>7. Takes(r.ino, m.ino, dir, BlockOf(fs), at)
        BY <2>3, <2>8, <3>2, <3>4 DEF Takes
      <3>8. \A x \in Blocks, s \in Slots :
                r.disk.data[x][s] = IF x # at THEN m.disk.data[x][s]
                                    ELSE IF s = SlotOf(fs) THEN Entry(inode, name)
                                    ELSE IF SlotOf(fs) = 0 THEN ZeroEntry
                                    ELSE m.disk.data[x][s]
        <4>1. at \notin bad
          BY <2>8, <2>11
        <4>2. \A x \in Blocks : r.disk.data[x] = IF x = at THEN content ELSE m.disk.data[x]
          BY <1>2, <2>8, <3>2, <3>4, <4>1
        <4> HIDE DEF at, fs
        <4> QED
          BY <2>7, <4>2
      <3>9. \A i \in INodes :
              /\ r.ino[i].type = m.ino[i].type /\ r.ino[i].isUsed = m.ino[i].isUsed
              /\ r.ino[i].parentINode = m.ino[i].parentINode
              /\ r.ino[i].fileSize = IF i = dir THEN fs + 1 ELSE m.ino[i].fileSize
        BY <2>2, <2>8, <3>2, <3>4
      <3>b. r.bm \subseteq m.bm \cup {at}
        BY <2>3, <2>8, <3>2, <3>4
      <3>10. Added(m, r, dir, inode, name)
        BY <1>2, <1>4, <2>1, <2>3, <3>7, <3>8, <3>9, <3>b DEF Added
      <3> QED
        BY <1>2, <2>8, <2>11, <3>2, <3>4, <3>6, <3>10
    <2> QED
      BY <2>10, <2>11
  <1> QED
    BY <1>3, <1>4

\* What removeDirEntry did when it returned 0.
Removed(m, r, dir, name) ==
  LET i    == Min(Matches(m, dir, name))
      last == m.ino[dir].fileSize - 1
      hole == m.ino[dir].blocks[BlockOf(i)]
      tail == m.ino[dir].blocks[BlockOf(last)]
  IN  /\ Matches(m, dir, name) # {}
      /\ \A j \in INodes :
           /\ r.ino[j].type = m.ino[j].type /\ r.ino[j].isUsed = m.ino[j].isUsed
           /\ r.ino[j].parentINode = m.ino[j].parentINode
           /\ r.ino[j].blocks = m.ino[j].blocks
           /\ r.ino[j].fileSize = IF j = dir THEN last ELSE m.ino[j].fileSize
      /\ \A x \in Blocks, s \in Slots :
           r.disk.data[x][s] =
             IF x = hole /\ s = SlotOf(i)
             THEN IF i = last THEN ZeroEntry ELSE m.disk.data[tail][SlotOf(last)]
             ELSE IF i # last /\ x = tail /\ x # hole /\ s = SlotOf(last) THEN ZeroEntry
             ELSE m.disk.data[x][s]

\* removeDirEntry: the last entry takes the place of the one that goes, then the
\* directory shrinks.
LEMMA RemoveDoes ==
  ASSUME NEW m \in Machines, NEW dir \in INodes, NEW name,
         NEW r, r = removeDirEntry(m, dir, name)
  PROVE  /\ Keeps(m, r)
         /\ m.fault => r.fault
         /\ r.bm = m.bm /\ r.disk.bm = m.disk.bm /\ r.disk.magic = m.disk.magic
         /\ SameBlocks(r.ino, m.ino)
         /\ ~ r.ok => r.ino = m.ino /\ r.disk.ino = m.disk.ino
         /\ ~ r.ok => r.fault \/ (Matches(m, dir, name) = {} /\ r.disk = m.disk)
         /\ r.ok => /\ r.fault <=> m.fault
                    /\ r.disk.ino = r.ino
                    /\ Removed(m, r, dir, name)
  <1> DEFINE i    == Min(Matches(m, dir, name))
             last == m.ino[dir].fileSize - 1
             hole == m.ino[dir].blocks[BlockOf(i)]
             tail == m.ino[dir].blocks[BlockOf(last)]
             c1   == WithEntry(m.disk.data[tail], SlotOf(last), ZeroEntry)
             m1   == IF i = last THEN [m EXCEPT !.ok = TRUE] ELSE WriteBlock(m, tail, c1)
             fill == IF i = last THEN ZeroEntry ELSE m.disk.data[tail][SlotOf(last)]
             c2   == WithEntry(m.disk.data[hole], SlotOf(i), fill)
             m2   == WriteBlock(m1, hole, c2)
             m3   == WithSize(m2, dir, last)
  <1>1. CASE Matches(m, dir, name) = {}
    <2>1. r = [m EXCEPT !.ok = FALSE]
      BY <1>1 DEF removeDirEntry
    <2>2. /\ r \in Machines /\ r.ok = FALSE
          /\ r.ino = m.ino /\ r.bm = m.bm /\ r.disk = m.disk /\ r.fault = m.fault
      BY <2>1, Reports
    <2> QED
      BY <1>1, <2>1, <2>2, ReportKeeps DEF SameBlocks
  <1>2. CASE Matches(m, dir, name) # {}
    <2>1. /\ i \in Positions(m, dir) /\ i \in Nat /\ last \in Nat
          /\ BlockOf(i) \in FileBlocks /\ BlockOf(last) \in FileBlocks
          /\ hole \in Blocks /\ tail \in Blocks /\ SlotOf(i) \in Slots /\ SlotOf(last) \in Slots
      <3>1. i \in Positions(m, dir)
        BY <1>2, FindDoes
      <3>2. m.ino[dir].fileSize \in 0 .. MAX_BLOCKS_PER_FILE * ENTRIES_PER_BLOCK
            /\ m.ino[dir].blocks \in [FileBlocks -> Blocks]
        BY Fields, INodeFields
      <3>3. i \in Nat /\ i < m.ino[dir].fileSize /\ BlockOf(i) \in FileBlocks
        BY <3>1, EntryType
      <3>4. last \in Nat /\ last < MAX_BLOCKS_PER_FILE * ENTRIES_PER_BLOCK
        BY <3>2, <3>3, GeometryAssumption
      <3> HIDE DEF i, last
      <3> QED
        BY <3>1, <3>2, <3>3, <3>4, Place, PlaceInFile
    <2>2. last \in 0 .. MAX_BLOCKS_PER_FILE * ENTRIES_PER_BLOCK
      BY <2>1, Fields, INodeFields, GeometryAssumption
    <2>3. r = IF ~ m1.ok THEN m1 ELSE IF ~ m2.ok THEN m2 ELSE flushInodeTable(m3)
      <3>0. m1.ino = m.ino /\ m2.ino = m.ino
        <4>1. m1.ino = m.ino
          BY DEF WriteBlock, Save, Machines
        <4> HIDE DEF m1
        <4> QED
          BY <4>1 DEF WriteBlock, Save
      <3>1. m2.ino[dir].fileSize - 1 = last
        BY <3>0
      <3>2. m3 = [m2 EXCEPT !.ino[dir].fileSize = @ - 1]
        <4> HIDE DEF m2, last
        <4> QED
          BY <3>1 DEF WithSize, WithINode
      <3> HIDE DEF m3
      <3> QED
        BY <1>2, <3>2 DEF removeDirEntry, WithEntry
    <2>c1. c1 = WithEntry(m.disk.data[tail], SlotOf(last), ZeroEntry)
      OBVIOUS
    <2>c2. c2 = WithEntry(m.disk.data[hole], SlotOf(i), fill)
      OBVIOUS
    <2>m1. m1 = IF i = last THEN [m EXCEPT !.ok = TRUE] ELSE WriteBlock(m, tail, c1)
      OBVIOUS
    <2>m2. m2 = WriteBlock(m1, hole, c2)
      OBVIOUS
    <2>m3. m3 = WithSize(m2, dir, last)
      OBVIOUS
    <2>5. m.disk.data[tail] \in BlockSet /\ m.disk.data[hole] \in BlockSet /\ fill \in Entries
      <3>1. m.disk.data \in DataSet
        BY Fields
      <3> HIDE DEF hole, tail, last, i
      <3> QED
        BY <2>1, <3>1, ZeroFits DEF DataSet, BlockSet
    <2>6. fill = IF i = last THEN ZeroEntry ELSE m.disk.data[tail][SlotOf(last)]
      OBVIOUS
    <2> HIDE DEF i, last, hole, tail, c1, m1, fill, c2, m2, m3
    <2>7. /\ c1 \in BlockSet
          /\ \A s \in Slots : c1[s] = IF s = SlotOf(last) THEN ZeroEntry ELSE m.disk.data[tail][s]
      <3>1. ZeroEntry \in Entries /\ m.disk.data[tail] \in BlockSet /\ SlotOf(last) \in Slots
        BY <2>1, <2>5, ZeroFits
      <3> QED
        BY ONLY <2>c1, <3>1, EntryFits
    <2>8. /\ c2 \in BlockSet
          /\ \A s \in Slots : c2[s] = IF s = SlotOf(i) THEN fill ELSE m.disk.data[hole][s]
      BY <2>1, <2>c2, <2>5, EntryFits
    <2>9. /\ m1 \in Machines /\ Keeps(m, m1)
          /\ m1.ino = m.ino /\ m1.bm = m.bm /\ m1.disk.ino = m.disk.ino
          /\ m1.disk.bm = m.disk.bm /\ m1.disk.magic = m.disk.magic
          /\ ~ m1.ok => m1.fault
          /\ m.fault => m1.fault
          /\ m1.ok => (m1.fault <=> m.fault)
          /\ m1.ok => \A x \in Blocks :
               m1.disk.data[x] = IF i # last /\ x = tail THEN c1 ELSE m.disk.data[x]
      <3>1. CASE i = last
        <4>1. m1 = [m EXCEPT !.ok = TRUE]
          BY <2>m1, <3>1
        <4>2. /\ m1 \in Machines /\ m1.ok = TRUE
              /\ m1.ino = m.ino /\ m1.bm = m.bm /\ m1.disk = m.disk /\ m1.fault = m.fault
          BY <4>1, Reports
        <4>3. Keeps(m, m1)
          BY <4>1, ReportKeeps
        <4> QED
          BY <3>1, <4>2, <4>3
      <3>2. CASE i # last
        <4>1. m1 = WriteBlock(m, tail, c1)
          BY <2>m1, <3>2
        <4>2. /\ m1 \in Machines
              /\ m1.ino = m.ino /\ m1.bm = m.bm /\ m1.disk.ino = m.disk.ino
              /\ m1.disk.bm = m.disk.bm /\ m1.disk.magic = m.disk.magic
              /\ m1.ok <=> tail \notin bad
              /\ m1.fault <=> m.fault \/ tail \in bad
              /\ \A x \in Blocks :
                   m1.disk.data[x] = IF x = tail /\ tail \notin bad THEN c1 ELSE m.disk.data[x]
          BY <2>1, <2>7, <4>1, WriteBlockDoes
        <4>3. Keeps(m, m1)
          BY <2>1, <2>7, <4>1, WriteBlockKeeps
        <4> QED
          BY <3>2, <4>2, <4>3
      <3> QED
        BY <3>1, <3>2
    <2>10. CASE ~ m1.ok
      <3>1. r = m1
        BY <2>3, <2>10
      <3> QED
        BY <2>9, <2>10, <3>1 DEF SameBlocks
    <2>11. CASE m1.ok
      <3>1. /\ m2 \in Machines
            /\ m2.ino = m.ino /\ m2.bm = m.bm /\ m2.disk.ino = m.disk.ino
            /\ m2.disk.bm = m.disk.bm /\ m2.disk.magic = m.disk.magic
            /\ m2.ok <=> hole \notin bad
            /\ m2.fault <=> m1.fault \/ hole \in bad
            /\ \A x \in Blocks :
                 m2.disk.data[x] = IF x = hole /\ hole \notin bad THEN c2 ELSE m1.disk.data[x]
        BY <2>1, <2>m2, <2>8, <2>9, WriteBlockDoes
      <3>2. Keeps(m1, m2)
        BY <2>1, <2>m2, <2>8, <2>9, WriteBlockKeeps
      <3>3. Keeps(m, m2)
        BY <2>9, <3>2, KeepsOn
      <3>4. CASE ~ m2.ok
        <4>1. r = m2
          BY <2>3, <2>11, <3>4
        <4> QED
          BY <2>9, <3>1, <3>3, <3>4, <4>1 DEF SameBlocks
      <3>5. CASE m2.ok
        <4>1. r = flushInodeTable(m3)
          BY <2>3, <2>11, <3>5
        <4>2. /\ m3 \in Machines
              /\ m3.ok = m2.ok /\ m3.bm = m2.bm /\ m3.disk = m2.disk
              /\ m3.trail = m2.trail /\ m3.fault = m2.fault
              /\ \A j \in INodes :
                   /\ m3.ino[j].type = m2.ino[j].type /\ m3.ino[j].isUsed = m2.ino[j].isUsed
                   /\ m3.ino[j].parentINode = m2.ino[j].parentINode
                   /\ m3.ino[j].blocks = m2.ino[j].blocks
                   /\ m3.ino[j].fileSize = IF j = dir THEN last ELSE m2.ino[j].fileSize
          BY <2>2, <2>m3, <3>1, SizeChanges
        <4>3. Keeps(m2, m3)
          BY <3>1, <4>2, SameKeeps DEF SameBlocks
        <4>4. /\ r.ino = m3.ino /\ r.bm = m3.bm /\ r.ok = m3.ok /\ r.fault = m3.fault
              /\ r.disk.ino = m3.ino /\ r.disk.bm = m3.disk.bm /\ r.disk.data = m3.disk.data
              /\ r.disk.magic = m3.disk.magic
          BY <4>1, <4>2, FlushDoes
        <4>5. Keeps(m, r)
          BY <3>3, <4>1, <4>2, <4>3, FlushKeeps, KeepsOn
        <4>6. \A x \in Blocks, s \in Slots :
                r.disk.data[x][s] =
                  IF x = hole /\ s = SlotOf(i)
                  THEN IF i = last THEN ZeroEntry ELSE m.disk.data[tail][SlotOf(last)]
                  ELSE IF i # last /\ x = tail /\ x # hole /\ s = SlotOf(last) THEN ZeroEntry
                  ELSE m.disk.data[x][s]
          <5>1. hole \notin bad
            BY <3>1, <3>5
          <5>2. \A x \in Blocks : r.disk.data[x] = IF x = hole THEN c2
                                                 ELSE IF i # last /\ x = tail THEN c1
                                                 ELSE m.disk.data[x]
            BY <2>9, <2>11, <3>1, <4>2, <4>4, <5>1
          <5> QED
            BY <2>6, <2>7, <2>8, <5>2
        <4>7. Removed(m, r, dir, name)
          <5>1. \A j \in INodes :
                  /\ r.ino[j].type = m.ino[j].type /\ r.ino[j].isUsed = m.ino[j].isUsed
                  /\ r.ino[j].parentINode = m.ino[j].parentINode
                  /\ r.ino[j].blocks = m.ino[j].blocks
                  /\ r.ino[j].fileSize = IF j = dir THEN last ELSE m.ino[j].fileSize
            BY <3>1, <4>2, <4>4
          <5> QED
            BY <1>2, <4>6, <5>1 DEF Removed, i, last, hole, tail
        <4> QED
          BY <2>9, <2>11, <3>1, <3>5, <4>2, <4>4, <4>5, <4>7 DEF SameBlocks
      <3> QED
        BY <3>4, <3>5
    <2> QED
      BY <2>10, <2>11
  <1> QED
    BY <1>1, <1>2

\* What createFile did when it returned an inode: m1 is the machine in which the
\* inode has been set up.
Created(m, r, dir, name, type) ==
  /\ r.ret \in INodes /\ ~ m.ino[r.ret].isUsed /\ findFile(m, dir, name) = NONE
  /\ r.ret = Min({i \in INodes : ~ m.ino[i].isUsed})
  /\ \E m1 \in Machines :
       /\ m1.bm = m.bm /\ m1.disk = m.disk
       /\ SameElse(m1.ino, m.ino, r.ret)
       /\ m1.ino[r.ret].isUsed /\ m1.ino[r.ret].type = type
       /\ m1.ino[r.ret].fileSize = 0 /\ m1.ino[r.ret].parentINode = dir
       /\ m1.ino[r.ret].blocks = m.ino[r.ret].blocks
       /\ Added(m1, r, dir, r.ret, name)

\* What it leaves behind when it could not: an unused inode knows the directory.
NotCreated(m, r, dir) ==
  /\ r.bm = m.bm /\ r.disk.data = m.disk.data
  /\ \A j \in INodes :
       /\ r.ino[j].blocks = m.ino[j].blocks /\ (r.ino[j].isUsed <=> m.ino[j].isUsed)
       /\ m.ino[j].isUsed => /\ r.ino[j].type = m.ino[j].type
                             /\ r.ino[j].fileSize = m.ino[j].fileSize
                             /\ r.ino[j].parentINode = m.ino[j].parentINode
       /\ r.ino[j].parentINode \in {m.ino[j].parentINode, dir}

\* The machine in which inode i has been set up, and the one that gives it back.
WithNew(m, i, type, dir) ==
  [m EXCEPT !.ino[i] = [@ EXCEPT !.isUsed = TRUE, !.type = type, !.fileSize = 0,
                                 !.parentINode = dir]]
WithUnused(m, i) == [m EXCEPT !.ino[i].isUsed = FALSE]

\* An inode is taken.
LEMMA NewINodeDoes ==
  ASSUME NEW m \in Machines, NEW dir \in INodes, NEW type \in Types,
         NEW i \in INodes, NEW r, r = WithNew(m, i, type, dir)
  PROVE  /\ r \in Machines
         /\ r.ok = m.ok /\ r.bm = m.bm /\ r.disk = m.disk /\ r.ret = m.ret
         /\ r.trail = m.trail /\ r.fault = m.fault
         /\ SameElse(r.ino, m.ino, i)
         /\ r.ino[i].isUsed /\ r.ino[i].type = type /\ r.ino[i].fileSize = 0
         /\ r.ino[i].parentINode = dir /\ r.ino[i].blocks = m.ino[i].blocks
         /\ SameBlocks(r.ino, m.ino)
  <1> DEFINE n1 == [m.ino[i] EXCEPT !.isUsed = TRUE]
             n == [n1 EXCEPT !.type = type, !.fileSize = 0, !.parentINode = dir]
  <1>1. m.ino[i] \in INodeSet
    BY Fields, INodeFields
  <1>2. n1 \in INodeSet /\ n1.isUsed = TRUE /\ n1.blocks = m.ino[i].blocks
    BY <1>1 DEF INodeSet
  <1>3. r = [m EXCEPT !.ino = [m.ino EXCEPT ![i] = n]]
    BY <1>1 DEF INodeSet, WithNew
  <1> HIDE DEF n1
  <1>4. /\ n \in INodeSet /\ n.type = type /\ n.fileSize = 0 /\ n.parentINode = dir
        /\ n.blocks = n1.blocks
    <2>1. 0 \in 0 .. MAX_BLOCKS_PER_FILE * ENTRIES_PER_BLOCK
      BY GeometryAssumption
    <2> QED
      BY <1>2, <2>1 DEF INodeSet
  <1>5. n.isUsed = n1.isUsed
    BY <1>2 DEF INodeSet
  <1>6. r = WithINode(m, i, n)
    BY <1>3 DEF WithINode
  <1> HIDE DEF n
  <1>7. /\ r \in Machines
        /\ r.ok = m.ok /\ r.bm = m.bm /\ r.disk = m.disk /\ r.ret = m.ret
        /\ r.trail = m.trail /\ r.fault = m.fault
        /\ \A j \in INodes : r.ino[j] = IF j = i THEN n ELSE m.ino[j]
    BY ONLY m \in Machines, i \in INodes, <1>4, <1>6, INodeChanges
  <1> QED
    BY <1>2, <1>4, <1>5, <1>7 DEF SameBlocks, SameElse

\* An inode is given back.
LEMMA UnusedDoes ==
  ASSUME NEW m \in Machines, NEW i \in INodes, NEW r, r = WithUnused(m, i)
  PROVE  /\ r \in Machines
         /\ r.ok = m.ok /\ r.bm = m.bm /\ r.disk = m.disk /\ r.ret = m.ret
         /\ r.trail = m.trail /\ r.fault = m.fault
         /\ SameElse(r.ino, m.ino, i)
         /\ ~ r.ino[i].isUsed /\ r.ino[i].type = m.ino[i].type
         /\ r.ino[i].fileSize = m.ino[i].fileSize /\ r.ino[i].parentINode = m.ino[i].parentINode
         /\ r.ino[i].blocks = m.ino[i].blocks
         /\ SameBlocks(r.ino, m.ino)
  <1> DEFINE n == [m.ino[i] EXCEPT !.isUsed = FALSE]
  <1>1. m.ino[i] \in INodeSet
    BY Fields, INodeFields
  <1>2. /\ n \in INodeSet /\ n.isUsed = FALSE /\ n.blocks = m.ino[i].blocks
        /\ n.type = m.ino[i].type /\ n.fileSize = m.ino[i].fileSize
        /\ n.parentINode = m.ino[i].parentINode
    BY <1>1 DEF INodeSet
  <1>3. r = WithINode(m, i, n)
    BY DEF WithINode, WithUnused
  <1> HIDE DEF n
  <1>4. /\ r \in Machines
        /\ r.ok = m.ok /\ r.bm = m.bm /\ r.disk = m.disk /\ r.ret = m.ret
        /\ r.trail = m.trail /\ r.fault = m.fault
        /\ \A j \in INodes : r.ino[j] = IF j = i THEN n ELSE m.ino[j]
    BY ONLY m \in Machines, i \in INodes, <1>2, <1>3, INodeChanges
  <1> QED
    BY <1>2, <1>4 DEF SameBlocks, SameElse

\* The name of the inode that a call returns.
LEMMA ReturnsINode ==
  ASSUME NEW m \in Machines, NEW i \in INodes, NEW r, r = [m EXCEPT !.ret = i]
  PROVE  /\ r \in Machines /\ r.ret = i
         /\ r.ok = m.ok /\ r.ino = m.ino /\ r.bm = m.bm /\ r.disk = m.disk
         /\ r.trail = m.trail /\ r.fault = m.fault
  BY Ranges DEF Machines

\* createFile
LEMMA CreateDoes ==
  ASSUME NEW m \in Machines, NEW dir \in INodes, NEW name \in NameSet,
         NEW type \in Types, NEW r, r = createFile(m, dir, name, type)
  PROVE  /\ Keeps(m, r)
         /\ m.fault => r.fault
         /\ (m.disk.ino = m.ino /\ ~ r.fault) => r.disk.ino = r.ino
         /\ r.ok => (r.fault <=> m.fault) /\ Created(m, r, dir, name, type)
         /\ (~ r.ok /\ ~ r.fault) => NotCreated(m, r, dir)
         /\ ~ r.ok => \/ r.fault \/ m.bm = Blocks \/ findFile(m, dir, name) # NONE
                      \/ {i \in INodes : ~ m.ino[i].isUsed} = {}
                      \/ m.ino[dir].fileSize >= MAX_BLOCKS_PER_FILE * ENTRIES_PER_BLOCK
  <1> DEFINE unused == {i \in INodes : ~ m.ino[i].isUsed}
             i  == Min(unused)
             m1 == WithNew(m, i, type, dir)
             m2 == addDirEntry(m1, dir, i, name)
             m3 == flushInodeTable(m2)
             m4 == WithUnused(m2, i)
             m5 == flushInodeTable(m4)
  <1>1. CASE findFile(m, dir, name) # NONE \/ unused = {}
    <2>1. r = [m EXCEPT !.ok = FALSE]
      BY <1>1 DEF createFile, Fail
    <2>2. /\ r \in Machines /\ r.ok = FALSE
          /\ r.ino = m.ino /\ r.bm = m.bm /\ r.disk = m.disk /\ r.fault = m.fault
      BY <2>1, Reports
    <2>3. Keeps(m, r)
      BY <2>1, ReportKeeps
    <2> QED
      BY <1>1, <2>2, <2>3 DEF NotCreated
  <1>2. CASE findFile(m, dir, name) = NONE /\ unused # {}
    <2>1. r = IF m2.ok THEN [m3 EXCEPT !.ret = i] ELSE [m5 EXCEPT !.ok = FALSE]
      BY <1>2 DEF createFile, Fail, WithNew, WithUnused
    <2>m1. m1 = WithNew(m, i, type, dir)
      OBVIOUS
    <2>m2. m2 = addDirEntry(m1, dir, i, name)
      OBVIOUS
    <2>m3. m3 = flushInodeTable(m2)
      OBVIOUS
    <2>m4. m4 = WithUnused(m2, i)
      OBVIOUS
    <2>m5. m5 = flushInodeTable(m4)
      OBVIOUS
    <2>2. i \in INodes /\ ~ m.ino[i].isUsed
      <3>1. unused \in SUBSET Nat
        BY Ranges
      <3>2. Min(unused) \in unused
        BY <1>2, <3>1, MinIs
      <3> QED
        BY <3>2
    <2> HIDE DEF unused, i, m1, m2, m3, m4, m5
    <2>3. /\ m1 \in Machines
          /\ m1.ok = m.ok /\ m1.bm = m.bm /\ m1.disk = m.disk
          /\ m1.trail = m.trail /\ m1.fault = m.fault
          /\ SameElse(m1.ino, m.ino, i)
          /\ m1.ino[i].isUsed /\ m1.ino[i].type = type /\ m1.ino[i].fileSize = 0
          /\ m1.ino[i].parentINode = dir /\ m1.ino[i].blocks = m.ino[i].blocks
          /\ SameBlocks(m1.ino, m.ino)
      <3>1. i \in INodes
        BY <2>2
      <3> QED
        BY <3>1, <2>m1, NewINodeDoes
    <2>4. Keeps(m, m1)
      BY <2>3, SameKeeps
    <2>5. /\ Keeps(m1, m2) /\ m2 \in Machines
          /\ m1.fault => m2.fault
          /\ ~ m2.ok => m2.fault \/ (m2.ino = m1.ino /\ m2.bm = m1.bm /\ m2.disk = m1.disk)
          /\ ~ m2.ok => \/ m2.fault \/ m1.bm = Blocks
                        \/ m1.ino[dir].fileSize >= MAX_BLOCKS_PER_FILE * ENTRIES_PER_BLOCK
          /\ m2.ok => /\ m2.fault <=> m1.fault
                      /\ m2.disk.ino = m2.ino
                      /\ Added(m1, m2, dir, i, name)
      BY <2>2, <2>3, <2>m2, AddDoes DEF Keeps
    <2>6. Keeps(m, m2)
      BY <2>4, <2>5, KeepsOn
    <2>7. CASE m2.ok
      <3>1. /\ m3 \in Machines
            /\ m3.ino = m2.ino /\ m3.bm = m2.bm /\ m3.ok = m2.ok /\ m3.fault = m2.fault
            /\ m3.disk.ino = m2.ino /\ m3.disk.data = m2.disk.data
        BY <2>5, <2>m3, FlushDoes
      <3>2. Keeps(m, m3)
        BY <2>5, <2>6, <2>m3, FlushKeeps, KeepsOn
      <3>3. r = [m3 EXCEPT !.ret = i]
        BY <2>1, <2>7
      <3>4. /\ r \in Machines /\ r.ret = i
            /\ r.ok = m3.ok /\ r.ino = m3.ino /\ r.bm = m3.bm /\ r.disk = m3.disk
            /\ r.trail = m3.trail /\ r.fault = m3.fault
        BY <2>2, <3>1, <3>3, ReturnsINode
      <3>5. Keeps(m3, r)
        BY <3>1, <3>4, SameKeeps DEF SameBlocks
      <3>6. Keeps(m, r)
        BY <3>2, <3>5, KeepsOn
      <3>7. Added(m1, r, dir, i, name)
        BY <2>5, <2>7, <3>1, <3>4 DEF Added
      <3>8. r.ret = Min({k \in INodes : ~ m.ino[k].isUsed})
        BY <3>4 DEF i, unused
      <3>9. Created(m, r, dir, name, type)
        BY <1>2, <2>2, <2>3, <3>4, <3>7, <3>8 DEF Created
      <3> QED
        BY <2>3, <2>5, <2>7, <3>1, <3>4, <3>6, <3>9
    <2>8. CASE ~ m2.ok
      <3>1. /\ m4 \in Machines
            /\ m4.ok = m2.ok /\ m4.bm = m2.bm /\ m4.disk = m2.disk
            /\ m4.trail = m2.trail /\ m4.fault = m2.fault
            /\ SameElse(m4.ino, m2.ino, i)
            /\ ~ m4.ino[i].isUsed /\ m4.ino[i].type = m2.ino[i].type
            /\ m4.ino[i].fileSize = m2.ino[i].fileSize
            /\ m4.ino[i].parentINode = m2.ino[i].parentINode
            /\ m4.ino[i].blocks = m2.ino[i].blocks
            /\ SameBlocks(m4.ino, m2.ino)
        <4>1. m2 \in Machines /\ i \in INodes
          BY <2>2, <2>5
        <4> QED
          BY ONLY <4>1, <2>m4, UnusedDoes
      <3>2. Keeps(m2, m4)
        BY <2>5, <3>1, SameKeeps
      <3>3. /\ m5 \in Machines
            /\ m5.ino = m4.ino /\ m5.bm = m4.bm /\ m5.fault = m4.fault
            /\ m5.disk.ino = m4.ino /\ m5.disk.data = m4.disk.data
        BY <3>1, <2>m5, FlushDoes
      <3>4. Keeps(m4, m5)
        BY <3>1, <2>m5, FlushKeeps
      <3>5. r = [m5 EXCEPT !.ok = FALSE]
        BY <2>1, <2>8
      <3>6. Keeps(m5, r)
        BY <3>3, <3>5, ReportKeeps
      <3>7. /\ r.ok = FALSE /\ r.ino = m5.ino /\ r.bm = m5.bm /\ r.disk = m5.disk /\ r.fault = m5.fault
        BY <3>3, <3>5, Reports
      <3>8. Keeps(m, r)
        BY <2>6, <3>2, <3>4, <3>6, KeepsOn
      <3>9. ASSUME ~ r.fault PROVE NotCreated(m, r, dir)
        <4>1. m2.ino = m1.ino /\ m2.bm = m1.bm /\ m2.disk = m1.disk
          BY <2>5, <2>8, <3>1, <3>3, <3>7, <3>9
        <4>2. \A j \in INodes : r.ino[j].blocks = m.ino[j].blocks
          BY <2>3, <3>1, <3>3, <3>7, <4>1 DEF SameBlocks
        <4>3. \A j \in INodes \ {i} : r.ino[j] = m.ino[j]
          BY <2>3, <3>1, <3>3, <3>7, <4>1 DEF SameElse
        <4>4. ~ r.ino[i].isUsed /\ r.ino[i].parentINode = dir
          BY <2>3, <3>1, <3>3, <3>7, <4>1
        <4> QED
          BY <2>2, <2>3, <3>1, <3>3, <3>7, <4>1, <4>2, <4>3, <4>4 DEF NotCreated
      <3>10. \/ r.fault \/ m.bm = Blocks
             \/ m.ino[dir].fileSize >= MAX_BLOCKS_PER_FILE * ENTRIES_PER_BLOCK
        <4>1. \/ m2.fault \/ m1.bm = Blocks
              \/ m1.ino[dir].fileSize >= MAX_BLOCKS_PER_FILE * ENTRIES_PER_BLOCK
          BY <2>5, <2>8
        <4>2. dir # i => m1.ino[dir].fileSize = m.ino[dir].fileSize
          BY <2>3 DEF SameElse
        <4>3. ~ (0 >= MAX_BLOCKS_PER_FILE * ENTRIES_PER_BLOCK)
          BY GeometryAssumption
        <4> QED
          BY <2>3, <3>1, <3>3, <3>7, <4>1, <4>2, <4>3
      <3> QED
        BY <2>3, <2>5, <3>1, <3>3, <3>7, <3>8, <3>9, <3>10
    <2> QED
      BY <2>7, <2>8
  <1> QED
    BY <1>1, <1>2

\* What makeDots did when it returned 0.
Dotted(m, r, i, up) ==
  \E v \in Blocks \ m.bm :
    /\ r.bm = m.bm \cup {v}
    /\ \A j \in INodes :
         /\ r.ino[j].type = m.ino[j].type /\ r.ino[j].isUsed = m.ino[j].isUsed
         /\ r.ino[j].parentINode = IF j = i THEN up ELSE m.ino[j].parentINode
         /\ r.ino[j].fileSize = IF j = i THEN 2 ELSE m.ino[j].fileSize
    /\ Takes(r.ino, m.ino, i, 0, v)
    /\ \A x \in Blocks, s \in Slots :
         r.disk.data[x][s] = IF x # v THEN m.disk.data[x][s]
                             ELSE IF s = 0 THEN Entry(i, ".")
                             ELSE IF s = 1 THEN Entry(up, "..") ELSE ZeroEntry

\* The machine in which inode i has its first block.
WithDots(m, i, up) ==
  [m EXCEPT !.ino[i] = [@ EXCEPT !.blocks[0] = m.ret, !.fileSize = 2, !.parentINode = up]]

\* A directory has room for its dots.
LEMMA DotsFit ==
  ASSUME NEW i \in INodes, NEW up \in INodes
  PROVE  /\ 2 \in 0 .. MAX_BLOCKS_PER_FILE * ENTRIES_PER_BLOCK
         /\ DotBlock(i, up) \in BlockSet
         /\ \A s \in Slots : DotBlock(i, up)[s] = IF s = 0 THEN Entry(i, ".")
                                                  ELSE IF s = 1 THEN Entry(up, "..")
                                                  ELSE ZeroEntry
  <1>1. 2 \in 0 .. MAX_BLOCKS_PER_FILE * ENTRIES_PER_BLOCK
    <2>1. \A k, e \in Nat : k >= 1 => k * e >= e
      <3> SUFFICES ASSUME NEW k \in Nat, NEW e \in Nat, k >= 1 PROVE k * e >= e
        OBVIOUS
      <3>1. k * e = e + (k - 1) * e /\ (k - 1) * e >= 0
        OBVIOUS
      <3> QED
        BY <3>1
    <2>2. MAX_BLOCKS_PER_FILE * ENTRIES_PER_BLOCK >= ENTRIES_PER_BLOCK
      BY <2>1, GeometryAssumption
    <2>3. MAX_BLOCKS_PER_FILE * ENTRIES_PER_BLOCK \in Nat
      BY GeometryAssumption
    <2> QED
      BY <2>2, <2>3, GeometryAssumption
  <1>2. Entry(i, ".") \in Entries /\ Entry(up, "..") \in Entries
    BY DEF Entry, Entries, NameSet
  <1> DEFINE c == WithEntry(WithEntry(ZeroBlock, 0, Entry(i, ".")), 1, Entry(up, ".."))
             c0 == WithEntry(ZeroBlock, 0, Entry(i, "."))
  <1>3. DotBlock(i, up) = WithEntry(c0, 1, Entry(up, ".."))
    BY DEF DotBlock, WithEntry
  <1>4. c0 \in BlockSet /\ \A s \in Slots : c0[s] = IF s = 0 THEN Entry(i, ".") ELSE ZeroBlock[s]
    BY <1>2, ZeroFits, Ranges, EntryFits
  <1> HIDE DEF c0
  <1>5. /\ DotBlock(i, up) \in BlockSet
        /\ \A s \in Slots : DotBlock(i, up)[s] = IF s = 1 THEN Entry(up, "..") ELSE c0[s]
    <2>1. 1 \in Slots /\ c0 \in BlockSet /\ Entry(up, "..") \in Entries
      BY <1>2, <1>4, Ranges
    <2> DEFINE c2 == DotBlock(i, up)
    <2>2. c2 = WithEntry(c0, 1, Entry(up, ".."))
      BY <1>3
    <2> HIDE DEF c2
    <2>3. c2 \in BlockSet /\ \A s \in Slots : c2[s] = IF s = 1 THEN Entry(up, "..") ELSE c0[s]
      BY ONLY <2>1, <2>2, EntryFits
    <2> QED
      BY <2>3 DEF c2
  <1> QED
    BY <1>1, <1>4, <1>5, ZeroFits

\* Nothing but the table in memory differs.
OnlyTable(m, r) == r = [m EXCEPT !.ino = r.ino]

\* The inode of a new directory gets its block.
LEMMA WithDotsDoes ==
  ASSUME NEW m \in Machines, NEW i \in INodes, NEW up \in INodes, m.ret \in Blocks,
         NEW r, r = WithDots(m, i, up)
  PROVE  /\ r \in Machines
         /\ r.ok = m.ok /\ r.bm = m.bm /\ r.disk = m.disk /\ r.ret = m.ret
         /\ r.trail = m.trail /\ r.fault = m.fault
         /\ r.ino \in Tables /\ OnlyTable(m, r)
         /\ Takes(r.ino, m.ino, i, 0, m.ret)
         /\ \A j \in INodes :
              /\ r.ino[j].type = m.ino[j].type /\ r.ino[j].isUsed = m.ino[j].isUsed
              /\ r.ino[j].parentINode = IF j = i THEN up ELSE m.ino[j].parentINode
              /\ r.ino[j].fileSize = IF j = i THEN 2 ELSE m.ino[j].fileSize
  <1> DEFINE bl == [m.ino[i].blocks EXCEPT ![0] = m.ret]
             n == [m.ino[i] EXCEPT !.blocks = bl, !.fileSize = 2, !.parentINode = up]
  <1>1. m.ino[i] \in INodeSet /\ m.ino[i].blocks \in [FileBlocks -> Blocks]
    BY Fields, INodeFields
  <1>2. bl \in [FileBlocks -> Blocks]
        /\ \A y \in FileBlocks : bl[y] = IF y = 0 THEN m.ret ELSE m.ino[i].blocks[y]
    BY <1>1, Ranges
  <1>3. r = WithINode(m, i, n)
    BY <1>1 DEF WithINode, WithDots, INodeSet
  <1> HIDE DEF bl
  <1>4. /\ n \in INodeSet /\ n.type = m.ino[i].type /\ n.fileSize = 2 /\ n.parentINode = up
        /\ n.blocks = bl
    BY <1>1, <1>2, DotsFit DEF INodeSet
  <1>5. n.isUsed = m.ino[i].isUsed
    BY <1>1 DEF INodeSet
  <1> HIDE DEF n
  <1>6. /\ r \in Machines
        /\ r.ok = m.ok /\ r.bm = m.bm /\ r.disk = m.disk /\ r.ret = m.ret
        /\ r.trail = m.trail /\ r.fault = m.fault
        /\ \A j \in INodes : r.ino[j] = IF j = i THEN n ELSE m.ino[j]
    BY ONLY m \in Machines, i \in INodes, <1>4, <1>3, INodeChanges
  <1>7. r.ino \in Tables
    BY <1>6, Fields
  <1>8. OnlyTable(m, r)
    BY <1>3, <1>7 DEF WithINode, Machines, OnlyTable
  <1>9. Takes(r.ino, m.ino, i, 0, m.ret)
    BY <1>2, <1>4, <1>6 DEF Takes
  <1> QED
    BY <1>4, <1>5, <1>6, <1>7, <1>8, <1>9

\* makeDots: the block is taken before the inode owns it, and written last.
LEMMA DotsDo ==
  ASSUME NEW m \in Machines, NEW i \in INodes, NEW up \in INodes,
         NEW r, r = makeDots(m, i, up)
  PROVE  /\ Keeps(m, r)
         /\ m.fault => r.fault
         /\ (m.disk.ino = m.ino /\ ~ r.fault) => r.disk.ino = r.ino
         /\ ~ r.ok => r.fault \/ (r.ino = m.ino /\ r.bm = m.bm /\ r.disk = m.disk)
         /\ ~ r.ok => r.fault \/ m.bm = Blocks
         /\ r.ok => (r.fault <=> m.fault) /\ Dotted(m, r, i, up)
  <1> DEFINE a  == allocateBlock(m)
             m1 == WithDots(a, i, up)
             m2 == flushInodeTable(m1)
             c  == DotBlock(i, up)
  <1>a. a = allocateBlock(m)
    OBVIOUS
  <1>m1. m1 = WithDots(a, i, up)
    OBVIOUS
  <1>m2. m2 = flushInodeTable(m1)
    OBVIOUS
  <1>0. r = IF ~ a.ok THEN a ELSE WriteBlock(m2, a.ret, c)
    BY DEF makeDots, WithDots
  <1> HIDE DEF a, m1, m2, c
  <1>1. /\ a \in Machines /\ a.ino = m.ino /\ a.fault = m.fault
        /\ a.disk.ino = m.disk.ino /\ a.disk.data = m.disk.data
        /\ ~ a.ok => a.bm = m.bm /\ a.disk = m.disk /\ m.bm = Blocks
        /\ a.ok => a.ret \in Blocks \ m.bm /\ a.bm = m.bm \cup {a.ret}
    BY <1>a, AllocateDoes
  <1>2. CASE ~ a.ok
    <2>1. r = a
      BY <1>0, <1>2
    <2>2. Keeps(m, r)
      BY <1>a, <2>1, AllocateKeeps
    <2> QED
      BY <1>1, <1>2, <2>1, <2>2
  <1>3. CASE a.ok
    <2>1. a.ret \in Blocks /\ a.ret \notin m.bm
      BY <1>1, <1>3
    <2>2. /\ m1 \in Machines
          /\ m1.ok = a.ok /\ m1.bm = a.bm /\ m1.disk = a.disk /\ m1.fault = a.fault
          /\ m1.ino \in Tables /\ OnlyTable(a, m1)
          /\ Takes(m1.ino, a.ino, i, 0, a.ret)
          /\ \A j \in INodes :
               /\ m1.ino[j].type = a.ino[j].type /\ m1.ino[j].isUsed = a.ino[j].isUsed
               /\ m1.ino[j].parentINode = IF j = i THEN up ELSE a.ino[j].parentINode
               /\ m1.ino[j].fileSize = IF j = i THEN 2 ELSE a.ino[j].fileSize
      BY <1>1, <2>1, <1>m1, WithDotsDoes
    <2>3. Keeps(m, m1)
      <3>1. Takes(m1.ino, m.ino, i, 0, a.ret) /\ 0 \in FileBlocks
        BY <1>1, <2>2, Ranges
      <3> QED
        BY <1>a, <1>3, <2>2, <3>1, TakingKeeps DEF OnlyTable
    <2>4. /\ m2 \in Machines
          /\ m2.ino = m1.ino /\ m2.bm = m1.bm /\ m2.fault = m1.fault
          /\ m2.disk.ino = m1.ino /\ m2.disk.data = m1.disk.data
      BY <1>m2, <2>2, FlushDoes
    <2>5. Keeps(m, m2)
      BY <1>m2, <2>2, <2>3, FlushKeeps, KeepsOn
    <2>6. r = WriteBlock(m2, a.ret, c)
      BY <1>0, <1>3
    <2>7. /\ c \in BlockSet
          /\ \A s \in Slots : c[s] = IF s = 0 THEN Entry(i, ".")
                                     ELSE IF s = 1 THEN Entry(up, "..") ELSE ZeroEntry
      BY DotsFit DEF c
    <2>8. /\ r \in Machines /\ r.ino = m2.ino /\ r.bm = m2.bm
          /\ r.disk.ino = m2.disk.ino
          /\ r.ok <=> a.ret \notin bad
          /\ r.fault <=> m2.fault \/ a.ret \in bad
          /\ \A x \in Blocks :
               r.disk.data[x] = IF x = a.ret /\ a.ret \notin bad THEN c ELSE m2.disk.data[x]
      BY <2>1, <2>4, <2>6, <2>7, WriteBlockDoes
    <2>9. Keeps(m2, r)
      BY <2>1, <2>4, <2>6, <2>7, WriteBlockKeeps
    <2>10. Keeps(m, r)
      BY <2>5, <2>9, KeepsOn
    <2>11. ASSUME r.ok PROVE Dotted(m, r, i, up)
      <3>1. a.ret \notin bad
        BY <2>8, <2>11
      <3>2. \A x \in Blocks : r.disk.data[x] = IF x = a.ret THEN c ELSE m.disk.data[x]
        BY <1>1, <2>2, <2>4, <2>8, <3>1
      <3>3. \A x \in Blocks, s \in Slots :
              r.disk.data[x][s] = IF x # a.ret THEN m.disk.data[x][s]
                                  ELSE IF s = 0 THEN Entry(i, ".")
                                  ELSE IF s = 1 THEN Entry(up, "..") ELSE ZeroEntry
        BY <2>7, <3>2
      <3>4. \A j \in INodes :
              /\ r.ino[j].type = m.ino[j].type /\ r.ino[j].isUsed = m.ino[j].isUsed
              /\ r.ino[j].parentINode = IF j = i THEN up ELSE m.ino[j].parentINode
              /\ r.ino[j].fileSize = IF j = i THEN 2 ELSE m.ino[j].fileSize
        BY <1>1, <2>2, <2>4, <2>8
      <3>5. Takes(r.ino, m.ino, i, 0, a.ret) /\ r.bm = m.bm \cup {a.ret}
        BY <1>1, <1>3, <2>2, <2>4, <2>8
      <3> QED
        BY <2>1, <3>3, <3>4, <3>5 DEF Dotted
    <2>12. ~ r.ok => r.fault
      BY <2>8
    <2>13. r.ok => (r.fault <=> m.fault)
      BY <1>1, <2>2, <2>4, <2>8
    <2>14. (m.fault => r.fault) /\ r.disk.ino = r.ino
      BY <1>1, <2>2, <2>4, <2>8
    <2> QED
      BY <2>10, <2>11, <2>12, <2>13, <2>14
  <1> QED
    BY <1>2, <1>3

\* What createDir did when it returned an inode, and when it found no block for
\* the dots.
DirMade(m, r, dir, name) ==
  \E m1 \in Machines : /\ Keeps(m, m1) /\ Created(m, m1, dir, name, "Directory")
                       /\ Dotted(m1, r, m1.ret, dir)
DirHalfMade(m, r, dir, name) ==
  \E m1 \in Machines : /\ Created(m, m1, dir, name, "Directory")
                       /\ r.ino = m1.ino /\ r.bm = m1.bm /\ r.disk = m1.disk

\* createDir
LEMMA CreateDirDoes ==
  ASSUME NEW m \in Machines, NEW dir \in INodes, NEW name \in NameSet,
         NEW r, r = createDir(m, dir, name)
  PROVE  /\ Keeps(m, r)
         /\ m.fault => r.fault
         /\ (m.disk.ino = m.ino /\ ~ r.fault) => r.disk.ino = r.ino
         /\ ~ r.fault => \/ NotCreated(m, r, dir)
                         \/ DirMade(m, r, dir, name)
                         \/ DirHalfMade(m, r, dir, name)
  <1> DEFINE m1 == createFile(m, dir, name, "Directory")
  <1>1. m1 = createFile(m, dir, name, "Directory") /\ "Directory" \in Types
    BY DEF Types
  <1>2. r = IF m1.ok THEN makeDots(m1, m1.ret, dir) ELSE m1
    BY DEF createDir
  <1> HIDE DEF m1
  <1>3. /\ Keeps(m, m1) /\ m1 \in Machines
        /\ m.fault => m1.fault
        /\ (m.disk.ino = m.ino /\ ~ m1.fault) => m1.disk.ino = m1.ino
        /\ m1.ok => (m1.fault <=> m.fault) /\ Created(m, m1, dir, name, "Directory")
        /\ (~ m1.ok /\ ~ m1.fault) => NotCreated(m, m1, dir)
    BY <1>1, CreateDoes DEF Keeps
  <1>4. CASE ~ m1.ok
    BY <1>2, <1>3, <1>4
  <1>5. CASE m1.ok
    <2>1. r = makeDots(m1, m1.ret, dir) /\ m1.ret \in INodes
      BY <1>2, <1>3, <1>5 DEF Created
    <2>2. /\ Keeps(m1, r)
          /\ m1.fault => r.fault
          /\ (m1.disk.ino = m1.ino /\ ~ r.fault) => r.disk.ino = r.ino
          /\ ~ r.ok => r.fault \/ (r.ino = m1.ino /\ r.bm = m1.bm /\ r.disk = m1.disk)
          /\ r.ok => (r.fault <=> m1.fault) /\ Dotted(m1, r, m1.ret, dir)
      BY <1>3, <2>1, DotsDo
    <2>3. Keeps(m, r)
      BY <1>3, <2>2, KeepsOn
    <2>4. CASE r.ok
      BY <1>3, <1>5, <2>2, <2>3, <2>4 DEF DirMade
    <2>5. CASE ~ r.ok
      BY <1>3, <1>5, <2>2, <2>3, <2>5 DEF DirHalfMade
    <2> QED
      BY <2>4, <2>5
  <1> QED
    BY <1>4, <1>5

\* r has come of m by writing to file i: no other inode changes, and no block
\* that belonged to anyone else.
FileOnly(m, r, i) ==
  /\ m.bm \subseteq r.bm
  /\ SameElse(r.ino, m.ino, i)
  /\ r.ino[i].type = m.ino[i].type /\ r.ino[i].isUsed = m.ino[i].isUsed
  /\ r.ino[i].parentINode = m.ino[i].parentINode
  /\ \A y \in FileBlocks : r.ino[i].blocks[y] = m.ino[i].blocks[y] \/ r.ino[i].blocks[y] \notin m.bm
  /\ \A x \in Blocks : \/ r.disk.data[x] = m.disk.data[x]
                       \/ x \notin m.bm
                       \/ \E y \in FileBlocks : m.ino[i].blocks[y] # 0 /\ x = m.ino[i].blocks[y]

\* Steps that write to a file follow each other.
LEMMA FileOnlyOn ==
  ASSUME NEW i \in INodes, NEW m \in Machines, NEW r \in Machines, NEW s \in Machines,
         FileOnly(m, r, i), FileOnly(r, s, i)
  PROVE  FileOnly(m, s, i)
  <1>1. SameElse(s.ino, m.ino, i) /\ m.bm \subseteq s.bm
    BY DEF FileOnly, SameElse
  <1>2. ASSUME NEW y \in FileBlocks
        PROVE  s.ino[i].blocks[y] = m.ino[i].blocks[y] \/ s.ino[i].blocks[y] \notin m.bm
    BY DEF FileOnly
  <1>3. ASSUME NEW x \in Blocks
        PROVE  \/ s.disk.data[x] = m.disk.data[x]
               \/ x \notin m.bm
               \/ \E y \in FileBlocks : m.ino[i].blocks[y] # 0 /\ x = m.ino[i].blocks[y]
    BY DEF FileOnly
  <1>4. /\ s.ino[i].type = m.ino[i].type /\ s.ino[i].isUsed = m.ino[i].isUsed
        /\ s.ino[i].parentINode = m.ino[i].parentINode
    BY DEF FileOnly
  <1> QED
    BY <1>1, <1>2, <1>3, <1>4 DEF FileOnly

\* A machine is its own.
LEMMA FileOnlySame ==
  ASSUME NEW m, NEW r, NEW i \in INodes, r.ino = m.ino, r.bm = m.bm, r.disk.data = m.disk.data
  PROVE  FileOnly(m, r, i)
  BY DEF FileOnly, SameElse

\* Another size of the file.
LEMMA FileOnlySize ==
  ASSUME NEW m, NEW r, NEW i \in INodes, r.bm = m.bm, r.disk = m.disk,
         \A j \in INodes :
           /\ r.ino[j].type = m.ino[j].type /\ r.ino[j].isUsed = m.ino[j].isUsed
           /\ r.ino[j].parentINode = m.ino[j].parentINode
           /\ r.ino[j].blocks = m.ino[j].blocks,
         SameElse(r.ino, m.ino, i)
  PROVE  FileOnly(m, r, i)
  BY DEF FileOnly

\* All blocks of a file are alike.
LEMMA FileBlockFits ==
  ASSUME NEW d \in Data
  PROVE  FileBlock(d) \in BlockSet
  <1>1. Entry(0, d) \in Entries
    BY Ranges DEF Entry, Entries, NameSet
  <1> QED
    BY <1>1 DEF FileBlock, BlockSet

\* writeOne
LEMMA WriteOneDoes ==
  ASSUME NEW m \in Machines, NEW i \in INodes, NEW b \in FileBlocks, NEW d \in Data,
         NEW r, r = writeOne(m, i, b, d)
  PROVE  Keeps(m, r) /\ FileOnly(m, r, i) /\ (m.fault => r.fault)
  <1> DEFINE a  == IF m.ino[i].blocks[b] # 0 THEN m ELSE allocateBlock(m)
             m1 == IF a.ok /\ m.ino[i].blocks[b] = 0
                   THEN [a EXCEPT !.ino = WithBlock(@, i, b, a.ret)] ELSE a
             c  == FileBlock(d)
             at == m1.ino[i].blocks[b]
             m2 == WriteBlock(m1, at, c)
             m3 == WithSize(m2, i, b + 1)
             k  == b + 1
  <1>1. k \in 0 .. MAX_BLOCKS_PER_FILE * ENTRIES_PER_BLOCK
    <2>1. \A n, e \in Nat : e >= 1 => n * e >= n
      <3> SUFFICES ASSUME NEW n \in Nat, NEW e \in Nat, e >= 1 PROVE n * e >= n
        OBVIOUS
      <3>1. n * e = n + n * (e - 1) /\ n * (e - 1) >= 0
        OBVIOUS
      <3> QED
        BY <3>1
    <2>2. MAX_BLOCKS_PER_FILE * ENTRIES_PER_BLOCK >= MAX_BLOCKS_PER_FILE
      BY <2>1, GeometryAssumption
    <2>3. MAX_BLOCKS_PER_FILE * ENTRIES_PER_BLOCK \in Nat
      BY GeometryAssumption
    <2> QED
      BY <2>2, <2>3, GeometryAssumption DEF FileBlocks
  <1>2. /\ m1 \in Machines /\ Keeps(m, m1) /\ FileOnly(m, m1, i) /\ (m1.fault <=> m.fault)
        /\ m1.ok => (at = m.ino[i].blocks[b] /\ at # 0) \/ at \notin m.bm
    <2>1. CASE m.ino[i].blocks[b] # 0
      <3>1. m1 = m
        BY <2>1
      <3>2. Keeps(m, m)
        BY SameKeeps DEF SameBlocks
      <3> QED
        BY <2>1, <3>1, <3>2, FileOnlySame
    <2>2. CASE m.ino[i].blocks[b] = 0 /\ ~ a.ok
      <3>1. m1 = allocateBlock(m) /\ ~ m1.ok
        BY <2>2
      <3> HIDE DEF m1
      <3>2. m1 \in Machines /\ m1.ino = m.ino /\ m1.bm = m.bm /\ m1.disk = m.disk
            /\ m1.fault = m.fault
        BY <3>1, AllocateDoes
      <3>3. Keeps(m, m1)
        BY <3>1, AllocateKeeps
      <3> QED
        BY <3>1, <3>2, <3>3, FileOnlySame
    <2>3. CASE m.ino[i].blocks[b] = 0 /\ a.ok
      <3>1. a = allocateBlock(m)
        BY <2>3
      <3> DEFINE t == WithBlock(a.ino, i, b, a.ret)
      <3>2. m1 = [a EXCEPT !.ino = t]
        BY <2>3
      <3>t. t = WithBlock(a.ino, i, b, a.ret)
        OBVIOUS
      <3> HIDE DEF a, m1, t
      <3>3. /\ a \in Machines /\ a.ino = m.ino /\ a.fault = m.fault
            /\ a.disk.ino = m.disk.ino /\ a.disk.data = m.disk.data
            /\ a.ret \in Blocks \ m.bm /\ a.bm = m.bm \cup {a.ret}
        BY <2>3, <3>1, AllocateDoes
      <3>4. a.ret \in Blocks /\ a.ino \in Tables /\ a.ret \notin m.bm
        BY <3>3, Fields
      <3>5. /\ t \in Tables
            /\ \A j \in INodes :
                 /\ t[j].type = a.ino[j].type /\ t[j].fileSize = a.ino[j].fileSize
                 /\ t[j].isUsed = a.ino[j].isUsed /\ t[j].parentINode = a.ino[j].parentINode
                 /\ \A y \in FileBlocks : t[j].blocks[y] =
                      IF j = i /\ y = b THEN a.ret ELSE a.ino[j].blocks[y]
        BY <3>4, <3>t, WithBlockDoes
      <3>6. Takes(t, m.ino, i, b, a.ret)
        BY <3>3, <3>5 DEF Takes
      <3>7. Keeps(m, m1)
        BY <2>3, <3>1, <3>2, <3>5, <3>6, TakingKeeps
      <3>8. m1 \in Machines /\ m1.ino = t /\ m1.bm = a.bm /\ m1.disk = a.disk
            /\ m1.fault = a.fault
        BY <3>2, <3>3, <3>5, TableChanges
      <3>9. SameElse(m1.ino, m.ino, i)
        <4>1. t = [a.ino EXCEPT ![i] = [a.ino[i] EXCEPT !.blocks = [a.ino[i].blocks EXCEPT ![b] = a.ret]]]
          BY <3>t DEF WithBlock
        <4>2. ASSUME NEW j \in INodes \ {i} PROVE t[j] = a.ino[j]
          BY <3>4, <4>1 DEF Tables
        <4> QED
          BY <3>3, <3>8, <4>2 DEF SameElse
      <3>10. FileOnly(m, m1, i)
        BY <3>3, <3>4, <3>5, <3>8, <3>9 DEF FileOnly
      <3>11. m1.ino[i].blocks[b] = a.ret
        BY <3>5, <3>8
      <3> QED
        BY <3>3, <3>4, <3>7, <3>8, <3>10, <3>11
    <2> QED
      BY <2>1, <2>2, <2>3
  <1>3. at \in Blocks /\ c \in BlockSet
    <2>1. c \in BlockSet
      BY FileBlockFits
    <2> HIDE DEF m1, c
    <2>2. m1.ino[i].blocks \in [FileBlocks -> Blocks]
      BY <1>2, Fields, INodeFields
    <2> QED
      BY <2>1, <2>2
  <1>m2. m2 = WriteBlock(m1, at, c)
    OBVIOUS
  <1>m3. m3 = WithSize(m2, i, k)
    OBVIOUS
  <1>4. r = IF ~ m1.ok THEN m1 ELSE IF m2.ok THEN m3 ELSE m2
    BY DEF writeOne, WithSize, WithINode
  <1> HIDE DEF a, m1, c, m2, m3, at, k
  <1>5. CASE ~ m1.ok
    BY <1>2, <1>4, <1>5
  <1>6. CASE m1.ok
    <2>1. /\ m2 \in Machines /\ m2.ino = m1.ino /\ m2.bm = m1.bm
          /\ m2.ok <=> at \notin bad
          /\ m2.fault <=> m1.fault \/ at \in bad
          /\ \A x \in Blocks :
               m2.disk.data[x] = IF x = at /\ at \notin bad THEN c ELSE m1.disk.data[x]
      BY <1>2, <1>3, <1>m2, WriteBlockDoes
    <2>2. Keeps(m, m2)
      BY <1>2, <1>3, <1>m2, WriteBlockKeeps, KeepsOn
    <2>3. FileOnly(m, m2, i)
      BY <1>2, <1>6, <2>1 DEF FileOnly
    <2>4. CASE ~ m2.ok
      BY <1>2, <1>4, <1>6, <2>1, <2>2, <2>3, <2>4
    <2>5. CASE m2.ok
      <3>1. r = m3
        BY <1>4, <1>6, <2>5
      <3>2. /\ m3 \in Machines
            /\ m3.bm = m2.bm /\ m3.disk = m2.disk /\ m3.trail = m2.trail /\ m3.fault = m2.fault
            /\ \A j \in INodes :
                 /\ m3.ino[j].type = m2.ino[j].type /\ m3.ino[j].isUsed = m2.ino[j].isUsed
                 /\ m3.ino[j].parentINode = m2.ino[j].parentINode
                 /\ m3.ino[j].blocks = m2.ino[j].blocks
                 /\ m3.ino[j].fileSize = IF j = i THEN k ELSE m2.ino[j].fileSize
        BY <1>1, <1>m3, <2>1, SizeChanges DEF k
      <3>3. SameElse(m3.ino, m2.ino, i)
        <4>1. m3.ino = [m2.ino EXCEPT ![i] = [m2.ino[i] EXCEPT !.fileSize = k]]
          BY <1>m3, <2>1 DEF WithSize, WithINode, Machines
        <4> QED
          BY <2>1, <4>1, Fields DEF SameElse, Tables
      <3>4. Keeps(m2, m3)
        BY <2>1, <3>2, SameKeeps DEF SameBlocks
      <3>5. FileOnly(m2, m3, i)
        BY <3>2, <3>3, FileOnlySize
      <3>6. Keeps(m, r) /\ FileOnly(m, r, i)
        BY <1>2, <2>1, <2>2, <2>3, <3>1, <3>2, <3>4, <3>5, KeepsOn, FileOnlyOn
      <3> QED
        BY <1>2, <2>1, <3>1, <3>2, <3>6
    <2> QED
      BY <2>4, <2>5
  <1> QED
    BY <1>5, <1>6

\* What is written to a file.
LEMMA ContentIs ==
  ASSUME NEW content \in Contents
  PROVE  Len(content) \in Nat /\ \A b \in 1 .. Len(content) : content[b] \in Data
  <1>1. PICK k \in Sizes : content \in [1 .. k -> Data]
    BY DEF Contents
  <1>2. k \in Nat
    BY GeometryAssumption
  <1>3. content \in Seq(Data)
    BY <1>1, <1>2
  <1> QED
    BY <1>3

\* The machine after b blocks, for every b: a recursion that goes through.
LEMMA WrittenIs ==
  ASSUME NEW m \in Machines, NEW i \in INodes, NEW content \in Contents,
         NEW w, w = Written(m, i, content)
  PROVE  w = [b \in 0 .. Len(content) |->
                IF b = 0 THEN [m EXCEPT !.ino[i].fileSize = 0, !.ok = TRUE]
                ELSE LET before == w[b - 1]
                     IN  IF ~ before.ok THEN before
                         ELSE IF b > MAX_BLOCKS_PER_FILE THEN Fail(before)
                         ELSE writeOne(before, i, b - 1, content[b])]
  <1> DEFINE n == Len(content)
             x == [m EXCEPT !.ino[i].fileSize = 0, !.ok = TRUE]
             Step(b, before) == IF ~ before.ok THEN before
                                ELSE IF b > MAX_BLOCKS_PER_FILE THEN Fail(before)
                                ELSE writeOne(before, i, b - 1, content[b])
             F == [p \in (0 .. n) \X Machines |-> IF p[1] = 0 THEN p[2] ELSE Step(p[1], p[2])]
  <1>1. n \in Nat
    BY ContentIs
  <1>2. x \in Machines
    <2>1. x = [WithSize(m, i, 0) EXCEPT !.ok = TRUE]
      BY DEF WithSize, WithINode
    <2>2. 0 \in 0 .. MAX_BLOCKS_PER_FILE * ENTRIES_PER_BLOCK
      BY GeometryAssumption
    <2>3. WithSize(m, i, 0) \in Machines
      BY <2>2, SizeChanges
    <2> HIDE DEF x
    <2> QED
      BY <2>1, <2>3, Reports
  <1>3. ASSUME NEW b \in 1 .. n, NEW before \in Machines PROVE Step(b, before) \in Machines
    <2>1. CASE ~ before.ok
      BY <2>1
    <2>2. CASE before.ok /\ b > MAX_BLOCKS_PER_FILE
      <3>1. Fail(before) \in Machines
        BY Reports DEF Fail
      <3> QED
        BY <2>2, <3>1
    <2>3. CASE before.ok /\ ~ b > MAX_BLOCKS_PER_FILE
      <3>1. b - 1 \in FileBlocks /\ content[b] \in Data
        BY <1>1, <2>3, ContentIs, GeometryAssumption DEF FileBlocks
      <3>2. writeOne(before, i, b - 1, content[b]) \in Machines
        BY <3>1, WriteOneDoes DEF Keeps
      <3> QED
        BY <2>3, <3>2
    <2> QED
      BY <2>1, <2>2, <2>3
  <1> HIDE DEF n, x, Step
  <1>4. F \in [(0 .. n) \X Machines -> Machines]
    <2>1. ASSUME NEW p \in (0 .. n) \X Machines
          PROVE  (IF p[1] = 0 THEN p[2] ELSE Step(p[1], p[2])) \in Machines
      <3>1. p[1] \in 0 .. n /\ p[2] \in Machines
        OBVIOUS
      <3>2. p[1] # 0 => p[1] \in 1 .. n
        BY <1>1, <3>1
      <3> QED
        BY <1>3, <3>1, <3>2
    <2> QED
      BY <2>1
  <1>5. \A k \in 1 .. n, y \in Machines : F[<<k, y>>] = Step(k, y)
    <2> SUFFICES ASSUME NEW k \in 1 .. n, NEW y \in Machines PROVE F[<<k, y>>] = Step(k, y)
      OBVIOUS
    <2>1. <<k, y>> \in (0 .. n) \X Machines
      BY <1>1
    <2>2. k # 0
      BY <1>1
    <2> QED
      BY <2>1, <2>2
  <1> HIDE DEF F
  <1>6. PICK f \in [0 .. n -> Machines] : Recurs(f, n, x, F)
    BY <1>1, <1>2, <1>4, Recursion
  <1>7. \A k \in 0 .. n : k # 0 => F[<<k, f[k - 1]>>] = Step(k, f[k - 1])
    <2> SUFFICES ASSUME NEW k \in 0 .. n, k # 0 PROVE F[<<k, f[k - 1]>>] = Step(k, f[k - 1])
      OBVIOUS
    <2>1. k \in 1 .. n /\ k - 1 \in 0 .. n
      BY <1>1
    <2>2. f[k - 1] \in Machines
      BY <1>6, <2>1
    <2> QED
      BY <1>5, <2>1, <2>2
  <1>8. f = [k \in 0 .. n |-> IF k = 0 THEN x ELSE Step(k, f[k - 1])]
    BY <1>6, <1>7 DEF Recurs
  <1>9. \E g : g = [b \in 0 .. n |-> IF b = 0 THEN x ELSE Step(b, g[b - 1])]
    BY <1>8
  <1>10. w = CHOOSE g : g = [b \in 0 .. n |-> IF b = 0 THEN x ELSE Step(b, g[b - 1])]
    BY DEF Written, n, x, Step
  <1>11. w = [b \in 0 .. n |-> IF b = 0 THEN x ELSE Step(b, w[b - 1])]
    BY ONLY <1>9, <1>10
  <1> QED
    BY <1>11 DEF n, x, Step

\* After every block only the file has changed.
LEMMA WrittenKeeps ==
  ASSUME NEW m \in Machines, NEW i \in INodes, NEW content \in Contents,
         NEW r, r = Written(m, i, content)[Len(content)]
  PROVE  Keeps(m, r) /\ FileOnly(m, r, i) /\ (m.fault => r.fault)
  <1> DEFINE n == Len(content)
             w == Written(m, i, content)
             Good(s) == Keeps(m, s) /\ FileOnly(m, s, i) /\ (m.fault => s.fault)
             S == {b \in 0 .. n : Good(w[b])}
             x == [m EXCEPT !.ino[i].fileSize = 0, !.ok = TRUE]
  <1>1. n \in Nat /\ \A b \in 1 .. n : content[b] \in Data
    BY ContentIs
  <1>2. \A b \in 0 .. n : w[b] = IF b = 0 THEN x
                                 ELSE IF ~ w[b - 1].ok THEN w[b - 1]
                                 ELSE IF b > MAX_BLOCKS_PER_FILE THEN Fail(w[b - 1])
                                 ELSE writeOne(w[b - 1], i, b - 1, content[b])
    <2>w. w = Written(m, i, content)
      OBVIOUS
    <2> HIDE DEF w
    <2>1. w = [b \in 0 .. Len(content) |->
                IF b = 0 THEN [m EXCEPT !.ino[i].fileSize = 0, !.ok = TRUE]
                ELSE LET before == w[b - 1]
                     IN  IF ~ before.ok THEN before
                         ELSE IF b > MAX_BLOCKS_PER_FILE THEN Fail(before)
                         ELSE writeOne(before, i, b - 1, content[b])]
      BY <2>w, WrittenIs
    <2> QED
      BY <2>1
  <1> HIDE DEF n, w, S, Good, x
  <1>3. Good(x)
    <2> DEFINE m1 == WithSize(m, i, 0)
    <2>m1. m1 = WithSize(m, i, 0)
      OBVIOUS
    <2>1. x = [m1 EXCEPT !.ok = TRUE]
      BY DEF WithSize, WithINode, x
    <2> HIDE DEF m1
    <2>2. 0 \in 0 .. MAX_BLOCKS_PER_FILE * ENTRIES_PER_BLOCK
      BY GeometryAssumption
    <2>3. /\ m1 \in Machines
          /\ m1.ok = m.ok /\ m1.bm = m.bm /\ m1.disk = m.disk /\ m1.ret = m.ret
          /\ m1.trail = m.trail /\ m1.fault = m.fault
          /\ \A j \in INodes :
               /\ m1.ino[j].type = m.ino[j].type /\ m1.ino[j].isUsed = m.ino[j].isUsed
               /\ m1.ino[j].parentINode = m.ino[j].parentINode
               /\ m1.ino[j].blocks = m.ino[j].blocks
               /\ m1.ino[j].fileSize = IF j = i THEN 0 ELSE m.ino[j].fileSize
      BY <2>m1, <2>2, SizeChanges
    <2>4. SameElse(m1.ino, m.ino, i)
      <3>1. m1.ino = [m.ino EXCEPT ![i] = [m.ino[i] EXCEPT !.fileSize = 0]]
        BY <2>m1 DEF WithSize, WithINode, Machines
      <3> QED
        BY <3>1, Fields DEF SameElse, Tables
    <2>5. Keeps(m, m1) /\ FileOnly(m, m1, i)
      BY <2>3, <2>4, SameKeeps, FileOnlySize DEF SameBlocks
    <2>6. /\ x \in Machines /\ x.ino = m1.ino /\ x.bm = m1.bm /\ x.disk = m1.disk
          /\ x.fault = m1.fault
      <3>1. m1 \in Machines
        BY <2>3
      <3> QED
        BY <2>1, <3>1, Reports
    <2>7. Keeps(m1, x) /\ FileOnly(m1, x, i)
      BY <2>1, <2>3, <2>6, ReportKeeps, FileOnlySame
    <2>8. Keeps(m, x) /\ FileOnly(m, x, i)
      BY <2>3, <2>5, <2>6, <2>7, KeepsOn, FileOnlyOn
    <2> QED
      BY <2>3, <2>6, <2>8 DEF Good
  <1>4. ASSUME NEW b \in 1 .. n, Good(w[b - 1]) PROVE Good(w[b])
    <2> DEFINE before == w[b - 1]
    <2>1. w[b] = IF ~ before.ok THEN before
                 ELSE IF b > MAX_BLOCKS_PER_FILE THEN Fail(before)
                 ELSE writeOne(before, i, b - 1, content[b])
      BY <1>1, <1>2
    <2> HIDE DEF before
    <2>2. Good(before) /\ before \in Machines
      BY <1>4 DEF before, Good, Keeps
    <2>3. ASSUME NEW s \in Machines, Keeps(before, s), FileOnly(before, s, i), before.fault => s.fault
          PROVE  Good(s)
      BY <2>2, <2>3, KeepsOn, FileOnlyOn DEF Good
    <2>4. CASE ~ before.ok
      BY <2>1, <2>2, <2>4
    <2>5. CASE before.ok /\ b > MAX_BLOCKS_PER_FILE
      <3> DEFINE s == Fail(before)
      <3>1. s = [before EXCEPT !.ok = FALSE]
        BY DEF Fail
      <3>2. w[b] = s
        BY <2>1, <2>5
      <3> HIDE DEF s
      <3>3. s \in Machines /\ s.ino = before.ino /\ s.bm = before.bm /\ s.disk = before.disk
            /\ s.fault = before.fault
        BY <2>2, <3>1, Reports
      <3>4. Keeps(before, s) /\ FileOnly(before, s, i)
        BY <2>2, <3>1, <3>3, ReportKeeps, FileOnlySame
      <3> QED
        BY <2>3, <3>2, <3>3, <3>4
    <2>6. CASE before.ok /\ ~ b > MAX_BLOCKS_PER_FILE
      <3> DEFINE k == b - 1
                 d == content[b]
                 s == writeOne(before, i, k, d)
      <3>1. k \in FileBlocks /\ d \in Data
        BY <1>1, <2>6, GeometryAssumption DEF FileBlocks
      <3>2. w[b] = s
        BY <2>1, <2>6
      <3>s. s = writeOne(before, i, k, d)
        OBVIOUS
      <3> HIDE DEF k, d, s
      <3>3. Keeps(before, s) /\ FileOnly(before, s, i) /\ (before.fault => s.fault)
        BY <2>2, <3>1, <3>s, WriteOneDoes
      <3> QED
        BY <2>3, <3>2, <3>3 DEF Keeps
    <2> QED
      BY <2>4, <2>5, <2>6
  <1>5. 0 .. n \subseteq S
    <2>1. 0 \in S
      BY <1>1, <1>2, <1>3 DEF S
    <2>2. \A b \in 1 .. n : b - 1 \in S => b \in S
      BY <1>1, <1>4 DEF S
    <2> QED
      BY <1>1, <2>1, <2>2, Induction
  <1> QED
    BY <1>1, <1>5 DEF S, Good, n, w

\* writeFile: the table goes to the disk whatever happened to the blocks.
LEMMA WriteFileDoes ==
  ASSUME NEW m \in Machines, NEW dir \in INodes, NEW name, NEW content \in Contents,
         NEW r, r = writeFile(m, dir, name, content)
  PROVE  /\ Keeps(m, r)
         /\ m.fault => r.fault
         /\ m.disk.ino = m.ino => r.disk.ino = r.ino
         /\ \/ r.ino = m.ino /\ r.bm = m.bm /\ r.disk = m.disk
            \/ \E i \in INodes : m.ino[i].type = "File" /\ FileOnly(m, r, i)
                                 /\ findFile(m, dir, name) = i
  <1> DEFINE i == findFile(m, dir, name)
             w == Written(m, i, content)[Len(content)]
  <1>1. CASE i = NONE \/ m.ino[i].type # "File"
    <2>1. r = [m EXCEPT !.ok = FALSE]
      BY <1>1 DEF writeFile, Fail
    <2>2. r.ino = m.ino /\ r.bm = m.bm /\ r.disk = m.disk /\ r.fault = m.fault
      BY <2>1, Reports
    <2>3. Keeps(m, r)
      BY <2>1, ReportKeeps
    <2> QED
      BY <2>2, <2>3
  <1>2. CASE i # NONE /\ m.ino[i].type = "File"
    <2>1. r = flushInodeTable(w)
      BY <1>2 DEF writeFile
    <2>2. i \in INodes
      BY <1>2, FindType
    <2>w. w = Written(m, i, content)[Len(content)]
      OBVIOUS
    <2>i. i = findFile(m, dir, name)
      OBVIOUS
    <2> HIDE DEF w, i
    <2>3. Keeps(m, w) /\ FileOnly(m, w, i) /\ (m.fault => w.fault) /\ w \in Machines
      BY <2>2, <2>w, WrittenKeeps DEF Keeps
    <2>4. /\ r \in Machines /\ r.ino = w.ino /\ r.bm = w.bm /\ r.fault = w.fault
          /\ r.disk.ino = w.ino /\ r.disk.data = w.disk.data
      BY <2>1, <2>3, FlushDoes
    <2>5. Keeps(m, r)
      BY <2>1, <2>3, FlushKeeps, KeepsOn
    <2>6. FileOnly(m, r, i)
      BY <2>3, <2>4 DEF FileOnly
    <2> QED
      BY <1>2, <2>2, <2>3, <2>4, <2>5, <2>6, <2>i
  <1> QED
    BY <1>1, <1>2

\* A report changes nothing else.
LEMMA FailDoes ==
  ASSUME NEW m \in Machines, NEW r, r = Fail(m)
  PROVE  /\ Keeps(m, r) /\ r \in Machines /\ r.ok = FALSE
         /\ r.ino = m.ino /\ r.bm = m.bm /\ r.disk = m.disk /\ r.fault = m.fault
         /\ r.trail = m.trail
  BY Reports, ReportKeeps DEF Fail

\* What renameFile does: the old entry goes, and the new one comes if there is room.
Renamed(m, r, dir, old, new) ==
  \E m1 \in Machines :
    /\ Keeps(m, m1) /\ Removed(m, m1, dir, old)
    /\ \/ r.ino = m1.ino /\ r.bm = m1.bm /\ r.disk.data = m1.disk.data /\ m.bm = Blocks
       \/ Added(m1, r, dir, findFile(m, dir, old), new)

\* renameFile: the old entry goes first; without room for the new one the file
\* has lost its name.
LEMMA RenameDoes ==
  ASSUME NEW m \in Machines, NEW dir \in INodes, NEW old, NEW new \in NameSet,
         NEW r, r = renameFile(m, dir, old, new)
  PROVE  /\ Keeps(m, r)
         /\ m.fault => r.fault
         /\ (m.disk.ino = m.ino /\ ~ r.fault) => r.disk.ino = r.ino
         /\ ~ r.fault =>
              \/ r.ino = m.ino /\ r.bm = m.bm /\ r.disk.data = m.disk.data
              \/ findFile(m, dir, new) = NONE /\ Renamed(m, r, dir, old, new)
  <1> DEFINE i  == findFile(m, dir, old)
             m1 == removeDirEntry(m, dir, old)
             m2 == addDirEntry(m1, dir, i, new)
  <1>i. i = findFile(m, dir, old)
    OBVIOUS
  <1>m1. m1 = removeDirEntry(m, dir, old)
    OBVIOUS
  <1>m2. m2 = addDirEntry(m1, dir, i, new)
    OBVIOUS
  <1>0. r = IF i = NONE \/ findFile(m, dir, new) # NONE THEN Fail(m)
            ELSE IF m1.ok THEN m2 ELSE m1
    BY DEF renameFile
  <1> HIDE DEF i, m1, m2
  <1>1. CASE i = NONE \/ findFile(m, dir, new) # NONE
    <2>1. r = Fail(m)
      BY <1>0, <1>1
    <2> QED
      BY <2>1, FailDoes
  <1>2. CASE i # NONE /\ findFile(m, dir, new) = NONE
    <2>1. i \in INodes
      BY <1>2, <1>i, FindType
    <2>2. /\ Keeps(m, m1) /\ m1 \in Machines
          /\ m.fault => m1.fault
          /\ m1.bm = m.bm
          /\ ~ m1.ok => m1.ino = m.ino /\ m1.disk.ino = m.disk.ino
          /\ ~ m1.ok => m1.fault \/ m1.disk = m.disk
          /\ m1.ok => /\ m1.fault <=> m.fault
                      /\ m1.disk.ino = m1.ino
                      /\ Removed(m, m1, dir, old)
      BY <1>m1, RemoveDoes DEF Keeps
    <2>3. CASE ~ m1.ok
      <3>1. r = m1
        BY <1>0, <1>2, <2>3
      <3> QED
        BY <2>2, <2>3, <3>1
    <2>4. CASE m1.ok
      <3>1. r = m2
        BY <1>0, <1>2, <2>4
      <3>2. /\ Keeps(m1, m2)
            /\ m1.fault => m2.fault
            /\ ~ m2.ok => m2.fault \/ (m2.ino = m1.ino /\ m2.bm = m1.bm /\ m2.disk = m1.disk)
            /\ m2.ok => /\ m2.fault <=> m1.fault
                        /\ m2.disk.ino = m2.ino
                        /\ Added(m1, m2, dir, i, new)
        BY <1>m2, <2>1, <2>2, AddDoes
      <3>3. Keeps(m, r)
        BY <2>2, <3>1, <3>2, KeepsOn
      <3>4. CASE m2.ok
        BY <1>2, <1>i, <2>2, <2>4, <3>1, <3>2, <3>3, <3>4 DEF Renamed
      <3>5. CASE ~ m2.ok
        <4>1. ~ m1.ino[dir].fileSize >= MAX_BLOCKS_PER_FILE * ENTRIES_PER_BLOCK
          <5>1. /\ m.ino[dir].fileSize \in 0 .. MAX_BLOCKS_PER_FILE * ENTRIES_PER_BLOCK
                /\ m1.ino[dir].fileSize = m.ino[dir].fileSize - 1
            BY <2>2, <2>4, Fields, INodeFields DEF Removed
          <5>2. MAX_BLOCKS_PER_FILE * ENTRIES_PER_BLOCK \in Nat
            BY GeometryAssumption
          <5> QED
            BY <5>1, <5>2
        <4>2. m2.fault \/ m.bm = Blocks
          BY <1>m2, <2>1, <2>2, <3>5, <4>1, AddDoes
        <4> QED
          BY <1>2, <2>2, <2>4, <3>1, <3>2, <3>3, <3>5, <4>2 DEF Renamed
      <3> QED
        BY <3>4, <3>5
    <2> QED
      BY <2>3, <2>4
  <1> QED
    BY <1>1, <1>2

\* What moveFile does to the moved inode.
Reparented(m, r, i, dest) ==
  /\ r.bm = m.bm /\ SameElse(r.ino, m.ino, i)
  /\ r.ino[i].type = m.ino[i].type /\ r.ino[i].isUsed = m.ino[i].isUsed
  /\ r.ino[i].fileSize = m.ino[i].fileSize /\ r.ino[i].blocks = m.ino[i].blocks
  /\ r.ino[i].parentINode = dest
WithParent(m, i, p) == [m EXCEPT !.ino[i].parentINode = p]

\* An inode gets another parent.
LEMMA ParentChanges ==
  ASSUME NEW m \in Machines, NEW i \in INodes, NEW p \in INodes,
         NEW r, r = WithParent(m, i, p)
  PROVE  /\ r \in Machines /\ Keeps(m, r)
         /\ r.disk = m.disk /\ r.fault = m.fault
         /\ Reparented(m, r, i, p)
  <1> DEFINE n == [m.ino[i] EXCEPT !.parentINode = p]
  <1>1. m.ino[i] \in INodeSet
    BY Fields, INodeFields
  <1>2. /\ n \in INodeSet /\ n.type = m.ino[i].type /\ n.fileSize = m.ino[i].fileSize
        /\ n.parentINode = p /\ n.blocks = m.ino[i].blocks
    BY <1>1 DEF INodeSet
  <1>3. n.isUsed = m.ino[i].isUsed
    BY <1>1 DEF INodeSet
  <1>4. r = WithINode(m, i, n)
    BY DEF WithINode, WithParent
  <1> HIDE DEF n
  <1>5. /\ r \in Machines
        /\ r.ok = m.ok /\ r.bm = m.bm /\ r.disk = m.disk /\ r.ret = m.ret
        /\ r.trail = m.trail /\ r.fault = m.fault
        /\ \A j \in INodes : r.ino[j] = IF j = i THEN n ELSE m.ino[j]
    BY ONLY m \in Machines, i \in INodes, <1>2, <1>4, INodeChanges
  <1>6. Keeps(m, r)
    BY <1>2, <1>5, SameKeeps DEF SameBlocks
  <1>7. Reparented(m, r, i, p)
    BY <1>2, <1>3, <1>5 DEF Reparented, SameElse
  <1> QED
    BY <1>5, <1>6, <1>7

\* What moveFile did when it returned 0: the new entry, the old one, the parent
\* and, for a directory with a block, slot 1 of that block.
UpRewritten(m, r, rewritten, b, dest) ==
  \A x \in Blocks, s \in Slots :
    r.disk.data[x][s] = IF rewritten /\ x = b /\ s = 1 THEN Entry(dest, m.disk.data[b][1].name)
                        ELSE m.disk.data[x][s]
Moved(m, r, dir, name, dest) ==
  LET i == findFile(m, dir, name)
      b == m.ino[i].blocks[0]
  IN  \E m1, m2, m3 \in Machines :
        /\ Keeps(m, m1) /\ Keeps(m1, m2)
        /\ Added(m, m1, dest, i, name) /\ Removed(m1, m2, dir, name)
        /\ Reparented(m2, m3, i, dest) /\ m3.disk = m2.disk
        /\ r.ino = m3.ino /\ r.bm = m3.bm
        /\ UpRewritten(m3, r, m.ino[i].type = "Directory" /\ b # 0, b, dest)

\* The directory that moveFile was to take the entry from does not have it.
MoveMissed(m, dir, name, dest) ==
  \E m1 \in Machines : Added(m, m1, dest, findFile(m, dir, name), name)
                         /\ Matches(m1, dir, name) = {}

\* moveFile
LEMMA MoveDoes ==
  ASSUME NEW m \in Machines, NEW dir \in INodes, NEW name \in NameSet, NEW dest \in INodes,
         NEW r, r = moveFile(m, dir, name, dest)
  PROVE  /\ Keeps(m, r)
         /\ m.fault => r.fault
         /\ (m.disk.ino = m.ino /\ ~ r.fault) => r.disk.ino = r.ino
         /\ ~ r.fault =>
              \/ r.ino = m.ino /\ r.bm = m.bm /\ r.disk.data = m.disk.data
              \/ /\ MayMove(m, dir, name, dest)
                 /\ Moved(m, r, dir, name, dest) \/ MoveMissed(m, dir, name, dest)
  <1> DEFINE i  == findFile(m, dir, name)
             m1 == addDirEntry(m, dest, i, name)
             m2 == removeDirEntry(m1, dir, name)
             m3 == WithParent(m2, i, dest)
             b  == m.ino[i].blocks[0]
             c  == WithEntry(m3.disk.data[b], 1, Entry(dest, m3.disk.data[b][1].name))
             isDir == m.ino[i].type = "Directory" /\ b # 0
             m4 == IF isDir THEN WriteBlock(m3, b, [m3.disk.data[b] EXCEPT ![1].inodeNumber = dest])
                   ELSE m3
             m5 == flushInodeTable(m4)
             m6 == removeDirEntry(m2, dest, name)
  <1>i. i = findFile(m, dir, name)
    OBVIOUS
  <1>m1. m1 = addDirEntry(m, dest, i, name)
    OBVIOUS
  <1>m2. m2 = removeDirEntry(m1, dir, name)
    OBVIOUS
  <1>m3. m3 = WithParent(m2, i, dest)
    OBVIOUS
  <1>m4. m4 = IF isDir THEN WriteBlock(m3, b, [m3.disk.data[b] EXCEPT ![1].inodeNumber = dest])
              ELSE m3
    OBVIOUS
  <1>m5. m5 = flushInodeTable(m4)
    OBVIOUS
  <1>m6. m6 = removeDirEntry(m2, dest, name)
    OBVIOUS
  <1>c. c = WithEntry(m3.disk.data[b], 1, Entry(dest, m3.disk.data[b][1].name))
    OBVIOUS
  <1>b. b = m.ino[i].blocks[0]
    OBVIOUS
  <1>d. isDir <=> m.ino[i].type = "Directory" /\ b # 0
    OBVIOUS
  <1>0. r = IF ~ MayMove(m, dir, name, dest) THEN Fail(m)
            ELSE IF ~ m1.ok THEN m1
            ELSE IF ~ m2.ok THEN Fail(m6)
            ELSE [m5 EXCEPT !.ok = TRUE]
    BY DEF moveFile, WithParent
  <1> HIDE DEF i, m1, m2, m3, b, c, isDir, m4, m5, m6
  <1>1. CASE ~ MayMove(m, dir, name, dest)
    <2>1. r = Fail(m)
      BY <1>0, <1>1
    <2> QED
      BY <2>1, FailDoes
  <1>2. CASE MayMove(m, dir, name, dest)
    <2>1. i \in INodes
      <3>1. i # NONE
        BY <1>2, <1>i DEF MayMove
      <3> QED
        BY <1>i, <3>1, FindType
    <2>2. /\ Keeps(m, m1) /\ m1 \in Machines
          /\ m.fault => m1.fault
          /\ ~ m1.ok => m1.fault \/ (m1.ino = m.ino /\ m1.bm = m.bm /\ m1.disk = m.disk)
          /\ m1.ok => /\ m1.fault <=> m.fault
                      /\ m1.disk.ino = m1.ino
                      /\ Added(m, m1, dest, i, name)
      BY <1>m1, <2>1, AddDoes DEF Keeps
    <2>3. CASE ~ m1.ok
      <3>1. r = m1
        BY <1>0, <1>2, <2>3
      <3> QED
        BY <2>2, <2>3, <3>1
    <2>4. CASE m1.ok
      <3>1. /\ Keeps(m1, m2) /\ m2 \in Machines
            /\ m1.fault => m2.fault
            /\ m2.bm = m1.bm
            /\ ~ m2.ok => m2.ino = m1.ino /\ m2.disk.ino = m1.disk.ino
            /\ ~ m2.ok => m2.fault \/ (Matches(m1, dir, name) = {} /\ m2.disk = m1.disk)
            /\ m2.ok => /\ m2.fault <=> m1.fault
                        /\ m2.disk.ino = m2.ino
                        /\ Removed(m1, m2, dir, name)
        BY <1>m2, <2>2, RemoveDoes DEF Keeps
      <3>2. Keeps(m, m2)
        BY <2>2, <3>1, KeepsOn
      <3>3. CASE ~ m2.ok
        <4>1. r = Fail(m6)
          BY <1>0, <1>2, <2>4, <3>3
        <4>2. /\ Keeps(m2, m6) /\ m6 \in Machines
              /\ m2.fault => m6.fault
              /\ ~ m6.ok => m6.ino = m2.ino /\ m6.disk.ino = m2.disk.ino
              /\ m6.ok => m6.disk.ino = m6.ino
          BY <1>m6, <3>1, RemoveDoes DEF Keeps
        <4>3. Keeps(m6, r) /\ r.ino = m6.ino /\ r.disk = m6.disk /\ r.fault = m6.fault
          BY <4>1, <4>2, FailDoes
        <4>4. Keeps(m, r)
          BY <3>2, <4>2, <4>3, KeepsOn
        <4>5. ~ r.fault => MoveMissed(m, dir, name, dest)
          BY <1>i, <2>2, <2>4, <3>1, <3>3, <4>2, <4>3 DEF MoveMissed
        <4>6. ~ r.fault => r.disk.ino = r.ino
          BY <2>2, <2>4, <3>1, <3>3, <4>2, <4>3
        <4>7. m.fault => r.fault
          BY <2>2, <3>1, <4>2, <4>3
        <4> QED
          BY <1>2, <4>4, <4>5, <4>6, <4>7
      <3>4. CASE m2.ok
        <4>1. r = [m5 EXCEPT !.ok = TRUE]
          BY <1>0, <1>2, <2>4, <3>4
        <4>2. /\ m3 \in Machines /\ Keeps(m2, m3) /\ Reparented(m2, m3, i, dest)
              /\ m3.disk = m2.disk /\ m3.fault = m2.fault
          <5>1. m2 \in Machines
            BY <3>1
          <5>2. /\ m3 \in Machines /\ Keeps(m2, m3)
                /\ m3.disk = m2.disk /\ m3.fault = m2.fault
                /\ Reparented(m2, m3, i, dest)
            <6>1. \A p \in INodes : m3 = WithParent(m2, i, p) =>
                      /\ m3 \in Machines /\ Keeps(m2, m3)
                      /\ m3.disk = m2.disk /\ m3.fault = m2.fault
                      /\ Reparented(m2, m3, i, p)
              BY <2>1, <5>1, ParentChanges
            <6> QED
              BY <1>m3, <6>1
          <5> QED
            BY <5>2
        <4>3. b \in Blocks
          BY <1>b, <2>1, Fields, INodeFields, Ranges
        <4>4. /\ m3.disk.data[b] \in BlockSet
              /\ Entry(dest, m3.disk.data[b][1].name) \in Entries
              /\ c = [m3.disk.data[b] EXCEPT ![1].inodeNumber = dest]
          <5>1. m3.disk.data[b] \in BlockSet
            BY <4>2, <4>3, Fields DEF DataSet
          <5>2. m3.disk.data[b][1] \in Entries
            BY <5>1, Ranges DEF BlockSet
          <5>3. [m3.disk.data[b][1] EXCEPT !.inodeNumber = dest]
                  = Entry(dest, m3.disk.data[b][1].name)
            BY <5>2 DEF Entries, Entry
          <5>4. Entry(dest, m3.disk.data[b][1].name) \in Entries
            BY <5>2 DEF Entries, Entry
          <5>5. c = [m3.disk.data[b] EXCEPT ![1] = [m3.disk.data[b][1] EXCEPT !.inodeNumber = dest]]
            BY <1>c, <5>3 DEF WithEntry
          <5> QED
            BY <5>1, <5>4, <5>5
        <4>5. /\ c \in BlockSet
              /\ \A s \in Slots : c[s] = IF s = 1 THEN Entry(dest, m3.disk.data[b][1].name)
                                         ELSE m3.disk.data[b][s]
          <5>1. 1 \in Slots
            BY Ranges
          <5> QED
            BY ONLY <1>c, <4>4, <5>1, EntryFits
        <4>6. /\ m4 \in Machines /\ Keeps(m3, m4) /\ m4.ino = m3.ino /\ m4.bm = m3.bm
              /\ m3.fault => m4.fault
              /\ ~ m4.fault => \A x \in Blocks :
                   m4.disk.data[x] = IF isDir /\ x = b THEN c ELSE m3.disk.data[x]
          <5>1. CASE isDir
            <6>1. m4 = WriteBlock(m3, b, c)
              BY <1>m4, <4>4, <5>1
            <6>2. /\ m4 \in Machines /\ m4.ino = m3.ino /\ m4.bm = m3.bm
                  /\ m4.fault <=> m3.fault \/ b \in bad
                  /\ \A x \in Blocks :
                       m4.disk.data[x] = IF x = b /\ b \notin bad THEN c ELSE m3.disk.data[x]
              BY <4>2, <4>3, <4>5, <6>1, WriteBlockDoes
            <6>3. Keeps(m3, m4)
              BY <4>2, <4>3, <4>5, <6>1, WriteBlockKeeps
            <6> QED
              BY <5>1, <6>2, <6>3
          <5>2. CASE ~ isDir
            <6>1. m4 = m3
              BY <1>m4, <5>2
            <6>2. Keeps(m3, m3)
              BY <4>2, SameKeeps DEF SameBlocks
            <6> QED
              BY <4>2, <5>2, <6>1, <6>2
          <5> QED
            BY <5>1, <5>2
        <4>7. /\ m5 \in Machines /\ m5.ino = m4.ino /\ m5.bm = m4.bm /\ m5.fault = m4.fault
              /\ m5.disk.ino = m4.ino /\ m5.disk.data = m4.disk.data
          BY <1>m5, <4>6, FlushDoes
        <4>8. Keeps(m, m5)
          BY <1>m5, <3>2, <4>2, <4>6, FlushKeeps, KeepsOn
        <4>9. r.ino = m5.ino /\ r.bm = m5.bm /\ r.fault = m5.fault /\ r.disk = m5.disk
          BY <4>1, <4>7, Reports
        <4>10. Keeps(m, r)
          BY <4>1, <4>7, <4>8, ReportKeeps, KeepsOn
        <4>11. ASSUME ~ r.fault PROVE Moved(m, r, dir, name, dest)
          <5>1. \A x \in Blocks :
                   r.disk.data[x] = IF isDir /\ x = b THEN c ELSE m3.disk.data[x]
            BY <4>6, <4>7, <4>9, <4>11
          <5>2. UpRewritten(m3, r, isDir, b, dest)
            BY <4>5, <5>1 DEF UpRewritten
          <5>3. r.ino = m3.ino /\ r.bm = m3.bm
            BY <4>6, <4>7, <4>9
          <5> QED
            BY <2>2, <2>4, <3>1, <3>4, <4>2, <5>2, <5>3 DEF Moved, i, b, isDir
        <4>12. (m.fault => r.fault) /\ r.disk.ino = r.ino
          BY <2>2, <3>1, <4>2, <4>6, <4>7, <4>9
        <4> QED
          BY <1>2, <4>10, <4>11, <4>12
      <3> QED
        BY <3>3, <3>4
    <2> QED
      BY <2>3, <2>4
  <1> QED
    BY <1>1, <1>2

\* The blocks of inode i lie in the first block of the bitmap, the one that
\* freeBlock clears a bit in.
Reachable(m, i) == \A y \in FileBlocks : m.ino[i].blocks[y] < BITS_PER_BLOCK

\* deleteFile has freed the first b blocks of inode i.
FreedTo(m, f, i, b) ==
  /\ f \in Machines /\ (f.fault <=> m.fault)
  /\ f.disk.ino = m.disk.ino /\ f.disk.data = m.disk.data /\ f.disk.magic = m.disk.magic
  /\ SameElse(f.ino, m.ino, i)
  /\ f.ino[i].type = m.ino[i].type /\ f.ino[i].isUsed = m.ino[i].isUsed
  /\ f.ino[i].fileSize = m.ino[i].fileSize /\ f.ino[i].parentINode = m.ino[i].parentINode
  /\ (Reachable(m, i) /\ m.disk.bm = m.bm) => f.disk.bm = f.bm
  /\ Reachable(m, i) => f.bm \subseteq m.bm
  /\ \A y \in FileBlocks : f.ino[i].blocks[y] = IF y < b THEN 0 ELSE m.ino[i].blocks[y]
  /\ Reachable(m, i) =>
       \A x \in m.bm : x \notin f.bm => x # 0 /\ \E y \in FileBlocks : m.ino[i].blocks[y] = x

\* One block is freed.
FreeOne(f, i, b, block) == [freeBlock(f, block) EXCEPT !.ino = WithBlock(@, i, b, 0)]

\* freeBlock and the pointer to the block.
LEMMA FreeOneDoes ==
  ASSUME NEW f \in Machines, NEW i \in INodes, NEW b \in FileBlocks, NEW x \in Blocks,
         NEW r, r = FreeOne(f, i, b, x)
  PROVE  /\ r \in Machines /\ (r.fault <=> f.fault)
         /\ r.disk.ino = f.disk.ino /\ r.disk.data = f.disk.data /\ r.disk.magic = f.disk.magic
         /\ SameElse(r.ino, f.ino, i)
         /\ r.ino[i].type = f.ino[i].type /\ r.ino[i].isUsed = f.ino[i].isUsed
         /\ r.ino[i].fileSize = f.ino[i].fileSize /\ r.ino[i].parentINode = f.ino[i].parentINode
         /\ x < BITS_PER_BLOCK => r.bm = f.bm \ {x}
         /\ (x < BITS_PER_BLOCK /\ f.disk.bm = f.bm) => r.disk.bm = r.bm
         /\ \A y \in FileBlocks : r.ino[i].blocks[y] = IF y = b THEN 0 ELSE f.ino[i].blocks[y]
  <1> DEFINE a == freeBlock(f, x)
             t == WithBlock(a.ino, i, b, 0)
  <1>a. a = freeBlock(f, x)
    OBVIOUS
  <1>t. t = WithBlock(a.ino, i, b, 0)
    OBVIOUS
  <1>1. r = [a EXCEPT !.ino = t]
    BY DEF FreeOne
  <1> HIDE DEF a, t
  <1>2. /\ a \in Machines
        /\ a.ino = f.ino /\ (a.fault <=> f.fault)
        /\ a.disk.ino = f.disk.ino /\ a.disk.magic = f.disk.magic /\ a.disk.data = f.disk.data
        /\ x < BITS_PER_BLOCK => a.bm = f.bm \ {x}
        /\ (x < BITS_PER_BLOCK /\ f.disk.bm = f.bm) => a.disk.bm = a.bm
    <2>1. x \in Nat
      BY Ranges
    <2> QED
      BY <1>a, <2>1, FreeDoes
  <1>3. a.ino \in Tables /\ 0 \in Blocks
    BY <1>2, Fields, Ranges
  <1>4. /\ t \in Tables
        /\ \A j \in INodes :
             /\ t[j].type = a.ino[j].type /\ t[j].fileSize = a.ino[j].fileSize
             /\ t[j].isUsed = a.ino[j].isUsed /\ t[j].parentINode = a.ino[j].parentINode
             /\ \A y \in FileBlocks : t[j].blocks[y] =
                  IF j = i /\ y = b THEN 0 ELSE a.ino[j].blocks[y]
    <2> DEFINE s == a.ino
               z == 0
    <2>1. t = WithBlock(s, i, b, z) /\ s \in Tables /\ i \in INodes /\ b \in FileBlocks
          /\ z \in Blocks
      BY <1>3, <1>t
    <2> HIDE DEF s, z
    <2>2. /\ t \in Tables
          /\ \A j \in INodes :
               /\ t[j].type = s[j].type /\ t[j].fileSize = s[j].fileSize
               /\ t[j].isUsed = s[j].isUsed /\ t[j].parentINode = s[j].parentINode
               /\ \A y \in FileBlocks : t[j].blocks[y] =
                    IF j = i /\ y = b THEN z ELSE s[j].blocks[y]
      BY ONLY <2>1, WithBlockDoes
    <2> QED
      BY <2>2 DEF s, z
  <1>5. /\ r \in Machines /\ r.ino = t /\ r.bm = a.bm /\ r.disk = a.disk
        /\ (r.fault <=> a.fault)
    BY <1>1, <1>2, <1>4, TableChanges
  <1>6. SameElse(r.ino, f.ino, i)
    <2>1. t = [a.ino EXCEPT ![i] = [a.ino[i] EXCEPT !.blocks = [a.ino[i].blocks EXCEPT ![b] = 0]]]
      BY <1>t DEF WithBlock
    <2>2. ASSUME NEW j \in INodes \ {i} PROVE t[j] = a.ino[j]
      BY <1>3, <2>1 DEF Tables
    <2> QED
      BY <1>2, <1>5, <2>2 DEF SameElse
  <1> QED
    BY <1>2, <1>4, <1>5, <1>6

\* The machine after b blocks, for every b.
LEMMA FreedIs ==
  ASSUME NEW m \in Machines, NEW i \in INodes, NEW w, w = Freed(m, i)
  PROVE  w = [b \in 0 .. MAX_BLOCKS_PER_FILE |->
                IF b = 0 THEN m
                ELSE LET before == w[b - 1]
                         block  == m.ino[i].blocks[b - 1]
                     IN  IF block = 0 THEN before
                         ELSE [freeBlock(before, block) EXCEPT !.ino = WithBlock(@, i, b - 1, 0)]]
  <1> DEFINE n == MAX_BLOCKS_PER_FILE
             Step(b, before) == IF m.ino[i].blocks[b - 1] = 0 THEN before
                                ELSE [freeBlock(before, m.ino[i].blocks[b - 1])
                                        EXCEPT !.ino = WithBlock(@, i, b - 1, 0)]
             F == [p \in (0 .. n) \X Machines |-> IF p[1] = 0 THEN p[2] ELSE Step(p[1], p[2])]
  <1>1. n \in Nat
    BY GeometryAssumption
  <1>2. ASSUME NEW b \in 1 .. n, NEW before \in Machines PROVE Step(b, before) \in Machines
    <2> DEFINE k == b - 1
               x == m.ino[i].blocks[k]
               s == FreeOne(before, i, k, x)
    <2>1. k \in FileBlocks
      BY GeometryAssumption DEF FileBlocks
    <2>2. x \in Blocks
      <3> HIDE DEF k
      <3> QED
        BY <2>1, Fields, INodeFields
    <2>3. Step(b, before) = IF x = 0 THEN before ELSE s
      BY DEF FreeOne
    <2>s. s = FreeOne(before, i, k, x)
      OBVIOUS
    <2> HIDE DEF k, x, s, Step
    <2>4. s \in Machines
      BY <2>1, <2>2, <2>s, FreeOneDoes
    <2> QED
      BY <2>3, <2>4
  <1> HIDE DEF n, Step
  <1>4. F \in [(0 .. n) \X Machines -> Machines]
    <2>1. ASSUME NEW p \in (0 .. n) \X Machines
          PROVE  (IF p[1] = 0 THEN p[2] ELSE Step(p[1], p[2])) \in Machines
      <3>1. p[1] \in 0 .. n /\ p[2] \in Machines
        OBVIOUS
      <3>2. p[1] # 0 => p[1] \in 1 .. n
        BY <1>1, <3>1
      <3> QED
        BY <1>2, <3>1, <3>2
    <2> QED
      BY <2>1
  <1>5. \A k \in 1 .. n, y \in Machines : F[<<k, y>>] = Step(k, y)
    <2> SUFFICES ASSUME NEW k \in 1 .. n, NEW y \in Machines PROVE F[<<k, y>>] = Step(k, y)
      OBVIOUS
    <2>1. <<k, y>> \in (0 .. n) \X Machines
      BY <1>1
    <2>2. k # 0
      BY <1>1
    <2> QED
      BY <2>1, <2>2
  <1> HIDE DEF F
  <1>6. PICK f \in [0 .. n -> Machines] : Recurs(f, n, m, F)
    BY <1>1, <1>4, Recursion
  <1>7. \A k \in 0 .. n : k # 0 => F[<<k, f[k - 1]>>] = Step(k, f[k - 1])
    <2> SUFFICES ASSUME NEW k \in 0 .. n, k # 0 PROVE F[<<k, f[k - 1]>>] = Step(k, f[k - 1])
      OBVIOUS
    <2>1. k \in 1 .. n /\ k - 1 \in 0 .. n
      BY <1>1
    <2>2. f[k - 1] \in Machines
      BY <1>6, <2>1
    <2> QED
      BY <1>5, <2>1, <2>2
  <1>8. f = [k \in 0 .. n |-> IF k = 0 THEN m ELSE Step(k, f[k - 1])]
    BY <1>6, <1>7 DEF Recurs
  <1>9. \E g : g = [b \in 0 .. n |-> IF b = 0 THEN m ELSE Step(b, g[b - 1])]
    BY <1>8
  <1>10. w = CHOOSE g : g = [b \in 0 .. n |-> IF b = 0 THEN m ELSE Step(b, g[b - 1])]
    BY DEF Freed, n, Step
  <1>11. w = [b \in 0 .. n |-> IF b = 0 THEN m ELSE Step(b, w[b - 1])]
    BY ONLY <1>9, <1>10
  <1> QED
    BY <1>11 DEF n, Step

\* Every block of the inode has been freed, on the disk too.
LEMMA FreedDoes ==
  ASSUME NEW m \in Machines, NEW i \in INodes, NEW r, r = Freed(m, i)[MAX_BLOCKS_PER_FILE]
  PROVE  FreedTo(m, r, i, MAX_BLOCKS_PER_FILE)
  <1> DEFINE n == MAX_BLOCKS_PER_FILE
             w == Freed(m, i)
             S == {b \in 0 .. n : FreedTo(m, w[b], i, b)}
  <1>1. n \in Nat /\ FileBlocks = 0 .. n - 1
    BY GeometryAssumption DEF FileBlocks
  <1>2. \A b \in 0 .. n : w[b] = IF b = 0 THEN m
                                 ELSE IF m.ino[i].blocks[b - 1] = 0 THEN w[b - 1]
                                 ELSE FreeOne(w[b - 1], i, b - 1, m.ino[i].blocks[b - 1])
    <2>w. w = Freed(m, i)
      OBVIOUS
    <2> HIDE DEF w
    <2>1. w = [b \in 0 .. MAX_BLOCKS_PER_FILE |->
                IF b = 0 THEN m
                ELSE LET before == w[b - 1]
                         block  == m.ino[i].blocks[b - 1]
                     IN  IF block = 0 THEN before
                         ELSE [freeBlock(before, block) EXCEPT !.ino = WithBlock(@, i, b - 1, 0)]]
      BY <2>w, FreedIs
    <2> QED
      BY <2>1 DEF FreeOne
  <1> HIDE DEF n, w
  <1>3. FreedTo(m, m, i, 0)
    BY <1>1 DEF FreedTo, SameElse
  <1>4. ASSUME NEW b \in 1 .. n, FreedTo(m, w[b - 1], i, b - 1) PROVE FreedTo(m, w[b], i, b)
    <2> DEFINE k == b - 1
               x == m.ino[i].blocks[k]
               f == w[k]
               s == FreeOne(f, i, k, x)
    <2>1. k \in FileBlocks /\ k \in Nat /\ \A y \in FileBlocks : y < b <=> y < k \/ y = k
      BY <1>1
    <2>2. x \in Blocks
      <3> HIDE DEF k
      <3> QED
        BY <2>1, Fields, INodeFields
    <2>3. w[b] = IF x = 0 THEN f ELSE s
      BY <1>1, <1>2
    <2>4. FreedTo(m, f, i, k)
      BY <1>4
    <2>s. s = FreeOne(f, i, k, x)
      OBVIOUS
    <2>x. x = m.ino[i].blocks[k]
      OBVIOUS
    <2> HIDE DEF k, x, f, s
    <2>5. CASE x = 0
      <3>1. \A y \in FileBlocks : f.ino[i].blocks[y] = IF y < b THEN 0 ELSE m.ino[i].blocks[y]
        BY <2>1, <2>4, <2>5, <2>x DEF FreedTo
      <3>2. FreedTo(m, f, i, b)
        BY <2>4, <3>1 DEF FreedTo
      <3> QED
        BY <2>3, <2>5, <3>2
    <2>6. CASE x # 0
      <3>0. f \in Machines
        BY <2>4 DEF FreedTo
      <3>1. /\ s \in Machines /\ (s.fault <=> f.fault)
            /\ s.disk.ino = f.disk.ino /\ s.disk.data = f.disk.data /\ s.disk.magic = f.disk.magic
            /\ SameElse(s.ino, f.ino, i)
            /\ s.ino[i].type = f.ino[i].type /\ s.ino[i].isUsed = f.ino[i].isUsed
            /\ s.ino[i].fileSize = f.ino[i].fileSize /\ s.ino[i].parentINode = f.ino[i].parentINode
            /\ x < BITS_PER_BLOCK => s.bm = f.bm \ {x}
            /\ (x < BITS_PER_BLOCK /\ f.disk.bm = f.bm) => s.disk.bm = s.bm
            /\ \A y \in FileBlocks : s.ino[i].blocks[y] = IF y = k THEN 0 ELSE f.ino[i].blocks[y]
        BY <2>1, <2>2, <2>s, <3>0, FreeOneDoes
      <3>2. Reachable(m, i) => x < BITS_PER_BLOCK
        BY <2>1, <2>x DEF Reachable
      <3>3. \A y \in FileBlocks : s.ino[i].blocks[y] = IF y < b THEN 0 ELSE m.ino[i].blocks[y]
        BY <2>1, <2>4, <3>1 DEF FreedTo
      <3>4. ASSUME Reachable(m, i) PROVE /\ s.bm \subseteq m.bm
                                         /\ \A y \in m.bm : y \notin s.bm =>
                                              y # 0 /\ \E z \in FileBlocks : m.ino[i].blocks[z] = y
        BY <2>1, <2>4, <2>6, <2>x, <3>1, <3>2, <3>4 DEF FreedTo
      <3>5. SameElse(s.ino, m.ino, i)
        BY <2>4, <3>1 DEF FreedTo, SameElse
      <3>6. FreedTo(m, s, i, b)
        BY <2>4, <3>1, <3>2, <3>3, <3>4, <3>5 DEF FreedTo
      <3> QED
        BY <2>3, <2>6, <3>6
    <2> QED
      BY <2>5, <2>6
  <1>5. 0 .. n \subseteq S
    <2>1. 0 \in S
      BY <1>1, <1>2, <1>3
    <2>2. \A b \in 1 .. n : b - 1 \in S => b \in S
      BY <1>1, <1>4
    <2> HIDE DEF S
    <2> QED
      BY <1>1, <2>1, <2>2, Induction
  <1> QED
    BY <1>1, <1>5 DEF n, w

\* deleteFile has freed the inode, and its entry is still there.
Unlinked(m, r, i) ==
  /\ SameElse(r.ino, m.ino, i) /\ r.disk.data = m.disk.data
  /\ ~ r.ino[i].isUsed /\ r.ino[i].type = m.ino[i].type
  /\ r.ino[i].fileSize = m.ino[i].fileSize /\ r.ino[i].parentINode = m.ino[i].parentINode
  /\ \A y \in FileBlocks : r.ino[i].blocks[y] = 0

\* What deleteFile does when it finds the name: the entry goes with the inode.
Erased(m, r, dir, name) ==
  \E m1 \in Machines : /\ Unlinked(m, m1, findFile(m, dir, name)) /\ r.bm = m1.bm
                       /\ \/ Removed(m1, r, dir, name)
                          \/ Matches(m1, dir, name) = {}

\* deleteFile.  Until the table is on the disk the blocks are free there and owned
\* at the same time.
LEMMA DeleteDoes ==
  ASSUME NEW m \in Machines, NEW dir \in INodes, NEW name,
         NEW r, r = deleteFile(m, dir, name)
  PROVE  /\ r \in Machines
         /\ m.fault => r.fault
         /\ m.disk.ino = m.ino => r.disk.ino = r.ino
         /\ (Steady(m) /\ m.bm \subseteq 0 .. BITS_PER_BLOCK - 1) => Steady(r)
         /\ ~ r.fault =>
              \/ r.ino = m.ino /\ r.bm = m.bm /\ r.disk = m.disk
              \/ /\ findFile(m, dir, name) \in INodes \ {0} /\ name \notin Dots
                 /\ Erased(m, r, dir, name)
  <1> DEFINE i  == findFile(m, dir, name)
             f  == Freed(m, i)[MAX_BLOCKS_PER_FILE]
             m1 == WithUnused(f, i)
             m2 == removeDirEntry(m1, dir, name)
             m3 == flushInodeTable(m2)
  <1>i. i = findFile(m, dir, name)
    OBVIOUS
  <1>f. f = Freed(m, i)[MAX_BLOCKS_PER_FILE]
    OBVIOUS
  <1>m1. m1 = WithUnused(f, i)
    OBVIOUS
  <1>m2. m2 = removeDirEntry(m1, dir, name)
    OBVIOUS
  <1>m3. m3 = flushInodeTable(m2)
    OBVIOUS
  <1>0. r = IF i = NONE \/ i = 0 \/ name \in Dots THEN Fail(m) ELSE [m3 EXCEPT !.ok = TRUE]
    BY DEF deleteFile, WithUnused
  <1> HIDE DEF i, f, m1, m2, m3
  <1>1. CASE i = NONE \/ i = 0 \/ name \in Dots
    <2>1. r = Fail(m)
      BY <1>0, <1>1
    <2> QED
      BY <2>1, FailDoes DEF Keeps
  <1>2. CASE i # NONE /\ i # 0 /\ name \notin Dots
    <2>0. i \in INodes
      BY <1>2, <1>i, FindType
    <2>1. FreedTo(m, f, i, MAX_BLOCKS_PER_FILE) /\ f \in Machines
      BY <1>f, <2>0, FreedDoes DEF FreedTo
    <2>2. /\ m1 \in Machines
          /\ m1.bm = f.bm /\ m1.disk = f.disk /\ m1.fault = f.fault
          /\ SameElse(m1.ino, f.ino, i)
          /\ ~ m1.ino[i].isUsed /\ m1.ino[i].type = f.ino[i].type
          /\ m1.ino[i].fileSize = f.ino[i].fileSize /\ m1.ino[i].parentINode = f.ino[i].parentINode
          /\ m1.ino[i].blocks = f.ino[i].blocks
      BY <1>m1, <2>0, <2>1, UnusedDoes
    <2>3. /\ m2 \in Machines
          /\ m1.fault => m2.fault
          /\ m2.bm = m1.bm /\ m2.disk.bm = m1.disk.bm /\ m2.disk.magic = m1.disk.magic
          /\ SameBlocks(m2.ino, m1.ino)
          /\ ~ m2.ok => m2.fault \/ Matches(m1, dir, name) = {}
          /\ m2.ok => Removed(m1, m2, dir, name)
      BY <1>m2, <2>2, RemoveDoes DEF Keeps
    <2>4. /\ m3 \in Machines
          /\ m3.ino = m2.ino /\ m3.bm = m2.bm /\ m3.fault = m2.fault
          /\ m3.disk.ino = m2.ino /\ m3.disk.bm = m2.disk.bm /\ m3.disk.magic = m2.disk.magic
          /\ m3.disk.data = m2.disk.data
      BY <1>m3, <2>3, FlushDoes
    <2>5. r = [m3 EXCEPT !.ok = TRUE]
      BY <1>0, <1>2
    <2>6. r \in Machines /\ r.ino = m3.ino /\ r.bm = m3.bm /\ r.disk = m3.disk /\ r.fault = m3.fault
      <3>1. m3 \in Machines
        BY <2>4
      <3> QED
        BY <2>5, <3>1, Reports
    <2>7. \A y \in FileBlocks : f.ino[i].blocks[y] = 0
      BY <2>1, GeometryAssumption DEF FreedTo, FileBlocks
    <2>8. Unlinked(m, m1, i)
      BY <2>1, <2>2, <2>7 DEF FreedTo, Unlinked, SameElse
    <2>9. ASSUME Steady(m), m.bm \subseteq 0 .. BITS_PER_BLOCK - 1 PROVE Steady(r)
      <3>1. Reachable(m, i)
        <4>1. ASSUME NEW y \in FileBlocks PROVE m.ino[i].blocks[y] < BITS_PER_BLOCK
          <5>1. m.ino[i].blocks[y] # 0 => m.ino[i].blocks[y] \in m.bm
            BY <2>0, <2>9 DEF Steady, Behind
          <5>2. BITS_PER_BLOCK \in Nat \ {0}
            BY GeometryAssumption
          <5> QED
            BY <2>9, <5>1, <5>2
        <4> QED
          BY <4>1 DEF Reachable
      <3>2. /\ r.disk.bm = r.bm /\ r.bm = f.bm /\ r.bm \subseteq m.bm
            /\ r.disk.magic /\ r.disk.ino = r.ino
        <4>1. f.disk.bm = f.bm /\ f.bm \subseteq m.bm /\ f.disk.magic
          BY <2>1, <2>9, <3>1 DEF Steady, FreedTo
        <4>2. r.disk.bm = f.disk.bm /\ r.bm = f.bm /\ r.disk.ino = r.ino
          BY <2>2, <2>3, <2>4, <2>6
        <4>3. r.disk.magic = f.disk.magic
          BY <2>2, <2>3, <2>4, <2>6
        <4> QED
          BY <4>1, <4>2, <4>3
      <3>3. \A j \in INodes, y \in FileBlocks :
              r.ino[j].blocks[y] = IF j = i THEN 0 ELSE m.ino[j].blocks[y]
        BY <2>2, <2>3, <2>4, <2>6, <2>7, <2>8 DEF SameBlocks, SameElse, Unlinked
      <3>4. \A x \in m.bm : x \notin r.bm => x # 0 /\ \E y \in FileBlocks : m.ino[i].blocks[y] = x
        BY <2>1, <3>1, <3>2 DEF FreedTo
      <3>5. Meta \subseteq r.bm
        BY <2>0, <2>9, <3>4 DEF Steady, Behind
      <3>6. Apart(r.ino, r.ino)
        BY <2>9, <3>3 DEF Steady, Apart
      <3>7. Behind(r.ino, r.bm)
        BY <2>0, <2>9, <3>3, <3>4 DEF Steady, Behind, Apart
      <3> QED
        BY <3>2, <3>5, <3>6, <3>7 DEF Steady
    <2>10. ~ r.fault => Removed(m1, r, dir, name) \/ Matches(m1, dir, name) = {}
      <3>1. CASE m2.ok
        <4>1. Removed(m1, m2, dir, name)
          BY <2>3, <3>1
        <4>2. r.ino = m2.ino /\ r.disk.data = m2.disk.data
          BY <2>4, <2>6
        <4> QED
          BY <4>1, <4>2 DEF Removed
      <3>2. CASE ~ m2.ok
        BY <2>3, <2>4, <2>6, <3>2
      <3> QED
        BY <3>1, <3>2
    <2>11. m.fault => r.fault
      BY <2>1, <2>2, <2>3, <2>4, <2>6 DEF FreedTo
    <2>12. r.disk.ino = r.ino /\ r.bm = m1.bm
      BY <2>3, <2>4, <2>6
    <2>13. findFile(m, dir, name) \in INodes \ {0} /\ name \notin Dots
      BY <1>2, <1>i, <2>0
    <2>14. ~ r.fault => Erased(m, r, dir, name)
      BY <1>i, <2>2, <2>8, <2>10, <2>12 DEF Erased
    <2> QED
      BY <2>6, <2>9, <2>11, <2>12, <2>13, <2>14
  <1> QED
    BY <1>1, <1>2

\* The table of a new disk.
LEMMA EmptyTable ==
  /\ [k \in INodes |-> ZeroINode] \in Tables
  /\ EmptyDisk \in Disks /\ EmptyDisk.ino \in Tables /\ EmptyDisk.magic = FALSE
  /\ EmptyDisk.ino = [k \in INodes |-> ZeroINode]
  /\ \A i \in INodes, x \in FileBlocks : [k \in INodes |-> ZeroINode][i].blocks[x] = 0
  <1>1. ZeroINode \in INodeSet
    <2>1. 0 \in 0 .. MAX_BLOCKS_PER_FILE * ENTRIES_PER_BLOCK
      BY GeometryAssumption
    <2> QED
      BY <2>1, Ranges DEF ZeroINode, INodeSet, Types
  <1>2. [k \in INodes |-> ZeroINode] \in Tables
    BY <1>1 DEF Tables
  <1>3. [b \in Blocks |-> ZeroBlock] \in DataSet
    BY ZeroFits DEF DataSet
  <1>4. EmptyDisk \in Disks /\ EmptyDisk.ino = [k \in INodes |-> ZeroINode] /\ EmptyDisk.magic = FALSE
    <2> DEFINE t == [k \in INodes |-> ZeroINode]
               d == [b \in Blocks |-> ZeroBlock]
    <2>1. EmptyDisk = [magic |-> FALSE, ino |-> t, bm |-> {}, data |-> d]
      BY DEF EmptyDisk
    <2>2. t \in Tables /\ d \in DataSet /\ {} \in SUBSET Blocks
      BY <1>2, <1>3
    <2> HIDE DEF t, d
    <2>3. EmptyDisk \in Disks /\ EmptyDisk.ino = t /\ EmptyDisk.magic = FALSE
      BY <2>1, <2>2 DEF Disks
    <2> QED
      BY <2>3 DEF t
  <1>5. \A i \in INodes, x \in FileBlocks : [k \in INodes |-> ZeroINode][i].blocks[x] = 0
    BY DEF ZeroINode
  <1> QED
    BY <1>2, <1>4, <1>5

\* What memory and disk hold makes a machine.
LEMMA MachineIs ==
  ASSUME NEW t \in Tables, NEW b \in SUBSET Blocks, NEW d \in Disks,
         NEW r, r = Machine(t, b, d)
  PROVE  /\ r \in Machines /\ r.ino = t /\ r.bm = b /\ r.disk = d /\ r.ok
         /\ ~ r.fault /\ r.trail = {}
  BY DEF Machine, Machines

\* A machine without blocks in use, at the start of the root directory.
Formatted(m) ==
  /\ m \in Machines /\ Steady(m) /\ m.disk.ino = m.ino /\ ~ m.fault /\ m.bm = Meta
  /\ m.ino = EmptyDisk.ino

\* createSuperBlock up to the root directory.
LEMMA FormatStarts ==
  ASSUME NEW d \in Disks
  PROVE  \E m \in Machines : /\ Formatted(m)
                             /\ createSuperBlock(d) = makeDots(createFile(m, 0, "root", "Directory"), 0, 0)
  <1> DEFINE t  == [k \in INodes |-> ZeroINode]
             d0 == [d EXCEPT !.magic = TRUE]
             mm == Machine(t, Meta, d0)
             m0 == Save(mm)
             d1 == [m0.disk EXCEPT !.bm = Meta]
             m1 == Save([m0 EXCEPT !.disk.bm = m0.bm])
             m2 == flushInodeTable(m1)
  <1>1. t \in Tables /\ t = EmptyDisk.ino /\ \A i \in INodes, x \in FileBlocks : t[i].blocks[x] = 0
    BY EmptyTable
  <1>2. Meta \in SUBSET Blocks
    BY GeometryAssumption DEF Meta, Blocks
  <1>3. d0 \in Disks /\ d0.magic = TRUE
    BY DEF Disks
  <1>4. createSuperBlock(d) = makeDots(createFile(m2, 0, "root", "Directory"), 0, 0)
    BY DEF createSuperBlock, Meta
  <1>mm. mm = Machine(t, Meta, d0)
    OBVIOUS
  <1>m0. m0 = [mm EXCEPT !.trail = @ \cup {mm.disk}]
    BY DEF Save
  <1>d1. d1 = [m0.disk EXCEPT !.bm = Meta]
    OBVIOUS
  <1>m1. m1 = Save([m0 EXCEPT !.disk.bm = m0.bm])
    OBVIOUS
  <1>m2. m2 = flushInodeTable(m1)
    OBVIOUS
  <1> HIDE DEF t, d0, mm, m0, d1, m1, m2
  <1>5. /\ mm \in Machines /\ mm.ino = t /\ mm.bm = Meta /\ mm.disk = d0 /\ ~ mm.fault
    <2>1. t \in Tables /\ Meta \in SUBSET Blocks /\ d0 \in Disks
      BY <1>1, <1>2, <1>3
    <2> QED
      BY ONLY <1>mm, <2>1, MachineIs
  <1>6. /\ m0 \in Machines /\ m0.ino = t /\ m0.bm = Meta /\ m0.disk = d0 /\ ~ m0.fault
    BY <1>5, <1>m0 DEF Machines
  <1>7. d1 \in Disks /\ d1.magic = TRUE /\ d1.bm = Meta
    BY <1>2, <1>3, <1>6, <1>d1 DEF Disks
  <1>8. m1 = [m0 EXCEPT !.disk = d1, !.trail = @ \cup {d1}]
    <2>1. m0.disk \in Disks
      BY <1>6, Fields
    <2> QED
      BY <1>6, <1>d1, <1>m1, <2>1 DEF Save, Machines, Disks
  <1>9. /\ m1 \in Machines /\ m1.ino = t /\ m1.bm = Meta /\ m1.disk = d1 /\ ~ m1.fault
    BY <1>6, <1>7, <1>8 DEF Machines
  <1>10. /\ m2 \in Machines
         /\ m2.ino = t /\ m2.bm = Meta /\ m2.fault = m1.fault
         /\ m2.disk.ino = t /\ m2.disk.bm = Meta /\ m2.disk.magic = TRUE
    BY <1>7, <1>9, <1>m2, FlushDoes
  <1>11. Steady(m2)
    BY <1>1, <1>10 DEF Steady, Behind, Apart
  <1>12. Formatted(m2)
    BY <1>1, <1>9, <1>10, <1>11 DEF Formatted
  <1> QED
    BY <1>4, <1>10, <1>12

\* createSuperBlock
LEMMA FormatDoes ==
  ASSUME NEW d \in Disks, NEW r, r = createSuperBlock(d)
  PROVE  r \in Machines /\ Steady(r) /\ (~ r.fault => r.disk.ino = r.ino)
  <1>1. PICK m \in Machines : Formatted(m)
          /\ createSuperBlock(d) = makeDots(createFile(m, 0, "root", "Directory"), 0, 0)
    BY FormatStarts
  <1> DEFINE m1 == createFile(m, 0, "root", "Directory")
  <1>m1. m1 = createFile(m, 0, "root", "Directory")
    OBVIOUS
  <1>2. r = makeDots(m1, 0, 0)
    BY <1>1
  <1> HIDE DEF m1
  <1>3. 0 \in INodes /\ "root" \in NameSet /\ "Directory" \in Types
    BY Ranges DEF NameSet, Types
  <1>4. Keeps(m, m1) /\ m1 \in Machines /\ ((m.disk.ino = m.ino /\ ~ m1.fault) => m1.disk.ino = m1.ino)
    BY <1>m1, <1>3, CreateDoes DEF Keeps
  <1>5. Keeps(m1, r) /\ (m1.fault => r.fault) /\ ((m1.disk.ino = m1.ino /\ ~ r.fault) => r.disk.ino = r.ino)
    BY <1>2, <1>3, <1>4, DotsDo
  <1> QED
    BY <1>1, <1>4, <1>5 DEF Keeps, Formatted

\* loadSuperBlock
LEMMA LoadDoes ==
  ASSUME NEW d \in Disks, NEW r, r = loadSuperBlock(d)
  PROVE  /\ r \in Machines /\ (~ r.fault => r.disk.ino = r.ino)
         /\ (d.magic => Recoverable(d)) => Steady(r)
  <1>1. CASE d.magic
    <2>1. d.ino \in Tables /\ d.bm \in SUBSET Blocks
      BY DEF Disks
    <2>2. r = Machine(d.ino, d.bm, d)
      BY <1>1 DEF loadSuperBlock
    <2>3. r \in Machines /\ r.ino = d.ino /\ r.bm = d.bm /\ r.disk = d
      BY <2>1, <2>2, MachineIs
    <2>4. r.disk.ino = r.ino /\ r.disk.bm = r.bm /\ r.disk.magic = TRUE
      BY <1>1, <2>3 DEF Disks
    <2>5. Recoverable(d) => Steady(r)
      BY <2>3, <2>4 DEF Steady, Recoverable
    <2> QED
      BY <1>1, <2>3, <2>4, <2>5
  <1>2. CASE ~ d.magic
    <2>1. r = createSuperBlock(d)
      BY <1>2 DEF loadSuperBlock
    <2> QED
      BY <1>2, <2>1, FormatDoes
  <1> QED
    BY <1>1, <1>2

-----------------------------------------------------------------------------
(* The types.                                                              *)

Typed ==
  /\ ino \in Tables /\ bm \in SUBSET Blocks /\ disk \in Disks /\ cwd \in INodes
  /\ power \in {"on", "off"} /\ clean \in BOOLEAN /\ intact \in BOOLEAN
  /\ bad \in BadSectors /\ after \in 0 .. CALLS_AFTER_FAULT

\* The machine between two calls.
LEMMA NowIs ==
  ASSUME Typed
  PROVE  /\ Now \in Machines /\ Now.ino = ino /\ Now.bm = bm /\ Now.disk = disk
         /\ ~ Now.fault /\ Now.trail = {}
  <1>1. ino \in Tables /\ bm \in SUBSET Blocks /\ disk \in Disks
    BY DEF Typed
  <1>2. Now = Machine(ino, bm, disk)
    BY DEF Now
  <1> QED
    BY ONLY <1>1, <1>2, MachineIs

\* What a directory names are inodes.
LEMMA ChildrenType ==
  ASSUME Typed, NEW d \in INodes
  PROVE  Children(d) \subseteq INodes
  <1> DEFINE m == Now
  <1>1. m \in Machines
    BY NowIs
  <1> HIDE DEF m
  <1>2. \A p \in Positions(m, d) : EntryAt(m, d, p).inodeNumber \in INodes
    BY <1>1, EntryType
  <1>3. \A p \in Positions(Now, d) : EntryAt(Now, d, p).inodeNumber \in INodes
    BY <1>2 DEF m
  <1> QED
    BY <1>3 DEF Children, EntriesOf

\* One level further down the tree.
Below(up) == up \cup UNION {Children(d) : d \in {x \in up : IsDirectory(x)}}

\* Levels is what its recursion says, and ends in a set of inodes.
LEMMA LevelsIs ==
  ASSUME Typed, NEW L, L = Levels
  PROVE  /\ L \in [0 .. MAX_FILES -> SUBSET INodes]
         /\ L = [k \in 0 .. MAX_FILES |-> IF k = 0 THEN {0} ELSE Below(L[k - 1])]
  <1> DEFINE n == MAX_FILES
             V == SUBSET INodes
             F == [p \in (0 .. n) \X V |-> Below(p[2])]
  <1>1. n \in Nat /\ {0} \in V
    BY GeometryAssumption, Ranges
  <1>2. ASSUME NEW up \in V PROVE Below(up) \in V
    BY ChildrenType DEF Below
  <1> HIDE DEF n, V
  <1>3. F \in [(0 .. n) \X V -> V]
    <2>1. ASSUME NEW p \in (0 .. n) \X V PROVE Below(p[2]) \in V
      <3>1. p[2] \in V
        OBVIOUS
      <3> QED
        BY <1>2, <3>1
    <2> QED
      BY <2>1
  <1>4. \A k \in 0 .. n, y \in V : F[<<k, y>>] = Below(y)
    <2> SUFFICES ASSUME NEW k \in 0 .. n, NEW y \in V PROVE F[<<k, y>>] = Below(y)
      OBVIOUS
    <2>1. <<k, y>> \in (0 .. n) \X V
      OBVIOUS
    <2> QED
      BY <2>1
  <1> HIDE DEF F
  <1>5. PICK f \in [0 .. n -> V] : Recurs(f, n, {0}, F)
    BY <1>1, <1>3, Recursion
  <1>6. \A k \in 0 .. n : k # 0 => F[<<k, f[k - 1]>>] = Below(f[k - 1])
    <2> SUFFICES ASSUME NEW k \in 0 .. n, k # 0 PROVE F[<<k, f[k - 1]>>] = Below(f[k - 1])
      OBVIOUS
    <2>1. k - 1 \in 0 .. n
      BY <1>1
    <2>2. f[k - 1] \in V
      BY <1>5, <2>1
    <2> QED
      BY <1>4, <2>2
  <1>7. f = [k \in 0 .. n |-> IF k = 0 THEN {0} ELSE Below(f[k - 1])]
    BY <1>5, <1>6 DEF Recurs
  <1>8. \E g : g = [k \in 0 .. n |-> IF k = 0 THEN {0} ELSE Below(g[k - 1])]
    BY <1>7
  <1>9. L = CHOOSE g : g = [k \in 0 .. n |-> IF k = 0 THEN {0} ELSE Below(g[k - 1])]
    BY DEF Levels, Below, n
  <1>10. L = [k \in 0 .. n |-> IF k = 0 THEN {0} ELSE Below(L[k - 1])]
    BY ONLY <1>8, <1>9
  <1>11. \A k \in 0 .. n : L[k] \in V
    <2> DEFINE S == {k \in 0 .. n : L[k] \in V}
    <2>1. 0 \in S
      BY <1>1, <1>10
    <2>2. ASSUME NEW k \in 1 .. n, k - 1 \in S PROVE k \in S
      <3>1. k \in 0 .. n /\ k # 0
        BY <1>1
      <3>2. L[k] = Below(L[k - 1])
        BY <1>10, <3>1
      <3> QED
        BY <1>2, <2>2, <3>1, <3>2
    <2> HIDE DEF S
    <2>3. 0 .. n \subseteq S
      BY <1>1, <2>1, <2>2, Induction
    <2> QED
      BY <2>3 DEF S
  <1>12. L \in [0 .. n -> V]
    BY <1>10, <1>11
  <1> QED
    BY <1>10, <1>12 DEF n, V

\* The tree consists of inodes.
LEMMA TreeType ==
  ASSUME Typed
  PROVE  Tree \subseteq INodes /\ Destinations \subseteq INodes
  <1> DEFINE L == Levels
  <1>1. L = Levels
    OBVIOUS
  <1> HIDE DEF L
  <1>2. L \in [0 .. MAX_FILES -> SUBSET INodes] /\ MAX_FILES \in 0 .. MAX_FILES
    BY <1>1, LevelsIs, GeometryAssumption
  <1>3. L[MAX_FILES] \subseteq INodes
    BY <1>2
  <1> QED
    BY <1>1, <1>3 DEF Tree, Destinations

-----------------------------------------------------------------------------
(* The steps.                                                              *)

\* What every call does to the machine.
Does(m, r) ==
  /\ r \in Machines
  /\ m.fault => r.fault
  /\ (m.disk.ino = m.ino /\ ~ r.fault) => r.disk.ino = r.ino
  /\ (Steady(m) /\ m.bm \subseteq 0 .. BITS_PER_BLOCK - 1) => Steady(r)

\* The names users choose are names.
LEMMA NamesAre == Names \cup Dots \subseteq NameSet /\ {"File", "Directory"} = Types
  BY DEF NameSet, Dots, Types

\* A call that power may interrupt.
LEMMA KeepingDoes ==
  ASSUME NEW m, NEW r, Keeps(m, r), m.fault => r.fault,
         (m.disk.ino = m.ino /\ ~ r.fault) => r.disk.ino = r.ino
  PROVE  Does(m, r)
  BY DEF Keeps, Does

\* The calls, one by one.
LEMMA CreateCall ==
  ASSUME Typed, NEW n \in Names
  PROVE  Keeps(Now, createFile(Now, cwd, n, "File")) /\ Does(Now, createFile(Now, cwd, n, "File"))
  <1> DEFINE m == Now
             r == createFile(m, cwd, n, "File")
  <1>1. m \in Machines /\ cwd \in INodes /\ n \in NameSet /\ "File" \in Types
    BY NowIs, NamesAre DEF Typed
  <1>2. r = createFile(m, cwd, n, "File")
    OBVIOUS
  <1> HIDE DEF m, r
  <1>3. Keeps(m, r) /\ Does(m, r)
    BY <1>1, <1>2, CreateDoes, KeepingDoes
  <1> QED
    BY <1>3 DEF m, r

\* createDir
LEMMA CreateDirCall ==
  ASSUME Typed, NEW n \in Names
  PROVE  Keeps(Now, createDir(Now, cwd, n)) /\ Does(Now, createDir(Now, cwd, n))
  <1> DEFINE m == Now
             r == createDir(m, cwd, n)
  <1>1. m \in Machines /\ cwd \in INodes /\ n \in NameSet
    BY NowIs, NamesAre DEF Typed
  <1>2. r = createDir(m, cwd, n)
    OBVIOUS
  <1> HIDE DEF m, r
  <1>3. Keeps(m, r) /\ Does(m, r)
    BY <1>1, <1>2, CreateDirDoes, KeepingDoes
  <1> QED
    BY <1>3 DEF m, r

\* writeFile
LEMMA WriteCall ==
  ASSUME Typed, NEW n \in Names, NEW c \in Contents
  PROVE  Keeps(Now, writeFile(Now, cwd, n, c)) /\ Does(Now, writeFile(Now, cwd, n, c))
  <1> DEFINE m == Now
             r == writeFile(m, cwd, n, c)
  <1>1. m \in Machines /\ cwd \in INodes
    BY NowIs DEF Typed
  <1>2. r = writeFile(m, cwd, n, c)
    OBVIOUS
  <1> HIDE DEF m, r
  <1>3. Keeps(m, r) /\ Does(m, r)
    BY <1>1, <1>2, WriteFileDoes, KeepingDoes
  <1> QED
    BY <1>3 DEF m, r

\* renameFile
LEMMA RenameCall ==
  ASSUME Typed, NEW n \in Names, NEW new \in Names
  PROVE  Keeps(Now, renameFile(Now, cwd, n, new)) /\ Does(Now, renameFile(Now, cwd, n, new))
  <1> DEFINE m == Now
             r == renameFile(m, cwd, n, new)
  <1>1. m \in Machines /\ cwd \in INodes /\ new \in NameSet
    BY NowIs, NamesAre DEF Typed
  <1>2. r = renameFile(m, cwd, n, new)
    OBVIOUS
  <1> HIDE DEF m, r
  <1>3. Keeps(m, r) /\ Does(m, r)
    BY <1>1, <1>2, RenameDoes, KeepingDoes
  <1> QED
    BY <1>3 DEF m, r

\* moveFile
LEMMA MoveCall ==
  ASSUME Typed, NEW n \in Names \cup Dots, NEW dest \in Destinations
  PROVE  Keeps(Now, moveFile(Now, cwd, n, dest)) /\ Does(Now, moveFile(Now, cwd, n, dest))
  <1> DEFINE m == Now
             r == moveFile(m, cwd, n, dest)
  <1>1. m \in Machines /\ cwd \in INodes /\ n \in NameSet /\ dest \in INodes
    BY NowIs, NamesAre, TreeType DEF Typed
  <1>2. r = moveFile(m, cwd, n, dest)
    OBVIOUS
  <1> HIDE DEF m, r
  <1>3. Keeps(m, r) /\ Does(m, r)
    BY <1>1, <1>2, MoveDoes, KeepingDoes
  <1> QED
    BY <1>3 DEF m, r

\* deleteFile, which power must not interrupt.
LEMMA DeleteCall ==
  ASSUME Typed, NEW n
  PROVE  Does(Now, deleteFile(Now, cwd, n))
  <1> DEFINE m == Now
             r == deleteFile(m, cwd, n)
  <1>1. m \in Machines /\ cwd \in INodes
    BY NowIs DEF Typed
  <1>2. r = deleteFile(m, cwd, n)
    OBVIOUS
  <1> HIDE DEF m, r
  <1>3. Does(m, r)
    BY <1>1, <1>2, DeleteDoes DEF Does
  <1> QED
    BY <1>3 DEF m, r

\* Every step is that of a call, of the boot, of a power failure, or cd.
LEMMA Steps ==
  ASSUME Typed, [Next]_vars
  PROVE  \/ vars' = vars \/ Boot \/ PowerFails
         \/ \E n \in Names \cup Dots : cd(n)
         \/ \E r \in Machines : Returns(r) /\ Does(Now, r) /\ intact' \in BOOLEAN
                                /\ (intact' => intact)
  <1> DEFINE Called == \E r \in Machines : Returns(r) /\ Does(Now, r) /\ intact' \in BOOLEAN
                                           /\ (intact' => intact)
  <1>0. \A r : Does(Now, r) => r \in Machines
    BY DEF Does
  <1>i. intact \in BOOLEAN
    BY DEF Typed
  <1>1. ASSUME NEW n \in Names \cup Dots, DeleteFile(n) PROVE Called
    BY <1>0, <1>1, <1>i, DeleteCall DEF DeleteFile, Call
  <1>2. ASSUME NEW n \in Names, CreateFile(n) PROVE Called
    BY <1>0, <1>2, <1>i, CreateCall DEF CreateFile, Call
  <1>3. ASSUME NEW n \in Names, CreateDir(n) PROVE Called
    BY <1>0, <1>3, <1>i, CreateDirCall DEF CreateDir, Call
  <1>4. ASSUME NEW n \in Names, NEW c \in Contents, WriteFile(n, c) PROVE Called
    BY <1>0, <1>4, <1>i, WriteCall DEF WriteFile, Call
  <1>5. ASSUME NEW n \in Names, NEW new \in Names, RenameFile(n, new) PROVE Called
    BY <1>0, <1>5, <1>i, RenameCall DEF RenameFile, Call
  <1>6. ASSUME NEW n \in Names \cup Dots, NEW dest \in Destinations, MoveFile(n, dest) PROVE Called
    BY <1>0, <1>6, <1>i, MoveCall DEF MoveFile
  <1> HIDE DEF Called
  <1>7. Next => \/ Boot \/ PowerFails \/ (\E n \in Names \cup Dots : cd(n)) \/ Called
    BY <1>1, <1>2, <1>3, <1>4, <1>5, <1>6 DEF Next
  <1> QED
    BY <1>7 DEF Called

\* The disk a power failure leaves.
LEMMA ImageIs ==
  ASSUME Typed, NEW d \in Interrupted
  PROVE  /\ d \in Disks
         /\ (CrashDuring \subseteq {"other"} /\ (On => Steady(Now))) => Recoverable(d) /\ On
  <1>1. CASE power = "off"
    <2> DEFINE r == loadSuperBlock(disk)
    <2>1. disk \in Disks
      BY DEF Typed
    <2>2. r = loadSuperBlock(disk)
      OBVIOUS
    <2> HIDE DEF r
    <2>3. r \in Machines
      BY <2>1, <2>2, LoadDoes
    <2>4. r.trail \subseteq Disks
      BY <2>3, Fields
    <2>5. d \in r.trail /\ "format" \in CrashDuring
      BY <1>1, <2>2 DEF Interrupted
    <2> QED
      BY <2>4, <2>5
  <1>2. CASE power # "off"
    <2> DEFINE Image(r) == d \in r.trail
    <2>1. \/ "deleteFile" \in CrashDuring /\ \E n \in Names : Image(deleteFile(Now, cwd, n))
          \/ \E n \in Names : Image(createFile(Now, cwd, n, "File"))
          \/ \E n \in Names : Image(createDir(Now, cwd, n))
          \/ \E n \in Names, c \in Contents : Image(writeFile(Now, cwd, n, c))
          \/ \E n \in Names, new \in Names : Image(renameFile(Now, cwd, n, new))
          \/ \E n \in Names, dest \in Destinations : Image(moveFile(Now, cwd, n, dest))
      BY <1>2 DEF Interrupted
    <2> DEFINE Good(r) == r \in Machines
                          /\ (CrashDuring \subseteq {"other"} /\ Steady(Now) => Safe(r))
    <2>2. ASSUME NEW r, Keeps(Now, r) PROVE Good(r)
      BY <2>2, NowIs DEF Keeps, Safe
    <2>3. "deleteFile" \in CrashDuring => \A n \in Names : Good(deleteFile(Now, cwd, n))
      BY DeleteCall DEF Does
    <2>4. \A n \in Names : Good(createFile(Now, cwd, n, "File")) /\ Good(createDir(Now, cwd, n))
      BY <2>2, CreateCall, CreateDirCall
    <2>5. \A n \in Names, c \in Contents : Good(writeFile(Now, cwd, n, c))
      BY <2>2, WriteCall
    <2>6. \A n \in Names, new \in Names : Good(renameFile(Now, cwd, n, new))
      BY <2>2, RenameCall
    <2>7. \A n \in Names, dest \in Destinations : Good(moveFile(Now, cwd, n, dest))
      BY <2>2, MoveCall
    <2>8. On
      BY <1>2 DEF On, Typed
    <2>9. PICK r : Image(r) /\ Good(r)
      <3> HIDE DEF Image, Good
      <3> QED
        BY <2>1, <2>3, <2>4, <2>5, <2>6, <2>7
    <2>10. d \in r.trail /\ r.trail \subseteq Disks
      BY <2>9, Fields
    <2> QED
      BY <2>8, <2>9, <2>10 DEF Safe
  <1> QED
    BY <1>1, <1>2

\* The initial state, and what a call leaves for the next.
LEMMA InitTyped == Init => Typed
  <1> SUFFICES ASSUME Init PROVE Typed
    OBVIOUS
  <1>1. EmptyDisk \in Disks /\ EmptyDisk.ino \in Tables
    BY EmptyTable
  <1>2. 0 \in INodes /\ 0 \in 0 .. CALLS_AFTER_FAULT
    BY Ranges, GeometryAssumption
  <1> QED
    BY <1>1, <1>2 DEF Init, Typed

\* Every step keeps the types.
LEMMA StepTyped == Typed /\ [Next]_vars => Typed'
  <1> SUFFICES ASSUME Typed, [Next]_vars PROVE Typed'
    OBVIOUS
  <1>1. CASE vars' = vars
    BY <1>1 DEF vars, Typed
  <1>2. CASE Boot
    <2> DEFINE r == loadSuperBlock(disk)
    <2>1. disk \in Disks /\ r = loadSuperBlock(disk)
      BY DEF Typed
    <2>2. Completes(r) /\ UNCHANGED <<cwd, bad, intact, after>> /\ power' = "on"
      BY <1>2 DEF Boot
    <2> HIDE DEF r
    <2>3. r \in Machines
      BY <2>1, LoadDoes
    <2>4. r.ino \in Tables /\ r.bm \in SUBSET Blocks /\ r.disk \in Disks
      BY <2>3, Fields
    <2> QED
      BY <2>2, <2>4 DEF Typed, Completes
  <1>3. CASE PowerFails
    <2>1. disk' \in Disks
      BY <1>3, ImageIs DEF PowerFails
    <2>2. EmptyDisk.ino \in Tables /\ 0 \in INodes /\ 0 \in 0 .. CALLS_AFTER_FAULT
      BY EmptyTable, Ranges, GeometryAssumption
    <2> QED
      BY <1>3, <2>1, <2>2 DEF PowerFails, Typed
  <1>r. ASSUME Running PROVE after' \in 0 .. CALLS_AFTER_FAULT
    BY <1>r, GeometryAssumption DEF Running, Typed
  <1>4. ASSUME NEW n \in Names \cup Dots, cd(n) PROVE Typed'
    <2>1. Now \in Machines /\ cwd \in INodes
      BY NowIs DEF Typed
    <2>2. findFile(Now, cwd, n) # NONE => findFile(Now, cwd, n) \in INodes
      BY <2>1, FindType
    <2>3. ino[cwd].parentINode \in INodes
      BY INodeFields DEF Typed
    <2>4. cwd' \in INodes
      BY <1>4, <2>2, <2>3 DEF cd
    <2>5. after' \in 0 .. CALLS_AFTER_FAULT
      BY <1>4, <1>r DEF cd
    <2> QED
      BY <1>4, <2>4, <2>5 DEF cd, Typed
  <1>5. ASSUME NEW r \in Machines, Returns(r), intact' \in BOOLEAN PROVE Typed'
    <2>1. r.ino \in Tables /\ r.bm \in SUBSET Blocks /\ r.disk \in Disks
      BY Fields
    <2>2. after' \in 0 .. CALLS_AFTER_FAULT
      BY <1>5, <1>r DEF Returns
    <2> QED
      BY <1>5, <2>1, <2>2 DEF Returns, Completes, Typed
  <1> QED
    BY <1>1, <1>2, <1>3, <1>4, <1>5, Steps

\* The sets of the proofs say what the type invariant says.
LEMMA TypedIsTypeOK == Typed => TypeOK
  <1> SUFFICES ASSUME Typed PROVE TypeOK
    OBVIOUS
  <1>1. ASSUME NEW t \in {ino, disk.ino}, NEW i \in INodes
        PROVE  /\ t[i].type \in {"File", "Directory"}
               /\ t[i].fileSize \in 0 .. MAX_BLOCKS_PER_FILE * ENTRIES_PER_BLOCK
               /\ t[i].isUsed \in BOOLEAN /\ t[i].parentINode \in INodes
               /\ t[i].blocks \in [FileBlocks -> Blocks]
    <2>1. t \in Tables
      BY DEF Typed, Disks
    <2>2. /\ t[i].type \in Types
          /\ t[i].fileSize \in 0 .. MAX_BLOCKS_PER_FILE * ENTRIES_PER_BLOCK
          /\ t[i].isUsed \in BOOLEAN /\ t[i].parentINode \in INodes
          /\ t[i].blocks \in [FileBlocks -> Blocks]
      BY <2>1, INodeFields
    <2> QED
      BY <2>2 DEF Types
  <1>2. disk.bm \subseteq Blocks
    BY DEF Typed, Disks
  <1> QED
    BY <1>1, <1>2 DEF Typed, TypeOK

\* The tables in memory and on the disk, the bitmap and the current directory stay
\* what the code takes them for, whatever is called, written or interrupted.
THEOREM TypeCorrect == Spec => []TypeOK
  <1>1. Spec => []Typed
    <2>1. Typed /\ [Next]_vars => Typed'
      BY StepTyped
    <2> QED
      BY InitTyped, <2>1, PTL DEF Spec
  <1> QED
    BY <1>1, TypedIsTypeOK, PTL

-----------------------------------------------------------------------------
(* Memory and disk.                                                        *)

\* freeBlock clears, in memory, the bit of b modulo the bits of a block of the
\* bitmap, whichever block of it is then written: what follows is said of runs whose
\* blocks all have their bit in the first one.
InFirstBitmapBlock == bm \subseteq 0 .. BITS_PER_BLOCK - 1

\* On a disk whose bitmap is one block every run is one of those.
THEOREM OneBitmapBlock ==
  ASSUME TOTAL_BLOCKS <= BITS_PER_BLOCK
  PROVE  Spec => []InFirstBitmapBlock
  <1>1. TypeOK => InFirstBitmapBlock
    BY GeometryAssumption DEF TypeOK, InFirstBitmapBlock, Blocks
  <1> QED
    BY <1>1, TypeCorrect, PTL

\* What is sound about a machine is sound when the call has returned.
LEMMA SteadyMachine ==
  ASSUME NEW r \in Machines, Steady(r), NEW m, m = Machine(r.ino, r.bm, r.disk)
  PROVE  Steady(m)
  <1> DEFINE t == r.ino
             b == r.bm
             d == r.disk
  <1>1. t \in Tables /\ b \in SUBSET Blocks /\ d \in Disks
    BY Fields
  <1>2. m = Machine(t, b, d)
    OBVIOUS
  <1> HIDE DEF t, b, d
  <1>3. m.ino = t /\ m.bm = b /\ m.disk = d
    BY ONLY <1>1, <1>2, MachineIs
  <1> QED
    BY <1>3 DEF Steady, t, b, d

\* It is found again by the next call.
LEMMA SteadyStays ==
  ASSUME NEW r \in Machines, Completes(r), Steady(r)
  PROVE  Steady(Now)'
  <1>1. Now' = Machine(r.ino, r.bm, r.disk)
    BY DEF Now, Completes
  <1> DEFINE m == Now'
  <1>2. m = Machine(r.ino, r.bm, r.disk)
    BY <1>1
  <1> HIDE DEF m
  <1>3. Steady(m)
    BY <1>2, SteadyMachine
  <1> QED
    BY <1>3 DEF m

\* As long as every write has succeeded and no call was interrupted.
InStep ==
  clean => /\ On => Steady(Now) /\ disk.ino = ino
           /\ ~ On => disk.magic = FALSE

\* The steps keep memory and disk together.
LEMMA StepInStep == Typed /\ InStep /\ InFirstBitmapBlock /\ [Next]_vars => InStep'
  <1> SUFFICES ASSUME Typed, InStep, InFirstBitmapBlock, [Next]_vars, clean' PROVE InStep'
    BY DEF InStep
  <1>1. CASE vars' = vars
    BY <1>1 DEF vars, InStep, On, Now
  <1>2. CASE Boot
    <2> DEFINE r == loadSuperBlock(disk)
    <2>1. disk \in Disks /\ r = loadSuperBlock(disk)
      BY DEF Typed
    <2>2. Completes(r) /\ power = "off" /\ power' = "on"
      BY <1>2 DEF Boot
    <2> HIDE DEF r
    <2>3. clean /\ ~ r.fault /\ ino' = r.ino /\ disk' = r.disk
      BY <2>2 DEF Completes
    <2>4. disk.magic = FALSE
      BY <2>2, <2>3 DEF InStep, On
    <2>5. r \in Machines /\ r.disk.ino = r.ino /\ Steady(r)
      BY <2>1, <2>3, <2>4, LoadDoes
    <2>6. Steady(Now)'
      BY <2>2, <2>5, SteadyStays
    <2> QED
      BY <2>2, <2>3, <2>5, <2>6 DEF InStep, On
  <1>3. CASE PowerFails
    BY <1>3 DEF PowerFails
  <1>4. ASSUME NEW n \in Names \cup Dots, cd(n) PROVE InStep'
    BY <1>4 DEF cd, InStep, On, Now
  <1>5. ASSUME NEW r \in Machines, Returns(r), Does(Now, r) PROVE InStep'
    <2>1. Completes(r) /\ On /\ On'
      BY <1>5 DEF Returns, Running, On
    <2>2. clean /\ ~ r.fault /\ ino' = r.ino /\ disk' = r.disk
      BY <2>1 DEF Completes
    <2>3. Steady(Now) /\ Now.disk.ino = Now.ino /\ Now.bm = bm
      BY <2>1, <2>2, NowIs DEF InStep
    <2>4. Steady(r) /\ r.disk.ino = r.ino
      BY <1>5, <2>2, <2>3 DEF Does, InFirstBitmapBlock
    <2>5. Steady(Now)'
      BY <2>1, <2>4, SteadyStays
    <2> QED
      BY <2>1, <2>2, <2>4, <2>5 DEF InStep
  <1> QED
    BY <1>1, <1>2, <1>3, <1>4, <1>5, Steps

\* When a call has returned and nothing went wrong so far, table and bitmap on
\* the disk are those in memory: every operation ends in the flushes it needs.
THEOREM DiskAgreement == Spec /\ []InFirstBitmapBlock => []DiskAgrees
  <1>1. Init => InStep
    BY EmptyTable DEF Init, InStep, On
  <1>2. Typed /\ InStep => DiskAgrees
    <2> SUFFICES ASSUME Typed, InStep, On, clean PROVE disk.ino = ino /\ disk.bm = bm
      BY DEF DiskAgrees
    <2>1. Steady(Now) /\ disk.ino = ino
      BY DEF InStep
    <2> QED
      BY <2>1, NowIs DEF Steady
  <1> QED
    BY InitTyped, StepTyped, StepInStep, <1>1, <1>2, PTL DEF Spec

-----------------------------------------------------------------------------
(* Blocks.                                                                 *)

\* The image a power failure leaves is as sound as the machine was.
Sound ==
  /\ On => Steady(Now)
  /\ ~ On => (disk.magic => Recoverable(disk))

\* The steps keep the blocks apart, power failures in calls but deleteFile
\* and the format included.
LEMMA StepSound ==
  ASSUME CrashDuring \subseteq {"other"}
  PROVE  Typed /\ Sound /\ InFirstBitmapBlock /\ [Next]_vars => Sound'
  <1> SUFFICES ASSUME Typed, Sound, InFirstBitmapBlock, [Next]_vars PROVE Sound'
    OBVIOUS
  <1>1. CASE vars' = vars
    BY <1>1 DEF vars, Sound, On, Now
  <1>2. CASE Boot
    <2> DEFINE r == loadSuperBlock(disk)
    <2>1. disk \in Disks /\ r = loadSuperBlock(disk)
      BY DEF Typed
    <2>2. Completes(r) /\ ~ On /\ On'
      BY <1>2 DEF Boot, On
    <2> HIDE DEF r
    <2>3. r \in Machines /\ Steady(r)
      BY <2>1, <2>2, LoadDoes DEF Sound
    <2>4. Steady(Now)'
      BY <2>2, <2>3, SteadyStays
    <2> QED
      BY <2>2, <2>4 DEF Sound
  <1>3. CASE PowerFails
    <2>1. disk' \in Interrupted /\ ~ On'
      BY <1>3 DEF PowerFails, On
    <2>2. On => Steady(Now)
      BY DEF Sound
    <2>3. Recoverable(disk')
      BY <2>1, <2>2, ImageIs
    <2> QED
      BY <2>1, <2>3 DEF Sound
  <1>4. ASSUME NEW n \in Names \cup Dots, cd(n) PROVE Sound'
    BY <1>4 DEF cd, Sound, On, Now, Running
  <1>5. ASSUME NEW r \in Machines, Returns(r), Does(Now, r) PROVE Sound'
    <2>1. Completes(r) /\ On /\ On'
      BY <1>5 DEF Returns, Running, On
    <2>2. Steady(Now) /\ Now.bm = bm
      BY <2>1, NowIs DEF Sound
    <2>3. Steady(r)
      BY <1>5, <2>2 DEF Does, InFirstBitmapBlock
    <2>4. Steady(Now)'
      BY <2>1, <2>3, SteadyStays
    <2> QED
      BY <2>1, <2>4 DEF Sound
  <1> QED
    BY <1>1, <1>2, <1>3, <1>4, <1>5, Steps

-----------------------------------------------------------------------------
(* Parents.                                                                *)

\* Whoever follows the parents gets to the root: no set of other inodes contains
\* the parents of all its members.
Acyclic(t) ==
  \A S \in SUBSET (INodes \ {0}) : S # {} => \E x \in S : t[x].parentINode \notin S

\* WayUp is what its recursion says.
LEMMA WayUpIs ==
  ASSUME NEW t \in Tables, NEW d \in INodes, NEW w, w = WayUp(t, d)
  PROVE  /\ w \in [0 .. MAX_FILES -> INodes]
         /\ w = [k \in 0 .. MAX_FILES |->
                   IF k = 0 THEN d ELSE IF w[k - 1] = 0 THEN 0 ELSE t[w[k - 1]].parentINode]
  <1> DEFINE n == MAX_FILES
             Up(x) == IF x = 0 THEN 0 ELSE t[x].parentINode
             F == [p \in (0 .. n) \X INodes |-> Up(p[2])]
  <1>1. n \in Nat
    BY GeometryAssumption
  <1>2. ASSUME NEW x \in INodes PROVE Up(x) \in INodes
    BY INodeFields, Ranges
  <1> HIDE DEF n, Up
  <1>3. F \in [(0 .. n) \X INodes -> INodes]
    <2>1. ASSUME NEW p \in (0 .. n) \X INodes PROVE Up(p[2]) \in INodes
      <3>1. p[2] \in INodes
        OBVIOUS
      <3> QED
        BY <1>2, <3>1
    <2> QED
      BY <2>1
  <1>4. \A k \in 0 .. n, y \in INodes : F[<<k, y>>] = Up(y)
    <2> SUFFICES ASSUME NEW k \in 0 .. n, NEW y \in INodes PROVE F[<<k, y>>] = Up(y)
      OBVIOUS
    <2>1. <<k, y>> \in (0 .. n) \X INodes
      OBVIOUS
    <2> QED
      BY <2>1
  <1> HIDE DEF F
  <1>5. PICK f \in [0 .. n -> INodes] : Recurs(f, n, d, F)
    BY <1>1, <1>3, Recursion
  <1>6. \A k \in 0 .. n : k # 0 => F[<<k, f[k - 1]>>] = Up(f[k - 1])
    <2> SUFFICES ASSUME NEW k \in 0 .. n, k # 0 PROVE F[<<k, f[k - 1]>>] = Up(f[k - 1])
      OBVIOUS
    <2>1. k - 1 \in 0 .. n
      BY <1>1
    <2>2. f[k - 1] \in INodes
      BY <1>5, <2>1
    <2> QED
      BY <1>4, <2>2
  <1>7. f = [k \in 0 .. n |-> IF k = 0 THEN d ELSE Up(f[k - 1])]
    BY <1>5, <1>6 DEF Recurs
  <1>8. \E g : g = [k \in 0 .. n |-> IF k = 0 THEN d ELSE Up(g[k - 1])]
    BY <1>7
  <1>9. w = CHOOSE g : g = [k \in 0 .. n |-> IF k = 0 THEN d ELSE Up(g[k - 1])]
    BY DEF WayUp, Up, n
  <1>10. w = [k \in 0 .. n |-> IF k = 0 THEN d ELSE Up(w[k - 1])]
    BY ONLY <1>8, <1>9
  <1>11. \A k \in 0 .. n : w[k] \in INodes
    <2> DEFINE S == {k \in 0 .. n : w[k] \in INodes}
    <2>1. 0 \in S
      BY <1>1, <1>10
    <2>2. ASSUME NEW k \in 1 .. n, k - 1 \in S PROVE k \in S
      <3>1. k \in 0 .. n /\ k # 0
        BY <1>1
      <3>2. w[k] = Up(w[k - 1])
        BY <1>10, <3>1
      <3> QED
        BY <1>2, <2>2, <3>1, <3>2
    <2> HIDE DEF S
    <2>3. 0 .. n \subseteq S
      BY <1>1, <2>1, <2>2, Induction
    <2> QED
      BY <2>3 DEF S
  <1>12. w \in [0 .. n -> INodes]
    BY <1>10, <1>11
  <1> QED
    BY <1>10, <1>12 DEF n, Up

\* There are fewer inodes than steps in the walk: it has reached the root, or it
\* comes to an inode twice and goes round for ever.
LEMMA RootReached ==
  ASSUME NEW t \in Tables, Acyclic(t), NEW d \in INodes, NEW w, w = WayUp(t, d)
  PROVE  w[MAX_FILES] = 0
  <1> DEFINE n == MAX_FILES
  <1>1. n \in Nat \ {0} /\ INodes = 0 .. n - 1
    BY GeometryAssumption DEF INodes
  <1>2. /\ w \in [0 .. n -> INodes] /\ w[0] = d
        /\ \A k \in 1 .. n : w[k] = IF w[k - 1] = 0 THEN 0 ELSE t[w[k - 1]].parentINode
    <2>1. /\ w \in [0 .. n -> INodes]
          /\ w = [k \in 0 .. n |->
                    IF k = 0 THEN d ELSE IF w[k - 1] = 0 THEN 0 ELSE t[w[k - 1]].parentINode]
      BY WayUpIs
    <2>2. w[0] = d
      BY <1>1, <2>1
    <2>3. ASSUME NEW k \in 1 .. n
          PROVE  w[k] = IF w[k - 1] = 0 THEN 0 ELSE t[w[k - 1]].parentINode
      <3>1. k \in 0 .. n /\ k # 0
        BY <1>1
      <3> QED
        BY <2>1, <3>1
    <2> QED
      BY <2>1, <2>2, <2>3
  <1> HIDE DEF n
  <1> SUFFICES ASSUME w[n] # 0 PROVE FALSE
    BY DEF n
  <1>3. \A k \in 0 .. n : w[k] # 0
    <2> DEFINE S == {k \in 0 .. n : w[n - k] # 0}
    <2>1. 0 \in S
      BY <1>1
    <2>2. ASSUME NEW k \in 1 .. n, k - 1 \in S PROVE k \in S
      <3>1. n - (k - 1) \in 1 .. n /\ (n - (k - 1)) - 1 = n - k /\ k \in 0 .. n
        BY <1>1
      <3>2. w[n - (k - 1)] # 0
        BY <2>2
      <3> QED
        BY <1>2, <3>1, <3>2
    <2> HIDE DEF S
    <2>3. 0 .. n \subseteq S
      BY <1>1, <2>1, <2>2, Induction
    <2> SUFFICES ASSUME NEW k \in 0 .. n PROVE w[k] # 0
      OBVIOUS
    <2>4. n - k \in 0 .. n /\ n - (n - k) = k
      BY <1>1
    <2> QED
      BY <2>3, <2>4 DEF S
  <1>4. PICK x \in 0 .. n, y \in 0 .. n : x < y /\ w[x] = w[y]
    <2>1. w \in [0 .. n -> 1 .. n - 1]
      <3>1. ASSUME NEW k \in 0 .. n PROVE w[k] \in 1 .. n - 1
        <4>1. w[k] \in INodes
          BY ONLY <1>2, k \in 0 .. n
        <4>2. w[k] # 0
          BY ONLY <1>3, k \in 0 .. n
        <4> QED
          BY ONLY <1>1, <4>1, <4>2
      <3> QED
        BY <1>2, <3>1
    <2>2. /\ IsFiniteSet(0 .. n) /\ Cardinality(0 .. n) = n + 1
          /\ IsFiniteSet(1 .. n - 1) /\ Cardinality(1 .. n - 1) = n - 1
      <3>1. /\ IsFiniteSet(0 .. n) /\ Cardinality(0 .. n) = IF 0 > n THEN 0 ELSE n - 0 + 1
        BY <1>1, FS_Interval
      <3>2. n - 1 \in Int /\ 1 \in Int
        BY <1>1
      <3>3. /\ IsFiniteSet(1 .. n - 1)
            /\ Cardinality(1 .. n - 1) = IF 1 > n - 1 THEN 0 ELSE (n - 1) - 1 + 1
        BY <3>2, FS_Interval
      <3> QED
        BY <1>1, <3>1, <3>3
    <2>3. Cardinality(1 .. n - 1) < Cardinality(0 .. n)
      BY <1>1, <2>2
    <2>4. PICK a \in 0 .. n, b \in 0 .. n : a # b /\ w[a] = w[b]
      <3> DEFINE A == 0 .. n
                 B == 1 .. n - 1
      <3>1. IsFiniteSet(A) /\ IsFiniteSet(B) /\ Cardinality(B) < Cardinality(A) /\ w \in [A -> B]
        BY <2>1, <2>2, <2>3
      <3> HIDE DEF A, B
      <3>2. \E a, b \in A : a # b /\ w[a] = w[b]
        BY ONLY <3>1, FS_PigeonHole
      <3> QED
        BY <3>2 DEF A
    <2>5. a < b \/ b < a
      BY <1>1, <2>4
    <2> QED
      BY <2>4, <2>5
  <1> DEFINE S == {w[k] : k \in x .. y - 1}
  <1>5. S \in SUBSET (INodes \ {0}) /\ S # {}
    <2>1. x \in x .. y - 1 /\ x .. y - 1 \subseteq 0 .. n
      BY <1>1, <1>4
    <2> QED
      BY <1>2, <1>3, <2>1
  <1>6. ASSUME NEW s \in S PROVE t[s].parentINode \in S
    <2>1. PICK k \in x .. y - 1 : s = w[k]
      OBVIOUS
    <2>2. k \in 0 .. n /\ k + 1 \in 1 .. n /\ (k + 1) - 1 = k
      BY <1>1, <1>4
    <2>3. w[k + 1] = t[s].parentINode
      BY <1>2, <1>3, <2>1, <2>2
    <2>4. CASE k = y - 1
      <3>1. w[k + 1] = w[x] /\ x \in x .. y - 1
        BY <1>1, <1>4, <2>4
      <3> QED
        BY <2>3, <3>1
    <2>5. CASE k # y - 1
      <3>1. k + 1 \in x .. y - 1
        BY <1>1, <1>4, <2>5
      <3> QED
        BY <2>3, <3>1
    <2> QED
      BY <2>4, <2>5
  <1> HIDE DEF S
  <1> QED
    BY <1>5, <1>6 DEF Acyclic

\* What moveFile's walk has passed contains the parents of what it has passed.
LEMMA AncestorsClosed ==
  ASSUME NEW t \in Tables, Acyclic(t), NEW d \in INodes, NEW A, A = Ancestors(t, d)
  PROVE  d \in A /\ 0 \in A /\ A \subseteq INodes /\ \A x \in A \ {0} : t[x].parentINode \in A
  <1> DEFINE w == WayUp(t, d)
  <1>1. w[MAX_FILES] = 0
    <2>1. w = WayUp(t, d)
      OBVIOUS
    <2> HIDE DEF w
    <2> QED
      BY <2>1, RootReached
  <1>2. /\ w \in [0 .. MAX_FILES -> INodes]
        /\ w = [k \in 0 .. MAX_FILES |->
                  IF k = 0 THEN d ELSE IF w[k - 1] = 0 THEN 0 ELSE t[w[k - 1]].parentINode]
    <2>1. w = WayUp(t, d)
      OBVIOUS
    <2> HIDE DEF w
    <2> QED
      BY <2>1, WayUpIs
  <1>3. A = {w[k] : k \in 0 .. MAX_FILES}
    BY DEF Ancestors
  <1> HIDE DEF w
  <1>4. MAX_FILES \in Nat /\ 0 \in 0 .. MAX_FILES /\ MAX_FILES \in 0 .. MAX_FILES
    BY GeometryAssumption
  <1>5. d \in A /\ 0 \in A /\ A \subseteq INodes
    <2>1. w[0] = d /\ \A k \in 0 .. MAX_FILES : w[k] \in INodes
      BY <1>2, <1>4
    <2>2. d \in A
      BY <1>3, <1>4, <2>1
    <2>3. 0 \in A
      BY <1>1, <1>3, <1>4
    <2> QED
      BY <1>3, <2>1, <2>2, <2>3
  <1>6. ASSUME NEW x \in A \ {0} PROVE t[x].parentINode \in A
    <2>1. PICK k \in 0 .. MAX_FILES : x = w[k]
      BY <1>3
    <2>2. k # MAX_FILES
      BY <1>1, <2>1
    <2>3. k + 1 \in 0 .. MAX_FILES /\ k + 1 # 0 /\ (k + 1) - 1 = k
      BY <1>4, <2>2
    <2>4. w[k + 1] = t[x].parentINode
      BY <1>2, <2>1, <2>3
    <2> QED
      BY <1>3, <2>3, <2>4
  <1> QED
    BY <1>5, <1>6

-----------------------------------------------------------------------------
(* What the operations do to the entries of directories.                   *)

\* The positions below the size of d are entries: their blocks are there.
Present(m, d) ==
  \A p \in 0 .. m.ino[d].fileSize - 1 : m.ino[d].blocks[BlockOf(p)] # 0

\* Directory d keeps its entries, loses the one at q (the last one fills the
\* hole), gets the entry e.
SameDir(m, r, d) ==
  /\ r.ino[d].fileSize = m.ino[d].fileSize /\ Present(r, d)
  /\ \A p \in 0 .. m.ino[d].fileSize - 1 : EntryAt(r, d, p) = EntryAt(m, d, p)

LostEntry(m, r, d, q) ==
  /\ r.ino[d].fileSize = m.ino[d].fileSize - 1 /\ Present(r, d)
  /\ \A p \in 0 .. m.ino[d].fileSize - 2 :
       EntryAt(r, d, p) = EntryAt(m, d, IF p = q THEN m.ino[d].fileSize - 1 ELSE p)

GotEntry(m, r, d, e) ==
  /\ r.ino[d].fileSize = m.ino[d].fileSize + 1 /\ Present(r, d)
  /\ \A p \in 0 .. m.ino[d].fileSize :
       EntryAt(r, d, p) = IF p = m.ino[d].fileSize THEN e ELSE EntryAt(m, d, p)

SameINode(m, r, i) ==
  /\ r.ino[i].type = m.ino[i].type /\ (r.ino[i].isUsed <=> m.ino[i].isUsed)
  /\ r.ino[i].parentINode = m.ino[i].parentINode

\* Where an entry is.
LEMMA Located ==
  ASSUME NEW m \in Machines, NEW d \in INodes, NEW p \in 0 .. m.ino[d].fileSize - 1
  PROVE  /\ p \in Nat /\ p < MAX_BLOCKS_PER_FILE * ENTRIES_PER_BLOCK
         /\ BlockOf(p) \in FileBlocks /\ SlotOf(p) \in Slots
         /\ m.ino[d].blocks[BlockOf(p)] \in Blocks
         /\ EntryAt(m, d, p) = m.disk.data[m.ino[d].blocks[BlockOf(p)]][SlotOf(p)]
  <1>1. m.ino \in Tables
    BY Fields
  <1>2. /\ m.ino[d].fileSize \in 0 .. MAX_BLOCKS_PER_FILE * ENTRIES_PER_BLOCK
        /\ m.ino[d].fileSize \in Nat /\ m.ino[d].blocks \in [FileBlocks -> Blocks]
    BY <1>1, INodeFields
  <1>3. p \in Nat /\ p < MAX_BLOCKS_PER_FILE * ENTRIES_PER_BLOCK
    <2>1. MAX_BLOCKS_PER_FILE * ENTRIES_PER_BLOCK \in Nat
      BY GeometryAssumption
    <2> QED
      BY <1>2, <2>1
  <1>4. BlockOf(p) \in FileBlocks /\ SlotOf(p) \in Slots
    BY <1>3, Place, PlaceInFile
  <1>5. m.ino[d].blocks[BlockOf(p)] \in Blocks
    BY <1>2, <1>4
  <1> QED
    BY <1>3, <1>4, <1>5 DEF EntryAt

\* The first entry of a block.
LEMMA FirstOfBlock ==
  ASSUME NEW b \in Nat
  PROVE  ENTRIES_PER_BLOCK * b \in Nat /\ BlockOf(ENTRIES_PER_BLOCK * b) = b
  <1>1. ENTRIES_PER_BLOCK \in Nat /\ ENTRIES_PER_BLOCK > 0
    BY GeometryAssumption
  <1>2. \A e \in Nat : e > 0 => e * b \in Nat /\ (e * b) \div e = b
    OBVIOUS
  <1> QED
    BY <1>1, <1>2 DEF BlockOf

\* findFile sees all of them.
LEMMA PresentIs ==
  ASSUME NEW m \in Machines, NEW d \in INodes, Present(m, d)
  PROVE  Positions(m, d) = 0 .. m.ino[d].fileSize - 1
  <1> SUFFICES ASSUME NEW i \in 0 .. m.ino[d].fileSize - 1
               PROVE  /\ BlockOf(i) \in FileBlocks
                      /\ \A b \in 0 .. BlockOf(i) : m.ino[d].blocks[b] # 0
    BY DEF Positions
  <1>1. i \in Nat /\ BlockOf(i) \in FileBlocks
    BY Located
  <1>2. ASSUME NEW b \in 0 .. BlockOf(i) PROVE m.ino[d].blocks[b] # 0
    <2> DEFINE p == ENTRIES_PER_BLOCK * b
    <2>1. BlockOf(i) \in Nat /\ SlotOf(i) \in Nat
          /\ i = ENTRIES_PER_BLOCK * BlockOf(i) + SlotOf(i)
      BY <1>1, Place, GeometryAssumption DEF Slots
    <2>2. b \in Nat /\ b <= BlockOf(i)
      BY <2>1
    <2>3. p \in Nat /\ BlockOf(p) = b
      BY <2>2, FirstOfBlock
    <2>4. \A e, x, y \in Nat : x <= y => e * x <= e * y
      OBVIOUS
    <2>5. p <= ENTRIES_PER_BLOCK * BlockOf(i)
      BY <2>1, <2>2, <2>4, GeometryAssumption
    <2>6. ENTRIES_PER_BLOCK * BlockOf(i) \in Nat
      BY <2>1, GeometryAssumption
    <2> HIDE DEF p
    <2>7. p <= i
      BY <2>1, <2>3, <2>5, <2>6
    <2>8. m.ino[d].fileSize \in Nat
      BY Fields, INodeFields
    <2>9. p \in 0 .. m.ino[d].fileSize - 1
      BY <1>1, <2>3, <2>7, <2>8
    <2> QED
      BY <2>3, <2>9 DEF Present
  <1> QED
    BY <1>1, <1>2

\* An entry added to another directory.
LEMMA AddedSame ==
  ASSUME NEW m \in Machines, NEW r \in Machines, Steady(m), NEW dir \in INodes,
         NEW inode, NEW name, Added(m, r, dir, inode, name),
         NEW d \in INodes, d # dir, Present(m, d), Present(m, dir)
  PROVE  SameDir(m, r, d)
  <1> DEFINE fs == m.ino[dir].fileSize
  <1>1. /\ fs < MAX_BLOCKS_PER_FILE * ENTRIES_PER_BLOCK
        /\ r.ino[d].fileSize = m.ino[d].fileSize
    BY DEF Added
  <1>2. PICK at \in Blocks :
           /\ IF SlotOf(fs) = 0 THEN at \notin m.bm ELSE at = m.ino[dir].blocks[BlockOf(fs)]
           /\ Takes(r.ino, m.ino, dir, BlockOf(fs), at)
           /\ \A x \in Blocks, s \in Slots :
                r.disk.data[x][s] = IF x # at THEN m.disk.data[x][s]
                                    ELSE IF s = SlotOf(fs) THEN Entry(inode, name)
                                    ELSE IF SlotOf(fs) = 0 THEN ZeroEntry
                                    ELSE m.disk.data[x][s]
    BY DEF Added
  <1>3. fs \in Nat /\ m.ino \in Tables
    BY Fields, INodeFields
  <1>4. BlockOf(fs) \in FileBlocks
    BY <1>1, <1>3, PlaceInFile
  <1> HIDE DEF fs
  <1>5. Behind(m.ino, m.bm) /\ Apart(m.ino, m.ino)
    BY DEF Steady
  <1>6. ASSUME NEW p \in 0 .. m.ino[d].fileSize - 1
        PROVE  /\ r.ino[d].blocks[BlockOf(p)] = m.ino[d].blocks[BlockOf(p)]
               /\ m.ino[d].blocks[BlockOf(p)] # 0
               /\ EntryAt(r, d, p) = EntryAt(m, d, p)
    <2> DEFINE x == BlockOf(p)
               s == SlotOf(p)
               bl == m.ino[d].blocks[x]
    <2>1. x \in FileBlocks /\ s \in Slots /\ bl \in Blocks /\ EntryAt(m, d, p) = m.disk.data[bl][s]
      BY Located
    <2>2. bl # 0
      BY DEF Present
    <2>3. EntryAt(r, d, p) = r.disk.data[r.ino[d].blocks[x]][s]
      BY DEF EntryAt
    <2> HIDE DEF x, s, bl
    <2>4. r.ino[d].blocks[x] = m.ino[d].blocks[x]
      BY <1>2, <2>1 DEF Takes
    <2>5. bl # at
      BY <1>2, <1>4, <1>5, <2>1, <2>2 DEF Behind, Apart, bl
    <2>6. r.disk.data[bl][s] = m.disk.data[bl][s]
      BY <1>2, <2>1, <2>5
    <2> QED
      BY <2>1, <2>2, <2>3, <2>4, <2>6 DEF x, bl
  <1> QED
    BY <1>1, <1>6 DEF SameDir, Present

\* An entry added to this directory.
LEMMA AddedGot ==
  ASSUME NEW m \in Machines, NEW r \in Machines, Steady(m), NEW dir \in INodes,
         NEW inode, NEW name, Added(m, r, dir, inode, name), Present(m, dir)
  PROVE  GotEntry(m, r, dir, Entry(inode, name))
  <1> DEFINE fs == m.ino[dir].fileSize
  <1>1. /\ fs < MAX_BLOCKS_PER_FILE * ENTRIES_PER_BLOCK
        /\ r.ino[dir].fileSize = fs + 1
    BY DEF Added
  <1>2. PICK at \in Blocks :
           /\ IF SlotOf(fs) = 0 THEN at \notin m.bm ELSE at = m.ino[dir].blocks[BlockOf(fs)]
           /\ Takes(r.ino, m.ino, dir, BlockOf(fs), at)
           /\ \A x \in Blocks, s \in Slots :
                r.disk.data[x][s] = IF x # at THEN m.disk.data[x][s]
                                    ELSE IF s = SlotOf(fs) THEN Entry(inode, name)
                                    ELSE IF SlotOf(fs) = 0 THEN ZeroEntry
                                    ELSE m.disk.data[x][s]
    BY DEF Added
  <1>3. fs \in Nat /\ m.ino \in Tables
    BY Fields, INodeFields
  <1>4. BlockOf(fs) \in FileBlocks /\ SlotOf(fs) \in Slots /\ BlockOf(fs) \in Nat
    BY <1>1, <1>3, PlaceInFile, Place
  <1>5. Behind(m.ino, m.bm) /\ Apart(m.ino, m.ino) /\ Meta \subseteq m.bm
    BY DEF Steady
  <1>6. 0 \in m.bm
    BY <1>5, GeometryAssumption DEF Meta
  <1>f. 0 .. m.ino[dir].fileSize - 1 = 0 .. fs - 1
    OBVIOUS
  <1>7. at # 0
    <2>1. CASE SlotOf(fs) = 0
      BY <1>2, <1>6, <2>1
    <2>2. CASE SlotOf(fs) # 0
      <3>1. fs # 0
        BY <2>2, PlaceOfDots
      <3>2. fs - 1 \in 0 .. fs - 1 /\ fs - 1 \in Nat
        BY <1>3, <3>1
      <3>3. BlockOf(fs - 1) = BlockOf(fs)
        <4> HIDE DEF fs
        <4>1. /\ fs = ENTRIES_PER_BLOCK * BlockOf(fs) + SlotOf(fs)
              /\ SlotOf(fs) \in Nat /\ SlotOf(fs) < ENTRIES_PER_BLOCK
          BY <1>3, Place, GeometryAssumption DEF Slots
        <4>2. \A e, b, s \in Nat : s # 0 /\ s < e => ((e * b + s) - 1) \div e = b
          OBVIOUS
        <4>3. ((ENTRIES_PER_BLOCK * BlockOf(fs) + SlotOf(fs)) - 1) \div ENTRIES_PER_BLOCK = BlockOf(fs)
          BY <1>4, <2>2, <4>1, <4>2, GeometryAssumption
        <4>4. BlockOf(fs - 1) = (fs - 1) \div ENTRIES_PER_BLOCK
          BY DEF BlockOf
        <4> QED
          BY ONLY <4>1, <4>3, <4>4
      <3>4. m.ino[dir].blocks[BlockOf(fs - 1)] # 0
        BY <3>2 DEF Present
      <3> QED
        BY <1>2, <2>2, <3>3, <3>4
    <2> QED
      BY <2>1, <2>2
  <1>8. r.ino[dir].blocks[BlockOf(fs)] = at
    BY <1>2, <1>4 DEF Takes
  <1>9. EntryAt(r, dir, fs) = Entry(inode, name)
    BY <1>2, <1>4, <1>8 DEF EntryAt
  <1>10. ASSUME NEW p \in 0 .. fs - 1
         PROVE  /\ r.ino[dir].blocks[BlockOf(p)] # 0
                /\ EntryAt(r, dir, p) = EntryAt(m, dir, p)
    <2> DEFINE x == BlockOf(p)
               s == SlotOf(p)
               bl == m.ino[dir].blocks[x]
    <2>1. x \in FileBlocks /\ s \in Slots /\ bl \in Blocks /\ EntryAt(m, dir, p) = m.disk.data[bl][s]
          /\ p \in Nat
      BY Located
    <2>2. bl # 0
      BY DEF Present
    <2>3. EntryAt(r, dir, p) = r.disk.data[r.ino[dir].blocks[x]][s]
      BY DEF EntryAt
    <2>4. SlotOf(fs) = 0 => x # BlockOf(fs)
      <3>1. p < fs
        BY <1>3, <2>1
      <3>2. SlotOf(fs) = 0 => BlockOf(p) < BlockOf(fs)
        BY <1>3, <2>1, <3>1, PlaceGrows
      <3>3. BlockOf(p) \in Nat
        BY <2>1, Place
      <3> QED
        BY <1>4, <3>2, <3>3
    <2>5. x = BlockOf(fs) => s # SlotOf(fs)
      BY <1>3, <2>1, PlaceIsUnique
    <2> HIDE DEF fs, x, s, bl
    <2>6. r.ino[dir].blocks[x] = bl
      BY <1>2, <1>4, <2>1, <2>4 DEF Takes, bl
    <2>7. r.disk.data[bl][s] = m.disk.data[bl][s]
      <3>1. CASE bl # at
        BY <1>2, <2>1, <3>1
      <3>2. CASE bl = at
        <4>1. SlotOf(fs) # 0
          BY <1>2, <1>5, <2>1, <2>2, <3>2 DEF Behind, bl
        <4>2. x = BlockOf(fs)
          BY <1>2, <1>4, <1>5, <2>1, <2>2, <3>2, <4>1 DEF Apart, bl
        <4> QED
          BY <1>2, <2>1, <2>5, <3>2, <4>1, <4>2
      <3> QED
        BY <3>1, <3>2
    <2> QED
      BY <2>1, <2>2, <2>3, <2>6, <2>7 DEF x
  <1>11. \A p \in 0 .. fs : p = fs \/ p \in 0 .. fs - 1
    BY <1>3
  <1>12. \A p \in 0 .. fs : EntryAt(r, dir, p) = IF p = fs THEN Entry(inode, name) ELSE EntryAt(m, dir, p)
    BY <1>9, <1>10, <1>11
  <1>13. \A p \in 0 .. (fs + 1) - 1 : r.ino[dir].blocks[BlockOf(p)] # 0
    <2>1. 0 .. (fs + 1) - 1 = 0 .. fs
      BY <1>3
    <2> QED
      BY <1>7, <1>8, <1>10, <1>11, <2>1
  <1> QED
    BY <1>1, <1>12, <1>13 DEF GotEntry, Present

\* An entry removed from another directory.
LEMMA RemovedSame ==
  ASSUME NEW m \in Machines, NEW r \in Machines, Apart(m.ino, m.ino), NEW dir \in INodes,
         NEW name, Removed(m, r, dir, name),
         NEW d \in INodes, d # dir, Present(m, d), Present(m, dir)
  PROVE  SameDir(m, r, d)
  <1> DEFINE i    == Min(Matches(m, dir, name))
             last == m.ino[dir].fileSize - 1
             hole == m.ino[dir].blocks[BlockOf(i)]
             tail == m.ino[dir].blocks[BlockOf(last)]
  <1>1. /\ Matches(m, dir, name) # {}
        /\ \A j \in INodes :
             /\ r.ino[j].type = m.ino[j].type /\ r.ino[j].isUsed = m.ino[j].isUsed
             /\ r.ino[j].parentINode = m.ino[j].parentINode
             /\ r.ino[j].blocks = m.ino[j].blocks
             /\ r.ino[j].fileSize = IF j = dir THEN last ELSE m.ino[j].fileSize
        /\ \A x \in Blocks, s \in Slots :
             r.disk.data[x][s] =
               IF x = hole /\ s = SlotOf(i)
               THEN IF i = last THEN ZeroEntry ELSE m.disk.data[tail][SlotOf(last)]
               ELSE IF i # last /\ x = tail /\ x # hole /\ s = SlotOf(last) THEN ZeroEntry
               ELSE m.disk.data[x][s]
    BY DEF Removed
  <1>2. i \in Positions(m, dir)
    BY <1>1, FindDoes
  <1>3. Positions(m, dir) = 0 .. last
    BY PresentIs
  <1>4. m.ino[dir].fileSize \in Nat
    BY Fields, INodeFields
  <1>5. i \in 0 .. last /\ last \in 0 .. last
    BY <1>2, <1>3, <1>4
  <1>6. /\ BlockOf(i) \in FileBlocks /\ BlockOf(last) \in FileBlocks
        /\ hole # 0 /\ tail # 0
    BY <1>5, Located DEF Present
  <1>7. Apart(m.ino, m.ino)
    OBVIOUS
  <1> HIDE DEF i, last
  <1>8. ASSUME NEW p \in 0 .. m.ino[d].fileSize - 1
        PROVE  /\ m.ino[d].blocks[BlockOf(p)] # 0
               /\ EntryAt(r, d, p) = EntryAt(m, d, p)
    <2> DEFINE x == BlockOf(p)
               s == SlotOf(p)
               bl == m.ino[d].blocks[x]
    <2>1. x \in FileBlocks /\ s \in Slots /\ bl \in Blocks /\ EntryAt(m, d, p) = m.disk.data[bl][s]
      BY Located
    <2>2. bl # 0
      BY DEF Present
    <2>3. EntryAt(r, d, p) = r.disk.data[r.ino[d].blocks[x]][s]
      BY DEF EntryAt
    <2> HIDE DEF x, s
    <2>5. bl # hole /\ bl # tail
      BY <1>6, <1>7, <2>1, <2>2 DEF Apart
    <2> HIDE DEF bl, hole, tail
    <2>6. r.disk.data[bl][s] = m.disk.data[bl][s]
      BY <1>1, <2>1, <2>5
    <2> QED
      BY <1>1, <2>1, <2>2, <2>3, <2>6 DEF x, bl
  <1> QED
    BY <1>1, <1>8 DEF SameDir, Present

\* An entry removed from this directory: the last one is where it was.
LEMMA RemovedLost ==
  ASSUME NEW m \in Machines, NEW r \in Machines, Apart(m.ino, m.ino), NEW dir \in INodes,
         NEW name, Removed(m, r, dir, name), Present(m, dir)
  PROVE  /\ Min(Matches(m, dir, name)) \in 0 .. m.ino[dir].fileSize - 1
         /\ EntryAt(m, dir, Min(Matches(m, dir, name))) = Entry(findFile(m, dir, name), name)
         /\ LostEntry(m, r, dir, Min(Matches(m, dir, name)))
  <1> DEFINE i    == Min(Matches(m, dir, name))
             fs   == m.ino[dir].fileSize
             last == fs - 1
             hole == m.ino[dir].blocks[BlockOf(i)]
             tail == m.ino[dir].blocks[BlockOf(last)]
  <1>1. /\ Matches(m, dir, name) # {}
        /\ \A j \in INodes :
             /\ r.ino[j].type = m.ino[j].type /\ r.ino[j].isUsed = m.ino[j].isUsed
             /\ r.ino[j].parentINode = m.ino[j].parentINode
             /\ r.ino[j].blocks = m.ino[j].blocks
             /\ r.ino[j].fileSize = IF j = dir THEN last ELSE m.ino[j].fileSize
        /\ \A x \in Blocks, s \in Slots :
             r.disk.data[x][s] =
               IF x = hole /\ s = SlotOf(i)
               THEN IF i = last THEN ZeroEntry ELSE m.disk.data[tail][SlotOf(last)]
               ELSE IF i # last /\ x = tail /\ x # hole /\ s = SlotOf(last) THEN ZeroEntry
               ELSE m.disk.data[x][s]
    BY DEF Removed
  <1>2. /\ i \in Positions(m, dir) /\ EntryAt(m, dir, i).name = name
        /\ findFile(m, dir, name) = EntryAt(m, dir, i).inodeNumber
    BY <1>1, FindDoes
  <1>3. Positions(m, dir) = 0 .. last
    BY PresentIs
  <1>e. EntryAt(m, dir, i) = Entry(findFile(m, dir, name), name)
    <2>1. EntryAt(m, dir, i) \in Entries
      BY <1>2, EntryType
    <2> DEFINE e == EntryAt(m, dir, i)
    <2> HIDE DEF e, i
    <2>2. e = Entry(e.inodeNumber, e.name)
      BY <2>1 DEF e, Entries, Entry
    <2> QED
      BY <1>2, <2>2 DEF e
  <1>4. fs \in Nat
    BY Fields, INodeFields
  <1>5. i \in 0 .. last /\ last \in 0 .. last
    BY <1>2, <1>3, <1>4
  <1>6. /\ BlockOf(i) \in FileBlocks /\ BlockOf(last) \in FileBlocks
        /\ SlotOf(i) \in Slots /\ SlotOf(last) \in Slots
        /\ hole # 0 /\ tail # 0 /\ hole \in Blocks /\ tail \in Blocks
        /\ i \in Nat /\ last \in Nat
        /\ EntryAt(m, dir, last) = m.disk.data[tail][SlotOf(last)]
    BY <1>5, Located DEF Present
  <1>7. Apart(m.ino, m.ino)
    OBVIOUS
  <1> HIDE DEF i
  <1>8. ASSUME NEW p \in 0 .. fs - 2
        PROVE  /\ m.ino[dir].blocks[BlockOf(p)] # 0
               /\ EntryAt(r, dir, p) = EntryAt(m, dir, IF p = i THEN last ELSE p)
    <2> DEFINE x == BlockOf(p)
               s == SlotOf(p)
               bl == m.ino[dir].blocks[x]
    <2>0. p \in 0 .. fs - 1
      BY <1>4
    <2>1. x \in FileBlocks /\ s \in Slots /\ bl \in Blocks /\ EntryAt(m, dir, p) = m.disk.data[bl][s]
          /\ p \in Nat
      BY <2>0, Located
    <2>2. bl # 0
      BY <2>0 DEF Present
    <2>3. EntryAt(r, dir, p) = r.disk.data[r.ino[dir].blocks[x]][s]
      BY DEF EntryAt
    <2>4. p # last
      BY <1>4
    <2>5. (x = BlockOf(last) /\ s = SlotOf(last)) => p = last
      BY <1>6, <2>1, PlaceIsUnique
    <2>6. (x = BlockOf(i) /\ s = SlotOf(i)) => p = i
      BY <1>6, <2>1, PlaceIsUnique
    <2> HIDE DEF x, s
    <2>7. bl = tail => x = BlockOf(last)
      BY <1>6, <1>7, <2>1, <2>2 DEF Apart
    <2>8. bl = hole => x = BlockOf(i)
      BY <1>6, <1>7, <2>1, <2>2 DEF Apart
    <2> HIDE DEF last
    <2>9. CASE p = i
      <3>1. bl = hole /\ s = SlotOf(i)
        BY <2>9 DEF x, s
      <3> HIDE DEF bl, hole, tail
      <3>2. r.disk.data[bl][s] = m.disk.data[tail][SlotOf(last)]
        BY <1>1, <2>1, <2>4, <2>9, <3>1
      <3> QED
        BY <1>1, <1>6, <2>1, <2>2, <2>3, <2>9, <3>2 DEF x, bl
    <2>10. CASE p # i
      <3>1. ~ (bl = hole /\ s = SlotOf(i)) /\ ~ (bl = tail /\ s = SlotOf(last))
        BY <2>4, <2>5, <2>6, <2>7, <2>8, <2>10
      <3> HIDE DEF bl, hole, tail
      <3>2. r.disk.data[bl][s] = m.disk.data[bl][s]
        BY <1>1, <2>1, <3>1
      <3> QED
        BY <1>1, <2>1, <2>2, <2>3, <2>10, <3>2 DEF x, bl
    <2> QED
      BY <2>9, <2>10
  <1>9. 0 .. (fs - 1) - 1 = 0 .. fs - 2
    BY <1>4
  <1>10. LostEntry(m, r, dir, i)
    BY <1>1, <1>8, <1>9 DEF LostEntry, Present
  <1> QED
    BY <1>5, <1>10, <1>e DEF i

\* "." and ".." made in another directory.
LEMMA DottedSame ==
  ASSUME NEW m \in Machines, NEW r \in Machines, Steady(m), NEW i \in INodes, NEW up,
         Dotted(m, r, i, up), NEW d \in INodes, d # i, Present(m, d)
  PROVE  SameDir(m, r, d)
  <1>1. PICK v \in Blocks \ m.bm :
          /\ \A j \in INodes : r.ino[j].fileSize = IF j = i THEN 2 ELSE m.ino[j].fileSize
          /\ Takes(r.ino, m.ino, i, 0, v)
          /\ \A x \in Blocks, s \in Slots :
               r.disk.data[x][s] = IF x # v THEN m.disk.data[x][s]
                                   ELSE IF s = 0 THEN Entry(i, ".")
                                   ELSE IF s = 1 THEN Entry(up, "..") ELSE ZeroEntry
    BY DEF Dotted
  <1>2. Behind(m.ino, m.bm)
    BY DEF Steady
  <1>8. ASSUME NEW p \in 0 .. m.ino[d].fileSize - 1
        PROVE  /\ r.ino[d].blocks[BlockOf(p)] = m.ino[d].blocks[BlockOf(p)]
               /\ m.ino[d].blocks[BlockOf(p)] # 0
               /\ EntryAt(r, d, p) = EntryAt(m, d, p)
    <2> DEFINE x == BlockOf(p)
               s == SlotOf(p)
               bl == m.ino[d].blocks[x]
    <2>1. x \in FileBlocks /\ s \in Slots /\ bl \in Blocks /\ EntryAt(m, d, p) = m.disk.data[bl][s]
      BY Located
    <2>2. bl # 0
      BY DEF Present
    <2>3. EntryAt(r, d, p) = r.disk.data[r.ino[d].blocks[x]][s]
      BY DEF EntryAt
    <2> HIDE DEF x, s
    <2>4. r.ino[d].blocks[x] = bl
      BY <1>1, <2>1 DEF Takes
    <2>5. bl # v
      BY <1>2, <2>1, <2>2 DEF Behind
    <2> HIDE DEF bl
    <2>6. r.disk.data[bl][s] = m.disk.data[bl][s]
      BY <1>1, <2>1, <2>5
    <2> QED
      BY <2>1, <2>2, <2>3, <2>4, <2>6 DEF x, bl
  <1>9. r.ino[d].fileSize = m.ino[d].fileSize
    BY <1>1
  <1> QED
    BY <1>8, <1>9 DEF SameDir, Present

\* "." and ".." made in this directory.
LEMMA DottedGot ==
  ASSUME NEW m \in Machines, NEW r \in Machines, Steady(m), NEW i \in INodes, NEW up,
         Dotted(m, r, i, up)
  PROVE  /\ r.ino[i].fileSize = 2 /\ Present(r, i)
         /\ EntryAt(r, i, 0) = Entry(i, ".") /\ EntryAt(r, i, 1) = Entry(up, "..")
  <1>1. PICK v \in Blocks \ m.bm :
          /\ \A j \in INodes : r.ino[j].fileSize = IF j = i THEN 2 ELSE m.ino[j].fileSize
          /\ Takes(r.ino, m.ino, i, 0, v)
          /\ \A x \in Blocks, s \in Slots :
               r.disk.data[x][s] = IF x # v THEN m.disk.data[x][s]
                                   ELSE IF s = 0 THEN Entry(i, ".")
                                   ELSE IF s = 1 THEN Entry(up, "..") ELSE ZeroEntry
    BY DEF Dotted
  <1>2. Meta \subseteq m.bm /\ 0 \in Meta
    BY GeometryAssumption DEF Steady, Meta
  <1>3. v # 0
    BY <1>1, <1>2
  <1>4. r.ino[i].fileSize = 2
    BY <1>1
  <1>5. r.ino[i].blocks[0] = v
    BY <1>1, Ranges DEF Takes
  <1>6. 0 \in Slots /\ 1 \in Slots
    BY Ranges
  <1>7. EntryAt(r, i, 0) = Entry(i, ".") /\ EntryAt(r, i, 1) = Entry(up, "..")
    BY <1>1, <1>5, <1>6, PlaceOfDots DEF EntryAt
  <1>8. \A p \in 0 .. 2 - 1 : r.ino[i].blocks[BlockOf(p)] # 0
    <2>1. \A p \in 0 .. 2 - 1 : p = 0 \/ p = 1
      OBVIOUS
    <2> QED
      BY <1>3, <1>5, <2>1, PlaceOfDots
  <1> QED
    BY <1>4, <1>7, <1>8 DEF Present

\* A write to a file leaves the other inodes' entries alone.
LEMMA WrittenSame ==
  ASSUME NEW m \in Machines, NEW r \in Machines, Steady(m), NEW i \in INodes, FileOnly(m, r, i),
         NEW d \in INodes, d # i, Present(m, d)
  PROVE  SameDir(m, r, d)
  <1>1. /\ r.ino[d] = m.ino[d]
        /\ \A x \in Blocks : \/ r.disk.data[x] = m.disk.data[x]
                             \/ x \notin m.bm
                             \/ \E y \in FileBlocks : m.ino[i].blocks[y] # 0 /\ x = m.ino[i].blocks[y]
    BY DEF FileOnly, SameElse
  <1>2. Behind(m.ino, m.bm) /\ Apart(m.ino, m.ino)
    BY DEF Steady
  <1>3. ASSUME NEW p \in 0 .. m.ino[d].fileSize - 1
        PROVE  /\ m.ino[d].blocks[BlockOf(p)] # 0
               /\ EntryAt(r, d, p) = EntryAt(m, d, p)
    <2> DEFINE x == BlockOf(p)
               s == SlotOf(p)
               bl == m.ino[d].blocks[x]
    <2>1. x \in FileBlocks /\ s \in Slots /\ bl \in Blocks /\ EntryAt(m, d, p) = m.disk.data[bl][s]
      BY Located
    <2>2. bl # 0
      BY DEF Present
    <2>3. EntryAt(r, d, p) = r.disk.data[r.ino[d].blocks[x]][s]
      BY DEF EntryAt
    <2> HIDE DEF x, s
    <2>4. bl \in m.bm
      BY <1>2, <2>1, <2>2 DEF Behind
    <2>5. \A y \in FileBlocks : bl # m.ino[i].blocks[y]
      BY <1>2, <2>1, <2>2 DEF Apart
    <2>6. r.disk.data[bl] = m.disk.data[bl]
      BY <1>1, <2>1, <2>4, <2>5
    <2> QED
      BY <1>1, <2>1, <2>2, <2>3, <2>6 DEF x
  <1> QED
    BY <1>1, <1>3 DEF SameDir, Present

\* An inode given up leaves the others' entries alone.
LEMMA UnlinkedSame ==
  ASSUME NEW m \in Machines, NEW r \in Machines, NEW i \in INodes, Unlinked(m, r, i),
         NEW d \in INodes, d # i, Present(m, d)
  PROVE  SameDir(m, r, d)
  <1>1. r.ino[d] = m.ino[d] /\ r.disk.data = m.disk.data
    BY DEF Unlinked, SameElse
  <1> QED
    BY <1>1 DEF SameDir, Present, EntryAt

\* A directory gets another parent: ".." in slot 1 of its first block.
Upward(m, r, i, dest) ==
  /\ r.ino[i].fileSize = m.ino[i].fileSize /\ Present(r, i)
  /\ \A p \in 0 .. m.ino[i].fileSize - 1 :
       EntryAt(r, i, p) = IF p = 1 THEN Entry(dest, EntryAt(m, i, 1).name) ELSE EntryAt(m, i, p)

\* The other inodes' entries stay.
LEMMA ReparentedSame ==
  ASSUME NEW m \in Machines, NEW q \in Machines, NEW r \in Machines, Apart(m.ino, m.ino),
         NEW i \in INodes, NEW dest \in INodes,
         Reparented(m, q, i, dest), q.disk = m.disk, r.ino = q.ino,
         NEW rewritten \in BOOLEAN, NEW b, b = m.ino[i].blocks[0], rewritten => b # 0,
         UpRewritten(q, r, rewritten, b, dest), NEW d \in INodes, d # i, Present(m, d)
  PROVE  SameDir(m, r, d)
  <1>1. r.ino[d] = m.ino[d]
    BY DEF Reparented, SameElse
  <1>2. Apart(m.ino, m.ino)
    OBVIOUS
  <1>3. ASSUME NEW p \in 0 .. m.ino[d].fileSize - 1
        PROVE  /\ m.ino[d].blocks[BlockOf(p)] # 0
               /\ EntryAt(r, d, p) = EntryAt(m, d, p)
    <2> DEFINE x == BlockOf(p)
               s == SlotOf(p)
               bl == m.ino[d].blocks[x]
    <2>1. x \in FileBlocks /\ s \in Slots /\ bl \in Blocks /\ EntryAt(m, d, p) = m.disk.data[bl][s]
      BY Located
    <2>2. bl # 0
      BY DEF Present
    <2>3. EntryAt(r, d, p) = r.disk.data[r.ino[d].blocks[x]][s]
      BY DEF EntryAt
    <2> HIDE DEF x, s
    <2>4. bl # b
      BY <1>2, <2>1, <2>2, Ranges DEF Apart
    <2>5. r.disk.data[bl][s] = m.disk.data[bl][s]
      BY <2>1, <2>4 DEF UpRewritten
    <2> QED
      BY <1>1, <2>1, <2>2, <2>3, <2>5 DEF x
  <1> QED
    BY <1>1, <1>3 DEF SameDir, Present

\* Its own are rewritten, if it has a block at all.
LEMMA ReparentedUp ==
  ASSUME NEW m \in Machines, NEW q \in Machines, NEW r \in Machines, Apart(m.ino, m.ino),
         NEW i \in INodes, NEW dest \in INodes,
         Reparented(m, q, i, dest), q.disk = m.disk, r.ino = q.ino,
         NEW rewritten \in BOOLEAN, NEW b, b = m.ino[i].blocks[0], rewritten <=> b # 0,
         UpRewritten(q, r, rewritten, b, dest), Present(m, i)
  PROVE  Upward(m, r, i, dest)
  <1>1. r.ino[i].fileSize = m.ino[i].fileSize /\ r.ino[i].blocks = m.ino[i].blocks
    BY DEF Reparented
  <1>2. Apart(m.ino, m.ino)
    OBVIOUS
  <1>3. ASSUME NEW p \in 0 .. m.ino[i].fileSize - 1
        PROVE  /\ m.ino[i].blocks[BlockOf(p)] # 0
               /\ EntryAt(r, i, p) = IF p = 1 THEN Entry(dest, EntryAt(m, i, 1).name)
                                     ELSE EntryAt(m, i, p)
    <2> DEFINE x == BlockOf(p)
               s == SlotOf(p)
               bl == m.ino[i].blocks[x]
    <2>1. x \in FileBlocks /\ s \in Slots /\ bl \in Blocks /\ EntryAt(m, i, p) = m.disk.data[bl][s]
          /\ p \in Nat
      BY Located
    <2>2. bl # 0
      BY DEF Present
    <2>3. EntryAt(r, i, p) = r.disk.data[bl][s]
      BY <1>1 DEF EntryAt
    <2>4. p = 1 => x = 0 /\ s = 1
      BY PlaceOfDots
    <2>5. x = 0 /\ s = 1 => p = 1
      BY <2>1, PlaceOfDots, PlaceIsUnique
    <2> HIDE DEF x, s
    <2>6. bl = b => x = 0
      BY <1>2, <2>1, <2>2, Ranges DEF Apart
    <2>7. x = 0 => bl = b
      OBVIOUS
    <2> HIDE DEF bl
    <2>8. CASE p = 1
      <3>1. rewritten /\ bl = b /\ s = 1
        BY <2>2, <2>4, <2>7, <2>8
      <3>2. r.disk.data[bl][s] = Entry(dest, m.disk.data[bl][s].name)
        BY <2>1, <3>1 DEF UpRewritten
      <3> QED
        BY <2>1, <2>2, <2>3, <2>8, <3>2 DEF bl, x
    <2>9. CASE p # 1
      <3>1. ~ (bl = b /\ s = 1)
        BY <2>5, <2>6, <2>9
      <3>2. r.disk.data[bl][s] = m.disk.data[bl][s]
        BY <2>1, <3>1 DEF UpRewritten
      <3> QED
        BY <2>1, <2>2, <2>3, <2>9, <3>2 DEF bl, x
    <2> QED
      BY <2>8, <2>9
  <1> QED
    BY <1>1, <1>3 DEF Upward, Present

\* Views follow each other: kept, then kept.
LEMMA SameSame ==
  ASSUME NEW m, NEW r, NEW s, NEW d, SameDir(m, r, d), SameDir(r, s, d)
  PROVE  SameDir(m, s, d)
  BY DEF SameDir

\* Kept, then lost.
LEMMA SameLost ==
  ASSUME NEW m \in Machines, NEW r, NEW s, NEW d \in INodes, NEW q \in 0 .. m.ino[d].fileSize - 1,
         SameDir(m, r, d), LostEntry(r, s, d, q)
  PROVE  LostEntry(m, s, d, q)
  <1>1. m.ino[d].fileSize \in Nat
    BY Fields, INodeFields
  <1>2. /\ r.ino[d].fileSize = m.ino[d].fileSize
        /\ \A p \in 0 .. m.ino[d].fileSize - 1 : EntryAt(r, d, p) = EntryAt(m, d, p)
    BY DEF SameDir
  <1> DEFINE fs == m.ino[d].fileSize
  <1>3. /\ s.ino[d].fileSize = fs - 1 /\ Present(s, d)
        /\ \A p \in 0 .. fs - 2 : EntryAt(s, d, p) = EntryAt(r, d, IF p = q THEN fs - 1 ELSE p)
    BY <1>2 DEF LostEntry
  <1>4. \A p \in 0 .. fs - 2 : (IF p = q THEN fs - 1 ELSE p) \in 0 .. fs - 1
    BY <1>1
  <1>5. \A p \in 0 .. fs - 2 : EntryAt(s, d, p) = EntryAt(m, d, IF p = q THEN fs - 1 ELSE p)
    BY <1>2, <1>3, <1>4
  <1> QED
    BY <1>3, <1>5 DEF LostEntry

\* Lost, then kept.
LEMMA LostSame ==
  ASSUME NEW m, NEW r, NEW s, NEW d, NEW q, m.ino[d].fileSize \in Nat,
         LostEntry(m, r, d, q), SameDir(r, s, d)
  PROVE  LostEntry(m, s, d, q)
  <1>1. r.ino[d].fileSize - 1 = m.ino[d].fileSize - 2
    BY DEF LostEntry
  <1> QED
    BY <1>1 DEF LostEntry, SameDir

\* Got, then kept.
LEMMA GotSame ==
  ASSUME NEW m, NEW r, NEW s, NEW d, NEW e, m.ino[d].fileSize \in Nat,
         GotEntry(m, r, d, e), SameDir(r, s, d)
  PROVE  GotEntry(m, s, d, e)
  <1>1. r.ino[d].fileSize - 1 = m.ino[d].fileSize
    BY DEF GotEntry
  <1> QED
    BY <1>1 DEF GotEntry, SameDir

\* Kept, then rewritten.
LEMMA SameUpward ==
  ASSUME NEW m \in Machines, NEW r, NEW s, NEW i \in INodes, NEW dest,
         SameDir(m, r, i), Upward(r, s, i, dest)
  PROVE  Upward(m, s, i, dest)
  <1>1. m.ino[i].fileSize \in Nat
    BY Fields, INodeFields
  <1>2. \A p \in 0 .. m.ino[i].fileSize - 1 : p = 1 => EntryAt(r, i, 1) = EntryAt(m, i, 1)
    BY DEF SameDir
  <1> QED
    BY <1>1, <1>2 DEF SameDir, Upward

-----------------------------------------------------------------------------
(* The tree.  T holds the inodes below the root; an inode that is in use   *)
(* but not in T was below something that has been deleted.                 *)

Rooted(m, T) ==
  /\ T \in SUBSET INodes /\ 0 \in T
  /\ m.ino[0].type = "Directory" /\ m.ino[0].parentINode = 0
  /\ \A i \in T : m.ino[i].isUsed

\* The parent of an inode is a directory and has an entry for it.
ListedIn(m, i, d) ==
  \E p \in 0 .. m.ino[d].fileSize - 1 : /\ EntryAt(m, d, p).inodeNumber = i
                                        /\ EntryAt(m, d, p).name \notin Dots
Listed(m, T) ==
  \A i \in T \ {0} : LET d == m.ino[i].parentINode
                     IN  d \in T /\ m.ino[d].type = "Directory" /\ ListedIn(m, i, d)

NamesDiffer(m, d) ==
  \A p, q \in 0 .. m.ino[d].fileSize - 1 : EntryAt(m, d, p).name = EntryAt(m, d, q).name => p = q

NumbersDiffer(m, d) ==
  \A p, q \in 0 .. m.ino[d].fileSize - 1 :
    /\ EntryAt(m, d, p).name \notin Dots /\ EntryAt(m, d, q).name \notin Dots
    /\ EntryAt(m, d, p).inodeNumber = EntryAt(m, d, q).inodeNumber
    => p = q

NamesChildren(m, T, d) ==
  \A p \in 0 .. m.ino[d].fileSize - 1 :
    EntryAt(m, d, p).name \notin Dots =>
      /\ EntryAt(m, d, p).inodeNumber \in T \ {0}
      /\ m.ino[EntryAt(m, d, p).inodeNumber].parentINode = d

\* "." and ".." are the first two entries, or (in a directory that createDir found
\* no block for) there are none.
DotsInPlace(m, d) ==
  \A p \in 0 .. m.ino[d].fileSize - 1 :
    EntryAt(m, d, p).name \in Dots =>
      /\ m.ino[d].fileSize >= 2 /\ p < 2
      /\ EntryAt(m, d, 0) = Entry(d, ".")
      /\ EntryAt(m, d, 1) = Entry(m.ino[d].parentINode, "..")

DirOK(m, T, d) ==
  Present(m, d) /\ NamesDiffer(m, d) /\ NumbersDiffer(m, d) /\ NamesChildren(m, T, d)
  /\ DotsInPlace(m, d)

\* An inode that is not in use owns no blocks.
Clear(t) == \A i \in INodes : ~ t[i].isUsed => \A x \in FileBlocks : t[i].blocks[x] = 0

Shape(m, T) ==
  /\ Rooted(m, T) /\ Listed(m, T) /\ Acyclic(m.ino) /\ Clear(m.ino)
  /\ \A d \in T : m.ino[d].type = "Directory" => DirOK(m, T, d)

\* dir is a directory of the tree of machine m.
Grows(m, dir) ==
  \E T \in SUBSET INodes : Shape(m, T) /\ dir \in T /\ m.ino[dir].type = "Directory"

\* The inductive invariant of the tree.
Grown ==
  /\ ~ On => cwd = 0
  /\ (On /\ clean /\ intact) => Grows(Now, cwd)

\* The children of d in T are children of d in U.
StillChildren(m, r, T, U, d) ==
  \A c \in T \ {0} : m.ino[c].parentINode = d => c \in U /\ r.ino[c].parentINode = d

\* A directory that keeps its entries stays sound.
LEMMA DirSame ==
  ASSUME NEW m \in Machines, NEW r, NEW T, NEW U, NEW d \in INodes, DirOK(m, T, d), SameDir(m, r, d),
         r.ino[d].parentINode = m.ino[d].parentINode, StillChildren(m, r, T, U, d)
  PROVE  DirOK(r, U, d)
  <1>1. /\ r.ino[d].fileSize = m.ino[d].fileSize /\ Present(r, d)
        /\ \A p \in 0 .. m.ino[d].fileSize - 1 : EntryAt(r, d, p) = EntryAt(m, d, p)
    BY DEF SameDir
  <1>2. NamesDiffer(r, d) /\ NumbersDiffer(r, d)
    BY <1>1 DEF DirOK, NamesDiffer, NumbersDiffer
  <1>3. NamesChildren(r, U, d)
    BY <1>1 DEF DirOK, NamesChildren, StillChildren
  <1>4. DotsInPlace(r, d)
    <2> SUFFICES ASSUME NEW p \in 0 .. m.ino[d].fileSize - 1, EntryAt(m, d, p).name \in Dots
                 PROVE  /\ m.ino[d].fileSize >= 2 /\ p < 2
                        /\ EntryAt(r, d, 0) = Entry(d, ".")
                        /\ EntryAt(r, d, 1) = Entry(m.ino[d].parentINode, "..")
      BY <1>1 DEF DotsInPlace
    <2>1. /\ m.ino[d].fileSize >= 2 /\ p < 2
          /\ EntryAt(m, d, 0) = Entry(d, ".")
          /\ EntryAt(m, d, 1) = Entry(m.ino[d].parentINode, "..")
      BY DEF DirOK, DotsInPlace
    <2>2. 0 \in 0 .. m.ino[d].fileSize - 1 /\ 1 \in 0 .. m.ino[d].fileSize - 1
      BY <2>1, Fields, INodeFields
    <2> QED
      BY <1>1, <2>1, <2>2
  <1> QED
    BY <1>1, <1>2, <1>3, <1>4 DEF DirOK

\* It names what it named.
LEMMA ListedSame ==
  ASSUME NEW m, NEW r, NEW d, NEW i, SameDir(m, r, d), ListedIn(m, i, d)
  PROVE  ListedIn(r, i, d)
  BY DEF SameDir, ListedIn

\* A directory that gets an entry for another inode under a new name.
LEMMA DirGot ==
  ASSUME NEW m \in Machines, NEW r, NEW T, NEW U, NEW d \in INodes, NEW i, NEW name,
         DirOK(m, T, d), GotEntry(m, r, d, Entry(i, name)), name \notin Dots,
         r.ino[d].parentINode = m.ino[d].parentINode, StillChildren(m, r, T, U, d),
         i \in U \ {0}, r.ino[i].parentINode = d, ~ ListedIn(m, i, d),
         \A p \in 0 .. m.ino[d].fileSize - 1 : EntryAt(m, d, p).name # name
  PROVE  DirOK(r, U, d) /\ ListedIn(r, i, d)
  <1> DEFINE fs == m.ino[d].fileSize
  <1>1. fs \in Nat
    BY Fields, INodeFields
  <1>2. /\ r.ino[d].fileSize = fs + 1 /\ Present(r, d)
        /\ \A p \in 0 .. fs : EntryAt(r, d, p) = IF p = fs THEN Entry(i, name) ELSE EntryAt(m, d, p)
    BY DEF GotEntry
  <1>3. 0 .. (fs + 1) - 1 = 0 .. fs /\ fs \in 0 .. fs
    BY <1>1
  <1>4. \A p \in 0 .. fs : p = fs \/ p \in 0 .. fs - 1
    BY <1>1
  <1>5. Entry(i, name).inodeNumber = i /\ Entry(i, name).name = name
    BY DEF Entry
  <1>n. \A p \in 0 .. fs - 1 : EntryAt(m, d, p).name # name
    OBVIOUS
  <1>p. \A p \in 0 .. fs - 1 : EntryAt(m, d, p).name \notin Dots => EntryAt(m, d, p).inodeNumber # i
    BY DEF ListedIn
  <1>6. EntryAt(r, d, fs) = Entry(i, name) /\ \A p \in 0 .. fs - 1 : EntryAt(r, d, p) = EntryAt(m, d, p)
    BY <1>1, <1>2, <1>3
  <1>7. NamesDiffer(r, d)
    <2> SUFFICES ASSUME NEW p \in 0 .. fs, NEW q \in 0 .. fs,
                        EntryAt(r, d, p).name = EntryAt(r, d, q).name
                 PROVE  p = q
      BY <1>2, <1>3 DEF NamesDiffer
    <2>1. \A x, y \in 0 .. fs - 1 : EntryAt(m, d, x).name = EntryAt(m, d, y).name => x = y
      BY DEF DirOK, NamesDiffer
    <2> HIDE DEF fs
    <2> QED
      BY <1>4, <1>5, <1>6, <1>n, <2>1
  <1>8. NumbersDiffer(r, d)
    <2> SUFFICES ASSUME NEW p \in 0 .. fs, NEW q \in 0 .. fs,
                        EntryAt(r, d, p).name \notin Dots, EntryAt(r, d, q).name \notin Dots,
                        EntryAt(r, d, p).inodeNumber = EntryAt(r, d, q).inodeNumber
                 PROVE  p = q
      BY <1>2, <1>3 DEF NumbersDiffer
    <2>1. \A x, y \in 0 .. fs - 1 :
            /\ EntryAt(m, d, x).name \notin Dots /\ EntryAt(m, d, y).name \notin Dots
            /\ EntryAt(m, d, x).inodeNumber = EntryAt(m, d, y).inodeNumber
            => x = y
      BY DEF DirOK, NumbersDiffer
    <2> HIDE DEF fs
    <2> QED
      BY <1>4, <1>5, <1>6, <1>p, <2>1
  <1>9. NamesChildren(r, U, d)
    <2> SUFFICES ASSUME NEW p \in 0 .. fs, EntryAt(r, d, p).name \notin Dots
                 PROVE  /\ EntryAt(r, d, p).inodeNumber \in U \ {0}
                        /\ r.ino[EntryAt(r, d, p).inodeNumber].parentINode = d
      BY <1>2, <1>3 DEF NamesChildren
    <2>1. CASE p = fs
      BY <1>5, <1>6, <2>1
    <2>2. CASE p \in 0 .. fs - 1
      <3>1. /\ EntryAt(m, d, p).inodeNumber \in T \ {0}
            /\ m.ino[EntryAt(m, d, p).inodeNumber].parentINode = d
        BY <1>6, <2>2 DEF DirOK, NamesChildren
      <3> QED
        BY <1>6, <2>2, <3>1 DEF StillChildren
    <2> QED
      BY <1>4, <2>1, <2>2
  <1>10. DotsInPlace(r, d)
    <2> SUFFICES ASSUME NEW p \in 0 .. fs, EntryAt(r, d, p).name \in Dots
                 PROVE  /\ fs + 1 >= 2 /\ p < 2
                        /\ EntryAt(r, d, 0) = Entry(d, ".")
                        /\ EntryAt(r, d, 1) = Entry(m.ino[d].parentINode, "..")
      BY <1>2, <1>3 DEF DotsInPlace
    <2>1. p \in 0 .. fs - 1
      BY <1>4, <1>5, <1>6
    <2>2. /\ fs >= 2 /\ p < 2
          /\ EntryAt(m, d, 0) = Entry(d, ".")
          /\ EntryAt(m, d, 1) = Entry(m.ino[d].parentINode, "..")
      BY <1>6, <2>1 DEF DirOK, DotsInPlace
    <2>3. 0 \in 0 .. fs - 1 /\ 1 \in 0 .. fs - 1
      BY <1>1, <2>2
    <2> QED
      BY <1>1, <1>6, <2>2, <2>3
  <1>11. ListedIn(r, i, d)
    BY <1>2, <1>3, <1>5, <1>6 DEF ListedIn
  <1> QED
    BY <1>2, <1>7, <1>8, <1>9, <1>10, <1>11 DEF DirOK

\* It names what it named.
LEMMA ListedGot ==
  ASSUME NEW m \in Machines, NEW r, NEW d \in INodes, NEW i, NEW e,
         GotEntry(m, r, d, e), ListedIn(m, i, d)
  PROVE  ListedIn(r, i, d)
  <1> DEFINE fs == m.ino[d].fileSize
  <1>1. fs \in Nat
    BY Fields, INodeFields
  <1>2. PICK p \in 0 .. fs - 1 : /\ EntryAt(m, d, p).inodeNumber = i
                                 /\ EntryAt(m, d, p).name \notin Dots
    BY DEF ListedIn
  <1>3. p \in 0 .. fs /\ p # fs /\ p \in 0 .. (fs + 1) - 1
    BY <1>1
  <1>4. EntryAt(r, d, p) = EntryAt(m, d, p) /\ r.ino[d].fileSize = fs + 1
    BY <1>3 DEF GotEntry
  <1> QED
    BY <1>2, <1>3, <1>4 DEF ListedIn

\* The names d has in r it has in m, and name is none of them.
NamesWithout(m, r, d, name) ==
  \A p \in 0 .. r.ino[d].fileSize - 1 :
    EntryAt(r, d, p).name # name /\ \E o \in 0 .. m.ino[d].fileSize - 1 :
                                      EntryAt(r, d, p) = EntryAt(m, d, o)

\* A directory that loses an entry that is not a dot.
LEMMA DirLost ==
  ASSUME NEW m \in Machines, NEW r, NEW T, NEW U, NEW d \in INodes, NEW i, NEW name,
         NEW q \in 0 .. m.ino[d].fileSize - 1,
         DirOK(m, T, d), LostEntry(m, r, d, q), EntryAt(m, d, q) = Entry(i, name),
         name \notin Dots, r.ino[d].parentINode = m.ino[d].parentINode,
         StillChildren(m, r, T \ {i}, U, d)
  PROVE  DirOK(r, U, d) /\ ~ ListedIn(r, i, d) /\ NamesWithout(m, r, d, name)
  <1> DEFINE fs == m.ino[d].fileSize
             From(p) == IF p = q THEN fs - 1 ELSE p
  <1>1. fs \in Nat /\ q \in 0 .. fs - 1
    BY Fields, INodeFields
  <1>2. /\ r.ino[d].fileSize = fs - 1 /\ Present(r, d)
        /\ \A p \in 0 .. fs - 2 : EntryAt(r, d, p) = EntryAt(m, d, From(p))
    BY DEF LostEntry
  <1>3. 0 .. (fs - 1) - 1 = 0 .. fs - 2
    BY <1>1
  <1>4. \A p \in 0 .. fs - 2 : From(p) \in 0 .. fs - 1 /\ From(p) # q
    BY <1>1
  <1>5. \A x, y \in 0 .. fs - 2 : From(x) = From(y) => x = y
    BY <1>1
  <1>6. Entry(i, name).inodeNumber = i /\ Entry(i, name).name = name
    BY DEF Entry
  <1>7. \A x, y \in 0 .. fs - 1 : EntryAt(m, d, x).name = EntryAt(m, d, y).name => x = y
    BY DEF DirOK, NamesDiffer
  <1>8. \A x, y \in 0 .. fs - 1 :
          /\ EntryAt(m, d, x).name \notin Dots /\ EntryAt(m, d, y).name \notin Dots
          /\ EntryAt(m, d, x).inodeNumber = EntryAt(m, d, y).inodeNumber
          => x = y
    BY DEF DirOK, NumbersDiffer
  <1>9. \A x \in 0 .. fs - 1 : EntryAt(m, d, x).name \notin Dots =>
          /\ EntryAt(m, d, x).inodeNumber \in T \ {0}
          /\ m.ino[EntryAt(m, d, x).inodeNumber].parentINode = d
    BY DEF DirOK, NamesChildren
  <1>10. \A x \in 0 .. fs - 1 : EntryAt(m, d, x).name \in Dots =>
          /\ fs >= 2 /\ x < 2
          /\ EntryAt(m, d, 0) = Entry(d, ".")
          /\ EntryAt(m, d, 1) = Entry(m.ino[d].parentINode, "..")
    BY DEF DirOK, DotsInPlace
  <1>e. EntryAt(m, d, q).name = name /\ EntryAt(m, d, q).inodeNumber = i
    BY <1>6
  <1> HIDE DEF From
  <1>11. \A p \in 0 .. fs - 2 : EntryAt(r, d, p).name # name
    BY <1>1, <1>2, <1>4, <1>7, <1>e
  <1>12. \A p \in 0 .. fs - 2 : EntryAt(r, d, p).name \notin Dots => EntryAt(r, d, p).inodeNumber # i
    BY <1>1, <1>2, <1>4, <1>8, <1>e
  <1>13. NamesDiffer(r, d)
    <2> SUFFICES ASSUME NEW x \in 0 .. fs - 2, NEW y \in 0 .. fs - 2,
                        EntryAt(r, d, x).name = EntryAt(r, d, y).name
                 PROVE  x = y
      BY <1>2, <1>3 DEF NamesDiffer
    <2> HIDE DEF fs
    <2> QED
      BY <1>2, <1>4, <1>5, <1>7
  <1>14. NumbersDiffer(r, d)
    <2> SUFFICES ASSUME NEW x \in 0 .. fs - 2, NEW y \in 0 .. fs - 2,
                        EntryAt(r, d, x).name \notin Dots, EntryAt(r, d, y).name \notin Dots,
                        EntryAt(r, d, x).inodeNumber = EntryAt(r, d, y).inodeNumber
                 PROVE  x = y
      BY <1>2, <1>3 DEF NumbersDiffer
    <2> HIDE DEF fs
    <2> QED
      BY <1>2, <1>4, <1>5, <1>8
  <1>15. NamesChildren(r, U, d)
    <2> SUFFICES ASSUME NEW x \in 0 .. fs - 2, EntryAt(r, d, x).name \notin Dots
                 PROVE  /\ EntryAt(r, d, x).inodeNumber \in U \ {0}
                        /\ r.ino[EntryAt(r, d, x).inodeNumber].parentINode = d
      BY <1>2, <1>3 DEF NamesChildren
    <2>1. EntryAt(r, d, x) = EntryAt(m, d, From(x)) /\ From(x) \in 0 .. fs - 1
      BY <1>2, <1>4
    <2>2. /\ EntryAt(r, d, x).inodeNumber \in (T \ {i}) \ {0}
          /\ m.ino[EntryAt(r, d, x).inodeNumber].parentINode = d
      BY <1>9, <1>12, <2>1
    <2> QED
      BY <2>2 DEF StillChildren
  <1>16. DotsInPlace(r, d)
    <2> SUFFICES ASSUME NEW p \in 0 .. fs - 2, EntryAt(r, d, p).name \in Dots
                 PROVE  /\ fs - 1 >= 2 /\ p < 2
                        /\ EntryAt(r, d, 0) = Entry(d, ".")
                        /\ EntryAt(r, d, 1) = Entry(m.ino[d].parentINode, "..")
      BY <1>2, <1>3 DEF DotsInPlace
    <2>1. /\ fs >= 2 /\ From(p) < 2
          /\ EntryAt(m, d, 0) = Entry(d, ".")
          /\ EntryAt(m, d, 1) = Entry(m.ino[d].parentINode, "..")
      BY <1>2, <1>4, <1>10
    <2>2. EntryAt(m, d, 0).name = "." /\ EntryAt(m, d, 1).name = ".."
      BY <2>1 DEF Entry
    <2>3. q # 0 /\ q # 1
      BY <1>e, <2>2 DEF Dots
    <2>4. fs >= 3
      BY <1>1, <2>3
    <2>5. 0 \in 0 .. fs - 2 /\ 1 \in 0 .. fs - 2 /\ From(0) = 0 /\ From(1) = 1
      BY <1>1, <2>3, <2>4 DEF From
    <2>6. p < 2
      BY <1>1, <2>1, <2>4 DEF From
    <2> QED
      BY <1>1, <1>2, <2>1, <2>4, <2>5, <2>6
  <1>17. DirOK(r, U, d)
    BY <1>2, <1>13, <1>14, <1>15, <1>16 DEF DirOK
  <1>18. ~ ListedIn(r, i, d)
    BY <1>2, <1>3, <1>12 DEF ListedIn
  <1>19. \A p \in 0 .. fs - 2 : EntryAt(r, d, p).name # name /\ \E o \in 0 .. fs - 1 :
                                                EntryAt(r, d, p) = EntryAt(m, d, o)
    BY <1>2, <1>4, <1>11
  <1> QED
    BY <1>2, <1>3, <1>17, <1>18, <1>19 DEF NamesWithout

\* It names the others still.
LEMMA ListedLost ==
  ASSUME NEW m \in Machines, NEW r, NEW d \in INodes, NEW q \in 0 .. m.ino[d].fileSize - 1,
         LostEntry(m, r, d, q), NEW c, ListedIn(m, c, d), EntryAt(m, d, q).inodeNumber # c
  PROVE  ListedIn(r, c, d)
  <1> DEFINE fs == m.ino[d].fileSize
  <1>1. fs \in Nat
    BY Fields, INodeFields
  <1>2. PICK p \in 0 .. fs - 1 : /\ EntryAt(m, d, p).inodeNumber = c
                                 /\ EntryAt(m, d, p).name \notin Dots
    BY DEF ListedIn
  <1>3. p # q
    BY <1>2
  <1>4. /\ r.ino[d].fileSize = fs - 1
        /\ \A x \in 0 .. fs - 2 : EntryAt(r, d, x) = EntryAt(m, d, IF x = q THEN fs - 1 ELSE x)
    BY DEF LostEntry
  <1>5. 0 .. (fs - 1) - 1 = 0 .. fs - 2
    BY <1>1
  <1>6. CASE p = fs - 1
    <2>1. q \in 0 .. fs - 2
      BY <1>1, <1>3, <1>6
    <2>2. EntryAt(r, d, q) = EntryAt(m, d, p)
      BY <1>4, <1>6, <2>1
    <2> QED
      BY <1>2, <1>4, <1>5, <2>1, <2>2 DEF ListedIn
  <1>7. CASE p # fs - 1
    <2>1. p \in 0 .. fs - 2
      BY <1>1, <1>7
    <2>2. EntryAt(r, d, p) = EntryAt(m, d, p)
      BY <1>3, <1>4, <2>1
    <2> QED
      BY <1>2, <1>4, <1>5, <2>1, <2>2 DEF ListedIn
  <1> QED
    BY <1>6, <1>7

\* A directory that gets another parent, and has its entry for it where moveFile
\* looks.
LEMMA DirUp ==
  ASSUME NEW m \in Machines, NEW r, NEW T, NEW U, NEW d \in INodes, NEW dest,
         DirOK(m, T, d), Upward(m, r, d, dest), r.ino[d].parentINode = dest,
         StillChildren(m, r, T, U, d),
         m.ino[d].fileSize >= 2 => EntryAt(m, d, 1).name \in Dots
  PROVE  DirOK(r, U, d)
  <1> DEFINE fs == m.ino[d].fileSize
  <1>1. fs \in Nat
    BY Fields, INodeFields
  <1>2. /\ r.ino[d].fileSize = fs /\ Present(r, d)
        /\ \A p \in 0 .. fs - 1 : EntryAt(r, d, p) = IF p = 1 THEN Entry(dest, EntryAt(m, d, 1).name)
                                                     ELSE EntryAt(m, d, p)
    BY DEF Upward
  <1>3. \A p \in 0 .. fs - 1 : EntryAt(r, d, p).name = EntryAt(m, d, p).name
    BY <1>2 DEF Entry
  <1>4. \A p \in 0 .. fs - 1 : EntryAt(m, d, p).name \notin Dots => EntryAt(r, d, p) = EntryAt(m, d, p)
    BY <1>1, <1>2
  <1>5. NamesDiffer(r, d) /\ NumbersDiffer(r, d)
    BY <1>2, <1>3, <1>4 DEF DirOK, NamesDiffer, NumbersDiffer
  <1>6. NamesChildren(r, U, d)
    BY <1>2, <1>3, <1>4 DEF DirOK, NamesChildren, StillChildren
  <1>7. DotsInPlace(r, d)
    <2> SUFFICES ASSUME NEW p \in 0 .. fs - 1, EntryAt(m, d, p).name \in Dots
                 PROVE  /\ fs >= 2 /\ p < 2
                        /\ EntryAt(r, d, 0) = Entry(d, ".")
                        /\ EntryAt(r, d, 1) = Entry(dest, "..")
      BY <1>2, <1>3 DEF DotsInPlace
    <2>1. /\ fs >= 2 /\ p < 2
          /\ EntryAt(m, d, 0) = Entry(d, ".")
          /\ EntryAt(m, d, 1) = Entry(m.ino[d].parentINode, "..")
      BY DEF DirOK, DotsInPlace
    <2>2. 0 \in 0 .. fs - 1 /\ 1 \in 0 .. fs - 1
      BY <1>1, <2>1
    <2>3. EntryAt(m, d, 1).name = ".."
      BY <2>1 DEF Entry
    <2> QED
      BY <1>2, <2>1, <2>2, <2>3
  <1> QED
    BY <1>2, <1>5, <1>6, <1>7 DEF DirOK

\* It names what it named.
LEMMA ListedUp ==
  ASSUME NEW m \in Machines, NEW r, NEW d \in INodes, NEW dest, NEW c,
         Upward(m, r, d, dest), m.ino[d].fileSize >= 2 => EntryAt(m, d, 1).name \in Dots,
         ListedIn(m, c, d)
  PROVE  ListedIn(r, c, d)
  <1> DEFINE fs == m.ino[d].fileSize
  <1>1. fs \in Nat
    BY Fields, INodeFields
  <1>2. PICK p \in 0 .. fs - 1 : /\ EntryAt(m, d, p).inodeNumber = c
                                 /\ EntryAt(m, d, p).name \notin Dots
    BY DEF ListedIn
  <1>3. p # 1
    BY <1>1, <1>2
  <1>4. EntryAt(r, d, p) = EntryAt(m, d, p) /\ r.ino[d].fileSize = fs
    BY <1>3 DEF Upward
  <1> QED
    BY <1>2, <1>4 DEF ListedIn

-----------------------------------------------------------------------------
(* What a directory says about a name.                                     *)

\* A name that findFile finds in a sound directory is that of a child, and it is
\* found wherever the entries are the same.
LEMMA FoundIs ==
  ASSUME NEW m \in Machines, NEW T, NEW d \in INodes, DirOK(m, T, d), NEW name,
         findFile(m, d, name) # NONE, NEW r \in Machines, SameDir(m, r, d)
  PROVE  /\ findFile(m, d, name) \in INodes /\ findFile(r, d, name) = findFile(m, d, name)
         /\ name \notin Dots => /\ findFile(m, d, name) \in T \ {0}
                                /\ m.ino[findFile(m, d, name)].parentINode = d
         /\ Matches(r, d, name) # {}
  <1> DEFINE p == Min(Matches(m, d, name))
             q == Min(Matches(r, d, name))
             fs == m.ino[d].fileSize
  <1>1. Positions(m, d) = 0 .. fs - 1 /\ Positions(r, d) = 0 .. fs - 1
    <2>1. Present(m, d) /\ Present(r, d) /\ r.ino[d].fileSize = fs
      BY DEF DirOK, SameDir
    <2> QED
      BY <2>1, PresentIs
  <1>2. Matches(m, d, name) # {}
    BY FindDoes
  <1>3. /\ p \in 0 .. fs - 1 /\ EntryAt(m, d, p).name = name
        /\ findFile(m, d, name) = EntryAt(m, d, p).inodeNumber /\ findFile(m, d, name) \in INodes
    <2>1. /\ p \in Positions(m, d) /\ EntryAt(m, d, p).name = name
          /\ findFile(m, d, name) = EntryAt(m, d, p).inodeNumber /\ findFile(m, d, name) \in INodes
      BY ONLY <1>2, FindDoes, m \in Machines, d \in INodes
    <2> QED
      BY <1>1, <2>1
  <1> HIDE DEF p
  <1>4. EntryAt(r, d, p) = EntryAt(m, d, p)
    BY <1>3 DEF SameDir
  <1>5. Matches(r, d, name) # {}
    BY <1>1, <1>3, <1>4 DEF Matches
  <1>6. /\ q \in 0 .. fs - 1 /\ EntryAt(r, d, q).name = name
        /\ findFile(r, d, name) = EntryAt(r, d, q).inodeNumber
    <2>1. /\ q \in Positions(r, d) /\ EntryAt(r, d, q).name = name
          /\ findFile(r, d, name) = EntryAt(r, d, q).inodeNumber
      BY ONLY <1>5, FindDoes, r \in Machines, d \in INodes
    <2> QED
      BY <1>1, <2>1
  <1> HIDE DEF q
  <1>7. EntryAt(r, d, q) = EntryAt(m, d, q)
    BY <1>6 DEF SameDir
  <1>8. p = q
    BY <1>3, <1>6, <1>7 DEF DirOK, NamesDiffer
  <1>9. name \notin Dots => /\ findFile(m, d, name) \in T \ {0}
                            /\ m.ino[findFile(m, d, name)].parentINode = d
    BY <1>3 DEF DirOK, NamesChildren
  <1> QED
    BY <1>3, <1>4, <1>5, <1>6, <1>8, <1>9

\* A name that findFile does not find is none of the names.
LEMMA NotFound ==
  ASSUME NEW m \in Machines, NEW d \in INodes, Present(m, d), NEW name,
         findFile(m, d, name) = NONE
  PROVE  \A p \in 0 .. m.ino[d].fileSize - 1 : EntryAt(m, d, p).name # name
  <1>1. Positions(m, d) = 0 .. m.ino[d].fileSize - 1
    BY PresentIs
  <1>2. Matches(m, d, name) = {}
    BY FindDoes, Ranges
  <1> QED
    BY <1>1, <1>2 DEF Matches

\* A directory has the entries it has.
LEMMA SameAsItself ==
  ASSUME NEW m, NEW r, NEW d, Present(m, d), r.ino[d] = m.ino[d], r.disk.data = m.disk.data
  PROVE  SameDir(m, r, d)
  BY DEF SameDir, Present, EntryAt

\* Inodes outside A may get a parent inside A, which contains the parents of its
\* members: the walks still end.
LEMMA WalksStillEnd ==
  ASSUME NEW t, NEW u, Acyclic(t), NEW A, NEW dest \in A,
         \A x \in A \ {0} : t[x].parentINode \in A,
         \A x \in INodes : \/ u[x].parentINode = t[x].parentINode
                           \/ x \notin A /\ u[x].parentINode = dest
  PROVE  Acyclic(u)
  <1> SUFFICES ASSUME NEW S \in SUBSET (INodes \ {0}), S # {},
                      \A x \in S : u[x].parentINode \in S
               PROVE  FALSE
    BY DEF Acyclic
  <1>1. CASE S \cap A # {}
    <2>1. \A x \in S \cap A : t[x].parentINode \in S \cap A
      OBVIOUS
    <2>2. S \cap A \in SUBSET (INodes \ {0})
      OBVIOUS
    <2> QED
      BY <1>1, <2>1, <2>2 DEF Acyclic
  <1>2. CASE S \cap A = {}
    <2>1. \A x \in S : t[x].parentINode \in S
      BY <1>2
    <2> QED
      BY <2>1 DEF Acyclic
  <1> QED
    BY <1>1, <1>2

-----------------------------------------------------------------------------
(* Calls that leave the tree as it is.                                     *)

\* Inodes and directories are kept.
LEMMA ShapeSame ==
  ASSUME NEW m \in Machines, NEW r, NEW T, Shape(m, T), Acyclic(r.ino), Clear(r.ino),
         \A i \in T : SameINode(m, r, i),
         \A d \in T : m.ino[d].type = "Directory" => SameDir(m, r, d)
  PROVE  Shape(r, T)
  <1>t. T \subseteq INodes
    BY DEF Shape, Rooted
  <1>1. \A i \in T : /\ r.ino[i].type = m.ino[i].type /\ (r.ino[i].isUsed <=> m.ino[i].isUsed)
                     /\ r.ino[i].parentINode = m.ino[i].parentINode
    BY DEF SameINode
  <1>2. Rooted(r, T)
    BY <1>1 DEF Shape, Rooted
  <1>3. Listed(r, T)
    <2> SUFFICES ASSUME NEW i \in T \ {0}
                 PROVE  /\ r.ino[i].parentINode \in T
                        /\ r.ino[r.ino[i].parentINode].type = "Directory"
                        /\ ListedIn(r, i, r.ino[i].parentINode)
      BY DEF Listed
    <2> DEFINE d == m.ino[i].parentINode
    <2>1. d \in T /\ m.ino[d].type = "Directory" /\ ListedIn(m, i, d)
      BY DEF Shape, Listed
    <2>2. r.ino[i].parentINode = d /\ r.ino[d].type = "Directory"
      BY <1>1, <2>1
    <2> HIDE DEF d
    <2>3. ListedIn(r, i, d)
      BY <2>1, ListedSame
    <2> QED
      BY <2>1, <2>2, <2>3
  <1>4. ASSUME NEW d \in T, r.ino[d].type = "Directory" PROVE DirOK(r, T, d)
    <2>1. d \in INodes /\ DirOK(m, T, d) /\ SameDir(m, r, d)
      BY <1>t, <1>1, <1>4 DEF Shape
    <2>2. StillChildren(m, r, T, T, d)
      BY <1>1 DEF StillChildren
    <2> QED
      BY <1>1, <2>1, <2>2, DirSame
  <1> QED
    BY <1>2, <1>3, <1>4 DEF Shape

\* Nothing has changed at all.
LEMMA ShapeUnchanged ==
  ASSUME NEW m \in Machines, NEW r, NEW T, Shape(m, T), r.ino = m.ino, r.disk.data = m.disk.data
  PROVE  Shape(r, T)
  <1>1. \A i \in T : SameINode(m, r, i)
    BY DEF SameINode
  <1>2. \A d \in T : m.ino[d].type = "Directory" => SameDir(m, r, d)
    BY SameAsItself DEF Shape, DirOK
  <1>3. Acyclic(r.ino) /\ Clear(r.ino)
    BY DEF Shape
  <1> QED
    BY <1>1, <1>2, <1>3, ShapeSame

\* The tree contains the parents of its members.
LEMMA TreeClosed ==
  ASSUME NEW m, NEW T, Shape(m, T)
  PROVE  /\ T \subseteq INodes /\ \A x \in T : m.ino[x].parentINode \in T
         /\ \A x \in T : m.ino[m.ino[x].parentINode].type = "Directory"
  BY DEF Shape, Rooted, Listed

\* writeFile
LEMMA ShapeWritten ==
  ASSUME NEW m \in Machines, NEW r \in Machines, Steady(m), NEW T, Shape(m, T),
         NEW i \in T, m.ino[i].type = "File", FileOnly(m, r, i)
  PROVE  Shape(r, T)
  <1>t. T \subseteq INodes /\ \A x \in T : m.ino[x].isUsed
    BY DEF Shape, Rooted
  <1>1. \A j \in INodes : /\ r.ino[j].type = m.ino[j].type
                          /\ r.ino[j].isUsed = m.ino[j].isUsed
                          /\ r.ino[j].parentINode = m.ino[j].parentINode
    BY DEF FileOnly, SameElse
  <1>2. \A j \in T : SameINode(m, r, j)
    BY <1>t, <1>1 DEF SameINode
  <1>3. Acyclic(r.ino)
    BY <1>1 DEF Shape, Acyclic
  <1>4. Clear(r.ino)
    BY <1>t, <1>1 DEF Shape, Clear, FileOnly, SameElse
  <1>5. ASSUME NEW d \in T, m.ino[d].type = "Directory" PROVE SameDir(m, r, d)
    <2>1. d \in INodes /\ i \in INodes /\ d # i /\ Present(m, d)
      BY <1>t, <1>5 DEF Shape, DirOK
    <2> QED
      BY <2>1, WrittenSame
  <1> QED
    BY <1>2, <1>3, <1>4, <1>5, ShapeSame

\* createFile, when it creates nothing.
LEMMA ShapeNotCreated ==
  ASSUME NEW m \in Machines, NEW r, NEW T, Shape(m, T), NEW dir \in T, NotCreated(m, r, dir)
  PROVE  Shape(r, T)
  <1>t. T \subseteq INodes /\ \A x \in T : m.ino[x].isUsed
    BY DEF Shape, Rooted
  <1>1. \A j \in T : /\ r.ino[j].type = m.ino[j].type /\ (r.ino[j].isUsed <=> m.ino[j].isUsed)
                     /\ r.ino[j].parentINode = m.ino[j].parentINode
                     /\ r.ino[j].fileSize = m.ino[j].fileSize
                     /\ r.ino[j].blocks = m.ino[j].blocks
    BY <1>t DEF NotCreated
  <1>2. \A j \in T : SameINode(m, r, j)
    BY <1>1 DEF SameINode
  <1>3. Acyclic(r.ino)
    <2>1. Acyclic(m.ino) /\ \A x \in T \ {0} : m.ino[x].parentINode \in T
      BY TreeClosed DEF Shape
    <2>2. \A x \in INodes : \/ r.ino[x].parentINode = m.ino[x].parentINode
                            \/ x \notin T /\ r.ino[x].parentINode = dir
      BY <1>1 DEF NotCreated
    <2> DEFINE t == m.ino
               u == r.ino
    <2>3. /\ Acyclic(t) /\ \A x \in T \ {0} : t[x].parentINode \in T
          /\ \A x \in INodes : \/ u[x].parentINode = t[x].parentINode
                               \/ x \notin T /\ u[x].parentINode = dir
      BY <2>1, <2>2
    <2> HIDE DEF t, u
    <2>4. Acyclic(u)
      BY <2>3, WalksStillEnd
    <2> QED
      BY <2>4 DEF u
  <1>4. Clear(r.ino)
    BY DEF Shape, Clear, NotCreated
  <1>5. ASSUME NEW d \in T, m.ino[d].type = "Directory" PROVE SameDir(m, r, d)
    <2>1. Present(m, d)
      BY <1>5 DEF Shape, DirOK
    <2>2. r.disk.data = m.disk.data
      BY DEF NotCreated
    <2> QED
      BY <1>1, <2>1, <2>2 DEF SameDir, Present, EntryAt
  <1> QED
    BY <1>2, <1>3, <1>4, <1>5, ShapeSame

-----------------------------------------------------------------------------
(* Calls that take something out of the tree.                              *)

\* What is left of the tree without i: whoever gets to the root by inodes that are
\* not i.
Without(m, T, i) ==
  UNION {C \in SUBSET (T \ {i}) : \A y \in C \ {0} : m.ino[y].parentINode \in C}

\* It is a tree again, with all children of its directories but i.
LEMMA WithoutIs ==
  ASSUME NEW m, NEW T, Shape(m, T), NEW i \in T \ {0}, NEW U, U = Without(m, T, i)
  PROVE  /\ U \subseteq T \ {i} /\ 0 \in U /\ m.ino[i].parentINode \in U
         /\ \A x \in U \ {0} : m.ino[x].parentINode \in U
         /\ \A x \in T \ {0} : x # i /\ m.ino[x].parentINode \in U => x \in U
  <1> DEFINE Closed(C) == C \in SUBSET (T \ {i}) /\ \A y \in C \ {0} : m.ino[y].parentINode \in C
  <1>1. \A x : x \in U <=> \E C : Closed(C) /\ x \in C
    BY DEF Without
  <1>t. 0 \in T /\ T \subseteq INodes
    BY DEF Shape, Rooted
  <1>2. Closed({0})
    BY <1>t
  <1>3. U \subseteq T \ {i} /\ 0 \in U
    BY <1>1, <1>2
  <1>4. \A x \in U \ {0} : m.ino[x].parentINode \in U
    BY <1>1
  <1>5. ASSUME NEW x \in T \ {0}, x # i, m.ino[x].parentINode \in U PROVE x \in U
    <2>1. PICK C : Closed(C) /\ m.ino[x].parentINode \in C
      BY <1>1, <1>5
    <2>2. Closed(C \cup {x}) /\ x \in C \cup {x}
      BY <1>5, <2>1
    <2> HIDE DEF Closed
    <2> QED
      BY <1>1, <2>2
  <1> HIDE DEF Closed
  <1>6. m.ino[i].parentINode \in U
    <2> SUFFICES ASSUME m.ino[i].parentINode \notin U PROVE FALSE
      OBVIOUS
    <2>1. \A x \in T \ U : m.ino[x].parentINode \in T \ U
      BY <1>3, <1>5, TreeClosed
    <2>2. T \ U \in SUBSET (INodes \ {0}) /\ T \ U # {}
      BY <1>3, <1>t
    <2> QED
      BY <2>1, <2>2 DEF Shape, Acyclic
  <1> QED
    BY <1>3, <1>4, <1>5, <1>6

\* An entry of directory dir is lost, and with it what it leads to.
LEMMA ShapeWithout ==
  ASSUME NEW m \in Machines, NEW r, NEW T, Shape(m, T), Acyclic(r.ino), Clear(r.ino),
         NEW i \in T \ {0}, NEW dir, dir = m.ino[i].parentINode,
         \A j \in T \ {i} : SameINode(m, r, j),
         \A d \in T \ {i, dir} : m.ino[d].type = "Directory" => SameDir(m, r, d),
         NEW q \in 0 .. m.ino[dir].fileSize - 1, NEW name, name \notin Dots,
         EntryAt(m, dir, q) = Entry(i, name), LostEntry(m, r, dir, q),
         NEW U, U = Without(m, T, i)
  PROVE  Shape(r, U) /\ dir \in U /\ i \notin U
  <1>t. T \subseteq INodes /\ 0 \in T
    BY DEF Shape, Rooted
  <1>u. /\ U \subseteq T \ {i} /\ 0 \in U /\ dir \in U
        /\ \A x \in U \ {0} : m.ino[x].parentINode \in U
        /\ \A x \in T \ {0} : x # i /\ m.ino[x].parentINode \in U => x \in U
    BY WithoutIs
  <1>1. \A j \in U : /\ r.ino[j].type = m.ino[j].type /\ (r.ino[j].isUsed <=> m.ino[j].isUsed)
                     /\ r.ino[j].parentINode = m.ino[j].parentINode
    BY <1>u DEF SameINode
  <1>2. Rooted(r, U)
    BY <1>1, <1>t, <1>u DEF Shape, Rooted
  <1>e. EntryAt(m, dir, q).inodeNumber = i
    BY DEF Entry
  <1>3. Listed(r, U)
    <2> SUFFICES ASSUME NEW j \in U \ {0}
                 PROVE  /\ r.ino[j].parentINode \in U
                        /\ r.ino[r.ino[j].parentINode].type = "Directory"
                        /\ ListedIn(r, j, r.ino[j].parentINode)
      BY DEF Listed
    <2> DEFINE d == m.ino[j].parentINode
    <2>1. d \in U /\ m.ino[d].type = "Directory" /\ ListedIn(m, j, d) /\ d \in INodes
      BY <1>t, <1>u DEF Shape, Listed
    <2>2. r.ino[j].parentINode = d /\ r.ino[d].type = "Directory"
      BY <1>1, <2>1
    <2> HIDE DEF d
    <2>3. CASE d = dir
      <3>1. EntryAt(m, d, q).inodeNumber # j
        BY <1>e, <1>u, <2>3
      <3>2. ListedIn(r, j, d)
        BY <2>1, <2>3, <3>1, ListedLost
      <3> QED
        BY <2>1, <2>2, <3>2
    <2>4. CASE d # dir
      <3>1. SameDir(m, r, d)
        BY <1>u, <2>1, <2>4
      <3>2. ListedIn(r, j, d)
        BY <2>1, <3>1, ListedSame
      <3> QED
        BY <2>1, <2>2, <3>2
    <2> QED
      BY <2>3, <2>4
  <1>4. ASSUME NEW d \in U, r.ino[d].type = "Directory" PROVE DirOK(r, U, d)
    <2>1. d \in INodes /\ DirOK(m, T, d) /\ r.ino[d].parentINode = m.ino[d].parentINode
      BY <1>t, <1>u, <1>1, <1>4 DEF Shape
    <2>2. CASE d = dir
      <3>1. StillChildren(m, r, T \ {i}, U, dir)
        BY <1>1, <1>u DEF StillChildren
      <3>2. dir \in INodes /\ DirOK(m, T, dir) /\ r.ino[dir].parentINode = m.ino[dir].parentINode
        BY <2>1, <2>2
      <3>3. DirOK(r, U, dir)
        BY ONLY <3>1, <3>2, DirLost, m \in Machines, q \in 0 .. m.ino[dir].fileSize - 1,
                LostEntry(m, r, dir, q), EntryAt(m, dir, q) = Entry(i, name), name \notin Dots
      <3> QED
        BY <2>2, <3>3
    <2>3. CASE d # dir
      <3>1. SameDir(m, r, d)
        BY <1>1, <1>4, <1>u, <2>3
      <3>2. StillChildren(m, r, T, U, d)
        BY <1>1, <1>u, <2>3 DEF StillChildren
      <3> QED
        BY <2>1, <3>1, <3>2, DirSame
    <2> QED
      BY <2>2, <2>3
  <1> QED
    BY <1>2, <1>3, <1>4, <1>u DEF Shape

\* deleteFile: the inode and everything below it is no longer in the tree.
LEMMA ShapeDeleted ==
  ASSUME NEW m \in Machines, NEW m1 \in Machines, NEW r \in Machines, Steady(m),
         NEW T, Shape(m, T), NEW dir \in T, m.ino[dir].type = "Directory",
         NEW name, name \notin Dots, NEW i, i = findFile(m, dir, name), i # NONE,
         Unlinked(m, m1, i), Removed(m1, r, dir, name) \/ Matches(m1, dir, name) = {}
  PROVE  /\ Shape(r, Without(m, T, i)) /\ dir \in Without(m, T, i)
         /\ r.ino[dir].type = "Directory" /\ i \in T \ {0} /\ m.ino[i].isUsed /\ ~ r.ino[i].isUsed
  <1>t. T \subseteq INodes /\ dir \in INodes
    BY DEF Shape, Rooted
  <1>d. DirOK(m, T, dir)
    BY DEF Shape
  <1>1. i \in T \ {0} /\ m.ino[i].parentINode = dir
    <2>1. Present(m, dir)
      BY <1>d DEF DirOK
    <2>2. SameDir(m, m, dir)
      BY <2>1, SameAsItself
    <2> QED
      BY <1>d, <1>t, <2>2, FoundIs
  <1>2. i # dir
    <2> SUFFICES ASSUME i = dir PROVE FALSE
      OBVIOUS
    <2>1. {i} \in SUBSET (INodes \ {0}) /\ {i} # {}
      BY <1>1, <1>t
    <2> QED
      BY <1>1, <2>1 DEF Shape, Acyclic
  <1>3. ASSUME NEW d \in T \ {i}, m.ino[d].type = "Directory"
        PROVE  SameDir(m, m1, d) /\ Present(m1, d) /\ d \in INodes /\ i \in INodes
    <2>1. d \in INodes /\ i \in INodes /\ d # i /\ Present(m, d)
      BY <1>1, <1>3, <1>t DEF Shape, DirOK
    <2>2. SameDir(m, m1, d)
      BY <2>1, UnlinkedSame
    <2> QED
      BY <2>1, <2>2 DEF SameDir
  <1>4. SameDir(m, m1, dir) /\ Present(m1, dir)
    BY <1>2, <1>3
  <1>5. findFile(m1, dir, name) = i /\ Removed(m1, r, dir, name)
    BY <1>4, <1>d, <1>t, FoundIs
  <1>6. Apart(m1.ino, m1.ino)
    BY DEF Steady, Apart, Unlinked, SameElse
  <1> DEFINE q == Min(Matches(m1, dir, name))
  <1>7. /\ q \in 0 .. m1.ino[dir].fileSize - 1 /\ EntryAt(m1, dir, q) = Entry(i, name)
        /\ LostEntry(m1, r, dir, q)
    BY <1>4, <1>5, <1>6, <1>t, RemovedLost
  <1> HIDE DEF q
  <1>8. /\ q \in 0 .. m.ino[dir].fileSize - 1 /\ EntryAt(m, dir, q) = Entry(i, name)
        /\ LostEntry(m, r, dir, q)
    <2>1. q \in 0 .. m.ino[dir].fileSize - 1 /\ EntryAt(m, dir, q) = Entry(i, name)
      BY <1>4, <1>7 DEF SameDir
    <2>2. LostEntry(m, r, dir, q)
      BY <1>4, <1>7, <1>t, <2>1, SameLost
    <2> QED
      BY <2>1, <2>2
  <1>9. /\ \A j \in INodes : /\ r.ino[j].type = m1.ino[j].type
                             /\ r.ino[j].isUsed = m1.ino[j].isUsed
                             /\ r.ino[j].parentINode = m1.ino[j].parentINode
                             /\ r.ino[j].blocks = m1.ino[j].blocks
    BY <1>5 DEF Removed
  <1>10. \A j \in T \ {i} : SameINode(m, r, j)
    BY <1>9, <1>t DEF SameINode, Unlinked, SameElse
  <1>11. Acyclic(r.ino)
    <2>1. \A j \in INodes : r.ino[j].parentINode = m.ino[j].parentINode
      BY <1>9 DEF Unlinked, SameElse
    <2> QED
      BY <2>1 DEF Shape, Acyclic
  <1>12. Clear(r.ino)
    BY <1>9 DEF Shape, Clear, Unlinked, SameElse
  <1>13. ASSUME NEW d \in T \ {i, dir}, m.ino[d].type = "Directory" PROVE SameDir(m, r, d)
    <2>1. SameDir(m, m1, d) /\ Present(m1, d) /\ d \in INodes
      BY <1>3, <1>13
    <2>2. SameDir(m1, r, d)
      BY <1>4, <1>5, <1>6, <1>t, <2>1, RemovedSame
    <2> QED
      BY <2>1, <2>2, SameSame
  <1>14. Shape(r, Without(m, T, i)) /\ dir \in Without(m, T, i)
    <2> DEFINE U == Without(m, T, i)
    <2>1. U = Without(m, T, i)
      OBVIOUS
    <2> HIDE DEF U
    <2>2. Shape(r, U) /\ dir \in U
      BY <1>1, <1>8, <1>10, <1>11, <1>12, <1>13, <2>1, ShapeWithout
    <2> QED
      BY <2>1, <2>2
  <1>15. m.ino[i].isUsed /\ ~ r.ino[i].isUsed
    BY <1>1, <1>9, <1>t DEF Shape, Rooted, Unlinked
  <1> QED
    BY <1>1, <1>2, <1>9, <1>10, <1>14, <1>15, <1>t DEF SameINode

\* renameFile: the inode gets a new name, or has lost its old one.
LEMMA ShapeRenamed ==
  ASSUME NEW m \in Machines, NEW r \in Machines, Steady(m),
         NEW T, Shape(m, T), NEW dir \in T, m.ino[dir].type = "Directory",
         NEW old, NEW new, old \notin Dots, new \notin Dots,
         findFile(m, dir, new) = NONE, NEW i, i = findFile(m, dir, old),
         Renamed(m, r, dir, old, new)
  PROVE  /\ \/ Shape(r, T)
            \/ Shape(r, Without(m, T, i)) /\ dir \in Without(m, T, i) /\ m.bm = Blocks
         /\ r.ino[dir].type = "Directory" /\ i \in T \ {0} /\ m.ino[i].parentINode = dir
  <1>t. T \subseteq INodes /\ dir \in INodes
    BY DEF Shape, Rooted
  <1>d. DirOK(m, T, dir) /\ Present(m, dir)
    BY DEF Shape, DirOK
  <1>m. PICK m1 \in Machines :
          /\ Keeps(m, m1) /\ Removed(m, m1, dir, old)
          /\ \/ r.ino = m1.ino /\ r.bm = m1.bm /\ r.disk.data = m1.disk.data
                /\ m.bm = Blocks
             \/ Added(m1, r, dir, i, new)
    BY DEF Renamed
  <1>0. Apart(m.ino, m.ino) /\ Steady(m1)
    BY <1>m DEF Steady, Keeps
  <1>1. i \in T \ {0} /\ m.ino[i].parentINode = dir
    <2>1. SameDir(m, m, dir)
      BY <1>d, SameAsItself
    <2>2. Matches(m, dir, old) # {}
      BY <1>m DEF Removed
    <2>3. findFile(m, dir, old) # NONE
      BY <1>t, <2>2, FindDoes, Ranges
    <2> QED
      BY <1>d, <1>t, <2>1, <2>3, FoundIs
  <1>2. i # dir
    <2> SUFFICES ASSUME i = dir PROVE FALSE
      OBVIOUS
    <2>1. {i} \in SUBSET (INodes \ {0}) /\ {i} # {}
      BY <1>1, <1>t
    <2> QED
      BY <1>1, <2>1 DEF Shape, Acyclic
  <1> DEFINE q == Min(Matches(m, dir, old))
  <1>3. /\ q \in 0 .. m.ino[dir].fileSize - 1 /\ EntryAt(m, dir, q) = Entry(i, old)
        /\ LostEntry(m, m1, dir, q)
    BY <1>0, <1>d, <1>m, <1>t, RemovedLost
  <1> HIDE DEF q
  <1>4. \A j \in INodes : /\ m1.ino[j].type = m.ino[j].type
                          /\ m1.ino[j].isUsed = m.ino[j].isUsed
                          /\ m1.ino[j].parentINode = m.ino[j].parentINode
                          /\ m1.ino[j].blocks = m.ino[j].blocks
    BY <1>m DEF Removed
  <1>5. ASSUME NEW d \in T \ {dir}, m.ino[d].type = "Directory"
        PROVE  SameDir(m, m1, d) /\ Present(m1, d) /\ d \in INodes
    <2>1. d \in INodes /\ d # dir /\ Present(m, d)
      BY <1>5, <1>t DEF Shape, DirOK
    <2>2. SameDir(m, m1, d)
      BY <1>0, <1>d, <1>m, <1>t, <2>1, RemovedSame
    <2> QED
      BY <2>1, <2>2 DEF SameDir
  <1>6. CASE r.ino = m1.ino /\ r.bm = m1.bm /\ r.disk.data = m1.disk.data /\ m.bm = Blocks
    <2>1. LostEntry(m, r, dir, q)
      <3>1. LostEntry(m, m1, dir, q) /\ r.ino = m1.ino /\ r.disk.data = m1.disk.data
        BY <1>3, <1>6
      <3> QED
        BY ONLY <3>1 DEF LostEntry, Present, EntryAt
    <2>2. \A d \in T \ {i, dir} : m.ino[d].type = "Directory" => SameDir(m, r, d)
      <3> SUFFICES ASSUME NEW d \in T \ {i, dir}, m.ino[d].type = "Directory" PROVE SameDir(m, r, d)
        OBVIOUS
      <3>1. SameDir(m, m1, d) /\ r.ino = m1.ino /\ r.disk.data = m1.disk.data
        BY <1>5, <1>6
      <3> QED
        BY ONLY <3>1 DEF SameDir, Present, EntryAt
    <2>3. \A j \in T \ {i} : SameINode(m, r, j)
      BY <1>4, <1>6, <1>t DEF SameINode
    <2>4. Acyclic(r.ino)
      BY <1>4, <1>6 DEF Shape, Acyclic
    <2>5. Clear(r.ino)
      BY <1>4, <1>6 DEF Shape, Clear
    <2>6. Shape(r, Without(m, T, i)) /\ dir \in Without(m, T, i)
      <3> DEFINE U == Without(m, T, i)
      <3>1. U = Without(m, T, i)
        OBVIOUS
      <3> HIDE DEF U
      <3>2. Shape(r, U) /\ dir \in U
        BY <1>1, <1>3, <2>1, <2>2, <2>3, <2>4, <2>5, <3>1, ShapeWithout
      <3> QED
        BY <3>1, <3>2
    <2> QED
      BY <1>1, <1>4, <1>6, <1>t, <2>6
  <1>7. CASE Added(m1, r, dir, i, new)
    <2>1. \A j \in INodes : /\ r.ino[j].type = m.ino[j].type
                            /\ r.ino[j].isUsed = m.ino[j].isUsed
                            /\ r.ino[j].parentINode = m.ino[j].parentINode
      BY <1>4, <1>7 DEF Added
    <2>2. Rooted(r, T)
      BY <1>t, <2>1 DEF Shape, Rooted
    <2>3. Acyclic(r.ino)
      BY <2>1 DEF Shape, Acyclic
    <2>4. Clear(r.ino)
      <3>1. m.ino[dir].isUsed
        BY DEF Shape, Rooted
      <3>2. \A j \in INodes \ {dir}, y \in FileBlocks : r.ino[j].blocks[y] = m1.ino[j].blocks[y]
        BY <1>7 DEF Added, Takes
      <3> QED
        BY <1>4, <2>1, <3>1, <3>2 DEF Shape, Clear
    <2>p. Present(m1, dir)
      BY <1>3 DEF LostEntry
    <2>5. ASSUME NEW d \in T \ {dir}, m.ino[d].type = "Directory" PROVE SameDir(m, r, d)
      <3>1. SameDir(m1, r, d)
        BY <1>0, <1>5, <1>7, <1>t, <2>5, <2>p, AddedSame
      <3> QED
        BY <1>5, <2>5, <3>1, SameSame
    <2>6. DirOK(m1, T \ {i}, dir) /\ ~ ListedIn(m1, i, dir)
          /\ \A p \in 0 .. m1.ino[dir].fileSize - 1 : EntryAt(m1, dir, p).name # new
      <3>1. StillChildren(m, m1, T \ {i}, T \ {i}, dir)
        BY <1>4, <1>t DEF StillChildren
      <3>2. m1.ino[dir].parentINode = m.ino[dir].parentINode
        BY <1>4, <1>t
      <3>3. DirOK(m1, T \ {i}, dir) /\ ~ ListedIn(m1, i, dir) /\ NamesWithout(m, m1, dir, old)
        BY ONLY <1>3, <1>d, <1>t, <3>1, <3>2, DirLost, m \in Machines, old \notin Dots
      <3>4. \A o \in 0 .. m.ino[dir].fileSize - 1 : EntryAt(m, dir, o).name # new
        BY <1>d, <1>t, NotFound
      <3> QED
        BY <3>3, <3>4 DEF NamesWithout
    <2>7. DirOK(r, T, dir) /\ ListedIn(r, i, dir)
      <3>1. GotEntry(m1, r, dir, Entry(i, new))
        BY <1>0, <1>7, <1>t, <2>p, AddedGot
      <3>2. StillChildren(m1, r, T \ {i}, T, dir)
        BY <1>4, <1>t, <2>1 DEF StillChildren
      <3>3. r.ino[dir].parentINode = m1.ino[dir].parentINode /\ r.ino[i].parentINode = dir
        BY <1>1, <1>4, <1>t, <2>1
      <3> QED
        BY <1>1, <1>t, <2>6, <3>1, <3>2, <3>3, DirGot
    <2>8. Listed(r, T)
      <3> SUFFICES ASSUME NEW j \in T \ {0}
                   PROVE  /\ r.ino[j].parentINode \in T
                          /\ r.ino[r.ino[j].parentINode].type = "Directory"
                          /\ ListedIn(r, j, r.ino[j].parentINode)
        BY DEF Listed
      <3> DEFINE d == m.ino[j].parentINode
      <3>1. d \in T /\ m.ino[d].type = "Directory" /\ ListedIn(m, j, d) /\ d \in INodes
        BY <1>t DEF Shape, Listed
      <3>2. r.ino[j].parentINode = d /\ r.ino[d].type = "Directory"
        BY <1>t, <2>1, <3>1
      <3> HIDE DEF d
      <3>3. CASE j = i
        BY <1>1, <2>7, <3>1, <3>2, <3>3, <2>1, <1>t
      <3>4. CASE d = dir /\ j # i
        <4>1. EntryAt(m, dir, q).inodeNumber # j
          BY <1>3, <3>4 DEF Entry
        <4>2. ListedIn(m, j, dir)
          BY <3>1, <3>4
        <4>3. ListedIn(m1, j, dir)
          BY <1>3, <1>t, <4>1, <4>2, ListedLost
        <4>4. GotEntry(m1, r, dir, Entry(i, new))
          BY <1>0, <1>7, <1>t, <2>p, AddedGot
        <4>5. ListedIn(r, j, dir)
          BY <1>t, <4>3, <4>4, ListedGot
        <4> QED
          BY <3>1, <3>2, <3>4, <4>5
      <3>5. CASE d # dir
        <4>1. SameDir(m, r, d)
          BY <2>5, <3>1, <3>5
        <4>2. ListedIn(r, j, d)
          BY <3>1, <4>1, ListedSame
        <4> QED
          BY <3>1, <3>2, <4>2
      <3> QED
        BY <3>3, <3>4, <3>5
    <2>9. ASSUME NEW d \in T, r.ino[d].type = "Directory" PROVE DirOK(r, T, d)
      <3>1. d \in INodes /\ m.ino[d].type = "Directory" /\ DirOK(m, T, d)
            /\ r.ino[d].parentINode = m.ino[d].parentINode
        BY <1>t, <2>1, <2>9 DEF Shape
      <3>2. CASE d = dir
        BY <2>7, <3>2
      <3>3. CASE d # dir
        <4>1. SameDir(m, r, d)
          BY <2>5, <3>1, <3>3
        <4>2. StillChildren(m, r, T, T, d)
          BY <1>t, <2>1 DEF StillChildren
        <4> QED
          BY <3>1, <4>1, <4>2, DirSame
      <3> QED
        BY <3>2, <3>3
    <2> QED
      BY <1>1, <1>t, <2>1, <2>2, <2>3, <2>4, <2>8, <2>9 DEF Shape
  <1> QED
    BY <1>6, <1>7, <1>m

-----------------------------------------------------------------------------
(* Calls that put something into the tree.                                 *)

\* createFile: the new inode hangs below the directory that names it.
LEMMA ShapeCreated ==
  ASSUME NEW m \in Machines, NEW r \in Machines, Steady(m),
         NEW T, Shape(m, T), NEW dir \in T, m.ino[dir].type = "Directory",
         NEW name, name \notin Dots, NEW type \in Types, Created(m, r, dir, name, type)
  PROVE  /\ Shape(r, T \cup {r.ret}) /\ r.ino[dir].type = "Directory"
         /\ r.ret \in INodes \ T
         /\ r.ino[r.ret].fileSize = 0 /\ r.ino[r.ret].parentINode = dir
         /\ r.ino[r.ret].type = type
  <1> DEFINE i == r.ret
             U == T \cup {i}
  <1>t. T \subseteq INodes /\ dir \in INodes /\ 0 \in T /\ \A x \in T : m.ino[x].isUsed
    BY DEF Shape, Rooted
  <1>d. DirOK(m, T, dir) /\ Present(m, dir)
    BY DEF Shape, DirOK
  <1>m. PICK m1 \in Machines :
          /\ m1.bm = m.bm /\ m1.disk = m.disk
          /\ SameElse(m1.ino, m.ino, i)
          /\ m1.ino[i].isUsed /\ m1.ino[i].type = type
          /\ m1.ino[i].fileSize = 0 /\ m1.ino[i].parentINode = dir
          /\ m1.ino[i].blocks = m.ino[i].blocks
          /\ Added(m1, r, dir, i, name)
    BY DEF Created
  <1>1. i \in INodes /\ ~ m.ino[i].isUsed /\ findFile(m, dir, name) = NONE
    BY DEF Created
  <1> HIDE DEF i
  <1>2. i \notin T /\ i # dir
    BY <1>1, <1>t
  <1>3. \A j \in INodes \ {i} : m1.ino[j] = m.ino[j]
    BY <1>m DEF SameElse
  <1>0. Steady(m1)
    <2>1. SameBlocks(m1.ino, m.ino)
      BY <1>3, <1>m DEF SameBlocks
    <2> QED
      BY <1>m, <2>1 DEF Steady, Behind, Apart, SameBlocks
  <1>4. \A j \in INodes : /\ r.ino[j].type = m1.ino[j].type
                          /\ r.ino[j].isUsed = m1.ino[j].isUsed
                          /\ r.ino[j].parentINode = m1.ino[j].parentINode
                          /\ j # dir => r.ino[j].fileSize = m1.ino[j].fileSize
    BY <1>m DEF Added
  <1>5. \A j \in T : /\ r.ino[j].type = m.ino[j].type
                     /\ r.ino[j].isUsed = m.ino[j].isUsed
                     /\ r.ino[j].parentINode = m.ino[j].parentINode
    BY <1>2, <1>3, <1>4, <1>t
  <1>6. /\ r.ino[i].type = type /\ r.ino[i].isUsed /\ r.ino[i].parentINode = dir
        /\ r.ino[i].fileSize = 0
    BY <1>1, <1>2, <1>4, <1>m
  <1>7. ASSUME NEW d \in T, m.ino[d].type = "Directory"
        PROVE  SameDir(m, m1, d) /\ Present(m1, d) /\ d \in INodes
    <2>1. d \in INodes /\ d # i /\ Present(m, d) /\ m1.ino[d] = m.ino[d]
      BY <1>2, <1>3, <1>7, <1>t DEF Shape, DirOK
    <2>2. SameDir(m, m1, d)
      BY <1>m, <2>1, SameAsItself
    <2> QED
      BY <2>1, <2>2 DEF SameDir
  <1>p. Present(m1, dir) /\ SameDir(m, m1, dir)
    BY <1>7
  <1>8. ASSUME NEW d \in T \ {dir}, m.ino[d].type = "Directory" PROVE SameDir(m, r, d)
    <2>1. SameDir(m1, r, d)
      BY <1>0, <1>7, <1>8, <1>m, <1>p, <1>t, AddedSame
    <2> QED
      BY <1>7, <1>8, <2>1, SameSame
  <1>9. GotEntry(m, r, dir, Entry(i, name))
    <2>1. GotEntry(m1, r, dir, Entry(i, name))
      BY <1>0, <1>m, <1>p, <1>t, AddedGot
    <2>2. m1.ino[dir] = m.ino[dir] /\ m1.disk = m.disk
      BY <1>2, <1>3, <1>m, <1>t
    <2> QED
      BY ONLY <2>1, <2>2 DEF GotEntry, EntryAt
  <1>10. DirOK(r, U, dir) /\ ListedIn(r, i, dir)
    <2>1. StillChildren(m, r, T, U, dir)
      BY <1>5 DEF StillChildren
    <2>2. ~ ListedIn(m, i, dir)
      BY <1>2, <1>d DEF ListedIn, DirOK, NamesChildren
    <2>3. \A p \in 0 .. m.ino[dir].fileSize - 1 : EntryAt(m, dir, p).name # name
      BY <1>1, <1>d, <1>t, NotFound
    <2>4. i \in U \ {0} /\ r.ino[i].parentINode = dir /\ r.ino[dir].parentINode = m.ino[dir].parentINode
      BY <1>2, <1>5, <1>6, <1>t
    <2> HIDE DEF U
    <2> QED
      BY <1>9, <1>d, <1>t, <2>1, <2>2, <2>3, <2>4, DirGot
  <1>11. DirOK(r, U, i)
    <2>1. 0 .. r.ino[i].fileSize - 1 = {}
      BY <1>6
    <2> QED
      BY <2>1 DEF DirOK, Present, NamesDiffer, NumbersDiffer, NamesChildren, DotsInPlace
  <1>12. Rooted(r, U)
    BY <1>1, <1>5, <1>6, <1>t DEF Shape, Rooted
  <1>13. Listed(r, U)
    <2> SUFFICES ASSUME NEW j \in U \ {0}
                 PROVE  /\ r.ino[j].parentINode \in U
                        /\ r.ino[r.ino[j].parentINode].type = "Directory"
                        /\ ListedIn(r, j, r.ino[j].parentINode)
      BY DEF Listed
    <2>1. CASE j = i
      BY <1>5, <1>6, <1>10, <2>1
    <2>2. CASE j # i
      <3> DEFINE d == m.ino[j].parentINode
      <3>1. j \in T /\ d \in T /\ m.ino[d].type = "Directory" /\ ListedIn(m, j, d) /\ d \in INodes
        BY <1>t, <2>2 DEF Shape, Listed
      <3>2. r.ino[j].parentINode = d /\ r.ino[d].type = "Directory"
        BY <1>5, <3>1
      <3> HIDE DEF d
      <3>3. CASE d = dir
        <4>1. ListedIn(m, j, dir)
          BY <3>1, <3>3
        <4>2. ListedIn(r, j, dir)
          BY <1>9, <1>t, <4>1, ListedGot
        <4> QED
          BY <3>1, <3>2, <3>3, <4>2
      <3>4. CASE d # dir
        <4>1. SameDir(m, r, d)
          BY <1>8, <3>1, <3>4
        <4>2. ListedIn(r, j, d)
          BY <3>1, <4>1, ListedSame
        <4> QED
          BY <3>1, <3>2, <4>2
      <3> QED
        BY <3>3, <3>4
    <2> QED
      BY <2>1, <2>2
  <1>14. Acyclic(r.ino)
    <2> DEFINE t == m.ino
               u == r.ino
    <2>1. /\ Acyclic(t) /\ \A x \in T \ {0} : t[x].parentINode \in T
          /\ \A x \in INodes : \/ u[x].parentINode = t[x].parentINode
                               \/ x \notin T /\ u[x].parentINode = dir
      <3>1. Acyclic(t) /\ \A x \in T \ {0} : t[x].parentINode \in T
        BY TreeClosed DEF Shape
      <3>2. \A x \in INodes \ {i} : u[x].parentINode = t[x].parentINode
        BY <1>3, <1>4
      <3> QED
        BY <1>2, <1>6, <3>1, <3>2
    <2> HIDE DEF t, u
    <2>2. Acyclic(u)
      BY <2>1, WalksStillEnd
    <2> QED
      BY <2>2 DEF u
  <1>15. Clear(r.ino)
    <2>1. \A j \in INodes \ {dir}, y \in FileBlocks : r.ino[j].blocks[y] = m1.ino[j].blocks[y]
      BY <1>m DEF Added, Takes
    <2>2. \A j \in INodes : ~ r.ino[j].isUsed => j # i /\ j # dir /\ ~ m.ino[j].isUsed
      BY <1>3, <1>4, <1>5, <1>6, <1>t
    <2> QED
      BY <1>3, <2>1, <2>2 DEF Shape, Clear
  <1>16. ASSUME NEW d \in U, r.ino[d].type = "Directory" PROVE DirOK(r, U, d)
    <2>1. CASE d = i
      BY <1>11, <2>1
    <2>2. CASE d = dir
      BY <1>10, <2>2
    <2>3. CASE d # i /\ d # dir
      <3>1. d \in T /\ d \in INodes /\ m.ino[d].type = "Directory" /\ DirOK(m, T, d)
            /\ r.ino[d].parentINode = m.ino[d].parentINode
        BY <1>16, <1>5, <1>t, <2>3 DEF Shape
      <3>2. SameDir(m, r, d)
        BY <1>8, <2>3, <3>1
      <3>3. StillChildren(m, r, T, U, d)
        BY <1>5 DEF StillChildren
      <3> HIDE DEF U
      <3> QED
        BY <3>1, <3>2, <3>3, DirSame
    <2> QED
      BY <2>1, <2>2, <2>3
  <1>17. Shape(r, U)
    BY <1>12, <1>13, <1>14, <1>15, <1>16 DEF Shape
  <1> QED
    BY <1>1, <1>2, <1>5, <1>6, <1>17 DEF i

\* The rest of createDir.
LEMMA ShapeDotted ==
  ASSUME NEW m \in Machines, NEW r \in Machines, Steady(m), NEW T, Shape(m, T),
         NEW i \in T, m.ino[i].type = "Directory", m.ino[i].fileSize = 0,
         NEW up, up = m.ino[i].parentINode, Dotted(m, r, i, up)
  PROVE  Shape(r, T) /\ \A j \in INodes : r.ino[j].type = m.ino[j].type
  <1>t. T \subseteq INodes /\ i \in INodes /\ m.ino[i].isUsed
    BY DEF Shape, Rooted
  <1>1. \A j \in INodes : /\ r.ino[j].type = m.ino[j].type
                          /\ r.ino[j].isUsed = m.ino[j].isUsed
                          /\ r.ino[j].parentINode = m.ino[j].parentINode
    BY DEF Dotted
  <1>2. ASSUME NEW d \in T \ {i}, m.ino[d].type = "Directory" PROVE SameDir(m, r, d)
    <2>1. d \in INodes /\ d # i /\ Present(m, d)
      BY <1>2, <1>t DEF Shape, DirOK
    <2> QED
      BY <1>t, <2>1, DottedSame
  <1>3. /\ r.ino[i].fileSize = 2 /\ Present(r, i)
        /\ EntryAt(r, i, 0) = Entry(i, ".") /\ EntryAt(r, i, 1) = Entry(up, "..")
    BY <1>t, DottedGot
  <1>4. DirOK(r, T, i)
    <2>1. \A p \in 0 .. r.ino[i].fileSize - 1 : p = 0 \/ p = 1
      BY <1>3
    <2>2. /\ EntryAt(r, i, 0).name = "." /\ EntryAt(r, i, 1).name = ".."
          /\ EntryAt(r, i, 0).name \in Dots /\ EntryAt(r, i, 1).name \in Dots
      BY <1>3 DEF Entry, Dots
    <2>3. NamesDiffer(r, i)
      BY <2>1, <2>2 DEF NamesDiffer
    <2>4. NumbersDiffer(r, i) /\ NamesChildren(r, T, i)
      BY <2>1, <2>2 DEF NumbersDiffer, NamesChildren
    <2>5. r.ino[i].parentINode = up
      BY <1>1, <1>t
    <2>6. DotsInPlace(r, i)
      BY <1>3, <2>1, <2>5 DEF DotsInPlace
    <2> QED
      BY <1>3, <2>3, <2>4, <2>6 DEF DirOK
  <1>5. Rooted(r, T)
    BY <1>1, <1>t DEF Shape, Rooted
  <1>6. Listed(r, T)
    <2> SUFFICES ASSUME NEW j \in T \ {0}
                 PROVE  /\ r.ino[j].parentINode \in T
                        /\ r.ino[r.ino[j].parentINode].type = "Directory"
                        /\ ListedIn(r, j, r.ino[j].parentINode)
      BY DEF Listed
    <2> DEFINE d == m.ino[j].parentINode
    <2>1. d \in T /\ m.ino[d].type = "Directory" /\ ListedIn(m, j, d) /\ d \in INodes
      BY <1>t DEF Shape, Listed
    <2>2. r.ino[j].parentINode = d /\ r.ino[d].type = "Directory"
      BY <1>1, <1>t, <2>1
    <2> HIDE DEF d
    <2>3. d # i
      BY <2>1 DEF ListedIn
    <2>4. SameDir(m, r, d)
      BY <1>2, <2>1, <2>3
    <2>5. ListedIn(r, j, d)
      BY <2>1, <2>4, ListedSame
    <2> QED
      BY <2>1, <2>2, <2>5
  <1>7. Acyclic(r.ino)
    BY <1>1 DEF Shape, Acyclic
  <1>8. Clear(r.ino)
    <2>1. \A j \in INodes \ {i}, y \in FileBlocks : r.ino[j].blocks[y] = m.ino[j].blocks[y]
      BY DEF Dotted, Takes
    <2> QED
      BY <1>1, <1>t, <2>1 DEF Shape, Clear
  <1>9. ASSUME NEW d \in T, r.ino[d].type = "Directory" PROVE DirOK(r, T, d)
    <2>1. CASE d = i
      BY <1>4, <2>1
    <2>2. CASE d # i
      <3>1. d \in INodes /\ m.ino[d].type = "Directory" /\ DirOK(m, T, d)
            /\ r.ino[d].parentINode = m.ino[d].parentINode
        BY <1>1, <1>9, <1>t DEF Shape
      <3>2. SameDir(m, r, d)
        BY <1>2, <2>2, <3>1
      <3>3. StillChildren(m, r, T, T, d)
        BY <1>1, <1>t DEF StillChildren
      <3> QED
        BY <3>1, <3>2, <3>3, DirSame
    <2> QED
      BY <2>1, <2>2
  <1> QED
    BY <1>1, <1>5, <1>6, <1>7, <1>8, <1>9 DEF Shape

\* moveFile: the inode hangs below another directory.
LEMMA ShapeMoved ==
  ASSUME NEW m \in Machines, NEW r \in Machines, Steady(m),
         NEW T, Shape(m, T), NEW dir \in T, m.ino[dir].type = "Directory",
         NEW name, name \notin Dots, NEW dest \in T, MayMove(m, dir, name, dest),
         ~ Overwrites(m, dir, name, dest),
         NEW i, i = findFile(m, dir, name), Moved(m, r, dir, name, dest)
  PROVE  Shape(r, T) /\ \A j \in INodes : r.ino[j].type = m.ino[j].type
  <1>t. T \subseteq INodes /\ dir \in INodes /\ dest \in INodes
    BY DEF Shape, Rooted
  <1>a. m.ino[dest].type = "Directory" /\ m.ino[dest].isUsed /\ dest # dir /\ i # NONE
        /\ findFile(m, dest, name) = NONE
        /\ (m.ino[i].type = "Directory" => i \notin Ancestors(m.ino, dest))
    BY DEF MayMove
  <1>d. DirOK(m, T, dir) /\ Present(m, dir) /\ DirOK(m, T, dest) /\ Present(m, dest)
    BY <1>a DEF Shape, DirOK
  <1> DEFINE b == m.ino[i].blocks[0]
             rewritten == (m.ino[i].type = "Directory" /\ b # 0)
  <1>m. PICK m1, m2, m3 \in Machines :
          /\ Keeps(m, m1) /\ Keeps(m1, m2)
          /\ Added(m, m1, dest, i, name) /\ Removed(m1, m2, dir, name)
          /\ Reparented(m2, m3, i, dest) /\ m3.disk = m2.disk
          /\ r.ino = m3.ino /\ r.bm = m3.bm
          /\ UpRewritten(m3, r, rewritten, b, dest)
    BY DEF Moved
  <1>b. b = m.ino[i].blocks[0] /\ rewritten \in BOOLEAN
        /\ (rewritten <=> m.ino[i].type = "Directory" /\ b # 0)
    OBVIOUS
  <1> HIDE DEF b, rewritten
  <1>0. Steady(m1) /\ Apart(m1.ino, m1.ino) /\ Apart(m2.ino, m2.ino)
    BY <1>m DEF Steady, Keeps
  <1>1. i \in T \ {0} /\ m.ino[i].parentINode = dir /\ i \in INodes
    <2>1. SameDir(m, m, dir)
      BY <1>d, SameAsItself
    <2> QED
      BY <1>a, <1>d, <1>t, <2>1, FoundIs
  <1>2. i # dir
    <2> SUFFICES ASSUME i = dir PROVE FALSE
      OBVIOUS
    <2>1. {i} \in SUBSET (INodes \ {0}) /\ {i} # {}
      BY <1>1, <1>t
    <2> QED
      BY <1>1, <2>1 DEF Shape, Acyclic
  <1> DEFINE A == IF m.ino[i].type = "Directory" THEN Ancestors(m.ino, dest)
                  ELSE {x \in T : m.ino[x].type = "Directory"}
  <1>3. dest \in A /\ i \notin A /\ \A x \in A \ {0} : m.ino[x].parentINode \in A
    <2>1. CASE m.ino[i].type = "Directory"
      <3> DEFINE t == m.ino
                 B == Ancestors(t, dest)
      <3>1. t \in Tables /\ Acyclic(t)
        BY Fields DEF Shape
      <3>2. B = Ancestors(t, dest)
        OBVIOUS
      <3>3. A = B /\ i \notin B
        BY <1>a, <2>1
      <3> HIDE DEF t, B, A
      <3>4. dest \in B /\ \A x \in B \ {0} : t[x].parentINode \in B
        BY <1>t, <3>1, <3>2, AncestorsClosed
      <3> QED
        BY <3>3, <3>4 DEF t
    <2>2. CASE m.ino[i].type # "Directory"
      <3>1. A = {x \in T : m.ino[x].type = "Directory"}
        BY <2>2
      <3> HIDE DEF A
      <3> QED
        BY <1>a, <2>2, <3>1, TreeClosed
    <2> QED
      BY <2>1, <2>2
  <1> HIDE DEF A
  <1>4. i # dest
    BY <1>3
  <1>5. \A j \in INodes : /\ m1.ino[j].type = m.ino[j].type
                          /\ m1.ino[j].isUsed = m.ino[j].isUsed
                          /\ m1.ino[j].parentINode = m.ino[j].parentINode
                          /\ j # dest => m1.ino[j].fileSize = m.ino[j].fileSize
    BY <1>m DEF Added
  <1>6. \A j \in INodes : /\ m2.ino[j].type = m1.ino[j].type
                          /\ m2.ino[j].isUsed = m1.ino[j].isUsed
                          /\ m2.ino[j].parentINode = m1.ino[j].parentINode
                          /\ m2.ino[j].blocks = m1.ino[j].blocks
    BY <1>m DEF Removed
  <1>7. \A j \in INodes : /\ r.ino[j].type = m2.ino[j].type
                          /\ r.ino[j].isUsed = m2.ino[j].isUsed
                          /\ r.ino[j].parentINode = IF j = i THEN dest ELSE m2.ino[j].parentINode
                          /\ r.ino[j].blocks = m2.ino[j].blocks
    BY <1>m DEF Reparented, SameElse
  <1>8. \A j \in INodes : /\ r.ino[j].type = m.ino[j].type
                          /\ r.ino[j].isUsed = m.ino[j].isUsed
                          /\ r.ino[j].parentINode = IF j = i THEN dest ELSE m.ino[j].parentINode
    BY <1>5, <1>6, <1>7
  <1>9. \A y \in FileBlocks : m2.ino[i].blocks[y] = m.ino[i].blocks[y]
    BY <1>1, <1>4, <1>6, <1>m DEF Added, Takes
  \* The new entry.
  <1>10. ASSUME NEW d \in T \ {dest}, m.ino[d].type = "Directory"
         PROVE  SameDir(m, m1, d) /\ Present(m1, d) /\ d \in INodes
    <2>1. d \in INodes /\ d # dest /\ Present(m, d)
      BY <1>10, <1>t DEF Shape, DirOK
    <2>2. SameDir(m, m1, d)
      BY <1>d, <1>m, <1>t, <2>1, AddedSame
    <2> QED
      BY <2>1, <2>2 DEF SameDir
  <1>11. GotEntry(m, m1, dest, Entry(i, name)) /\ Present(m1, dest)
    <2>1. GotEntry(m, m1, dest, Entry(i, name))
      BY <1>d, <1>m, <1>t, AddedGot
    <2> QED
      BY <2>1 DEF GotEntry
  <1>12. SameDir(m, m1, dir) /\ Present(m1, dir)
    BY <1>10, <1>a
  \* The old one.
  <1>13. ASSUME NEW d \in INodes \ {dir}, Present(m1, d)
         PROVE  SameDir(m1, m2, d) /\ Present(m2, d)
    <2>1. SameDir(m1, m2, d)
      BY <1>0, <1>12, <1>13, <1>m, <1>t, RemovedSame
    <2> QED
      BY <2>1 DEF SameDir
  <1> DEFINE q == Min(Matches(m1, dir, name))
  <1>14. /\ q \in 0 .. m1.ino[dir].fileSize - 1 /\ EntryAt(m1, dir, q) = Entry(i, name)
         /\ LostEntry(m1, m2, dir, q)
    <2>1. findFile(m1, dir, name) = i
      BY <1>12, <1>a, <1>d, <1>t, FoundIs
    <2> QED
      BY <1>0, <1>12, <1>m, <1>t, <2>1, RemovedLost
  <1> HIDE DEF q
  <1>15. q \in 0 .. m.ino[dir].fileSize - 1 /\ EntryAt(m, dir, q) = Entry(i, name)
    BY <1>12, <1>14 DEF SameDir
  <1>16. LostEntry(m, m2, dir, q) /\ Present(m2, dir)
    <2>1. LostEntry(m, m2, dir, q)
      BY <1>12, <1>14, <1>15, <1>t, SameLost
    <2> QED
      BY <2>1 DEF LostEntry
  \* The way up.
  <1>17. ASSUME NEW d \in INodes \ {i}, Present(m2, d) PROVE SameDir(m2, r, d)
    <2>1. b = m2.ino[i].blocks[0]
      BY <1>9, <1>b, Ranges
    <2> QED
      BY <1>0, <1>1, <1>17, <1>b, <1>m, <1>t, <2>1, ReparentedSame
  <1>18. LostEntry(m, r, dir, q)
    <2>1. SameDir(m2, r, dir) /\ m.ino[dir].fileSize \in Nat
      BY <1>16, <1>17, <1>2, <1>t, Fields, INodeFields
    <2> QED
      BY <1>16, <2>1, LostSame
  <1>19. GotEntry(m, r, dest, Entry(i, name))
    <2>1. SameDir(m1, m2, dest) /\ SameDir(m2, r, dest) /\ m.ino[dest].fileSize \in Nat
      BY <1>11, <1>13, <1>17, <1>4, <1>a, <1>t, Fields, INodeFields
    <2>2. SameDir(m1, r, dest)
      BY <2>1, SameSame
    <2> QED
      BY <1>11, <2>1, <2>2, GotSame
  <1>20. ASSUME NEW d \in T \ {dir, dest, i}, m.ino[d].type = "Directory" PROVE SameDir(m, r, d)
    <2>1. SameDir(m, m1, d) /\ SameDir(m1, m2, d) /\ Present(m2, d) /\ d \in INodes
      BY <1>10, <1>13, <1>20
    <2>2. SameDir(m2, r, d)
      BY <1>17, <2>1, <1>20
    <2>3. SameDir(m1, r, d)
      BY <2>1, <2>2, SameSame
    <2> QED
      BY <2>1, <2>3, SameSame
  <1>21. ASSUME m.ino[i].type = "Directory" PROVE Upward(m, r, i, dest)
    <2>1. SameDir(m, m1, i) /\ SameDir(m1, m2, i) /\ Present(m2, i)
      BY <1>1, <1>10, <1>13, <1>2, <1>21, <1>4
    <2>2. b = m2.ino[i].blocks[0] /\ (rewritten <=> b # 0)
      BY <1>21, <1>9, <1>b, Ranges
    <2>3. Upward(m2, r, i, dest)
      BY <1>0, <1>1, <1>b, <1>m, <1>t, <2>1, <2>2, ReparentedUp
    <2>4. Upward(m1, r, i, dest)
      BY <1>1, <2>1, <2>3, SameUpward
    <2> QED
      BY <1>1, <2>1, <2>4, SameUpward
  <1>22. ASSUME m.ino[i].type = "Directory", m.ino[i].fileSize >= 2
         PROVE  EntryAt(m, i, 1).name \in Dots
    <2>1. findFile(m, i, "..") # NONE
      BY <1>22 DEF Overwrites
    <2>2. Matches(m, i, "..") # {}
      BY <1>1, <2>1, FindType
    <2>3. DirOK(m, T, i) /\ Present(m, i)
      BY <1>1, <1>22 DEF Shape, DirOK
    <2>4. PICK p \in Positions(m, i) : EntryAt(m, i, p).name = ".."
      BY <2>2 DEF Matches
    <2>5. p \in 0 .. m.ino[i].fileSize - 1
      BY <1>1, <2>3, PresentIs
    <2>6. EntryAt(m, i, 1) = Entry(m.ino[i].parentINode, "..")
      BY <2>3, <2>4, <2>5 DEF DirOK, DotsInPlace, Dots
    <2> QED
      BY <2>6 DEF Entry, Dots
  \* The tree.
  <1>23. \A d \in T : d # dir => StillChildren(m, r, T, T, d)
    BY <1>1, <1>8, <1>t DEF StillChildren
  <1>24. DirOK(r, T, dest) /\ ListedIn(r, i, dest)
    <2>1. ~ ListedIn(m, i, dest)
      BY <1>1, <1>a, <1>d DEF ListedIn, DirOK, NamesChildren
    <2>2. \A p \in 0 .. m.ino[dest].fileSize - 1 : EntryAt(m, dest, p).name # name
      BY <1>a, <1>d, <1>t, NotFound
    <2>3. r.ino[dest].parentINode = m.ino[dest].parentINode /\ r.ino[i].parentINode = dest
      BY <1>1, <1>4, <1>8, <1>t
    <2>4. StillChildren(m, r, T, T, dest)
      BY <1>23, <1>a
    <2> QED
      BY <1>1, <1>19, <1>d, <1>t, <2>1, <2>2, <2>3, <2>4, DirGot
  <1>25. DirOK(r, T, dir)
    <2>1. StillChildren(m, r, T \ {i}, T, dir)
      BY <1>8, <1>t DEF StillChildren
    <2>2. r.ino[dir].parentINode = m.ino[dir].parentINode
      BY <1>2, <1>8, <1>t
    <2> QED
      BY ONLY <1>15, <1>18, <1>d, <1>t, <2>1, <2>2, DirLost, m \in Machines, name \notin Dots
  <1>26. ASSUME NEW d \in T, r.ino[d].type = "Directory" PROVE DirOK(r, T, d)
    <2>0. d \in INodes /\ m.ino[d].type = "Directory" /\ DirOK(m, T, d)
      BY <1>26, <1>8, <1>t DEF Shape
    <2>1. CASE d = dest
      BY <1>24, <2>1
    <2>2. CASE d = dir
      BY <1>25, <2>2
    <2>3. CASE d = i
      <3>1. StillChildren(m, r, T, T, i) /\ r.ino[i].parentINode = dest /\ Upward(m, r, i, dest)
            /\ DirOK(m, T, i) /\ (m.ino[i].fileSize >= 2 => EntryAt(m, i, 1).name \in Dots)
        BY <1>1, <1>2, <1>21, <1>22, <1>23, <1>8, <2>0, <2>3
      <3>2. DirOK(r, T, i)
        BY <1>1, <3>1, DirUp
      <3> QED
        BY <2>3, <3>2
    <2>4. CASE d \notin {dir, dest, i}
      <3>1. SameDir(m, r, d) /\ StillChildren(m, r, T, T, d)
            /\ r.ino[d].parentINode = m.ino[d].parentINode
        BY <1>20, <1>23, <1>8, <2>0, <2>4
      <3> QED
        BY <2>0, <3>1, DirSame
    <2> QED
      BY <2>1, <2>2, <2>3, <2>4
  <1>27. Listed(r, T)
    <2> SUFFICES ASSUME NEW j \in T \ {0}
                 PROVE  /\ r.ino[j].parentINode \in T
                        /\ r.ino[r.ino[j].parentINode].type = "Directory"
                        /\ ListedIn(r, j, r.ino[j].parentINode)
      BY DEF Listed
    <2>1. CASE j = i
      BY <1>1, <1>24, <1>8, <1>a, <1>t, <2>1
    <2>2. CASE j # i
      <3> DEFINE d == m.ino[j].parentINode
      <3>1. d \in T /\ m.ino[d].type = "Directory" /\ ListedIn(m, j, d) /\ d \in INodes
        BY <1>t DEF Shape, Listed
      <3>2. r.ino[j].parentINode = d /\ r.ino[d].type = "Directory"
        BY <1>8, <1>t, <2>2, <3>1
      <3> HIDE DEF d
      <3>3. CASE d = dest
        <4>1. ListedIn(m, j, dest)
          BY <3>1, <3>3
        <4>2. ListedIn(r, j, dest)
          BY <1>19, <1>t, <4>1, ListedGot
        <4> QED
          BY <3>1, <3>2, <3>3, <4>2
      <3>4. CASE d = dir
        <4>1. EntryAt(m, dir, q).inodeNumber # j
          BY <1>15, <2>2 DEF Entry
        <4>2. ListedIn(m, j, dir)
          BY <3>1, <3>4
        <4>3. ListedIn(r, j, dir)
          BY <1>15, <1>18, <1>t, <4>1, <4>2, ListedLost
        <4> QED
          BY <3>1, <3>2, <3>4, <4>3
      <3>5. CASE d = i
        <4>1. Upward(m, r, i, dest) /\ (m.ino[i].fileSize >= 2 => EntryAt(m, i, 1).name \in Dots)
          BY <1>21, <1>22, <3>1, <3>5
        <4>2. ListedIn(m, j, i)
          BY <3>1, <3>5
        <4>3. ListedIn(r, j, i)
          BY <1>1, <4>1, <4>2, ListedUp
        <4> QED
          BY <3>1, <3>2, <3>5, <4>3
      <3>6. CASE d \notin {dir, dest, i}
        <4>1. SameDir(m, r, d)
          BY <1>20, <3>1, <3>6
        <4>2. ListedIn(r, j, d)
          BY <3>1, <4>1, ListedSame
        <4> QED
          BY <3>1, <3>2, <4>2
      <3> QED
        BY <3>3, <3>4, <3>5, <3>6
    <2> QED
      BY <2>1, <2>2
  <1>28. Acyclic(r.ino)
    <2> DEFINE t == m.ino
               u == r.ino
    <2>1. /\ Acyclic(t) /\ dest \in A /\ \A x \in A \ {0} : t[x].parentINode \in A
          /\ \A x \in INodes : \/ u[x].parentINode = t[x].parentINode
                               \/ x \notin A /\ u[x].parentINode = dest
      BY <1>3, <1>8 DEF Shape
    <2> HIDE DEF t, u
    <2>2. Acyclic(u)
      BY <2>1, WalksStillEnd
    <2> QED
      BY <2>2 DEF u
  <1>29. Clear(r.ino)
    <2>1. \A j \in INodes \ {dest}, y \in FileBlocks : m1.ino[j].blocks[y] = m.ino[j].blocks[y]
      BY <1>m DEF Added, Takes
    <2>2. \A j \in INodes \ {dest}, y \in FileBlocks : r.ino[j].blocks[y] = m.ino[j].blocks[y]
      BY <1>6, <1>7, <2>1
    <2> QED
      BY <1>8, <1>a, <1>t, <2>2 DEF Shape, Clear
  <1>30. Rooted(r, T)
    BY <1>1, <1>8, <1>t, Ranges DEF Shape, Rooted
  <1> QED
    BY <1>8, <1>26, <1>27, <1>28, <1>29, <1>30 DEF Shape

\* The directory that the entry is taken from has it still.
LEMMA NotMissed ==
  ASSUME NEW m \in Machines, Steady(m), NEW T, Shape(m, T), NEW dir \in T,
         m.ino[dir].type = "Directory", NEW name, NEW dest \in T, MayMove(m, dir, name, dest)
  PROVE  ~ MoveMissed(m, dir, name, dest)
  <1> SUFFICES ASSUME NEW m1 \in Machines, Added(m, m1, dest, findFile(m, dir, name), name),
                      Matches(m1, dir, name) = {}
               PROVE  FALSE
    BY DEF MoveMissed
  <1>1. dir \in INodes /\ dest \in INodes /\ dir # dest /\ findFile(m, dir, name) # NONE
        /\ DirOK(m, T, dir) /\ Present(m, dir) /\ Present(m, dest)
    BY DEF MayMove, Shape, Rooted, DirOK
  <1>2. SameDir(m, m1, dir)
    BY <1>1, AddedSame
  <1> QED
    BY <1>1, <1>2, FoundIs

-----------------------------------------------------------------------------
(* The tree a user sees is the tree of the invariant.                      *)

\* The entries of a directory, by their numbers.
LEMMA EntriesAre ==
  ASSUME Typed, NEW T, Shape(Now, T), NEW d \in T, ino[d].type = "Directory"
  PROVE  /\ d \in INodes /\ IsDirectory(d) /\ DirOK(Now, T, d)
         /\ Positions(Now, d) = 0 .. ino[d].fileSize - 1
  <1> DEFINE m == Now
  <1>1. m \in Machines /\ m.ino = ino
    BY NowIs
  <1> HIDE DEF m
  <1>2. Shape(m, T)
    BY DEF m
  <1>3. d \in INodes /\ DirOK(m, T, d) /\ Present(m, d) /\ ino[d].isUsed
    BY <1>1, <1>2 DEF Shape, Rooted, DirOK
  <1>4. Positions(m, d) = 0 .. ino[d].fileSize - 1
    BY <1>1, <1>3, PresentIs
  <1> QED
    BY <1>3, <1>4 DEF IsDirectory, m

\* The children of a directory are the inodes whose parent it is.
LEMMA ChildrenAre ==
  ASSUME Typed, NEW T, Shape(Now, T), NEW d \in T, ino[d].type = "Directory"
  PROVE  Children(d) = {c \in T \ {0} : ino[c].parentINode = d}
  <1> DEFINE m == Now
             fs == ino[d].fileSize
  <1>1. m.ino = ino
    BY NowIs
  <1>2. DirOK(m, T, d) /\ Positions(m, d) = 0 .. fs - 1
    BY EntriesAre
  <1>3. Listed(m, T)
    BY DEF Shape
  <1>4. Children(d) = {EntryAt(m, d, p).inodeNumber :
                         p \in {x \in Positions(m, d) : EntryAt(m, d, x).name \notin Dots}}
    BY DEF Children, EntriesOf
  <1> HIDE DEF m
  <1>5. ASSUME NEW c \in Children(d) PROVE c \in T \ {0} /\ ino[c].parentINode = d
    <2>1. PICK p \in 0 .. fs - 1 : EntryAt(m, d, p).name \notin Dots /\ c = EntryAt(m, d, p).inodeNumber
      BY <1>2, <1>4
    <2> QED
      BY <1>1, <1>2, <2>1 DEF DirOK, NamesChildren
  <1>6. ASSUME NEW c \in T \ {0}, ino[c].parentINode = d PROVE c \in Children(d)
    <2>1. ListedIn(m, c, d)
      BY <1>1, <1>3, <1>6 DEF Listed
    <2>2. PICK p \in 0 .. fs - 1 : EntryAt(m, d, p).name \notin Dots /\ EntryAt(m, d, p).inodeNumber = c
      BY <1>1, <2>1 DEF ListedIn
    <2> QED
      BY <1>2, <1>4, <2>2
  <1> QED
    BY <1>5, <1>6

\* Level by level the whole tree is reached, and nothing else.
LEMMA TreeIs ==
  ASSUME Typed, NEW T, Shape(Now, T)
  PROVE  Tree = T
  <1> DEFINE n == MAX_FILES
             L == Levels
  <1>1. n \in Nat /\ n \in 0 .. n /\ 0 \in 0 .. n
    BY GeometryAssumption
  <1>2. L = [k \in 0 .. n |-> IF k = 0 THEN {0} ELSE Below(L[k - 1])]
    <2>1. L = Levels
      OBVIOUS
    <2> HIDE DEF L
    <2> QED
      BY <2>1, LevelsIs
  <1>3. Tree = L[n]
    BY DEF Tree
  <1> HIDE DEF L
  <1>4. L[0] = {0} /\ \A k \in 1 .. n : L[k] = Below(L[k - 1])
    <2>1. L[0] = {0}
      BY <1>1, <1>2
    <2>2. ASSUME NEW k \in 1 .. n PROVE L[k] = Below(L[k - 1])
      <3>1. k \in 0 .. n /\ k # 0
        BY <1>1
      <3> QED
        BY <1>2, <3>1
    <2> QED
      BY <2>1, <2>2
  <1>t. /\ T \subseteq INodes /\ 0 \in T /\ ino \in Tables /\ Acyclic(ino)
        /\ \A x \in T : /\ ino[x].parentINode \in T /\ ino[ino[x].parentINode].type = "Directory"
                        /\ ino[x].isUsed
    <2>1. Now.ino = ino
      BY NowIs
    <2> QED
      BY <2>1, TreeClosed DEF Shape, Rooted, Typed
  <1> HIDE DEF n
  <1>5. L[n] \subseteq T
    <2> DEFINE S == {k \in 0 .. n : L[k] \subseteq T}
    <2>1. 0 \in S
      BY <1>1, <1>4, <1>t
    <2>2. ASSUME NEW k \in 1 .. n, k - 1 \in S PROVE k \in S
      <3>1. L[k - 1] \subseteq T
        BY <2>2
      <3>2. ASSUME NEW d \in L[k - 1], IsDirectory(d) PROVE Children(d) \subseteq T
        BY <3>1, <3>2, ChildrenAre DEF IsDirectory
      <3>3. Below(L[k - 1]) \subseteq T
        BY <3>1, <3>2 DEF Below
      <3> QED
        BY <1>1, <1>4, <3>3
    <2> HIDE DEF S
    <2>3. 0 .. n \subseteq S
      BY <1>1, <2>1, <2>2, Induction
    <2> QED
      BY <1>1, <2>3 DEF S
  <1>6. ASSUME NEW x \in T PROVE x \in L[n]
    <2> DEFINE w == WayUp(ino, x)
    <2>1. /\ w \in [0 .. n -> INodes] /\ w[n] = 0
          /\ w = [k \in 0 .. n |-> IF k = 0 THEN x ELSE IF w[k - 1] = 0 THEN 0
                                                   ELSE ino[w[k - 1]].parentINode]
      <3>1. w = WayUp(ino, x) /\ x \in INodes
        BY <1>t
      <3> HIDE DEF w
      <3> QED
        BY <1>t, <3>1, WayUpIs, RootReached DEF n
    <2> HIDE DEF w
    <2>2. w[0] = x /\ \A k \in 1 .. n : w[k] = IF w[k - 1] = 0 THEN 0 ELSE ino[w[k - 1]].parentINode
      <3>1. w[0] = x
        BY <1>1, <2>1
      <3>2. ASSUME NEW k \in 1 .. n
            PROVE  w[k] = IF w[k - 1] = 0 THEN 0 ELSE ino[w[k - 1]].parentINode
        <4>1. k \in 0 .. n /\ k # 0
          BY <1>1
        <4> QED
          BY <2>1, <4>1
      <3> QED
        BY <3>1, <3>2
    <2>3. \A k \in 0 .. n : w[k] \in T
      <3> DEFINE S == {k \in 0 .. n : w[k] \in T}
      <3>1. 0 \in S
        BY <1>1, <1>6, <2>2
      <3>2. ASSUME NEW k \in 1 .. n, k - 1 \in S PROVE k \in S
        BY <1>1, <1>t, <2>2, <3>2
      <3> HIDE DEF S
      <3>3. 0 .. n \subseteq S
        BY <1>1, <3>1, <3>2, Induction
      <3> QED
        BY <3>3 DEF S
    <2> DEFINE R == {j \in 0 .. n : w[n - j] \in L[j]}
    <2>4. 0 \in R
      BY <1>1, <1>4, <2>1
    <2>5. ASSUME NEW j \in 1 .. n, j - 1 \in R PROVE j \in R
      <3> DEFINE c == w[n - j]
                 d == w[n - (j - 1)]
      <3>1. n - j \in 0 .. n /\ n - (j - 1) \in 1 .. n /\ (n - (j - 1)) - 1 = n - j
        BY <1>1
      <3>2. c \in T /\ d \in L[j - 1] /\ d = IF c = 0 THEN 0 ELSE ino[c].parentINode
        BY <2>2, <2>3, <2>5, <3>1
      <3> HIDE DEF c, d
      <3>3. c \in Below(L[j - 1])
        <4>1. CASE c = 0
          BY <3>2, <4>1 DEF Below
        <4>2. CASE c # 0
          <5>1. d \in T /\ ino[d].type = "Directory" /\ ino[d].isUsed /\ ino[c].parentINode = d
            BY <1>t, <3>2, <4>2
          <5>2. c \in Children(d)
            BY <3>2, <4>2, <5>1, ChildrenAre
          <5> QED
            BY <3>2, <5>1, <5>2 DEF Below, IsDirectory
        <4> QED
          BY <4>1, <4>2
      <3> QED
        BY <1>1, <1>4, <3>3 DEF c
    <2> HIDE DEF R
    <2>6. 0 .. n \subseteq R
      BY <1>1, <2>4, <2>5, Induction
    <2>7. w[n - n] \in L[n] /\ n - n = 0
      BY <1>1, <2>6 DEF R
    <2> QED
      BY <2>2, <2>7
  <1> QED
    BY <1>3, <1>5, <1>6

-----------------------------------------------------------------------------
(* The root directory.                                                     *)

\* createSuperBlock makes the tree that has only the root.
LEMMA ShapeFormatted ==
  ASSUME NEW d \in Disks, NEW r, r = createSuperBlock(d), ~ r.fault
  PROVE  Shape(r, {0}) /\ r.ino[0].type = "Directory"
  <1>1. PICK m \in Machines : Formatted(m)
          /\ createSuperBlock(d) = makeDots(createFile(m, 0, "root", "Directory"), 0, 0)
    BY FormatStarts
  <1> DEFINE m2 == createFile(m, 0, "root", "Directory")
  <1>m2. m2 = createFile(m, 0, "root", "Directory")
    OBVIOUS
  <1>r. r = makeDots(m2, 0, 0)
    BY <1>1
  <1> HIDE DEF m2
  <1>2. 0 \in INodes /\ "root" \in NameSet /\ "Directory" \in Types
    BY Ranges DEF NameSet, Types
  <1>t. \A j \in INodes : /\ m.ino[j].parentINode = 0 /\ ~ m.ino[j].isUsed
                          /\ m.ino[j].fileSize = 0
                          /\ \A x \in FileBlocks : m.ino[j].blocks[x] = 0
    <2>1. \A j \in INodes : m.ino[j] = ZeroINode
      BY <1>1 DEF Formatted, EmptyDisk
    <2> QED
      BY <2>1 DEF ZeroINode
  <1>b. m.bm = Meta /\ m.bm # Blocks
    <2>1. META_BLOCKS \in Blocks /\ META_BLOCKS \notin Meta
      BY GeometryAssumption DEF Meta, Blocks
    <2> QED
      BY <1>1, <2>1 DEF Formatted
  <1>3. findFile(m, 0, "root") = NONE
    <2>1. 0 .. m.ino[0].fileSize - 1 = {}
      BY <1>2, <1>t
    <2>2. Matches(m, 0, "root") = {}
      BY <2>1 DEF Matches, Positions
    <2> QED
      BY <1>2, <2>2, FindDoes
  <1>4. m2 \in Machines /\ r \in Machines /\ ~ m2.fault /\ (m2.fault <=> m.fault)
    <2>1. m2 \in Machines
      BY <1>2, <1>m2, CreateDoes DEF Keeps
    <2>2. Keeps(m2, r) /\ (m2.fault => r.fault)
      BY <1>2, <1>r, <2>1, DotsDo
    <2>3. m.fault => m2.fault
      BY <1>2, <1>m2, CreateDoes
    <2> QED
      BY <2>1, <2>2, <2>3, Fields DEF Keeps
  <1>5. m2.ok /\ Created(m, m2, 0, "root", "Directory") /\ Steady(m2)
    <2>1. {i \in INodes : ~ m.ino[i].isUsed} # {}
      BY <1>2, <1>t
    <2>2. ~ m.ino[0].fileSize >= MAX_BLOCKS_PER_FILE * ENTRIES_PER_BLOCK
      <3>1. \A x, y \in Nat \ {0} : x * y > 0
        OBVIOUS
      <3>2. MAX_BLOCKS_PER_FILE * ENTRIES_PER_BLOCK > 0
        BY <3>1, GeometryAssumption
      <3> QED
        BY <1>2, <1>t, <3>2, GeometryAssumption
    <2>3. ~ m2.ok => \/ m2.fault \/ m.bm = Blocks \/ findFile(m, 0, "root") # NONE
                     \/ {i \in INodes : ~ m.ino[i].isUsed} = {}
                     \/ m.ino[0].fileSize >= MAX_BLOCKS_PER_FILE * ENTRIES_PER_BLOCK
      BY <1>2, <1>m2, CreateDoes
    <2>4. m2.ok
      BY <1>3, <1>4, <1>b, <2>1, <2>2, <2>3
    <2>5. Created(m, m2, 0, "root", "Directory")
      BY <1>2, <1>m2, <2>4, CreateDoes
    <2>6. Keeps(m, m2)
      BY <1>2, <1>m2, CreateDoes
    <2> QED
      BY <1>1, <2>4, <2>5, <2>6 DEF Keeps, Formatted
  <1>6. m2.ret = 0
    <2> DEFINE S == {i \in INodes : ~ m.ino[i].isUsed}
    <2>1. 0 \in S /\ S \in SUBSET Nat
      BY <1>2, <1>t, Ranges
    <2>2. m2.ret = Min(S)
      BY <1>5 DEF Created
    <2> HIDE DEF S
    <2>3. Min(S) \in Nat /\ Min(S) <= 0
      BY <2>1, MinIs
    <2>4. \A x \in Nat : x <= 0 => x = 0
      OBVIOUS
    <2> QED
      BY <2>2, <2>3, <2>4
  <1>7. PICK m1 \in Machines :
          /\ m1.bm = m.bm /\ SameElse(m1.ino, m.ino, 0)
          /\ m1.ino[0].isUsed /\ m1.ino[0].type = "Directory" /\ m1.ino[0].parentINode = 0
          /\ Added(m1, m2, 0, 0, "root")
    BY <1>5, <1>6 DEF Created
  <1>8. m2.bm # Blocks
    <2>1. PICK at : m2.bm \subseteq m.bm \cup {at}
      BY <1>7 DEF Added
    <2>2. /\ META_BLOCKS \in Blocks \ Meta /\ META_BLOCKS + 1 \in Blocks \ Meta
          /\ META_BLOCKS # META_BLOCKS + 1
      BY GeometryAssumption DEF Meta, Blocks
    <2> QED
      BY <1>b, <2>1, <2>2
  <1>9. Dotted(m2, r, 0, 0)
    <2>1. ~ r.ok => r.fault \/ m2.bm = Blocks
      BY <1>2, <1>4, <1>r, DotsDo
    <2>2. r.ok
      BY <1>8, <2>1
    <2> QED
      BY <1>2, <1>4, <1>r, <2>2, DotsDo
  <1>10. /\ r.ino[0].fileSize = 2 /\ Present(r, 0)
         /\ EntryAt(r, 0, 0) = Entry(0, ".") /\ EntryAt(r, 0, 1) = Entry(0, "..")
    BY <1>2, <1>4, <1>5, <1>9, DottedGot
  <1>11. /\ r.ino[0].type = "Directory" /\ r.ino[0].parentINode = 0 /\ r.ino[0].isUsed
         /\ \A j \in INodes \ {0} : /\ r.ino[j].parentINode = 0
                                    /\ \A x \in FileBlocks : r.ino[j].blocks[x] = 0
    <2>1. \A j \in INodes : /\ m2.ino[j].type = m1.ino[j].type
                            /\ m2.ino[j].isUsed = m1.ino[j].isUsed
                            /\ m2.ino[j].parentINode = m1.ino[j].parentINode
      BY <1>7 DEF Added
    <2>2. \A j \in INodes : /\ r.ino[j].type = m2.ino[j].type
                            /\ r.ino[j].isUsed = m2.ino[j].isUsed
                            /\ r.ino[j].parentINode = IF j = 0 THEN 0 ELSE m2.ino[j].parentINode
      BY <1>9 DEF Dotted
    <2>3. \A j \in INodes \ {0}, x \in FileBlocks : m2.ino[j].blocks[x] = m1.ino[j].blocks[x]
      BY <1>7 DEF Added, Takes
    <2>4. \A j \in INodes \ {0}, x \in FileBlocks : r.ino[j].blocks[x] = m2.ino[j].blocks[x]
      BY <1>9 DEF Dotted, Takes
    <2>5. \A j \in INodes \ {0} : m1.ino[j] = m.ino[j]
      BY <1>7 DEF SameElse
    <2> QED
      BY <1>2, <1>7, <1>t, <2>1, <2>2, <2>3, <2>4, <2>5
  <1>12. DirOK(r, {0}, 0)
    <2>1. \A p \in 0 .. r.ino[0].fileSize - 1 : p = 0 \/ p = 1
      BY <1>10
    <2>2. /\ EntryAt(r, 0, 0).name = "." /\ EntryAt(r, 0, 1).name = ".."
          /\ EntryAt(r, 0, 0).name \in Dots /\ EntryAt(r, 0, 1).name \in Dots
      BY <1>10 DEF Entry, Dots
    <2>3. NamesDiffer(r, 0)
      BY <2>1, <2>2 DEF NamesDiffer
    <2>4. NumbersDiffer(r, 0) /\ NamesChildren(r, {0}, 0)
      BY <2>1, <2>2 DEF NumbersDiffer, NamesChildren
    <2>5. DotsInPlace(r, 0)
      BY <1>10, <1>11, <2>1 DEF DotsInPlace
    <2> QED
      BY <1>10, <2>3, <2>4, <2>5 DEF DirOK
  <1>13. Acyclic(r.ino)
    BY <1>11 DEF Acyclic
  <1>14. Clear(r.ino)
    BY <1>11 DEF Clear
  <1>15. Rooted(r, {0}) /\ Listed(r, {0})
    BY <1>11, <1>2 DEF Rooted, Listed
  <1> QED
    BY <1>11, <1>12, <1>13, <1>14, <1>15 DEF Shape

-----------------------------------------------------------------------------
(* What a file holds.                                                      *)

\* Inode j keeps its blocks and what is in them.
SameBytes(m, r, j) ==
  /\ r.ino[j].blocks = m.ino[j].blocks
  /\ \A y \in FileBlocks :
       m.ino[j].blocks[y] # 0 =>
         r.disk.data[m.ino[j].blocks[y]] = m.disk.data[m.ino[j].blocks[y]]

\* The blocks of an inode that is changed nowhere but in blocks that are not its own.
LEMMA BytesStay ==
  ASSUME NEW m \in Machines, NEW r \in Machines, NEW j \in INodes, NEW B,
         \A y \in FileBlocks : m.ino[j].blocks[y] # 0 => m.ino[j].blocks[y] \notin B,
         \A y \in FileBlocks : r.ino[j].blocks[y] = m.ino[j].blocks[y],
         \A x \in Blocks, s \in Slots : x \notin B => r.disk.data[x][s] = m.disk.data[x][s]
  PROVE  SameBytes(m, r, j)
  <1>1. m.disk.data \in DataSet /\ r.disk.data \in DataSet /\ m.ino \in Tables /\ r.ino \in Tables
    BY Fields
  <1>2. m.ino[j].blocks \in [FileBlocks -> Blocks] /\ r.ino[j].blocks \in [FileBlocks -> Blocks]
    BY <1>1, INodeFields
  <1>3. r.ino[j].blocks = m.ino[j].blocks
    <2> DEFINE f == m.ino[j].blocks
               g == r.ino[j].blocks
    <2>1. f \in [FileBlocks -> Blocks] /\ g \in [FileBlocks -> Blocks]
          /\ \A y \in FileBlocks : g[y] = f[y]
      BY <1>2
    <2> HIDE DEF f, g
    <2>2. g = f
      BY <2>1
    <2> QED
      BY <2>2 DEF f, g
  <1>4. ASSUME NEW x \in Blocks, x \notin B PROVE r.disk.data[x] = m.disk.data[x]
    <2> DEFINE f == m.disk.data[x]
               g == r.disk.data[x]
    <2>1. f \in BlockSet /\ g \in BlockSet /\ \A s \in Slots : g[s] = f[s]
      BY <1>1, <1>4 DEF DataSet
    <2> HIDE DEF f, g
    <2>2. g = f
      BY <2>1 DEF BlockSet
    <2> QED
      BY <2>2 DEF f, g
  <1>5. ASSUME NEW y \in FileBlocks, m.ino[j].blocks[y] # 0
        PROVE  r.disk.data[m.ino[j].blocks[y]] = m.disk.data[m.ino[j].blocks[y]]
    <2>1. m.ino[j].blocks[y] \in Blocks /\ m.ino[j].blocks[y] \notin B
      BY <1>2, <1>5
    <2> QED
      BY <1>4, <2>1
  <1> QED
    BY <1>3, <1>5 DEF SameBytes

\* Kept, then kept.
LEMMA BytesOn ==
  ASSUME NEW m, NEW r, NEW s, NEW j, SameBytes(m, r, j), SameBytes(r, s, j)
  PROVE  SameBytes(m, s, j)
  BY DEF SameBytes

\* An entry added to a directory.
LEMMA AddedBytes ==
  ASSUME NEW m \in Machines, NEW r \in Machines, Steady(m), NEW dir \in INodes,
         NEW inode, NEW name, Added(m, r, dir, inode, name), NEW j \in INodes, j # dir
  PROVE  SameBytes(m, r, j)
  <1> DEFINE fs == m.ino[dir].fileSize
  <1>1. fs < MAX_BLOCKS_PER_FILE * ENTRIES_PER_BLOCK
    BY DEF Added
  <1>2. PICK at \in Blocks :
           /\ IF SlotOf(fs) = 0 THEN at \notin m.bm ELSE at = m.ino[dir].blocks[BlockOf(fs)]
           /\ Takes(r.ino, m.ino, dir, BlockOf(fs), at)
           /\ \A x \in Blocks, s \in Slots :
                r.disk.data[x][s] = IF x # at THEN m.disk.data[x][s]
                                    ELSE IF s = SlotOf(fs) THEN Entry(inode, name)
                                    ELSE IF SlotOf(fs) = 0 THEN ZeroEntry
                                    ELSE m.disk.data[x][s]
    BY DEF Added
  <1>3. fs \in Nat
    BY Fields, INodeFields
  <1>4. BlockOf(fs) \in FileBlocks
    BY <1>1, <1>3, PlaceInFile
  <1> HIDE DEF fs
  <1>5. Behind(m.ino, m.bm) /\ Apart(m.ino, m.ino)
    BY DEF Steady
  <1>6. \A y \in FileBlocks : m.ino[j].blocks[y] # 0 => m.ino[j].blocks[y] \notin {at}
    BY <1>2, <1>4, <1>5 DEF Behind, Apart
  <1>7. \A y \in FileBlocks : r.ino[j].blocks[y] = m.ino[j].blocks[y]
    BY <1>2 DEF Takes
  <1>8. \A x \in Blocks, s \in Slots : x \notin {at} => r.disk.data[x][s] = m.disk.data[x][s]
    BY <1>2
  <1> QED
    BY <1>6, <1>7, <1>8, BytesStay

\* An entry removed from a directory.
LEMMA RemovedBytes ==
  ASSUME NEW m \in Machines, NEW r \in Machines, Apart(m.ino, m.ino), NEW dir \in INodes,
         NEW name, Removed(m, r, dir, name), NEW j \in INodes, j # dir
  PROVE  SameBytes(m, r, j)
  <1> DEFINE i    == Min(Matches(m, dir, name))
             last == m.ino[dir].fileSize - 1
             hole == m.ino[dir].blocks[BlockOf(i)]
             tail == m.ino[dir].blocks[BlockOf(last)]
  <1>1. \A x \in Blocks, s \in Slots : x \notin {hole, tail} => r.disk.data[x][s] = m.disk.data[x][s]
    BY DEF Removed
  <1>2. i \in Positions(m, dir)
    BY FindDoes DEF Removed
  <1>3. BlockOf(i) \in FileBlocks /\ i \in 0 .. m.ino[dir].fileSize - 1
    BY <1>2 DEF Positions
  <1>4. last \in 0 .. m.ino[dir].fileSize - 1
    BY <1>3, Fields, INodeFields
  <1>5. BlockOf(last) \in FileBlocks
    BY <1>4, Located
  <1> HIDE DEF i, last
  <1>6. \A y \in FileBlocks : m.ino[j].blocks[y] # 0 => m.ino[j].blocks[y] \notin {hole, tail}
    BY <1>3, <1>5 DEF Apart
  <1>7. \A y \in FileBlocks : r.ino[j].blocks[y] = m.ino[j].blocks[y]
    BY DEF Removed
  <1> HIDE DEF hole, tail
  <1> QED
    BY <1>1, <1>6, <1>7, BytesStay

\* "." and ".." made in a directory.
LEMMA DottedBytes ==
  ASSUME NEW m \in Machines, NEW r \in Machines, Steady(m), NEW i \in INodes, NEW up,
         Dotted(m, r, i, up), NEW j \in INodes, j # i
  PROVE  SameBytes(m, r, j)
  <1>1. PICK v \in Blocks \ m.bm :
          /\ Takes(r.ino, m.ino, i, 0, v)
          /\ \A x \in Blocks, s \in Slots :
               r.disk.data[x][s] = IF x # v THEN m.disk.data[x][s]
                                   ELSE IF s = 0 THEN Entry(i, ".")
                                   ELSE IF s = 1 THEN Entry(up, "..") ELSE ZeroEntry
    BY DEF Dotted
  <1>2. Behind(m.ino, m.bm)
    BY DEF Steady
  <1>3. \A y \in FileBlocks : m.ino[j].blocks[y] # 0 => m.ino[j].blocks[y] \notin {v}
    BY <1>2 DEF Behind
  <1>4. \A y \in FileBlocks : r.ino[j].blocks[y] = m.ino[j].blocks[y]
    BY <1>1 DEF Takes
  <1>5. \A x \in Blocks, s \in Slots : x \notin {v} => r.disk.data[x][s] = m.disk.data[x][s]
    BY <1>1
  <1> QED
    BY <1>3, <1>4, <1>5, BytesStay

\* A write to another file.
LEMMA WrittenBytes ==
  ASSUME NEW m \in Machines, NEW r \in Machines, Steady(m), NEW i \in INodes, FileOnly(m, r, i),
         NEW j \in INodes, j # i
  PROVE  SameBytes(m, r, j) /\ r.ino[j] = m.ino[j]
  <1>1. r.ino[j] = m.ino[j]
    BY DEF FileOnly, SameElse
  <1>2. Behind(m.ino, m.bm) /\ Apart(m.ino, m.ino) /\ m.ino[j].blocks \in [FileBlocks -> Blocks]
    BY Fields, INodeFields DEF Steady
  <1>3. ASSUME NEW y \in FileBlocks, m.ino[j].blocks[y] # 0
        PROVE  r.disk.data[m.ino[j].blocks[y]] = m.disk.data[m.ino[j].blocks[y]]
    <2> DEFINE x == m.ino[j].blocks[y]
    <2>1. x \in Blocks /\ x \in m.bm
      BY <1>2, <1>3 DEF Behind
    <2>2. \A z \in FileBlocks : ~ (m.ino[i].blocks[z] # 0 /\ x = m.ino[i].blocks[z])
      BY <1>2 DEF Apart
    <2> HIDE DEF x
    <2>3. r.disk.data[x] = m.disk.data[x]
      BY <2>1, <2>2 DEF FileOnly
    <2> QED
      BY <2>3 DEF x
  <1> QED
    BY <1>1, <1>3 DEF SameBytes

\* Another inode gets another parent.
LEMMA ReparentedBytes ==
  ASSUME NEW m \in Machines, NEW q \in Machines, NEW r \in Machines, Apart(m.ino, m.ino),
         NEW i \in INodes, NEW dest \in INodes,
         Reparented(m, q, i, dest), q.disk = m.disk, r.ino = q.ino,
         NEW rewritten \in BOOLEAN, NEW b, b = m.ino[i].blocks[0], rewritten => b # 0,
         UpRewritten(q, r, rewritten, b, dest), NEW j \in INodes, j # i \/ ~ rewritten
  PROVE  SameBytes(m, r, j)
  <1>1. r.ino[j].blocks = m.ino[j].blocks
    BY DEF Reparented, SameElse
  <1>2. \A y \in FileBlocks : m.ino[j].blocks[y] # 0 => m.ino[j].blocks[y] \notin (IF rewritten THEN {b} ELSE {})
    BY Ranges DEF Apart
  <1>3. \A x \in Blocks, s \in Slots :
          x \notin (IF rewritten THEN {b} ELSE {}) => r.disk.data[x][s] = m.disk.data[x][s]
    BY DEF UpRewritten
  <1> DEFINE B == IF rewritten THEN {b} ELSE {}
  <1>4. /\ \A y \in FileBlocks : m.ino[j].blocks[y] # 0 => m.ino[j].blocks[y] \notin B
        /\ \A y \in FileBlocks : r.ino[j].blocks[y] = m.ino[j].blocks[y]
        /\ \A x \in Blocks, s \in Slots : x \notin B => r.disk.data[x][s] = m.disk.data[x][s]
    BY <1>1, <1>2, <1>3
  <1> HIDE DEF B
  <1> QED
    BY <1>4, BytesStay

-----------------------------------------------------------------------------
(* What a call does to the tree and to the files in it.                    *)

\* An inode is given up, or there was no free block.
Releases(m, r) ==
  (\E k \in INodes : m.ino[k].isUsed /\ ~ r.ino[k].isUsed) \/ m.bm = Blocks

\* e is the one entry of directory dir that the call is about: what leaves the
\* tree is below it, and no other file has changed.
About(m, r, T, U, dir, e) ==
  /\ e = NONE \/ (e \in T \ {0} /\ m.ino[e].parentINode = dir)
  /\ \A j \in T \ U : e \in Ancestors(m.ino, j) /\ Releases(m, r)
  /\ \/ U = T /\ e # NONE /\ FileOnly(m, r, e)
     \/ \A j \in T \cap U : m.ino[j].type = "File" => SameBytes(m, r, j)

Kept(m, r, T, U, dir) == \E e \in INodes \cup {NONE} : About(m, r, T, U, dir, e)

\* Nothing leaves the tree, and no file changes.
LEMMA AllKept ==
  ASSUME NEW m, NEW r, NEW T, NEW U, T \subseteq U, NEW dir,
         \A j \in T : m.ino[j].type = "File" => SameBytes(m, r, j)
  PROVE  Kept(m, r, T, U, dir)
  <1>1. About(m, r, T, U, dir, NONE)
    BY DEF About
  <1> QED
    BY <1>1 DEF Kept

Outcome(m, r, T, dir) ==
  \E U \in SUBSET INodes : /\ Shape(r, U) /\ dir \in U /\ r.ino[dir].type = "Directory"
                           /\ Kept(m, r, T, U, dir)

\* What the tree without i does not have is below i.
LEMMA WithoutAncestors ==
  ASSUME NEW m \in Machines, NEW T, Shape(m, T), NEW i \in T \ {0},
         NEW j \in T, j \notin Without(m, T, i)
  PROVE  i \in Ancestors(m.ino, j)
  <1> DEFINE t == m.ino
             A == Ancestors(t, j)
  <1>1. t \in Tables /\ Acyclic(t) /\ j \in INodes /\ A = Ancestors(t, j)
    BY Fields DEF Shape, Rooted
  <1> HIDE DEF t, A
  <1>2. j \in A /\ \A x \in A \ {0} : t[x].parentINode \in A
    BY <1>1, AncestorsClosed
  <1>3. \A x \in T : t[x].parentINode \in T
    BY TreeClosed DEF t
  <1> SUFFICES ASSUME i \notin A PROVE FALSE
    BY DEF A, t
  <1> DEFINE C == A \cap T
  <1>4. C \in SUBSET (T \ {i}) /\ j \in C /\ \A y \in C \ {0} : t[y].parentINode \in C
    BY <1>2, <1>3
  <1> HIDE DEF C
  <1>5. j \in Without(m, T, i)
    BY <1>4 DEF Without, t
  <1> QED
    BY <1>5

\* Nothing has changed.
LEMMA SameOutcome ==
  ASSUME NEW m \in Machines, NEW r, NEW T, Shape(m, T), NEW dir \in T,
         m.ino[dir].type = "Directory", r.ino = m.ino, r.disk.data = m.disk.data
  PROVE  Outcome(m, r, T, dir)
  <1>1. Shape(r, T)
    BY ShapeUnchanged
  <1>2. Kept(m, r, T, T, dir)
    <2>1. \A j \in T : SameBytes(m, r, j)
      BY DEF SameBytes
    <2> QED
      BY <2>1, AllKept
  <1>3. T \in SUBSET INodes
    BY DEF Shape, Rooted
  <1> QED
    BY <1>1, <1>2, <1>3 DEF Outcome

\* createFile has made nothing.
LEMMA NotCreatedOutcome ==
  ASSUME NEW m \in Machines, NEW r, NEW T, Shape(m, T), NEW dir \in T,
         m.ino[dir].type = "Directory", NotCreated(m, r, dir)
  PROVE  Outcome(m, r, T, dir)
  <1>1. Shape(r, T)
    BY ShapeNotCreated
  <1>2. T \in SUBSET INodes /\ m.ino[dir].isUsed
    BY DEF Shape, Rooted
  <1>3. Kept(m, r, T, T, dir)
    <2>1. \A j \in T : SameBytes(m, r, j)
      BY <1>2 DEF SameBytes, NotCreated
    <2> QED
      BY <2>1, AllKept
  <1>4. r.ino[dir].type = "Directory"
    BY <1>2 DEF NotCreated
  <1> QED
    BY <1>1, <1>2, <1>3, <1>4 DEF Outcome

\* createFile has made an inode: the files that were there are as they were.
LEMMA CreatedBytes ==
  ASSUME NEW m \in Machines, NEW r \in Machines, Steady(m), NEW dir \in INodes,
         NEW name, NEW type, Created(m, r, dir, name, type),
         NEW j \in INodes, m.ino[j].isUsed, j # dir
  PROVE  SameBytes(m, r, j)
  <1>1. PICK m1 \in Machines :
          /\ m1.bm = m.bm /\ m1.disk = m.disk
          /\ SameElse(m1.ino, m.ino, r.ret)
          /\ m1.ino[r.ret].blocks = m.ino[r.ret].blocks
          /\ Added(m1, r, dir, r.ret, name)
    BY DEF Created
  <1>2. SameBlocks(m1.ino, m.ino)
    BY <1>1 DEF SameBlocks, SameElse
  <1>3. Steady(m1)
    BY <1>1, <1>2 DEF Steady, Behind, Apart, SameBlocks
  <1> DEFINE i == r.ret
  <1>4. Added(m1, r, dir, i, name)
    BY <1>1
  <1> HIDE DEF i
  <1>5. SameBytes(m1, r, j)
    BY <1>3, <1>4, AddedBytes
  <1>6. SameBytes(m, m1, j)
    BY <1>1, <1>2 DEF SameBytes, SameBlocks
  <1> QED
    BY <1>5, <1>6, BytesOn

\* The tree has one inode more.
LEMMA CreatedOutcome ==
  ASSUME NEW m \in Machines, NEW r \in Machines, Steady(m), NEW T, Shape(m, T), NEW dir \in T,
         m.ino[dir].type = "Directory", NEW name, name \notin Dots, NEW type \in Types,
         Created(m, r, dir, name, type)
  PROVE  Outcome(m, r, T, dir)
  <1> DEFINE U == T \cup {r.ret}
  <1>1. Shape(r, U) /\ r.ino[dir].type = "Directory"
    BY ShapeCreated
  <1>2. T \in SUBSET INodes /\ dir \in INodes /\ \A j \in T : m.ino[j].isUsed
    BY DEF Shape, Rooted
  <1>3. \A j \in T : m.ino[j].type = "File" => SameBytes(m, r, j)
    BY <1>2, CreatedBytes
  <1>4. T \subseteq U /\ Kept(m, r, T, U, dir)
    BY <1>3, AllKept
  <1>5. U \in SUBSET INodes /\ dir \in U
    BY <1>1 DEF Shape, Rooted
  <1> HIDE DEF U
  <1> QED
    BY <1>1, <1>4, <1>5 DEF Outcome

\* createFile
LEMMA CreateOutcome ==
  ASSUME NEW m \in Machines, Steady(m), NEW T, Shape(m, T), NEW dir \in T,
         m.ino[dir].type = "Directory", NEW name \in NameSet, name \notin Dots,
         NEW r, r = createFile(m, dir, name, "File"), ~ r.fault
  PROVE  Outcome(m, r, T, dir)
  <1>1. dir \in INodes /\ "File" \in Types
    BY DEF Shape, Rooted, Types
  <1>2. /\ r \in Machines
        /\ r.ok => Created(m, r, dir, name, "File")
        /\ ~ r.ok => NotCreated(m, r, dir)
    BY <1>1, CreateDoes DEF Keeps
  <1>3. r.ok \in BOOLEAN
    BY <1>2, Fields
  <1>4. CASE r.ok
    BY <1>1, <1>2, <1>4, CreatedOutcome
  <1>5. CASE ~ r.ok
    BY <1>2, <1>5, NotCreatedOutcome
  <1> QED
    BY <1>4, <1>5

\* createDir
LEMMA CreateDirOutcome ==
  ASSUME NEW m \in Machines, Steady(m), NEW T, Shape(m, T), NEW dir \in T,
         m.ino[dir].type = "Directory", NEW name \in NameSet, name \notin Dots,
         NEW r, r = createDir(m, dir, name), ~ r.fault
  PROVE  Outcome(m, r, T, dir)
  <1>1. dir \in INodes /\ "Directory" \in Types /\ T \in SUBSET INodes
        /\ \A j \in T : m.ino[j].isUsed
    BY DEF Shape, Rooted, Types
  <1>2. /\ r \in Machines
        /\ NotCreated(m, r, dir) \/ DirMade(m, r, dir, name) \/ DirHalfMade(m, r, dir, name)
    BY <1>1, CreateDirDoes DEF Keeps
  <1>3. CASE NotCreated(m, r, dir)
    BY <1>3, NotCreatedOutcome
  <1>4. CASE DirHalfMade(m, r, dir, name)
    <2>1. PICK m1 \in Machines : Created(m, m1, dir, name, "Directory")
                                 /\ r.ino = m1.ino /\ r.disk = m1.disk
      BY <1>4 DEF DirHalfMade
    <2> DEFINE U == T \cup {m1.ret}
    <2>2. /\ Shape(m1, U) /\ m1.ino[dir].type = "Directory"
          /\ U \in SUBSET INodes /\ dir \in U /\ T \subseteq U
      <3>1. Shape(m1, T \cup {m1.ret}) /\ m1.ino[dir].type = "Directory"
        BY <1>1, <2>1, ShapeCreated
      <3> QED
        BY <3>1 DEF Shape, Rooted
    <2> HIDE DEF U
    <2>3. Shape(r, U)
      BY <2>1, <2>2, ShapeUnchanged
    <2>4. \A j \in T : m.ino[j].type = "File" => SameBytes(m, m1, j)
      BY <1>1, <2>1, CreatedBytes
    <2>5. \A j \in T : m.ino[j].type = "File" => SameBytes(m, r, j)
      BY <2>1, <2>4 DEF SameBytes
    <2>7. Kept(m, r, T, U, dir)
      BY <2>2, <2>5, AllKept
    <2> QED
      BY <2>1, <2>2, <2>3, <2>7 DEF Outcome
  <1>5. CASE DirMade(m, r, dir, name)
    <2>1. PICK m1 \in Machines : Keeps(m, m1) /\ Created(m, m1, dir, name, "Directory")
                                 /\ Dotted(m1, r, m1.ret, dir)
      BY <1>5 DEF DirMade
    <2>2. Steady(m1)
      BY <2>1 DEF Keeps
    <2>s. /\ Shape(m1, T \cup {m1.ret}) /\ m1.ino[dir].type = "Directory"
          /\ m1.ret \in INodes \ T
          /\ m1.ino[m1.ret].fileSize = 0 /\ m1.ino[m1.ret].parentINode = dir
          /\ m1.ino[m1.ret].type = "Directory"
      <3>1. m \in Machines /\ m1 \in Machines /\ Created(m, m1, dir, name, "Directory")
            /\ Steady(m) /\ Shape(m, T) /\ dir \in T /\ m.ino[dir].type = "Directory"
            /\ name \notin Dots /\ "Directory" \in Types
        BY <1>1, <2>1
      <3> QED
        BY ONLY <3>1, ShapeCreated
    <2> DEFINE i == m1.ret
               U == T \cup {i}
    <2>3. /\ Shape(m1, U) /\ m1.ino[dir].type = "Directory" /\ i \in INodes \ T
          /\ m1.ino[i].fileSize = 0 /\ m1.ino[i].parentINode = dir
          /\ m1.ino[i].type = "Directory" /\ i \in U
      BY <2>s
    <2>d. Dotted(m1, r, i, dir)
      BY <2>1
    <2>u. U = T \cup {i}
      OBVIOUS
    <2> HIDE DEF i, U
    <2>4. Shape(r, U) /\ \A j \in INodes : r.ino[j].type = m1.ino[j].type
      BY <1>2, <2>2, <2>3, <2>d, ShapeDotted
    <2>5. ASSUME NEW j \in T, m.ino[j].type = "File" PROVE SameBytes(m, r, j)
      <3>1. SameBytes(m, m1, j)
        BY <1>1, <2>1, <2>5, CreatedBytes
      <3>2. SameBytes(m1, r, j)
        BY <1>1, <1>2, <2>2, <2>3, <2>d, DottedBytes
      <3> QED
        BY <3>1, <3>2, BytesOn
    <2>6. Kept(m, r, T, U, dir)
      BY <2>5, <2>u, AllKept
    <2>7. U \in SUBSET INodes /\ dir \in U /\ r.ino[dir].type = "Directory"
      BY <1>1, <2>3, <2>4, <2>u
    <2> QED
      BY <2>4, <2>6, <2>7 DEF Outcome
  <1> QED
    BY <1>2, <1>3, <1>4, <1>5

\* What a name that is not a dot leads to.
LEMMA NamedIs ==
  ASSUME NEW m \in Machines, NEW T, Shape(m, T), NEW dir \in T,
         m.ino[dir].type = "Directory", NEW name, name \notin Dots,
         findFile(m, dir, name) # NONE
  PROVE  /\ findFile(m, dir, name) \in T \ {0} /\ findFile(m, dir, name) \in INodes
         /\ m.ino[findFile(m, dir, name)].parentINode = dir
  <1>1. dir \in INodes /\ DirOK(m, T, dir) /\ Present(m, dir)
    BY DEF Shape, Rooted, DirOK
  <1>2. SameDir(m, m, dir)
    BY <1>1, SameAsItself
  <1> QED
    BY <1>1, <1>2, FoundIs

\* writeFile
LEMMA WriteOutcome ==
  ASSUME NEW m \in Machines, Steady(m), NEW T, Shape(m, T), NEW dir \in T,
         m.ino[dir].type = "Directory", NEW name, name \notin Dots, NEW content \in Contents,
         NEW r, r = writeFile(m, dir, name, content)
  PROVE  Outcome(m, r, T, dir)
  <1>1. dir \in INodes /\ T \in SUBSET INodes
    BY DEF Shape, Rooted
  <1>2. /\ r \in Machines
        /\ \/ r.ino = m.ino /\ r.bm = m.bm /\ r.disk = m.disk
           \/ \E i \in INodes : m.ino[i].type = "File" /\ FileOnly(m, r, i)
                                /\ findFile(m, dir, name) = i
    BY <1>1, WriteFileDoes DEF Keeps
  <1>3. CASE r.ino = m.ino /\ r.bm = m.bm /\ r.disk = m.disk
    BY <1>3, SameOutcome
  <1>4. ASSUME NEW i \in INodes, m.ino[i].type = "File", FileOnly(m, r, i),
               findFile(m, dir, name) = i
        PROVE  Outcome(m, r, T, dir)
    <2>1. i \in T \ {0} /\ m.ino[i].parentINode = dir
      BY <1>4, NamedIs, Ranges
    <2>2. Shape(r, T)
      BY <1>2, <1>4, <2>1, ShapeWritten
    <2>3. r.ino[dir].type = "Directory"
      BY <1>1, <1>4 DEF FileOnly, SameElse
    <2>4. Kept(m, r, T, T, dir)
      <3>1. About(m, r, T, T, dir, i)
        BY <1>4, <2>1, Ranges DEF About
      <3> QED
        BY <1>4, <3>1 DEF Kept
    <2> QED
      BY <1>1, <2>2, <2>3, <2>4 DEF Outcome
  <1> QED
    BY <1>2, <1>3, <1>4

\* deleteFile
LEMMA DeleteOutcome ==
  ASSUME NEW m \in Machines, Steady(m), NEW T, Shape(m, T), NEW dir \in T,
         m.ino[dir].type = "Directory", NEW name,
         NEW r, r = deleteFile(m, dir, name), ~ r.fault
  PROVE  Outcome(m, r, T, dir)
  <1>1. dir \in INodes /\ T \in SUBSET INodes /\ Apart(m.ino, m.ino)
    BY DEF Shape, Rooted, Steady
  <1> DEFINE i == findFile(m, dir, name)
  <1>2. /\ r \in Machines
        /\ \/ r.ino = m.ino /\ r.bm = m.bm /\ r.disk = m.disk
           \/ i \in INodes \ {0} /\ name \notin Dots /\ Erased(m, r, dir, name)
    BY <1>1, DeleteDoes
  <1>i. i = findFile(m, dir, name)
    OBVIOUS
  <1> HIDE DEF i
  <1>3. CASE r.ino = m.ino /\ r.bm = m.bm /\ r.disk = m.disk
    BY <1>3, SameOutcome
  <1>4. ASSUME i \in INodes \ {0}, name \notin Dots, NEW m1 \in Machines, Unlinked(m, m1, i),
               Removed(m1, r, dir, name) \/ Matches(m1, dir, name) = {}
        PROVE  Outcome(m, r, T, dir)
    <2> DEFINE U == Without(m, T, i)
    <2>n. i # NONE
      BY <1>4, Ranges
    <2>1. /\ Shape(r, U) /\ dir \in U /\ r.ino[dir].type = "Directory"
          /\ i \in T \ {0} /\ m.ino[i].isUsed /\ ~ r.ino[i].isUsed
      BY <1>2, <1>4, <1>i, <2>n, ShapeDeleted
    <2>u. U = Without(m, T, i)
      OBVIOUS
    <2> HIDE DEF U
    <2>2. U \subseteq T \ {i}
      BY <2>1, <2>u, WithoutIs
    <2>3. /\ m.ino[i].parentINode = dir /\ Releases(m, r)
          /\ \A j \in T \ U : i \in Ancestors(m.ino, j)
      <3>1. \A j \in T \ U : i \in Ancestors(m.ino, j)
        BY <2>1, <2>u, WithoutAncestors
      <3>2. m.ino[i].parentINode = dir
        BY <1>4, <1>i, <2>n, NamedIs
      <3> QED
        BY <1>4, <2>1, <3>1, <3>2 DEF Releases
    <2>4. ASSUME NEW j \in T \cap U, m.ino[j].type = "File" PROVE SameBytes(m, r, j)
      <3>1. j \in INodes /\ j # i /\ j # dir
        BY <1>1, <2>2, <2>4
      <3>2. SameBytes(m, m1, j)
        BY <1>4, <3>1 DEF Unlinked, SameElse, SameBytes
      <3>3. findFile(m, dir, name) # NONE /\ Matches(m1, dir, name) # {}
        <4>1. DirOK(m, T, dir) /\ Present(m, dir)
          BY DEF Shape, DirOK
        <4>2. dir # i
          BY <2>1, <2>2
        <4>3. SameDir(m, m1, dir)
          BY <1>1, <1>4, <4>1, <4>2, UnlinkedSame
        <4> QED
          BY <1>1, <1>i, <2>n, <4>1, <4>3, FoundIs
      <3>4. Apart(m1.ino, m1.ino)
        <4> SUFFICES ASSUME NEW k \in INodes, NEW l \in INodes, NEW x \in FileBlocks, NEW y \in FileBlocks,
                            m1.ino[k].blocks[x] # 0, m1.ino[k].blocks[x] = m1.ino[l].blocks[y]
                     PROVE  k = l /\ x = y
          BY DEF Apart
        <4>1. k # i /\ l # i
          BY <1>4 DEF Unlinked
        <4>2. m1.ino[k] = m.ino[k] /\ m1.ino[l] = m.ino[l]
          BY <1>4, <4>1 DEF Unlinked, SameElse
        <4> QED
          BY <1>1, <4>2 DEF Apart
      <3>5. SameBytes(m1, r, j)
        BY <1>1, <1>2, <1>4, <3>1, <3>3, <3>4, RemovedBytes
      <3> QED
        BY <3>2, <3>5, BytesOn
    <2>5. Kept(m, r, T, U, dir)
      <3>1. About(m, r, T, U, dir, i)
        BY <2>1, <2>3, <2>4 DEF About
      <3> QED
        BY <1>4, <3>1 DEF Kept
    <2> QED
      BY <1>1, <2>1, <2>2, <2>5 DEF Outcome
  <1> QED
    BY <1>2, <1>3, <1>4 DEF Erased, i

\* renameFile
LEMMA RenameOutcome ==
  ASSUME NEW m \in Machines, Steady(m), NEW T, Shape(m, T), NEW dir \in T,
         m.ino[dir].type = "Directory", NEW old, old \notin Dots, NEW new \in NameSet, new \notin Dots,
         NEW r, r = renameFile(m, dir, old, new), ~ r.fault
  PROVE  Outcome(m, r, T, dir)
  <1>1. dir \in INodes /\ T \in SUBSET INodes /\ Apart(m.ino, m.ino)
    BY DEF Shape, Rooted, Steady
  <1>2. /\ r \in Machines
        /\ \/ r.ino = m.ino /\ r.bm = m.bm /\ r.disk.data = m.disk.data
           \/ findFile(m, dir, new) = NONE /\ Renamed(m, r, dir, old, new)
    BY <1>1, RenameDoes DEF Keeps
  <1>3. CASE r.ino = m.ino /\ r.bm = m.bm /\ r.disk.data = m.disk.data
    BY <1>3, SameOutcome
  <1>4. CASE findFile(m, dir, new) = NONE /\ Renamed(m, r, dir, old, new)
    <2> DEFINE i == findFile(m, dir, old)
    <2>i. i = findFile(m, dir, old)
      OBVIOUS
    <2> HIDE DEF i
    <2>1. /\ \/ Shape(r, T)
             \/ Shape(r, Without(m, T, i)) /\ dir \in Without(m, T, i) /\ m.bm = Blocks
          /\ r.ino[dir].type = "Directory" /\ i \in T \ {0} /\ m.ino[i].parentINode = dir
      BY <1>2, <1>4, <2>i, ShapeRenamed
    <2>2. ASSUME NEW j \in T, m.ino[j].type = "File" PROVE SameBytes(m, r, j)
      <3>1. PICK m1 \in Machines :
              /\ Keeps(m, m1) /\ Removed(m, m1, dir, old)
              /\ \/ r.ino = m1.ino /\ r.bm = m1.bm /\ r.disk.data = m1.disk.data
                    /\ m.bm = Blocks
                 \/ Added(m1, r, dir, i, new)
        BY <1>4 DEF Renamed, i
      <3>2. j \in INodes /\ j # dir
        BY <1>1, <2>2
      <3>3. SameBytes(m, m1, j)
        BY <1>1, <3>1, <3>2, RemovedBytes
      <3>4. Steady(m1)
        BY <3>1 DEF Keeps
      <3>5. SameBytes(m1, r, j)
        <4>1. CASE r.ino = m1.ino /\ r.disk.data = m1.disk.data
          BY <4>1 DEF SameBytes
        <4>2. CASE Added(m1, r, dir, i, new)
          BY <1>1, <1>2, <3>2, <3>4, <4>2, AddedBytes
        <4> QED
          BY <3>1, <4>1, <4>2
      <3> QED
        BY <3>3, <3>5, BytesOn
    <2>3. CASE Shape(r, T)
      <3>1. Kept(m, r, T, T, dir)
        BY <2>2, AllKept
      <3> QED
        BY <1>1, <2>1, <2>3, <3>1 DEF Outcome
    <2>4. CASE Shape(r, Without(m, T, i)) /\ dir \in Without(m, T, i) /\ m.bm = Blocks
      <3> DEFINE U == Without(m, T, i)
      <3>u. U = Without(m, T, i) /\ Shape(r, U) /\ dir \in U
        BY <2>4
      <3> HIDE DEF U
      <3>1. U \subseteq T \ {i}
        BY <2>1, <3>u, WithoutIs
      <3>2. \A j \in T \ U : i \in Ancestors(m.ino, j)
        BY <2>1, <3>u, WithoutAncestors
      <3>3. Kept(m, r, T, U, dir)
        <4>1. About(m, r, T, U, dir, i)
          BY <2>1, <2>2, <2>4, <3>2 DEF About, Releases
        <4> QED
          BY <1>1, <2>1, <4>1 DEF Kept
      <3> QED
        BY <1>1, <2>1, <3>1, <3>3, <3>u DEF Outcome
    <2> QED
      BY <2>1, <2>3, <2>4
  <1> QED
    BY <1>2, <1>3, <1>4

\* moveFile
LEMMA MoveOutcome ==
  ASSUME NEW m \in Machines, Steady(m), NEW T, Shape(m, T), NEW dir \in T,
         m.ino[dir].type = "Directory", NEW name \in NameSet, NEW dest \in INodes,
         MayMove(m, dir, name, dest) => dest \in T, ~ Overwrites(m, dir, name, dest),
         NEW r, r = moveFile(m, dir, name, dest), ~ r.fault
  PROVE  Outcome(m, r, T, dir)
  <1>1. dir \in INodes /\ T \in SUBSET INodes /\ Apart(m.ino, m.ino)
    BY DEF Shape, Rooted, Steady
  <1>2. /\ r \in Machines
        /\ \/ r.ino = m.ino /\ r.bm = m.bm /\ r.disk.data = m.disk.data
           \/ /\ MayMove(m, dir, name, dest)
              /\ Moved(m, r, dir, name, dest) \/ MoveMissed(m, dir, name, dest)
    BY <1>1, MoveDoes DEF Keeps
  <1>3. CASE r.ino = m.ino /\ r.bm = m.bm /\ r.disk.data = m.disk.data
    BY <1>3, SameOutcome
  <1>4. CASE MayMove(m, dir, name, dest) /\ (Moved(m, r, dir, name, dest) \/ MoveMissed(m, dir, name, dest))
    <2>d. dest \in T
      BY <1>4
    <2>1. Moved(m, r, dir, name, dest)
      BY <1>4, <2>d, NotMissed
    <2> DEFINE i == findFile(m, dir, name)
               b == m.ino[i].blocks[0]
               isDir == m.ino[i].type = "Directory" /\ b # 0
    <2>i. i = findFile(m, dir, name)
      OBVIOUS
    <2> HIDE DEF i
    <2>2. name \notin Dots /\ i # NONE /\ m.ino[dest].type = "Directory"
      BY <1>4 DEF MayMove, i
    <2>3. Shape(r, T) /\ \A j \in INodes : r.ino[j].type = m.ino[j].type
      BY <1>2, <1>4, <2>1, <2>2, <2>d, <2>i, ShapeMoved
    <2>4. i \in INodes
      BY <1>1, <2>2, <2>i, NamedIs
    <2>5. ASSUME NEW j \in T, m.ino[j].type = "File" PROVE SameBytes(m, r, j)
      <3>1. PICK m1 \in Machines, m2 \in Machines, m3 \in Machines :
              /\ Keeps(m, m1) /\ Keeps(m1, m2)
              /\ Added(m, m1, dest, i, name) /\ Removed(m1, m2, dir, name)
              /\ Reparented(m2, m3, i, dest) /\ m3.disk = m2.disk
              /\ r.ino = m3.ino /\ r.bm = m3.bm
              /\ UpRewritten(m3, r, isDir, b, dest)
        BY <2>1 DEF Moved, i
      <3>2. j \in INodes /\ j # dir /\ j # dest
        BY <1>1, <2>2, <2>5
      <3>3. Steady(m1) /\ Steady(m2) /\ Apart(m1.ino, m1.ino) /\ Apart(m2.ino, m2.ino)
        BY <3>1 DEF Keeps, Steady
      <3>4. SameBytes(m, m1, j)
        BY <3>1, <3>2, AddedBytes
      <3>5. SameBytes(m1, m2, j)
        BY <1>1, <3>1, <3>2, <3>3, RemovedBytes
      <3>6. m2.ino[i].blocks[0] = b
        <4>1. \A x \in FileBlocks : m1.ino[i].blocks[x] = m.ino[i].blocks[x]
          <5>1. i # dest
            <6> DEFINE t == m.ino
                       A == Ancestors(t, dest)
            <6>1. t \in Tables /\ Acyclic(t) /\ A = Ancestors(t, dest)
              BY Fields DEF Shape
            <6>2. i = dest => i \notin A
              BY <1>4, <2>2 DEF MayMove, i
            <6> HIDE DEF t, A
            <6>3. dest \in A
              BY <6>1, AncestorsClosed
            <6> QED
              BY <6>2, <6>3
          <5> QED
            BY <2>4, <3>1, <5>1 DEF Added, Takes
        <4> QED
          BY <2>4, <3>1, <4>1, Ranges DEF Removed
      <3>7. j # i \/ ~ isDir
        BY <2>5
      <3>8. isDir \in BOOLEAN /\ (isDir => b # 0)
        OBVIOUS
      <3> HIDE DEF b, isDir
      <3>9. SameBytes(m2, r, j)
        BY <1>2, <2>4, <3>1, <3>2, <3>3, <3>6, <3>7, <3>8, ReparentedBytes
      <3> QED
        BY <3>4, <3>5, <3>9, BytesOn
    <2>6. Kept(m, r, T, T, dir)
      BY <2>5, AllKept
    <2> QED
      BY <1>1, <2>3, <2>6 DEF Outcome
  <1> QED
    BY <1>2, <1>3, <1>4

-----------------------------------------------------------------------------
(* The tree from call to call.                                             *)

\* What memory and disk hold decides the tree.
LEMMA ShapeMachine ==
  ASSUME NEW r \in Machines, NEW T, Shape(r, T), NEW m, m = Machine(r.ino, r.bm, r.disk)
  PROVE  Shape(m, T)
  <1> DEFINE t == r.ino
             b == r.bm
             d == r.disk
  <1>1. t \in Tables /\ b \in SUBSET Blocks /\ d \in Disks
    BY Fields
  <1>2. m = Machine(t, b, d)
    OBVIOUS
  <1> HIDE DEF t, b, d
  <1>3. m.ino = t /\ m.disk = d
    BY ONLY <1>1, <1>2, MachineIs
  <1>5. m.ino = r.ino /\ m.disk.data = r.disk.data
    BY <1>3 DEF t, d
  <1> QED
    BY <1>5, ShapeUnchanged

\* The tree of the machine between two calls is that of the last call.
LEMMA GrowsMachine ==
  ASSUME NEW r \in Machines, NEW dir, Grows(r, dir), NEW m, m = Machine(r.ino, r.bm, r.disk)
  PROVE  Grows(m, dir)
  <1> DEFINE t == r.ino
             b == r.bm
             d == r.disk
  <1>1. t \in Tables /\ b \in SUBSET Blocks /\ d \in Disks
    BY Fields
  <1>2. m = Machine(t, b, d)
    OBVIOUS
  <1> HIDE DEF t, b, d
  <1>3. m.ino = t /\ m.disk = d
    BY ONLY <1>1, <1>2, MachineIs
  <1>4. PICK T \in SUBSET INodes : Shape(r, T) /\ dir \in T /\ r.ino[dir].type = "Directory"
    BY DEF Grows
  <1>5. Shape(m, T)
    BY <1>4, ShapeMachine
  <1> QED
    BY <1>3, <1>4, <1>5 DEF Grows, t

\* What a call leaves is found again by the next.
LEMMA GrowsStays ==
  ASSUME NEW r \in Machines, Completes(r), Grows(r, cwd')
  PROVE  Grows(Now, cwd)'
  <1>1. Now' = Machine(r.ino, r.bm, r.disk)
    BY DEF Now, Completes
  <1> DEFINE m == Now'
             c == cwd'
  <1>2. m = Machine(r.ino, r.bm, r.disk) /\ Grows(r, c)
    BY <1>1
  <1> HIDE DEF m, c
  <1>3. Grows(m, c)
    BY <1>2, GrowsMachine
  <1> QED
    BY <1>3 DEF m, c

\* What createFile and the other calls do to the tree.
LEMMA CallOutcome ==
  ASSUME Typed, InStep, On, clean, intact,
         NEW T, Shape(Now, T), cwd \in T, ino[cwd].type = "Directory",
         Next, On', clean', intact'
  PROVE  \/ \E n \in Names \cup Dots : cd(n)
         \/ \E r \in Machines : Returns(r) /\ Outcome(Now, r, T, cwd)
  <1> DEFINE m == Now
             dir == cwd
             Called == \E r \in Machines : Returns(r) /\ Outcome(m, r, T, dir)
  <1>1. /\ m \in Machines /\ Steady(m) /\ Shape(m, T) /\ dir \in T
        /\ m.ino = ino /\ m.ino[dir].type = "Directory"
    BY NowIs DEF InStep
  <1>2. ASSUME NEW r, Completes(r), r.fault \in BOOLEAN PROVE ~ r.fault
    BY <1>2 DEF Completes
  <1>3. \A n \in Names : n \in NameSet /\ n \notin Dots
    BY NamesAre, NamesAssumption DEF Dots
  <1>4. ASSUME NEW n \in Names \cup Dots, DeleteFile(n) PROVE Called
    <2> DEFINE r == deleteFile(m, dir, n)
    <2>1. r = deleteFile(m, dir, n) /\ Returns(r) /\ r \in Machines
      BY <1>4, DeleteCall DEF DeleteFile, Call, Does
    <2> HIDE DEF m, dir, r
    <2>2. ~ r.fault
      BY <1>2, <2>1, Fields DEF Returns
    <2>3. Outcome(m, r, T, dir)
      BY <1>1, <2>1, <2>2, DeleteOutcome
    <2> QED
      BY <2>1, <2>3
  <1>5. ASSUME NEW n \in Names, CreateFile(n) PROVE Called
    <2> DEFINE r == createFile(m, dir, n, "File")
    <2>1. r = createFile(m, dir, n, "File") /\ Returns(r) /\ r \in Machines
      BY <1>5, CreateCall DEF CreateFile, Call, Does
    <2> HIDE DEF m, dir, r
    <2>2. ~ r.fault
      BY <1>2, <2>1, Fields DEF Returns
    <2>3. Outcome(m, r, T, dir)
      BY <1>1, <1>3, <2>1, <2>2, CreateOutcome
    <2> QED
      BY <2>1, <2>3
  <1>6. ASSUME NEW n \in Names, CreateDir(n) PROVE Called
    <2> DEFINE r == createDir(m, dir, n)
    <2>1. r = createDir(m, dir, n) /\ Returns(r) /\ r \in Machines
      BY <1>6, CreateDirCall DEF CreateDir, Call, Does
    <2> HIDE DEF m, dir, r
    <2>2. ~ r.fault
      BY <1>2, <2>1, Fields DEF Returns
    <2>3. Outcome(m, r, T, dir)
      BY <1>1, <1>3, <2>1, <2>2, CreateDirOutcome
    <2> QED
      BY <2>1, <2>3
  <1>7. ASSUME NEW n \in Names, NEW c \in Contents, WriteFile(n, c) PROVE Called
    <2> DEFINE r == writeFile(m, dir, n, c)
    <2>1. r = writeFile(m, dir, n, c) /\ Returns(r) /\ r \in Machines
      BY <1>7, WriteCall DEF WriteFile, Call, Does
    <2> HIDE DEF m, dir, r
    <2>3. Outcome(m, r, T, dir)
      BY <1>1, <1>3, <2>1, WriteOutcome
    <2> QED
      BY <2>1, <2>3
  <1>8. ASSUME NEW n \in Names, NEW new \in Names, RenameFile(n, new) PROVE Called
    <2> DEFINE r == renameFile(m, dir, n, new)
    <2>1. r = renameFile(m, dir, n, new) /\ Returns(r) /\ r \in Machines
      BY <1>8, RenameCall DEF RenameFile, Call, Does
    <2> HIDE DEF m, dir, r
    <2>2. ~ r.fault
      BY <1>2, <2>1, Fields DEF Returns
    <2>3. Outcome(m, r, T, dir)
      BY <1>1, <1>3, <2>1, <2>2, RenameOutcome
    <2> QED
      BY <2>1, <2>3
  <1>9. ASSUME NEW n \in Names \cup Dots, NEW dest \in Destinations, MoveFile(n, dest) PROVE Called
    <2> DEFINE r == moveFile(m, dir, n, dest)
    <2>1. /\ r = moveFile(m, dir, n, dest) /\ Returns(r) /\ r \in Machines
          /\ ~ Overwrites(m, dir, n, dest)
      BY <1>9, MoveCall DEF MoveFile, Does
    <2>2. n \in NameSet /\ dest \in INodes
      BY NamesAre, TreeType
    <2>3. MayMove(m, dir, n, dest) => dest \in T
      <3>1. MayMove(m, dir, n, dest) => IsDirectory(dest)
        BY <1>1 DEF MayMove, IsDirectory
      <3>2. dest \in Tree \/ ~ IsDirectory(dest)
        BY DEF Destinations
      <3> QED
        BY <3>1, <3>2, TreeIs
    <2> HIDE DEF m, dir, r
    <2>4. ~ r.fault
      BY <1>2, <2>1, Fields DEF Returns
    <2>5. Outcome(m, r, T, dir)
      BY <1>1, <2>1, <2>2, <2>3, <2>4, MoveOutcome
    <2> QED
      BY <2>1, <2>5
  <1>10. ~ Boot /\ ~ PowerFails
    BY DEF Boot, PowerFails, On
  <1> HIDE DEF Called
  <1>11. (\E n \in Names \cup Dots : cd(n)) \/ Called
    BY <1>4, <1>5, <1>6, <1>7, <1>8, <1>9, <1>10 DEF Next
  <1> QED
    BY <1>11 DEF Called

\* cd goes to a directory of the tree.
LEMMA Visited ==
  ASSUME NEW m \in Machines, NEW T, Shape(m, T), NEW dir \in T, m.ino[dir].type = "Directory",
         NEW name, name # "..", NEW i, i = findFile(m, dir, name), i # NONE
  PROVE  i \in T
  <1>1. CASE name \notin Dots
    BY <1>1, NamedIs
  <1>2. CASE name = "."
    <2>1. dir \in INodes /\ DirOK(m, T, dir) /\ Present(m, dir)
      BY DEF Shape, Rooted, DirOK
    <2>2. SameDir(m, m, dir)
      BY <2>1, SameAsItself
    <2> DEFINE q == Min(Matches(m, dir, name))
    <2>3. /\ q \in Positions(m, dir) /\ EntryAt(m, dir, q).name = name
          /\ i = EntryAt(m, dir, q).inodeNumber
      BY <2>1, FindDoes
    <2> HIDE DEF q
    <2>4. q \in 0 .. m.ino[dir].fileSize - 1
      BY <2>1, <2>3, PresentIs
    <2>5. EntryAt(m, dir, q) = Entry(dir, ".")
      <3>1. m.ino[dir].fileSize >= 2 /\ EntryAt(m, dir, 0) = Entry(dir, ".")
        BY <1>2, <2>1, <2>3, <2>4 DEF DirOK, DotsInPlace, Dots
      <3>2. m.ino[dir].fileSize \in Nat
        BY <2>1, Fields, INodeFields
      <3>3. 0 \in 0 .. m.ino[dir].fileSize - 1
        BY <3>1, <3>2
      <3>4. EntryAt(m, dir, 0).name = EntryAt(m, dir, q).name
        BY <1>2, <2>3, <3>1 DEF Entry
      <3>5. q = 0
        BY <2>1, <2>4, <3>3, <3>4 DEF DirOK, NamesDiffer
      <3> QED
        BY <3>1, <3>5
    <2> QED
      BY <2>3, <2>5 DEF Entry
  <1> QED
    BY <1>1, <1>2 DEF Dots

\* A machine that has just been formatted.
LEMMA FormatGrows ==
  ASSUME NEW d \in Disks, d.magic = FALSE, NEW r, r = loadSuperBlock(d), ~ r.fault
  PROVE  Grows(r, 0)
  <1>1. r = createSuperBlock(d)
    BY DEF loadSuperBlock
  <1>2. Shape(r, {0}) /\ r.ino[0].type = "Directory"
    BY <1>1, ShapeFormatted
  <1> QED
    BY <1>2, Ranges DEF Grows

\* Every step leaves a tree.
LEMMA StepGrown == Typed /\ InStep /\ Grown /\ [Next]_vars => Grown'
  <1> SUFFICES ASSUME Typed, InStep, Grown, [Next]_vars PROVE Grown'
    OBVIOUS
  <1>1. CASE vars' = vars
    BY <1>1 DEF vars, Grown, On, Now
  <1>2. CASE Boot
    <2> DEFINE r == loadSuperBlock(disk)
    <2>1. disk \in Disks /\ r = loadSuperBlock(disk)
      BY DEF Typed
    <2>2. Completes(r) /\ ~ On /\ On' /\ cwd' = cwd
      BY <1>2 DEF Boot, On
    <2> HIDE DEF r
    <2> SUFFICES ASSUME clean' PROVE Grows(Now, cwd)'
      BY <2>2 DEF Grown
    <2>3. r \in Machines
      BY <2>1, LoadDoes
    <2>4. clean /\ ~ r.fault
      BY <2>2, <2>3, Fields DEF Completes
    <2>5. disk.magic = FALSE /\ cwd' = 0
      BY <2>2, <2>4 DEF InStep, Grown
    <2>6. Grows(r, cwd')
      BY <2>1, <2>4, <2>5, FormatGrows
    <2> QED
      BY <2>2, <2>3, <2>6, GrowsStays
  <1>3. CASE PowerFails
    BY <1>3 DEF PowerFails, Grown
  <1>4. CASE Next /\ ~ Boot /\ ~ PowerFails /\ vars' # vars
    <2>1. On /\ On' /\ (clean' => clean) /\ (intact' => intact)
      <3>1. CASE \E n \in Names \cup Dots : cd(n)
        BY <3>1 DEF cd, Running, On
      <3>2. CASE \E r \in Machines : Returns(r) /\ Does(Now, r) /\ intact' \in BOOLEAN
                                     /\ (intact' => intact)
        BY <3>2 DEF Returns, Running, Completes, On
      <3>3. \/ vars' = vars \/ Boot \/ PowerFails
            \/ \E n \in Names \cup Dots : cd(n)
            \/ \E r \in Machines : Returns(r) /\ Does(Now, r) /\ intact' \in BOOLEAN
                                   /\ (intact' => intact)
        BY Steps
      <3> QED
        BY <1>4, <3>1, <3>2, <3>3
    <2> SUFFICES ASSUME clean', intact' PROVE Grows(Now, cwd)'
      BY <2>1 DEF Grown
    <2>2. PICK T \in SUBSET INodes : Shape(Now, T) /\ cwd \in T /\ Now.ino[cwd].type = "Directory"
      BY <2>1 DEF Grown, Grows
    <2>3. ino[cwd].type = "Directory"
      BY <2>2, NowIs
    <2>4. ASSUME NEW r \in Machines, Returns(r), Outcome(Now, r, T, cwd)
          PROVE  Grows(Now, cwd)'
      <3>1. Grows(r, cwd)
        BY <2>4 DEF Outcome, Grows
      <3>2. Completes(r) /\ Grows(r, cwd')
        BY <2>4, <3>1 DEF Returns
      <3> QED
        BY <3>2, GrowsStays
    <2>5. ASSUME NEW n \in Names \cup Dots, cd(n) PROVE Grows(Now, cwd)'
      <3>1. Now' = Now /\ ino' = ino
        BY <2>5 DEF cd, Now
      <3>2. cwd' \in T /\ ino[cwd'].type = "Directory"
        <4>1. CASE n = ".."
          <5> DEFINE m == Now
          <5>1. Shape(m, T) /\ m.ino = ino
            BY <2>2, NowIs
          <5> HIDE DEF m
          <5>2. ino[cwd].parentINode \in T /\ ino[ino[cwd].parentINode].type = "Directory"
            BY <2>2, <5>1, TreeClosed
          <5> QED
            BY <2>5, <4>1, <5>2 DEF cd
        <4>2. CASE n # ".."
          <5> DEFINE m == Now
                     i == findFile(m, cwd, n)
                     dir == cwd
          <5>1. m \in Machines /\ Shape(m, T) /\ dir \in T /\ m.ino[dir].type = "Directory"
                /\ i = findFile(m, dir, n)
            BY <2>2, NowIs
          <5>2. i # NONE /\ ino[i].type = "Directory" /\ cwd' = i
            BY <2>5, <4>2 DEF cd
          <5> HIDE DEF m, i, dir
          <5>3. i \in T
            BY <4>2, <5>1, <5>2, Visited
          <5> QED
            BY <5>2, <5>3
        <4> QED
          BY <4>1, <4>2
      <3> DEFINE m == Now
                 c == cwd'
      <3>3. Shape(m, T) /\ c \in T /\ m.ino[c].type = "Directory"
        BY <2>2, <3>2, NowIs
      <3> HIDE DEF m, c
      <3>4. Grows(m, c)
        BY <2>2, <3>3 DEF Grows
      <3> QED
        BY <3>1, <3>4 DEF m, c
    <2> QED
      BY <1>4, <2>1, <2>2, <2>3, <2>4, <2>5, CallOutcome
  <1> QED
    BY <1>1, <1>2, <1>3, <1>4

-----------------------------------------------------------------------------
(* What the tree means for the program.                                    *)

\* The three invariants hold together.
LEMMA AllGrown == Spec /\ []InFirstBitmapBlock => [](Typed /\ InStep /\ Grown)
  <1>1. Init => InStep /\ Grown
    BY EmptyTable DEF Init, InStep, Grown, On
  <1> QED
    BY InitTyped, StepTyped, StepInStep, StepGrown, <1>1, PTL DEF Spec

\* The directories below the root form a tree: each inode in it is named once, by its
\* parent, and the current directory is one of them.
THEOREM TreeStands == Spec /\ []InFirstBitmapBlock => []TreeOK
  <1>1. Typed /\ Grown => TreeOK
    <2> SUFFICES ASSUME Typed, Grown, On, clean, intact
                 PROVE  LET tree == Tree IN
                          /\ cwd \in tree /\ IsDirectory(cwd)
                          /\ \A d \in {x \in tree : IsDirectory(x)} :
                               /\ \A i, j \in Positions(Now, d) :
                                    EntryAt(Now, d, i).name = EntryAt(Now, d, j).name => i = j
                               /\ \A e \in EntriesOf(d) :
                                    CASE e.name = "."  -> e.inodeNumber = d
                                      [] e.name = ".." -> e.inodeNumber = ino[d].parentINode
                                      [] OTHER -> /\ ino[e.inodeNumber].isUsed
                                                  /\ ino[e.inodeNumber].parentINode = d
                                                  /\ e.inodeNumber # 0
      BY DEF TreeOK
    <2> DEFINE m == Now
    <2>1. PICK T \in SUBSET INodes : Shape(m, T) /\ cwd \in T /\ m.ino[cwd].type = "Directory"
      BY DEF Grown, Grows
    <2>2. Tree = T /\ m.ino = ino
      BY <2>1, TreeIs, NowIs
    <2>3. \A x \in T : ino[x].isUsed
      BY <2>1, <2>2 DEF Shape, Rooted
    <2>4. ASSUME NEW d \in T, IsDirectory(d)
          PROVE  /\ \A i, j \in Positions(m, d) :
                      EntryAt(m, d, i).name = EntryAt(m, d, j).name => i = j
                 /\ \A e \in EntriesOf(d) :
                      CASE e.name = "."  -> e.inodeNumber = d
                        [] e.name = ".." -> e.inodeNumber = ino[d].parentINode
                        [] OTHER -> /\ ino[e.inodeNumber].isUsed
                                    /\ ino[e.inodeNumber].parentINode = d
                                    /\ e.inodeNumber # 0
      <3> DEFINE fs == ino[d].fileSize
      <3>1. /\ DirOK(m, T, d) /\ Positions(m, d) = 0 .. fs - 1
            /\ d \in INodes /\ ino \in Tables
        BY <2>1, <2>4, EntriesAre DEF IsDirectory, Typed
      <3>2. fs \in Nat
        BY <3>1, INodeFields
      <3>3. EntriesOf(d) = {EntryAt(m, d, i) : i \in Positions(m, d)}
        BY DEF EntriesOf
      <3> HIDE DEF m, fs
      <3>4. \A i, j \in Positions(m, d) :
              EntryAt(m, d, i).name = EntryAt(m, d, j).name => i = j
        BY <2>2, <3>1 DEF DirOK, NamesDiffer, fs
      <3>5. ASSUME NEW p \in 0 .. fs - 1, NEW e, e = EntryAt(m, d, p)
            PROVE  CASE e.name = "."  -> e.inodeNumber = d
                     [] e.name = ".." -> e.inodeNumber = ino[d].parentINode
                     [] OTHER -> /\ ino[e.inodeNumber].isUsed
                                 /\ ino[e.inodeNumber].parentINode = d
                                 /\ e.inodeNumber # 0
        <4>1. CASE e.name \in Dots
          <5>1. /\ fs >= 2 /\ EntryAt(m, d, 0) = Entry(d, ".")
                /\ EntryAt(m, d, 1) = Entry(ino[d].parentINode, "..")
            BY <2>2, <3>1, <3>5, <4>1 DEF DirOK, DotsInPlace, fs
          <5>2. 0 \in 0 .. fs - 1 /\ 1 \in 0 .. fs - 1
            BY <3>2, <5>1
          <5>3. CASE e.name = "."
            <6>1. EntryAt(m, d, 0).name = EntryAt(m, d, p).name
              BY <3>5, <5>1, <5>3 DEF Entry
            <6>2. p = 0
              BY <3>1, <3>4, <3>5, <5>2, <6>1
            <6> QED
              BY <3>5, <5>1, <5>3, <6>2 DEF Entry
          <5>4. CASE e.name = ".."
            <6>1. EntryAt(m, d, 1).name = EntryAt(m, d, p).name
              BY <3>5, <5>1, <5>4 DEF Entry
            <6>2. p = 1
              BY <3>1, <3>4, <3>5, <5>2, <6>1
            <6> QED
              BY <3>5, <5>1, <5>4, <6>2 DEF Entry
          <5> QED
            BY <4>1, <5>3, <5>4 DEF Dots
        <4>2. CASE e.name \notin Dots
          <5>1. e.inodeNumber \in T \ {0} /\ ino[e.inodeNumber].parentINode = d
            BY <2>2, <3>1, <3>5, <4>2 DEF DirOK, NamesChildren, fs
          <5> QED
            BY <2>3, <4>2, <5>1 DEF Dots
        <4> QED
          BY <4>1, <4>2
      <3> QED
        BY <3>1, <3>3, <3>4, <3>5
    <2> QED
      BY <2>1, <2>2, <2>3, <2>4 DEF IsDirectory
  <1> QED
    BY AllGrown, <1>1, PTL

\* moveFile's walk from any directory in use to the root ends there.
THEOREM WalksEnd == Spec /\ []InFirstBitmapBlock => []WalkEnds
  <1>1. Typed /\ Grown => WalkEnds
    <2> SUFFICES ASSUME Typed, Grown, On, clean, intact, NEW d \in INodes
                 PROVE  0 \in Ancestors(ino, d)
      BY DEF WalkEnds
    <2> DEFINE A == Ancestors(ino, d)
    <2>1. Acyclic(ino) /\ ino \in Tables /\ A = Ancestors(ino, d)
      BY NowIs DEF Grown, Grows, Shape, Typed
    <2> HIDE DEF A
    <2>2. 0 \in A
      BY <2>1, AncestorsClosed
    <2> QED
      BY <2>2 DEF A
  <1> QED
    BY AllGrown, <1>1, PTL

\* No block belongs to two places: two files never share one, and none is given out
\* again while a file holds it, with power failures in the calls in between.
THEOREM BlocksStayApart ==
  ASSUME CrashDuring \subseteq {"other"}
  PROVE  Spec /\ []InFirstBitmapBlock => []BlocksOwnedOnce
  <1>1. Init => Sound
    BY EmptyTable DEF Init, Sound, On
  <1>2. Typed /\ Sound /\ InFirstBitmapBlock /\ [Next]_vars => Sound'
    BY StepSound
  <1>3. Typed /\ Sound /\ Grown => BlocksOwnedOnce
    <2> SUFFICES ASSUME Typed, Sound, Grown, On PROVE BlocksOwnedOnce
      BY DEF BlocksOwnedOnce
    <2>1. Meta \subseteq bm /\ Behind(ino, bm) /\ Apart(ino, ino)
      BY NowIs DEF Sound, Steady
    <2>2. clean /\ intact => Clear(ino)
      BY NowIs DEF Grown, Grows, Shape
    <2>3. ASSUME NEW i \in INodes, NEW b \in Owned(i)
          PROVE  /\ b \in FileBlocks /\ ino[i].blocks[b] # 0
                 /\ (clean /\ intact) => ino[i].isUsed
                 /\ ino[i].blocks[b] \in bm \ Meta
      <3>1. b \in FileBlocks /\ ino[i].blocks[b] # 0
        BY <2>3 DEF Owned
      <3> QED
        BY <2>1, <2>2, <3>1 DEF Behind, Clear
    <2>4. ASSUME NEW i \in INodes, NEW b \in Owned(i), NEW j \in INodes, NEW c \in Owned(j),
                 ino[i].blocks[b] = ino[j].blocks[c]
          PROVE  i = j /\ b = c
      <3>1. b \in FileBlocks /\ c \in FileBlocks /\ ino[i].blocks[b] # 0
        BY <2>4 DEF Owned
      <3> QED
        BY <2>1, <2>4, <3>1 DEF Apart
    <2> QED
      BY <2>1, <2>3, <2>4 DEF BlocksOwnedOnce, Meta
  <1>4. Spec /\ []InFirstBitmapBlock => []Sound
    BY InitTyped, StepTyped, <1>1, <1>2, PTL DEF Spec
  <1> QED
    BY AllGrown, <1>3, <1>4, PTL

-----------------------------------------------------------------------------
(* What a call does to the files of the others.                            *)

\* Tree is the tree of the invariant, now and after the step.
LEMMA TreeIsNext == (\A T : Typed /\ Shape(Now, T) => Tree = T)'
  <1>1. \A T : Typed /\ Shape(Now, T) => Tree = T
    BY TreeIs
  <1> QED
    BY <1>1, PTL

\* A file whose blocks are as they were holds what it held.
LEMMA BytesKept ==
  ASSUME Typed, NEW r \in Machines, Completes(r), NEW j \in INodes, SameBytes(Now, r, j)
  PROVE  Bytes(j)' = Bytes(j)
  <1>1. Now.ino = ino /\ Now.disk = disk
    BY NowIs
  <1>2. ino' = r.ino /\ disk' = r.disk
    BY DEF Completes
  <1>3. /\ ino'[j].blocks = ino[j].blocks
        /\ \A y \in FileBlocks :
             ino[j].blocks[y] # 0 => disk'.data[ino[j].blocks[y]] = disk.data[ino[j].blocks[y]]
    BY <1>1, <1>2 DEF SameBytes
  <1>4. Owned(j)' = Owned(j)
    BY <1>3 DEF Owned
  <1>5. \A y \in Owned(j) : disk'.data[ino'[j].blocks[y]] = disk.data[ino[j].blocks[y]]
    BY <1>3 DEF Owned
  <1> QED
    BY <1>4, <1>5 DEF Bytes

\* What a call leaves of the tree, with the operators of the property.
Concerns(e) ==
  \A was \in {Tree \ {0}}, is \in {Tree'} : \A i \in was :
    /\ i \in is \/ (e \in Ancestors(ino, i) /\ (GivesUp \/ bm = Blocks))
    /\ (i \in is /\ ino[i].type = "File" /\ Bytes(i)' # Bytes(i))
         => i = e /\ \A j \in was \ {i} : ino'[j] = ino[j]

LEMMA OutcomeKeeps ==
  ASSUME Typed, Typed', Steady(Now), NEW T, Shape(Now, T), cwd \in T, ino[cwd].type = "Directory",
         NEW r \in Machines, Returns(r), Outcome(Now, r, T, cwd)
  PROVE  \E e \in Children(cwd) \cup {NONE} : Concerns(e)
  <1> DEFINE m == Now
             dir == cwd
  <1>1. PICK U \in SUBSET INodes : Shape(r, U) /\ Kept(m, r, T, U, dir)
    BY DEF Outcome
  <1>2. Completes(r) /\ ino' = r.ino
    BY DEF Returns, Completes
  <1>3. Tree' = U
    <2>1. Now' = Machine(r.ino, r.bm, r.disk)
      BY <1>2 DEF Now, Completes
    <2> DEFINE n == Now'
    <2>2. n = Machine(r.ino, r.bm, r.disk)
      BY <2>1
    <2> HIDE DEF n
    <2>3. Shape(n, U)
      BY <1>1, <2>2, ShapeMachine
    <2>4. Shape(Now, U)'
      BY <2>3 DEF n
    <2> QED
      BY <2>4, TreeIsNext
  <1>4. Tree = T /\ Children(cwd) = {c \in T \ {0} : ino[c].parentINode = cwd}
    BY TreeIs, ChildrenAre
  <1>5. m \in Machines /\ m.ino = ino /\ m.bm = bm /\ Steady(m) /\ T \in SUBSET INodes
    BY NowIs DEF Shape, Rooted
  <1>6. PICK e \in INodes \cup {NONE} : About(m, r, T, U, dir, e)
    BY <1>1 DEF Kept
  <1> HIDE DEF m
  <1>7. e \in Children(cwd) \cup {NONE}
    BY <1>4, <1>5, <1>6 DEF About
  <1>8. ASSUME NEW i \in T \ {0}, i \notin U
        PROVE  e \in Ancestors(ino, i) /\ (GivesUp \/ bm = Blocks)
    BY <1>2, <1>5, <1>6, <1>8 DEF About, Releases, GivesUp
  <1>9. ASSUME NEW i \in T \ {0}, i \in U, ino[i].type = "File", Bytes(i)' # Bytes(i)
        PROVE  i = e /\ \A j \in (T \ {0}) \ {i} : ino'[j] = ino[j]
    <2>1. i \in INodes /\ ~ SameBytes(m, r, i)
      BY <1>2, <1>5, <1>9, BytesKept DEF m
    <2>2. e \in INodes /\ FileOnly(m, r, e)
      BY <1>5, <1>6, <1>9, <2>1 DEF About
    <2>3. ASSUME NEW j \in INodes, j # e PROVE ino'[j] = ino[j] /\ SameBytes(m, r, j)
      <3>1. SameBytes(m, r, j) /\ r.ino[j] = m.ino[j]
        BY <1>5, <2>2, <2>3, WrittenBytes
      <3> QED
        BY <1>2, <1>5, <3>1
    <2> QED
      BY <1>5, <2>1, <2>3
  <1>10. Concerns(e)
    BY <1>3, <1>4, <1>8, <1>9 DEF Concerns
  <1> QED
    BY <1>7, <1>10

\* Every call is about one entry of the current directory: all that is not at or
\* below it stays in the tree, and no other file changes.
THEOREM BystandersAreKept == Spec /\ []InFirstBitmapBlock => BystandersStay
  <1> DEFINE Guard == On /\ clean' /\ intact' /\ power' = "on" /\ disk' # disk
             Act == Guard => \E e \in Children(cwd) \cup {NONE} : Concerns(e)
  <1>1. (Typed /\ InStep /\ Grown) /\ Typed' /\ [Next]_vars => [Act]_vars
    <2> SUFFICES ASSUME Typed, InStep, Grown, Typed', Next, vars' # vars, Guard PROVE Act
      OBVIOUS
    <2>1. /\ \/ vars' = vars \/ Boot \/ PowerFails
             \/ \E n \in Names \cup Dots : cd(n)
             \/ \E r \in Machines : Returns(r) /\ Does(Now, r) /\ intact' \in BOOLEAN
                                    /\ (intact' => intact)
      BY Steps
    <2>2. clean /\ intact /\ On'
      <3>1. ~ Boot /\ ~ PowerFails /\ ~ \E n \in Names \cup Dots : cd(n)
        BY DEF Boot, PowerFails, cd, On
      <3> QED
        BY <2>1, <3>1 DEF Returns, Completes, On
    <2>3. PICK T \in SUBSET INodes : Shape(Now, T) /\ cwd \in T /\ Now.ino[cwd].type = "Directory"
      BY <2>2 DEF Grown, Grows
    <2>4. ino[cwd].type = "Directory" /\ Steady(Now)
      BY <2>2, <2>3, NowIs DEF InStep
    <2>5. \/ \E n \in Names \cup Dots : cd(n)
          \/ \E r \in Machines : Returns(r) /\ Outcome(Now, r, T, cwd)
      BY <2>2, <2>3, <2>4, CallOutcome
    <2>6. ~ \E n \in Names \cup Dots : cd(n)
      BY DEF cd
    <2>7. PICK r \in Machines : Returns(r) /\ Outcome(Now, r, T, cwd)
      BY <2>5, <2>6
    <2> QED
      BY <2>3, <2>4, <2>7, OutcomeKeeps
  <1>2. Typed /\ [Next]_vars => Typed'
    BY StepTyped
  <1> HIDE DEF Act
  <1>3. Spec /\ []InFirstBitmapBlock => [][Act]_vars
    BY AllGrown, <1>1, <1>2, PTL DEF Spec
  <1> QED
    BY <1>3, PTL DEF BystandersStay, Act, Concerns
=============================================================================

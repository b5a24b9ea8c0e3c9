----------------------------- MODULE FileSystem -----------------------------
(***************************************************************************)
(* Fs/superblock.c: the inode table and the block bitmap, each kept in     *)
(* memory and written through to the disk, directories as entries packed   *)
(* into blocks, and the operations on names of the current directory.      *)
(*                                                                         *)
(* An operation is a function on a machine record: memory (ino, bm), the   *)
(* disk, the result of the last call (ok) and the trail of disk images the *)
(* operation leaves behind, one for every block it writes.  Power may fail *)
(* at any of them, and loadSuperBlock then starts from that image.         *)
(*                                                                         *)
(* kmalloc and disk reads succeed; a write fails on the blocks in bad.     *)
(***************************************************************************)
EXTENDS Integers, Sequences, FiniteSets, FiniteSetsExt

CONSTANTS
  Names,                \* the file names users choose
  Data,                 \* what a block of a file may hold
  Sizes,                \* lengths of what is written to files, in blocks
  MAX_FILES,            \* inodes
  MAX_BLOCKS_PER_FILE,
  TOTAL_BLOCKS,
  META_BLOCKS,          \* blocks below this hold boot code, inode table, bitmap
  ENTRIES_PER_BLOCK,    \* BLOCK_SIZE / DIR_ENTRY_SIZE
  BITS_PER_BLOCK,       \* BLOCK_SIZE * 8: bits in one block of the bitmap
  BadSectors,           \* the sets of data blocks whose writes may fail
  CrashDuring,          \* calls during which power may fail
  CALLS_AFTER_FAULT     \* bound: calls made after the first fault

ASSUME GeometryAssumption ==
  /\ MAX_FILES \in Nat \ {0} /\ MAX_BLOCKS_PER_FILE \in Nat \ {0}
  /\ META_BLOCKS \in Nat \ {0} /\ TOTAL_BLOCKS \in Nat
  /\ META_BLOCKS + 2 <= TOTAL_BLOCKS                                  \* format takes two
  /\ ENTRIES_PER_BLOCK \in Nat \ {0, 1} /\ BITS_PER_BLOCK \in Nat \ {0}
  /\ BadSectors \subseteq SUBSET (META_BLOCKS + 2 .. TOTAL_BLOCKS - 1)
  /\ CrashDuring \subseteq {"format", "deleteFile", "other"}
  /\ CALLS_AFTER_FAULT \in Nat /\ Sizes \subseteq Nat

\* The dots are made with their directory, never typed as a new name.
ASSUME NamesAssumption == Names \cap {".", ".."} = {}

VARIABLES
  ino,      \* inodeTable
  bm,       \* bitmap: the blocks whose bit is set
  cwd,      \* currentDirINode
  disk,     \* magic number, inode table, bitmap and blocks on the disk
  power,    \* "off" until loadSuperBlock has run
  bad,      \* the blocks of this disk that cannot be written
  clean,    \* no write has failed so far, nor power in the middle of a call
  intact,   \* moveFile has not overwritten an entry of the moved directory
  after     \* calls made since one has

vars == <<ino, bm, cwd, disk, power, bad, clean, intact, after>>

INodes == 0 .. MAX_FILES - 1
Blocks == 0 .. TOTAL_BLOCKS - 1
Slots == 0 .. ENTRIES_PER_BLOCK - 1
FileBlocks == 0 .. MAX_BLOCKS_PER_FILE - 1
NONE == -1                                   \* ERROR returned as an inode
Dots == {".", ".."}

Entry(i, n) == [inodeNumber |-> i, name |-> n]
ZeroEntry == Entry(0, "")
ZeroBlock == [s \in Slots |-> ZeroEntry]
FileBlock(d) == [s \in Slots |-> Entry(0, d)]    \* bytes of a file: no entry of a directory
DotBlock(self, up) ==
  [ZeroBlock EXCEPT ![0] = Entry(self, "."), ![1] = Entry(up, "..")]
ZeroINode == [type |-> "File", fileSize |-> 0, isUsed |-> FALSE, parentINode |-> 0,
              blocks |-> [b \in FileBlocks |-> 0]]
EmptyDisk == [magic |-> FALSE, ino |-> [i \in INodes |-> ZeroINode], bm |-> {},
              data |-> [b \in Blocks |-> ZeroBlock]]

\* Block number b of inode i becomes x.
WithBlock(t, i, b, x) == [t EXCEPT ![i].blocks[b] = x]

-----------------------------------------------------------------------------
(* The disk.                                                               *)

Save(m) == [m EXCEPT !.trail = @ \cup {m.disk}]

WriteBlock(m, b, content) ==
  IF b \in bad THEN [m EXCEPT !.ok = FALSE, !.fault = TRUE]
  ELSE Save([m EXCEPT !.disk.data[b] = content, !.ok = TRUE])

\* The table is written in ascending order, so power can fail between inodes.
flushInodeTable(m) ==
  LET upTo(k) == [m.disk EXCEPT !.ino = [i \in INodes |-> IF i <= k THEN m.ino[i]
                                                          ELSE m.disk.ino[i]]]
  IN  [m EXCEPT !.disk.ino = m.ino, !.trail = @ \cup {upTo(k) : k \in INodes}]

\* The block of the bitmap that holds the bit of b, written from memory.
Covered(b) == {x \in Blocks : x \div BITS_PER_BLOCK = b \div BITS_PER_BLOCK}
flushBit(m, b) ==
  Save([m EXCEPT !.disk.bm = (@ \ Covered(b)) \cup (m.bm \cap Covered(b))])

\* Mutant: the bit of the block that is handed out is not set.
allocateBlock_NotMarked(m) ==
  LET free == Blocks \ m.bm
  IN  IF free = {} THEN [m EXCEPT !.ok = FALSE]
      ELSE flushBit([m EXCEPT !.ok = TRUE, !.ret = Min(free)], Min(free))

allocateBlock(m) ==
  LET free == Blocks \ m.bm
  IN  IF free = {} THEN [m EXCEPT !.ok = FALSE]
      ELSE flushBit([m EXCEPT !.ok = TRUE, !.ret = Min(free), !.bm = @ \cup {Min(free)}],
                    Min(free))

freeBlock(m, b) == flushBit([m EXCEPT !.bm = @ \ {b % BITS_PER_BLOCK}], b)

-----------------------------------------------------------------------------
(* Directories.  Entry number i of a directory is in slot i % n of its     *)
(* block number i \div n; a missing block ends the directory.              *)

BlockOf(i) == i \div ENTRIES_PER_BLOCK
SlotOf(i) == i % ENTRIES_PER_BLOCK

EntryAt(m, dir, i) == m.disk.data[m.ino[dir].blocks[BlockOf(i)]][SlotOf(i)]

Positions(m, dir) ==
  {i \in 0 .. m.ino[dir].fileSize - 1 :
     /\ BlockOf(i) \in FileBlocks
     /\ \A b \in 0 .. BlockOf(i) : m.ino[dir].blocks[b] # 0}

Matches(m, dir, name) == {i \in Positions(m, dir) : EntryAt(m, dir, i).name = name}

findFile(m, dir, name) ==
  IF Matches(m, dir, name) = {} THEN NONE
  ELSE EntryAt(m, dir, Min(Matches(m, dir, name))).inodeNumber

\* The first half of addDirEntry: a block with room for one more entry.
roomFor(m, dir) ==
  LET i == m.ino[dir].fileSize
      b == BlockOf(i)
      a == allocateBlock(m)
  IN  IF SlotOf(i) # 0 THEN [m EXCEPT !.ok = TRUE]
      ELSE IF b \notin FileBlocks THEN [m EXCEPT !.ok = FALSE]
      ELSE IF a.ok THEN [a EXCEPT !.ino = WithBlock(@, dir, b, a.ret)] ELSE a

\* The new entry is written before the directory grows.
addDirEntry(m, dir, inode, name) ==
  LET i  == m.ino[dir].fileSize
      m1 == roomFor(m, dir)
      at == m1.ino[dir].blocks[BlockOf(i)]
      old == IF SlotOf(i) = 0 THEN ZeroBlock ELSE m1.disk.data[at]
      m2 == WriteBlock(m1, at, [old EXCEPT ![SlotOf(i)] = Entry(inode, name)])
  IN  IF ~ m1.ok THEN m1
      ELSE IF ~ m2.ok THEN m2
      ELSE flushInodeTable([m2 EXCEPT !.ino[dir].fileSize = @ + 1])

\* Mutant: the directory just gets shorter, whichever entry it was.
removeDirEntry_Truncates(m, dir, name) ==
  IF Matches(m, dir, name) = {} THEN [m EXCEPT !.ok = FALSE]
  ELSE flushInodeTable([m EXCEPT !.ok = TRUE, !.ino[dir].fileSize = @ - 1])

\* The last entry fills the hole: its block is written first, then the block
\* with the hole, read before that.
removeDirEntry(m, dir, name) ==
  LET i    == Min(Matches(m, dir, name))
      last == m.ino[dir].fileSize - 1
      hole == m.ino[dir].blocks[BlockOf(i)]
      tail == m.ino[dir].blocks[BlockOf(last)]
      m1   == IF i = last THEN [m EXCEPT !.ok = TRUE]
              ELSE WriteBlock(m, tail, [m.disk.data[tail] EXCEPT ![SlotOf(last)] = ZeroEntry])
      fill == IF i = last THEN ZeroEntry ELSE m.disk.data[tail][SlotOf(last)]
      m2   == WriteBlock(m1, hole, [m.disk.data[hole] EXCEPT ![SlotOf(i)] = fill])
  IN  IF Matches(m, dir, name) = {} THEN [m EXCEPT !.ok = FALSE]
      ELSE IF ~ m1.ok THEN m1
      ELSE IF ~ m2.ok THEN m2
      ELSE flushInodeTable([m2 EXCEPT !.ino[dir].fileSize = @ - 1])

-----------------------------------------------------------------------------
(* The operations, for the current directory dir.                          *)

Fail(m) == [m EXCEPT !.ok = FALSE]

createFile(m, dir, name, type) ==
  LET unused == {i \in INodes : ~ m.ino[i].isUsed}
      i  == Min(unused)
      m1 == [m EXCEPT !.ino[i] = [@ EXCEPT !.isUsed = TRUE, !.type = type,
                                           !.fileSize = 0, !.parentINode = dir]]
      m2 == addDirEntry(m1, dir, i, name)
  IN  IF findFile(m, dir, name) # NONE \/ unused = {} THEN Fail(m)
      ELSE IF m2.ok THEN [flushInodeTable(m2) EXCEPT !.ret = i]
      ELSE Fail(flushInodeTable([m2 EXCEPT !.ino[i].isUsed = FALSE]))

\* The rest of createDir and of createRootDirectory: a first block with the
\* entries "." and "..".
makeDots(m, i, up) ==
  LET a  == allocateBlock(m)
      m1 == [a EXCEPT !.ino[i] = [@ EXCEPT !.blocks[0] = a.ret, !.fileSize = 2,
                                           !.parentINode = up]]
  IN  IF ~ a.ok THEN a
      ELSE WriteBlock(flushInodeTable(m1), a.ret, DotBlock(i, up))

createDir(m, dir, name) ==
  LET m1 == createFile(m, dir, name, "Directory")
  IN  IF m1.ok THEN makeDots(m1, m1.ret, dir) ELSE m1

\* One block of writeFile: the block is allocated if the file has none there.
writeOne(m, i, b, d) ==
  LET a == IF m.ino[i].blocks[b] # 0 THEN m ELSE allocateBlock(m)
      m1 == IF a.ok /\ m.ino[i].blocks[b] = 0
            THEN [a EXCEPT !.ino = WithBlock(@, i, b, a.ret)] ELSE a
      m2 == WriteBlock(m1, m1.ino[i].blocks[b], FileBlock(d))
  IN  IF ~ m1.ok THEN m1
      ELSE IF m2.ok THEN [m2 EXCEPT !.ino[i].fileSize = b + 1] ELSE m2

\* Mutant: the inode table is not flushed after the blocks.
writeFile_NotFlushed(m, dir, name, content) ==
  LET i == findFile(m, dir, name)
  IN  IF i = NONE \/ content = << >> THEN Fail(m)
      ELSE IF m.ino[i].type # "File" THEN Fail(m)
      ELSE writeOne(m, i, 0, content[1])

\* Blocks the file had beyond the new size stay with it.
Written(m, i, content) ==
  LET done[b \in 0 .. Len(content)] ==
        IF b = 0 THEN [m EXCEPT !.ino[i].fileSize = 0, !.ok = TRUE]
        ELSE LET before == done[b - 1]
             IN  IF ~ before.ok THEN before
                 ELSE IF b > MAX_BLOCKS_PER_FILE THEN Fail(before)
                 ELSE writeOne(before, i, b - 1, content[b])
  IN  done

writeFile(m, dir, name, content) ==
  LET i == findFile(m, dir, name)
  IN  IF i = NONE THEN Fail(m)
      ELSE IF m.ino[i].type # "File" THEN Fail(m)
      ELSE flushInodeTable(Written(m, i, content)[Len(content)])

\* The blocks are freed on the disk one by one, before the inode gives them up.
Freed(m, i) ==
  LET freed[b \in 0 .. MAX_BLOCKS_PER_FILE] ==
        IF b = 0 THEN m
        ELSE LET before == freed[b - 1]
                 block  == m.ino[i].blocks[b - 1]
             IN  IF block = 0 THEN before
                 ELSE [freeBlock(before, block) EXCEPT !.ino = WithBlock(@, i, b - 1, 0)]
  IN  freed

deleteFile(m, dir, name) ==
  LET i == findFile(m, dir, name)
      m1 == [Freed(m, i)[MAX_BLOCKS_PER_FILE] EXCEPT !.ino[i].isUsed = FALSE]
  IN  IF i = NONE \/ i = 0 \/ name \in Dots THEN Fail(m)
      ELSE [flushInodeTable(removeDirEntry(m1, dir, name)) EXCEPT !.ok = TRUE]

renameFile(m, dir, old, new) ==
  LET i  == findFile(m, dir, old)
      m1 == removeDirEntry(m, dir, old)
  IN  IF i = NONE \/ findFile(m, dir, new) # NONE THEN Fail(m)
      ELSE IF m1.ok THEN addDirEntry(m1, dir, i, new) ELSE m1

\* The chain of parents that moveFile follows from a destination up to the root.
WayUp(inodes, d) ==
  LET up[k \in 0 .. MAX_FILES] ==
        IF k = 0 THEN d
        ELSE LET child == up[k - 1]
             IN  IF child = 0 THEN 0 ELSE inodes[child].parentINode
  IN  up

Ancestors(inodes, d) == {WayUp(inodes, d)[k] : k \in 0 .. MAX_FILES}

\* Mutant: a directory may be moved below itself.
MayMove_Anywhere(m, dir, name, dest) ==
  LET i == findFile(m, dir, name)
  IN  /\ i \notin {NONE, 0} /\ name \notin Dots
      /\ m.ino[dest].isUsed /\ m.ino[dest].type = "Directory" /\ dest # dir
      /\ findFile(m, dest, name) = NONE

MayMove(m, dir, name, dest) ==
  LET i == findFile(m, dir, name)
  IN  /\ i \notin {NONE, 0} /\ name \notin Dots
      /\ m.ino[dest].isUsed /\ m.ino[dest].type = "Directory" /\ dest # dir
      /\ m.ino[i].type = "Directory" => i \notin Ancestors(m.ino, dest)
      /\ findFile(m, dest, name) = NONE

\* Mutant: the moved inode keeps its old parent.
moveFile_KeepsParent(m, dir, name, dest) ==
  LET m1 == addDirEntry(m, dest, findFile(m, dir, name), name)
  IN  IF ~ MayMove(m, dir, name, dest) THEN Fail(m)
      ELSE IF m1.ok THEN removeDirEntry(m1, dir, name) ELSE m1

\* The moved directory's ".." is rewritten in slot 1 of its first block.
moveFile(m, dir, name, dest) ==
  LET i  == findFile(m, dir, name)
      m1 == addDirEntry(m, dest, i, name)
      m2 == removeDirEntry(m1, dir, name)
      m3 == [m2 EXCEPT !.ino[i].parentINode = dest]
      b  == m.ino[i].blocks[0]
      m4 == IF m.ino[i].type = "Directory" /\ b # 0
            THEN WriteBlock(m3, b, [m3.disk.data[b] EXCEPT ![1].inodeNumber = dest])
            ELSE m3
  IN  IF ~ MayMove(m, dir, name, dest) THEN Fail(m)
      ELSE IF ~ m1.ok THEN m1
      ELSE IF ~ m2.ok THEN Fail(removeDirEntry(m2, dest, name))
      ELSE [flushInodeTable(m4) EXCEPT !.ok = TRUE]

-----------------------------------------------------------------------------
(* Boot: createSuperBlock writes the superblock with its magic number, the *)
(* bitmap, the inode table and the root directory, in that order.          *)

Machine(i, b, d) == [ino |-> i, bm |-> b, disk |-> d, ok |-> TRUE, ret |-> 0,
                     trail |-> {}, fault |-> FALSE]

createSuperBlock(d) ==
  LET m0 == Save(Machine([k \in INodes |-> ZeroINode], 0 .. META_BLOCKS - 1,
                         [d EXCEPT !.magic = TRUE]))
      m1 == Save([m0 EXCEPT !.disk.bm = m0.bm])
      m2 == createFile(flushInodeTable(m1), 0, "root", "Directory")
  IN  makeDots(m2, 0, 0)

loadSuperBlock(d) == IF d.magic THEN Machine(d.ino, d.bm, d) ELSE createSuperBlock(d)

Init ==
  /\ disk = EmptyDisk
  /\ ino = EmptyDisk.ino /\ bm = {} /\ cwd = 0
  /\ power = "off"
  /\ bad \in BadSectors
  /\ clean = TRUE /\ intact = TRUE /\ after = 0

Now == Machine(ino, bm, disk)

Completes(m) ==
  /\ ino' = m.ino /\ bm' = m.bm /\ disk' = m.disk
  /\ clean' = (clean /\ ~ m.fault)

Boot ==
  /\ power = "off"
  /\ Completes(loadSuperBlock(disk))
  /\ power' = "on"
  /\ UNCHANGED <<cwd, bad, intact, after>>

\* The machine is on; the bound on calls after a fault counts this one.
Running ==
  /\ power = "on"
  /\ clean \/ after < CALLS_AFTER_FAULT
  /\ after' = IF clean THEN 0 ELSE after + 1

Returns(m) == Running /\ Completes(m) /\ UNCHANGED <<cwd, power, bad>>

Call(m) == Returns(m) /\ UNCHANGED intact

\* The tree as a user sees it.
EntriesOf(d) == {EntryAt(Now, d, i) : i \in Positions(Now, d)}
Children(d) == {e.inodeNumber : e \in {x \in EntriesOf(d) : x.name \notin Dots}}
IsDirectory(i) == ino[i].isUsed /\ ino[i].type = "Directory"

Levels ==
  LET level[k \in 0 .. MAX_FILES] ==
        IF k = 0 THEN {0}
        ELSE LET up == level[k - 1]
             IN  up \cup UNION {Children(d) : d \in {x \in up : IsDirectory(x)}}
  IN  level

Tree == Levels[MAX_FILES]

\* The file manager passes the directory it shows, so never one cut off from the
\* root (a child of a directory that was deleted with its content).
Destinations == Tree \cup {d \in INodes : ~ IsDirectory(d)}

Contents == UNION {[1 .. k -> Data] : k \in Sizes}

CreateFile(n) == Call(createFile(Now, cwd, n, "File"))
CreateDir(n) == Call(createDir(Now, cwd, n))
WriteFile(n, c) == Call(writeFile(Now, cwd, n, c))
DeleteFile(n) == Call(deleteFile(Now, cwd, n))
RenameFile(n, new) == Call(renameFile(Now, cwd, n, new))

\* Where moveFile writes the new parent: a directory that createDir found no
\* block for has no "..", and slot 1 holds the second file put into it.
Overwrites(m, dir, name, dest) ==
  LET i == findFile(m, dir, name)
  IN  /\ MayMove(m, dir, name, dest) /\ m.ino[i].type = "Directory"
      /\ m.ino[i].fileSize >= 2 /\ findFile(m, i, "..") = NONE

MoveFile(n, dest) ==
  /\ Returns(moveFile(Now, cwd, n, dest))
  /\ intact' = (intact /\ ~ Overwrites(Now, cwd, n, dest))

\* Mutant: the result of findFile is not checked.
cd_Unchecked(n) ==
  /\ Running
  /\ cwd' = IF n = ".." THEN ino[cwd].parentINode ELSE findFile(Now, cwd, n)
  /\ UNCHANGED <<ino, bm, disk, power, bad, clean, intact>>

\* cd: ".." goes to the parent, another name to the directory it names.
cd(n) ==
  LET i == findFile(Now, cwd, n)
  IN  /\ Running
      /\ IF n = ".." THEN cwd' = ino[cwd].parentINode
         ELSE i # NONE /\ ino[i].type = "Directory" /\ cwd' = i
      /\ UNCHANGED <<ino, bm, disk, power, bad, clean, intact>>

\* Disk images at which power can fail, one write into a call.
Interrupted ==
  IF power = "off"
  THEN IF "format" \in CrashDuring THEN loadSuperBlock(disk).trail ELSE {}
  ELSE (IF "deleteFile" \notin CrashDuring THEN {}
        ELSE UNION {deleteFile(Now, cwd, n).trail : n \in Names})
       \cup
       (IF "other" \notin CrashDuring THEN {}
        ELSE UNION ({createFile(Now, cwd, n, "File").trail : n \in Names}
                    \cup {createDir(Now, cwd, n).trail : n \in Names}
                    \cup {writeFile(Now, cwd, n, c).trail : n \in Names, c \in Contents}
                    \cup {renameFile(Now, cwd, n, new).trail : n, new \in Names}
                    \cup {moveFile(Now, cwd, n, dest).trail : n \in Names, dest \in Destinations}))

PowerFails ==
  /\ clean
  /\ disk' \in Interrupted
  /\ power' = "off" /\ clean' = FALSE /\ after' = 0
  /\ ino' = EmptyDisk.ino /\ bm' = {} /\ cwd' = 0
  /\ UNCHANGED <<bad, intact>>

Next ==
  \/ Boot
  \/ PowerFails
  \/ \E n \in Names \cup Dots : cd(n) \/ DeleteFile(n)
  \/ \E n \in Names : CreateFile(n) \/ CreateDir(n)
  \/ \E n \in Names, c \in Contents : WriteFile(n, c)
  \/ \E n, new \in Names : RenameFile(n, new)
  \/ \E dest \in Destinations, n \in Names \cup Dots : MoveFile(n, dest)

Spec == Init /\ [][Next]_vars

-----------------------------------------------------------------------------
Owned(i) == {b \in FileBlocks : ino[i].blocks[b] # 0}
Bytes(i) == [b \in Owned(i) |-> disk.data[ino[i].blocks[b]]]
On == power = "on"

\* Type invariant.
TypeOK ==
  /\ bm \subseteq Blocks /\ disk.bm \subseteq Blocks
  /\ cwd \in INodes
  /\ \A t \in {ino, disk.ino} : \A i \in INodes :
       /\ t[i].type \in {"File", "Directory"}
       /\ t[i].fileSize \in 0 .. MAX_BLOCKS_PER_FILE * ENTRIES_PER_BLOCK
       /\ t[i].isUsed \in BOOLEAN /\ t[i].parentINode \in INodes
       /\ t[i].blocks \in [FileBlocks -> Blocks]
  /\ power \in {"on", "off"} /\ clean \in BOOLEAN
  /\ bad \in BadSectors /\ after \in 0 .. CALLS_AFTER_FAULT

\* A block belongs to one place of one inode, is marked in the bitmap and lies
\* behind the metadata, even after power has failed in any call but deleteFile
\* and the format (the order in which the calls write is what that rests on).
\* Without such a failure unused inodes own none, so createFile, which does not clear
\* blocks[], inherits none.
BlocksOwnedOnce ==
  On => /\ 0 .. META_BLOCKS - 1 \subseteq bm
        /\ \A i \in INodes : \A b \in Owned(i) :
             /\ (clean /\ intact) => ino[i].isUsed
             /\ ino[i].blocks[b] \in bm \ 0 .. META_BLOCKS - 1
             /\ \A j \in INodes : \A c \in Owned(j) :
                  ino[i].blocks[b] = ino[j].blocks[c] => i = j /\ b = c

\* When a call has returned, the disk holds what memory holds.
DiskAgrees == (On /\ clean) => disk.ino = ino /\ disk.bm = bm

\* The directories below the root form a tree: every inode below it is used
\* and named once, "." and ".." and parentINode agree with its place.  (A
\* directory left without dots on a full disk may be there, but not be moved.)
TreeOK ==
  (On /\ clean /\ intact) => LET tree == Tree IN
    /\ cwd \in tree /\ IsDirectory(cwd)
    /\ \A d \in {x \in tree : IsDirectory(x)} :
         /\ \A i, j \in Positions(Now, d) :
              EntryAt(Now, d, i).name = EntryAt(Now, d, j).name => i = j
         /\ \A e \in EntriesOf(d) :
              CASE e.name = "."  -> e.inodeNumber = d
                [] e.name = ".." -> e.inodeNumber = ino[d].parentINode
                [] OTHER -> /\ ino[e.inodeNumber].isUsed
                            /\ ino[e.inodeNumber].parentINode = d
                            /\ e.inodeNumber # 0

\* moveFile's walk to the root ends, from every directory in use.
WalkEnds ==
  (On /\ clean /\ intact) => \A d \in INodes : IsDirectory(d) => 0 \in Ancestors(ino, d)

\* One call, one entry.  Whatever a call does, there is one entry e of the current
\* directory (or none) such that everything not at or below e stays below the root,
\* no file but e changes, and if e changes as a file then no other inode does.  And what is at
\* or below e leaves only if the call gives an inode up, or if no block is free.
\*
\* What those two exceptions do to e is not promised here: deleteFile takes the
\* content of a directory along, though superblock.h says it refuses one that is not
\* empty (the run guiDeleteFolder), and renameFile on a full disk loses e (superblock.c:815).
GivesUp == \E j \in INodes : ino[j].isUsed /\ ~ ino'[j].isUsed

BystandersStay ==
  [][(On /\ clean' /\ intact' /\ power' = "on" /\ disk' # disk) =>
       \E e \in Children(cwd) \cup {NONE} :
         \A was \in {Tree \ {0}}, is \in {Tree'} : \A i \in was :
           /\ i \in is \/ (e \in Ancestors(ino, i) /\ (GivesUp \/ bm = Blocks))
           /\ (i \in is /\ ino[i].type = "File" /\ Bytes(i)' # Bytes(i))
                => i = e /\ \A j \in was \ {i} : ino'[j] = ino[j]]_vars
=============================================================================

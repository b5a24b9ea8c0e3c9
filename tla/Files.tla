------------------------------- MODULE Files --------------------------------
(***************************************************************************)
(* The file manager (Desktop/filemgr.c) and the editor (Desktop/editor.c)  *)
(* over the directory tree that both change.  The file manager shows a     *)
(* copy of the current directory, the editor a copy of a file; each learns *)
(* of the other's changes only where the code passes them on.              *)
(*                                                                         *)
(* The tree is FileSystem's without blocks: the entries of a directory are *)
(* a sequence, a removed entry is replaced by the last one, and "." and    *)
(* ".." are left out.  A text is a member of a small set; what the editor  *)
(* does inside it (cursor, lines) is one step from a text to another.      *)
(* Reading and writing the disk succeeds, but for a write, or an entry in  *)
(* need of a block, that finds it full; a folder for whose "." and ".."    *)
(* there is no block is not modelled.  Two clicks in a row count as a      *)
(* double click, and two Dels as a confirmed one, or not: time is not      *)
(* modelled.                                                               *)
(***************************************************************************)
EXTENDS Integers, Sequences, SequencesExt

CONSTANTS
  Names,       \* names that are typed
  Texts,       \* what a file can hold, the empty text among them
  MAX_FILES,   \* inodes (MAX_FILES)
  MAX_ENTRIES, \* how much of a directory is listed
  ENTRIES_PER_BLOCK   \* BLOCK_SIZE / DIR_ENTRY_SIZE

ASSUME NamesAssumption == Names \subseteq STRING \ {"", ".."}
ASSUME TextsAssumption == Texts \subseteq {"", "one", "three"} /\ "" \in Texts
ASSUME InodesAssumption == MAX_FILES \in Nat \ {0}
ASSUME EntriesAssumption ==
  ENTRIES_PER_BLOCK \in Nat \ {0} /\ MAX_ENTRIES \in Nat /\ MAX_ENTRIES >= 2

VARIABLES
  inodes,           \* inodeTable, and the entries or the text behind each inode
  currentDirINode,  \* the directory the file manager shows
  fm,               \* the static variables of filemgr.c; stale (history): a rename has
                    \* lost an entry since the directory was read
  ed,               \* the static variables of editor.c
  behind,           \* history: folders the editor created a file in since the
                    \* file manager read the directory it shows
  asked,            \* history: what Del was pressed on last, as <<folder, name>>
  changes           \* bound: how often the tree may still change

files == <<inodes, currentDirINode, fm, ed, behind, asked, changes>>

Inodes == 0 .. MAX_FILES - 1
NotFound == -1

Size(text) == CASE text = "" -> 0 [] text = "one" -> 3 [] OTHER -> 5

-----------------------------------------------------------------------------
(* The file system.                                                        *)

Unused == [used |-> FALSE, type |-> "file", parent |-> 0, list |-> << >>,
           text |-> "", whole |-> TRUE]

FindFile(t, dir, name) ==
  LET k == SelectInSeq(t[dir].list, LAMBDA e : e.name = name)
  IN  IF k = 0 THEN NotFound ELSE t[dir].list[k].node

Exists(t, dir, name) == FindFile(t, dir, name) # NotFound

\* A directory inode that was freed has kept its size but not its blocks: the
\* entry is written into block 0.  An inode that is a file by now gets the entry
\* for its contents.
AddDirEntry(t, dir, node, name) ==
  IF ~ t[dir].used THEN t
  ELSE [t EXCEPT ![dir].list = Append(@, [name |-> name, node |-> node]),
                 ![dir].text = IF t[dir].type = "file" THEN "entries" ELSE @,
                 ![dir].whole = t[dir].type = "dir"]

RemoveDirEntry(t, dir, name) ==
  LET list == t[dir].list
      k    == SelectInSeq(list, LAMBDA e : e.name = name)
  IN  [t EXCEPT ![dir].list = Front([list EXCEPT ![k] = Last(list)])]

FreeInodes(t) == {n \in Inodes : ~ t[n].used}
CanCreate(t, dir, name) == ~ Exists(t, dir, name) /\ FreeInodes(t) # {}
NewInode(t) == CHOOSE n \in FreeInodes(t) : \A m \in FreeInodes(t) : n <= m

CreateFile(t, dir, name, type) ==
  LET n == NewInode(t)
  IN  AddDirEntry([t EXCEPT ![n] = [Unused EXCEPT !.used = TRUE, !.type = type,
                                                  !.parent = dir]], dir, n, name)

\* A write that comes to an end, or finds the disk full half-way.
WriteFile(t, n, text) == [t EXCEPT ![n].text = text, ![n].list = << >>, ![n].whole = TRUE]
WriteFails(t, n, text) == [t EXCEPT ![n].text = "part", ![n].list = << >>, ![n].whole = FALSE]

DeleteFile(t, dir, name) ==
  RemoveDirEntry([t EXCEPT ![FindFile(t, dir, name)] =
                    [@ EXCEPT !.used = FALSE, !.list = << >>, !.text = ""]], dir, name)

\* With "." and "..", a directory has filled its blocks: the next entry needs a new
\* one, and the disk may be full.
NeedsBlock(t, dir) == (Len(t[dir].list) + 2) % ENTRIES_PER_BLOCK = 0

RenameFile(t, dir, old, new) ==
  AddDirEntry(RemoveDirEntry(t, dir, old), dir, FindFile(t, dir, old), new)

\* dir and the directories above it.
Above(t, dir) ==
  LET up[k \in 0 .. MAX_FILES] == IF k = 0 THEN dir ELSE t[up[k - 1]].parent
  IN  {up[k] : k \in 0 .. MAX_FILES}

CanMove(t, from, to, name) ==
  /\ Exists(t, from, name) /\ t[to].used /\ t[to].type = "dir" /\ to # from
  /\ ~ (t[FindFile(t, from, name)].type = "dir" /\ FindFile(t, from, name) \in Above(t, to))
  /\ ~ Exists(t, to, name)

MoveFile(t, from, to, name) ==
  LET n == FindFile(t, from, name)
  IN  [RemoveDirEntry(AddDirEntry(t, to, n, name), from, name) EXCEPT ![n].parent = to]

-----------------------------------------------------------------------------
(* The editor.                                                             *)

\* stored (history): the inode the document was opened from or last saved in, if it
\* has not been freed; ours (history): it should be found by the name and the folder
\* that the editor has for it.
Untitled == [text |-> "", dirty |-> FALSE, named |-> FALSE, name |-> "Untitled",
             dir |-> 0, naming |-> FALSE, stored |-> NotFound, ours |-> FALSE]

\* What reading a file as long as its row says gives; an empty one is not read.
NodeOf(row) == FindFile(inodes, currentDirINode, row.name)
Read(row) ==
  IF row.size = 0 THEN ""
  ELSE LET text == inodes[NodeOf(row)].text
       IN  IF row.size = Size(text) THEN text ELSE "torn"

IsOpen(name, dir) == ed.named /\ ed.name = name /\ ed.dir = dir

\* editorOpen refuses; editorOpen has nothing to do; editorOpen opens.
Refuses(row) ==
  /\ ~ IsOpen(row.name, currentDirINode)
  /\ ed.dirty \/ (row.size # 0 /\ NodeOf(row) = NotFound)
editorOpen(row) ==
  IF IsOpen(row.name, currentDirINode) THEN ed
  ELSE [ed EXCEPT !.text = Read(row), !.dirty = FALSE, !.named = TRUE, !.name = row.name,
                  !.dir = currentDirINode, !.stored = NodeOf(row),
                  !.ours = (NodeOf(row) # NotFound)]

\* Mutant: a file of the same name in another folder counts as well.
editorRenamed_AnyFolder(old, new) ==
  IF ed.named /\ ed.name = old THEN [ed EXCEPT !.name = new] ELSE ed

\* History: the entry is gone that the editor has for its document.
Unfollowed(name, dir) ==
  IF ed.name = name /\ ed.dir = dir THEN [ed EXCEPT !.ours = FALSE] ELSE ed

\* A document that only Save As has given a name is not followed.
editorRenamed(old, new) ==
  IF IsOpen(old, currentDirINode) THEN [ed EXCEPT !.name = new]
  ELSE Unfollowed(old, currentDirINode)

editorMoved(name, from, to) ==
  IF IsOpen(name, from) THEN [ed EXCEPT !.dir = to] ELSE Unfollowed(name, from)

\* History: an inode is freed, of the document or of the folder the editor has for it.
Forgotten(node) ==
  [ed EXCEPT !.stored = IF node = ed.stored THEN NotFound ELSE @,
             !.ours = @ /\ node \notin {ed.stored, ed.dir}]

-----------------------------------------------------------------------------
(* The file manager.                                                       *)

NoInput == [kind |-> "none", old |-> ""]
NoMove == [name |-> "", dir |-> 0, folder |-> FALSE, path |-> << >>]

Row(t, e) == [name |-> e.name, folder |-> t[e.node].type = "dir",
              size |-> IF t[e.node].type = "dir" THEN Len(t[e.node].list)
                       ELSE Size(t[e.node].text)]
UpRow == [name |-> "..", folder |-> TRUE, size |-> 0]

\* The rows of folders, or those of files, in their order.
Those(rows, folder) ==
  LET some[k \in 0 .. Len(rows)] ==
        IF k = 0 THEN << >>
        ELSE IF rows[k].folder = folder THEN Append(some[k - 1], rows[k]) ELSE some[k - 1]
  IN  some[Len(rows)]

\* How many entries are read, besides "." and "..", which come first.
Shown(t, dir) == IF Len(t[dir].list) > MAX_ENTRIES - 2 THEN MAX_ENTRIES - 2
                 ELSE Len(t[dir].list)

\* refresh: the way up, then the folders, then the files.
Listing(t, dir) ==
  LET rows == [k \in 1 .. Shown(t, dir) |-> Row(t, t[dir].list[k])]
  IN  (IF dir = 0 THEN << >> ELSE << UpRow >>) \o Those(rows, TRUE) \o Those(rows, FALSE)

FindRow(rows, name) == SelectInSeq(rows, LAMBDA r : r.name = name)

\* Mutant: a pending confirmation outlives the listing it was asked for.
Refreshed_KeepsConfirm(f, t, dir, name) ==
  [f EXCEPT !.rows = Listing(t, dir), !.lastClick = 0, !.stale = FALSE,
            !.selected = FindRow(Listing(t, dir), name)]

\* refresh, and the row of that name selected ("" for none); 0 stands for -1.
Refreshed(f, t, dir, name) ==
  [f EXCEPT !.rows = Listing(t, dir), !.lastClick = 0, !.confirm = 0, !.stale = FALSE,
            !.selected = FindRow(Listing(t, dir), name)]

\* filemgrRefresh, for a program that has changed the directory shown.
filemgrRefresh(f, t) ==
  IF ~ f.loaded THEN f
  ELSE Refreshed(f, t, currentDirINode,
                 IF f.selected = 0 THEN "" ELSE f.rows[f.selected].name)

Formatted == [n \in Inodes |-> IF n = 0 THEN [Unused EXCEPT !.used = TRUE, !.type = "dir"]
                               ELSE Unused]

\* A folder with a file in it.
FolderAndFile(folder, file, text) ==
  LET t == CreateFile(CreateFile(Formatted, 0, folder, "dir"), 1, file, "file")
  IN  WriteFile(t, 2, text)

FilesInit(tree, n) ==
  /\ inodes = tree /\ changes = n
  /\ currentDirINode = 0 /\ behind = {} /\ asked = << >>
  /\ ed = Untitled
  /\ fm = [loaded |-> FALSE, rows |-> << >>, selected |-> 0, lastClick |-> 0, confirm |-> 0,
           input |-> NoInput, move |-> NoMove, path |-> << >>, stale |-> FALSE]

\* The first time the window is drawn.
filemgrDraw ==
  /\ ~ fm.loaded
  /\ fm' = [Refreshed(fm, inodes, 0, "") EXCEPT !.loaded = TRUE]
  /\ currentDirINode' = 0 /\ behind' = {}
  /\ UNCHANGED <<inodes, ed>>

Chosen == fm.rows[fm.selected]
SomethingChosen == fm.selected # 0 /\ Chosen.name # ".."
Moving == fm.move # NoMove
Quiet == fm.input = NoInput   \* a click while a name is typed only cancels that

\* Only fm changes.
Only(f) == fm' = f /\ UNCHANGED <<inodes, currentDirINode, ed, behind>>

\* The tree changes, and the listing is read again with name selected.
Changes(t, f, name) ==
  /\ inodes' = t
  /\ fm' = Refreshed(f, t, currentDirINode, name)
  /\ behind' = {}
  /\ UNCHANGED currentDirINode

ClickCancels == ~ Quiet /\ Only([fm EXCEPT !.input = NoInput])

startRename ==
  /\ Quiet /\ ~ Moving /\ SomethingChosen
  /\ Only([fm EXCEPT !.input = [kind |-> "rename", old |-> Chosen.name]])

startCreate ==
  /\ Quiet /\ ~ Moving
  /\ \E kind \in {"dir", "file"} : Only([fm EXCEPT !.input = [NoInput EXCEPT !.kind = kind]])

startMove ==
  /\ Quiet /\ ~ Moving /\ SomethingChosen
  /\ Only([fm EXCEPT !.move = [name |-> Chosen.name, dir |-> currentDirINode,
                               folder |-> Chosen.folder, path |-> fm.path]])

CancelMove == Moving /\ Only([fm EXCEPT !.move = NoMove])

\* Paste.  The folder that is moved may not be above the one it goes to: the paths
\* are compared here, and the parents once more by moveFile.
finishMove ==
  LET m == fm.move IN
  /\ Quiet /\ Moving
  /\ m.dir # currentDirINode /\ FindRow(fm.rows, m.name) = 0
  /\ ~ (m.folder /\ IsPrefix(Append(m.path, m.name), fm.path))
  /\ \/ /\ CanMove(inodes, m.dir, currentDirINode, m.name)
        /\ Changes(MoveFile(inodes, m.dir, currentDirINode, m.name),
                   [fm EXCEPT !.move = NoMove], m.name)
        /\ ed' = editorMoved(m.name, m.dir, currentDirINode)
     \/ /\ ~ CanMove(inodes, m.dir, currentDirINode, m.name) \/ NeedsBlock(inodes, currentDirINode)
        /\ Only([fm EXCEPT !.move = NoMove])

\* Enter.  Only Enter reads the name, so it is chosen here: one that may be used ...
NameIsFree(name) == name # fm.input.old /\ FindRow(fm.rows, name) = 0

CanRename(name) ==
  /\ fm.input.kind = "rename" /\ NameIsFree(name)
  /\ Exists(inodes, currentDirINode, fm.input.old)
  /\ ~ Exists(inodes, currentDirINode, name)

\* When there is no block for the new entry the old one is gone all the same; nobody
\* is told, and the directory is not read again.
RenameLoses ==
  /\ \E name \in Names : CanRename(name)
  /\ inodes' = RemoveDirEntry(inodes, currentDirINode, fm.input.old)
  /\ NeedsBlock(inodes', currentDirINode)
  /\ fm' = [fm EXCEPT !.input = NoInput, !.stale = TRUE]
  /\ ed' = Unfollowed(fm.input.old, currentDirINode)
  /\ UNCHANGED <<currentDirINode, behind>>

finishRename ==
  \/ \E name \in Names :
       /\ CanRename(name)
       /\ Changes(RenameFile(inodes, currentDirINode, fm.input.old, name),
                  [fm EXCEPT !.input = NoInput], name)
       /\ ed' = editorRenamed(fm.input.old, name)
  \/ RenameLoses

finishCreate ==
  /\ fm.input.kind \in {"dir", "file"}
  /\ \E name \in Names :
       /\ NameIsFree(name)
       /\ \/ /\ CanCreate(inodes, currentDirINode, name)
             /\ Changes(CreateFile(inodes, currentDirINode, name, fm.input.kind),
                        [fm EXCEPT !.input = NoInput], name)
          \/ /\ ~ CanCreate(inodes, currentDirINode, name) \/ NeedsBlock(inodes, currentDirINode)
             /\ Changes(inodes, [fm EXCEPT !.input = NoInput], name)
  /\ UNCHANGED ed

\* ... or one that may not; or Esc.
NameDropped == ~ Quiet /\ Only([fm EXCEPT !.input = NoInput])

\* Mutant: the listing is not read again in the new directory.
navigate_KeepsListing(dir, path) ==
  /\ currentDirINode' = dir
  /\ fm' = [fm EXCEPT !.path = path]
  /\ behind' = {}
  /\ UNCHANGED <<inodes, ed>>

navigate(dir, path) ==
  /\ currentDirINode' = dir
  /\ fm' = Refreshed([fm EXCEPT !.path = path], inodes, dir, "")
  /\ behind' = {}
  /\ UNCHANGED <<inodes, ed>>

GoUp == currentDirINode # 0 /\ navigate(inodes[currentDirINode].parent, Front(fm.path))

ClickUp == Quiet /\ GoUp

DelAsks ==
  /\ Quiet /\ ~ Moving /\ SomethingChosen /\ ~ (Chosen.folder /\ Chosen.size > 0)
  /\ fm' = [fm EXCEPT !.confirm = fm.selected]
  /\ asked' = <<currentDirINode, Chosen.name>>
  /\ UNCHANGED <<inodes, currentDirINode, ed, behind>>

DelDeletes ==
  /\ Quiet /\ ~ Moving /\ SomethingChosen /\ ~ (Chosen.folder /\ Chosen.size > 0)
  /\ fm.confirm = fm.selected
  /\ Changes(IF Exists(inodes, currentDirINode, Chosen.name)
             THEN DeleteFile(inodes, currentDirINode, Chosen.name) ELSE inodes, fm, "")
  /\ ed' = Forgotten(FindFile(inodes, currentDirINode, Chosen.name))

ClickBlank == Quiet /\ Only([fm EXCEPT !.selected = 0, !.lastClick = 0])

ClickRow(k) == Quiet /\ Only([fm EXCEPT !.selected = k, !.lastClick = k])

DoubleClickFolder(k) ==
  LET row  == fm.rows[k]
      node == FindFile(inodes, currentDirINode, row.name) IN
  /\ Quiet /\ k = fm.lastClick /\ row.folder
  /\ IF row.name = ".." THEN GoUp
     ELSE IF node # NotFound /\ inodes[node].type = "dir"
          THEN navigate(node, Append(fm.path, row.name))
          ELSE Only([fm EXCEPT !.lastClick = 0])

\* While something is moved, or when the editor refuses, a double click is nothing.
DoubleClickInVain(k) ==
  /\ Quiet /\ k = fm.lastClick /\ ~ fm.rows[k].folder
  /\ Moving \/ Refuses(fm.rows[k])
  /\ Only([fm EXCEPT !.lastClick = 0])

\* The editor opens the file; its window is shown as part of the same click.
DoubleClickOpens(k) ==
  /\ Quiet /\ k = fm.lastClick /\ ~ fm.rows[k].folder
  /\ ~ Moving /\ ~ Refuses(fm.rows[k])
  /\ ed' = editorOpen(fm.rows[k])
  /\ fm' = [fm EXCEPT !.lastClick = 0]
  /\ UNCHANGED <<inodes, currentDirINode, behind>>

-----------------------------------------------------------------------------
(* Saving.                                                                 *)

\* What a save leaves to the file manager.
Saved(t) ==
  /\ inodes' = t
  /\ fm' = IF ed.dir = currentDirINode THEN filemgrRefresh(fm, t) ELSE fm
  /\ behind' = IF ed.dir = currentDirINode THEN {} ELSE behind \cup {ed.dir}
  /\ UNCHANGED currentDirINode

OpenNode == FindFile(inodes, ed.dir, ed.name)
FolderIsThere == inodes[ed.dir].used /\ inodes[ed.dir].type = "dir"
CanWrite == OpenNode # NotFound /\ inodes[OpenNode].type = "file"

SaveWrites ==
  /\ CanWrite
  /\ Saved(WriteFile(inodes, OpenNode, ed.text))
  /\ ed' = [ed EXCEPT !.dirty = FALSE, !.naming = FALSE,
                      !.stored = OpenNode, !.ours = FolderIsThere]

\* The file manager is not told.
SaveFails ==
  /\ CanWrite /\ ed.text # ""
  /\ inodes' = WriteFails(inodes, OpenNode, ed.text)
  /\ ed' = [ed EXCEPT !.naming = FALSE]
  /\ UNCHANGED <<currentDirINode, fm, behind>>

\* writeFile returns no value when it finds no file: save takes what is left in the
\* register for success or for failure.  (History: what is not saved is not stored.)
SaveFindsNone ==
  /\ ~ CanWrite
  /\ \E success \in BOOLEAN :
       /\ ed' = [ed EXCEPT !.dirty = IF success THEN FALSE ELSE @, !.naming = FALSE,
                           !.stored = IF success THEN NotFound ELSE @]
       /\ fm' = IF success /\ ed.dir = currentDirINode THEN filemgrRefresh(fm, inodes) ELSE fm
  /\ UNCHANGED <<inodes, currentDirINode, behind>>

WritesBack == SaveWrites \/ SaveFails \/ SaveFindsNone
save == ~ ed.naming /\ ed.named /\ WritesBack

startSaveAs ==
  /\ ~ ed.naming
  /\ ed' = [ed EXCEPT !.naming = TRUE,
                      !.dir = IF ed.named THEN @ ELSE currentDirINode,
                      !.ours = @ /\ (ed.named \/ ed.dir = currentDirINode)]
  /\ UNCHANGED <<inodes, currentDirINode, fm, behind>>

\* A name that is empty, forbidden or taken, or no inode left; Esc; a click.
SaveAsDropped ==
  /\ ed.naming
  /\ ed' = [ed EXCEPT !.naming = FALSE]
  /\ UNCHANGED <<inodes, currentDirINode, fm, behind>>

SaveAsSame == ed.naming /\ ed.named /\ WritesBack

\* A document without a name keeps having none: named is not set.
SaveAsCreates ==
  /\ ed.naming
  /\ \E name \in Names :
       LET t == CreateFile(inodes, ed.dir, name, "file")
           n == FindFile(t, ed.dir, name)
           done == [ed EXCEPT !.naming = FALSE, !.name = name] IN
       /\ CanCreate(inodes, ed.dir, name) /\ ~ (ed.named /\ name = ed.name)
       /\ \/ /\ n # NotFound
             /\ Saved(WriteFile(t, n, ed.text))
             /\ ed' = [done EXCEPT !.dirty = FALSE, !.stored = n, !.ours = FolderIsThere]
          \/ /\ n # NotFound /\ ed.text # ""
             /\ Saved(WriteFails(t, n, ed.text))
             /\ ed' = [done EXCEPT !.stored = n, !.ours = FolderIsThere]
          \/ /\ n = NotFound
             /\ Saved(t)
             /\ \E dirty \in {FALSE, ed.dirty} :
                  ed' = [done EXCEPT !.dirty = dirty, !.stored = NotFound, !.ours = FALSE]

EditText ==
  /\ ~ ed.naming
  /\ \E text \in Texts \ {ed.text} : ed' = [ed EXCEPT !.text = text, !.dirty = TRUE]
  /\ UNCHANGED <<inodes, currentDirINode, fm, behind>>

-----------------------------------------------------------------------------
filemgrClick ==
  \/ DelAsks
  \/ /\ \/ ClickCancels \/ startRename \/ startCreate \/ startMove \/ finishMove \/ CancelMove
        \/ ClickUp \/ DelDeletes \/ ClickBlank
        \/ \E k \in DOMAIN fm.rows :
             ClickRow(k) \/ DoubleClickFolder(k) \/ DoubleClickInVain(k) \/ DoubleClickOpens(k)
     /\ UNCHANGED asked

filemgrKey == (CancelMove \/ finishRename \/ finishCreate \/ NameDropped) /\ UNCHANGED asked

editorKey ==
  /\ EditText \/ save \/ startSaveAs \/ SaveAsDropped \/ SaveAsSame \/ SaveAsCreates
  /\ UNCHANGED asked

editorClick == (save \/ startSaveAs \/ SaveAsDropped) /\ UNCHANGED asked

FilesNext ==
  /\ \/ filemgrDraw /\ UNCHANGED asked
     \/ fm.loaded /\ (filemgrClick \/ filemgrKey \/ editorKey \/ editorClick)
  /\ changes' = IF inodes' = inodes THEN changes ELSE changes - 1
  /\ changes' >= 0
=============================================================================

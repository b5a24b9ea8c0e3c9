-------------------------------- MODULE Gui ---------------------------------
(***************************************************************************)
(* openGUI (Graphics/gui.c): the windows and icons, and the file manager   *)
(* and the editor in theirs.  A user either works the windows or, with     *)
(* both of those open, the files: a click on any window is always possible *)
(* and raises it, so that the windows put the handlers of the two programs *)
(* in no order.                                                            *)
(***************************************************************************)
EXTENDS Desktop, Files

Bytes == Texts \cup {"entries", "part", "torn"}
Inode == [used : BOOLEAN, type : {"file", "dir"}, parent : Inodes,
          list : Seq([name : STRING, node : Inodes]), text : Bytes, whole : BOOLEAN]

\* Every inode has at most one entry, in its parent, and no two entries of a directory
\* have the same name.
IsTree(t) ==
  /\ t \in [Inodes -> Inode]
  /\ t[0].used /\ t[0].type = "dir"
  /\ \A d \in Inodes :
       /\ \A i, j \in DOMAIN t[d].list :
            (t[d].list[i].name = t[d].list[j].name \/ t[d].list[i].node = t[d].list[j].node)
              => i = j
       /\ \A e \in Range(t[d].list) :
            e.node \notin {0, d} /\ t[e.node].used /\ t[e.node].parent = d

\* What the users have on their disks to begin with.
ASSUME TreesAssumption == \A u \in Users : IsTree(u.tree)

vars == <<desktop, files>>

Init == DesktopInit /\ FilesInit(user.tree, user.changes)

Next ==
  \/ user.spots # {} /\ DesktopNext /\ UNCHANGED files
  \/ user.spots = {} /\ FilesNext /\ UNCHANGED desktop

Spec == Init /\ [][Next]_vars

-----------------------------------------------------------------------------
\* A press over a window never reaches the icon below it, unless the mouse moved
\* while a frame was at work: wmUpdate and desktopUpdate each look for a press of
\* their own, and only clickConsumed keeps them apart.
ClickHasOneOwner ==
  (pc = "desktop" /\ DesktopPressed /\ ~ late) => HitTest(ui.wins, mouse) = 0

\* The dragged window is remembered by its place among the windows, which changes
\* when one is raised, closed or launched; all the same the drag stays with the
\* window it began with, unless the mouse moved while a frame was at work.
DragKeepsItsWindow ==
  [][(wm.drag.of # 0 /\ wm'.drag.of # 0 /\ ~ late) =>
       ui'.wins[wm'.drag.of].id = ui.wins[wm.drag.of].id]_vars

\* The window a program remembers is its own, and its only one, although windows
\* are closed behind its back and launching can fail for want of room.
WindowOfItsApp ==
  \A k \in DOMAIN ui.wins, a \in DOMAIN Apps :
    ui.wins[k].app = a <=> ui.wins[k].id = ui.winId[a]

\* What the file manager shows is what it can show of the directory, its first
\* MAX_ENTRIES entries, whoever changed it last.  But for the size of a folder that the
\* editor has created a file in (which is why it deletes folders that are not empty,
\* see OnlyEmptyFoldersGo), the size of a file whose last write failed, and all of it
\* after a rename on a full disk, until the directory is read again.
ListingIsCurrent ==
  (fm.loaded /\ ~ fm.stale) =>
    LET now == Listing(inodes, currentDirINode)
    IN  /\ Len(fm.rows) = Len(now)
        /\ \A k \in DOMAIN now :
             LET row  == fm.rows[k]
                 node == FindFile(inodes, currentDirINode, row.name) IN
             /\ row.name = now[k].name /\ row.folder = now[k].folder
             /\ \/ row.size = now[k].size
                \/ row.folder /\ node \in behind
                \/ ~ row.folder /\ ~ inodes[node].whole

\* A document without the star, opened or stored by Save or Save As, is on the disk as
\* the editor shows it, unless its file was deleted, a write to it failed, or a save
\* that found no file took that for success; and its file is where the editor will save
\* it, also when the file manager has renamed or moved it.  The latter is not so when
\* the file or its folder was deleted, when a rename on a full disk lost its entry, and
\* for a document that has its name from Save As alone: the editor follows no rename
\* and no move of it, and Save As, begun again in another folder, forgets its own.
CleanMeansSaved ==
  /\ (ed.stored # NotFound /\ ~ ed.dirty) =>
       LET file == inodes[ed.stored]
       IN  file.used /\ file.type = "file" /\ (file.whole => file.text = ed.text)
  /\ ed.ours => ed.stored # NotFound /\ OpenNode = ed.stored

\* What is deleted is what Del was pressed on before, although the rows shift under
\* the number that is remembered for the second press.
DeletesWhatWasConfirmed ==
  [][\A n \in Inodes : (inodes[n].used /\ ~ inodes'[n].used) =>
       asked # << >> /\ n = FindFile(inodes, asked[1], asked[2])]_vars

\* Only empty folders are deleted: "deleteFile doesnt recurse, so only empty folders
\* are allowed", and deleteFile is said to refuse a directory that is not empty.  The
\* file manager goes by the size it has read, and deleteFile looks at nothing.
OnlyEmptyFoldersGo ==
  [][\A n \in Inodes :
       (inodes[n].used /\ inodes[n].type = "dir" /\ ~ inodes'[n].used) =>
         inodes[n].list = << >>]_vars
=============================================================================

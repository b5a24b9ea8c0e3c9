------------------------------- MODULE MCGui --------------------------------
EXTENDS Gui

\* Three of the programs, with their windows' sizes; a double click on a file in the
\* file manager opens the editor.
Programs == << [name |-> "System", w |-> 260, h |-> 90, opens |-> 0],
               [name |-> "Files", w |-> 360, h |-> 260, opens |-> 3],
               [name |-> "Editor", w |-> 420, h |-> 300, opens |-> 0] >>

\* The first two icons; the title, the close button and the inside of the first
\* window that is opened; the task bar.
Icon1 == <<40, 40>>
Icon2 == <<40, 110>>
Title == <<200, 45>>
Close == <<390, 48>>
Inside == <<200, 200>>
Taskbar == <<300, 750>>

User(spots, hasty, shown, tree, n) ==
  [spots |-> spots, hasty |-> hasty, shown |-> shown, tree |-> tree, changes |-> n]
Mouse(spots, hasty, shown) == User(spots, hasty, shown, Formatted, 0)
Worker(tree, n) == User({}, FALSE, <<2, 3>>, tree, n)

\* An empty folder, its inode behind a free one; a file whose entry was lost.
Used ==
  LET t == CreateFile(CreateFile(CreateFile(Formatted, 0, "b", "file"), 0, "a", "dir"),
                      0, "c", "file")
  IN  RemoveDirEntry(DeleteFile(t, 0, "b"), 0, "c")
Workers == {Worker(Used, 2)}
Everybody ==
  Workers \cup
  {Worker(FolderAndFile("a", "b", "one"), 2),
   Worker(CreateFile(CreateFile(Formatted, 0, "c", "dir"), 0, "a", "file"), 1),
   Mouse({Icon1, Icon2, Title}, FALSE, << >>),     \* drags windows and icons
   Mouse({Icon1, Icon2, Close}, FALSE, <<1>>),   \* closes windows
   Mouse({Icon2, Inside, Taskbar}, FALSE, <<2>>),  \* opens files
   Mouse({Icon2, Title}, TRUE, <<1, 2>>)}            \* is faster than a frame
=============================================================================

------------------------------ MODULE Desktop -------------------------------
(***************************************************************************)
(* The mouse (Graphics/mouse.c), the window manager (Desktop/wm.c), the    *)
(* icons (desktop.c) and the launching of programs (apps.c), as openGUI    *)
(* (Graphics/gui.c) runs them.  A mouse packet is an interrupt and can     *)
(* come at any time; a frame is wmUpdate and then desktopUpdate, each in   *)
(* two steps: what it does on a press, and what it does with a drag before *)
(* it remembers the button.  Between the two functions the browser and the *)
(* mail program are polled, which can take long (a TLS handshake).         *)
(*                                                                         *)
(* Positions are pixels, but the mouse only stops at a few spots.  Windows *)
(* are numbered from the bottom, 0 stands for -1 in their and the icons'   *)
(* numbers.  What is remembered of a drag is kept only while it lasts; the *)
(* code leaves old numbers behind and reads none of them.  Left out are    *)
(* colours, titles and the selected icon, which only drawing reads, and    *)
(* taskbarUpdate, which nobody calls.                                      *)
(***************************************************************************)
EXTENDS Integers, Sequences, SequencesExt

CONSTANTS
  Apps,          \* apps[]: a sequence of [name, w, h, opens]; opens is the number of
                 \* the program that a click inside may launch, or 0
  MAX_WINDOWS,
  MAX_IDS,       \* bound: windows opened altogether
  Users          \* who may sit at the machine: [spots, hasty, shown], shown being
                 \* up to two programs they have launched so far; what else they
                 \* have is of no concern here

ASSUME AppsAssumption ==
  Apps \in Seq([name : STRING, w : Nat \ {0}, h : Nat \ {0}, opens : 0 .. Len(Apps)])
ASSUME WindowsAssumption == MAX_WINDOWS \in Nat \ {0} /\ MAX_IDS \in Nat
ASSUME UsersAssumption ==
  \A u \in Users : /\ u.spots \subseteq Int \X Int
                   /\ u.shown \in Seq(DOMAIN Apps) /\ Len(u.shown) <= 2

VARIABLES
  user,   \* the member of Users who does
  mouse,  \* mouseX, mouseY, mouseLeft
  pc,     \* where the frame is
  ui,     \* wins, nextId, the winId of every program, cascade
  wm,     \* clickConsumed, prevLeft, and the drag of wm.c
  icons,  \* prevLeft, lastClickIcon, the cells and the drag of desktop.c
  late    \* history: a packet came inside a frame, and the two prevLeft have not
          \* agreed at the end of one since

desktop == <<user, mouse, pc, ui, wm, icons, late>>

SCREEN_WIDTH == 1024
TASKBAR_Y == 740
TITLE_H == 16
CLOSE_SZ == 12
CLOSE_PAD == 2
CELL_W == 80
CELL_H == 72
MARGIN == 16
DRAG_THRESHOLD == 4

NoDrag == [of |-> 0, moved |-> FALSE, dx |-> 0, dy |-> 0, x |-> 0, y |-> 0]

-----------------------------------------------------------------------------
(* Windows.                                                                *)

\* wmRaise, wmClose.
Raised(ws, k) == Append(RemoveAt(ws, k), ws[k])
Closed(ws, k) == RemoveAt(ws, k)

\* wmHitTest: the topmost window under a point.
HitTest(ws, p) ==
  SelectLastInSeq(ws, LAMBDA w : /\ w.x <= p.x /\ p.x < w.x + Apps[w.app].w
                                 /\ w.y <= p.y /\ p.y < w.y + Apps[w.app].h + TITLE_H)

OnCloseButton(w, p) ==
  LET bx == w.x + Apps[w.app].w - CLOSE_SZ - CLOSE_PAD
      by == w.y + CLOSE_PAD
  IN  bx <= p.x /\ p.x < bx + CLOSE_SZ /\ by <= p.y /\ p.y < by + CLOSE_SZ

OnTitle(w, p) == ~ OnCloseButton(w, p) /\ p.y < w.y + TITLE_H
InBody(w, p) == ~ OnCloseButton(w, p) /\ p.y >= w.y + TITLE_H

IndexOfId(ws, id) == SelectInSeq(ws, LAMBDA w : w.id = id)

\* Mutant: a window's number is its place, so that it is used again.
appLaunch_IdsComeBack(u, a) ==
  LET k == IndexOfId(u.wins, u.winId[a])
      n == u.cascade
      w == [id |-> Len(u.wins), app |-> a, x |-> 140 + n * 28, y |-> 40 + n * 28]
  IN  IF k # 0 THEN [u EXCEPT !.wins = Raised(@, k)]
      ELSE IF Len(u.wins) >= MAX_WINDOWS
           THEN [u EXCEPT !.winId[a] = -1, !.cascade = (n + 1) % 8]
           ELSE [wins |-> Append(u.wins, w), winId |-> [u.winId EXCEPT ![a] = w.id],
                 nextId |-> u.nextId + 1, cascade |-> (n + 1) % 8]

\* appLaunch, with wmAddWindow: a program that has a window gets it raised, another
\* one a new window, if there is room.
appLaunch(u, a) ==
  LET k == IndexOfId(u.wins, u.winId[a])
      n == u.cascade
      w == [id |-> u.nextId, app |-> a, x |-> 140 + n * 28, y |-> 40 + n * 28]
  IN  IF k # 0 THEN [u EXCEPT !.wins = Raised(@, k)]
      ELSE IF Len(u.wins) >= MAX_WINDOWS
           THEN [u EXCEPT !.winId[a] = -1, !.cascade = (n + 1) % 8]
           ELSE [wins |-> Append(u.wins, w), winId |-> [u.winId EXCEPT ![a] = w.id],
                 nextId |-> u.nextId + 1, cascade |-> (n + 1) % 8]

NoWindows == [wins |-> << >>, winId |-> [a \in DOMAIN Apps |-> -1], nextId |-> 0, cascade |-> 0]

\* What one or two launches make of that.
Launched(apps) ==
  CASE Len(apps) = 0 -> NoWindows
    [] Len(apps) = 1 -> appLaunch(NoWindows, apps[1])
    [] OTHER         -> appLaunch(appLaunch(NoWindows, apps[1]), apps[2])

-----------------------------------------------------------------------------
(* Icons.                                                                  *)

gridCols == (SCREEN_WIDTH - MARGIN) \div CELL_W
gridRows == (TASKBAR_Y - MARGIN) \div CELL_H
Cells == (0 .. gridCols - 1) \X (0 .. gridRows - 1)

placeAll == [a \in DOMAIN Apps |-> <<(a - 1) \div gridRows, (a - 1) % gridRows>>]

cellTaken(c, ignore) == \E a \in DOMAIN Apps : a # ignore /\ icons.cell[a] = c

\* iconPos: where the icon is, the dragged one under the mouse.
IconX(a) == IF a = icons.drag.of /\ icons.drag.moved THEN icons.drag.x
            ELSE MARGIN + icons.cell[a][1] * CELL_W
IconY(a) == IF a = icons.drag.of /\ icons.drag.moved THEN icons.drag.y
            ELSE MARGIN + icons.cell[a][2] * CELL_H

\* iconAt: the first icon under a point.
IconAt(p) ==
  LET under == {a \in DOMAIN Apps : /\ IconX(a) <= p.x /\ p.x < IconX(a) + CELL_W
                                    /\ IconY(a) <= p.y /\ p.y < IconY(a) + CELL_H}
  IN  IF under = {} THEN 0 ELSE Min(under)

Within(v, low, high) == IF v < low THEN low ELSE IF v > high THEN high ELSE v

\* targetCell: the cell the dragged icon is over, or the free one nearest to it (of
\* several, the first by columns).
targetCell(d) ==
  LET over == <<Within((d.x + CELL_W \div 2 - MARGIN) \div CELL_W, 0, gridCols - 1),
                Within((d.y + CELL_H \div 2 - MARGIN) \div CELL_H, 0, gridRows - 1)>>
      free == {c \in Cells : ~ cellTaken(c, d.of)}
      far(c) == (c[1] - over[1]) * (c[1] - over[1]) + (c[2] - over[2]) * (c[2] - over[2])
      first(c, o) == \/ far(c) < far(o)
                     \/ far(c) = far(o) /\ c[1] * gridRows + c[2] <= o[1] * gridRows + o[2]
  IN  IF ~ cellTaken(over, d.of) THEN over
      ELSE IF free = {} THEN icons.cell[d.of]
      ELSE CHOOSE c \in free : \A o \in free : first(c, o)

-----------------------------------------------------------------------------
DesktopInit ==
  /\ user \in Users
  /\ mouse = [x |-> SCREEN_WIDTH \div 2, y |-> 384, left |-> FALSE]
  /\ pc = "idle"
  /\ ui = Launched(user.shown)
  /\ wm = [consumed |-> FALSE, prevLeft |-> FALSE, drag |-> NoDrag]
  /\ icons = [prevLeft |-> FALSE, lastClick |-> 0, cell |-> placeAll, drag |-> NoDrag]
  /\ late = FALSE

\* processMousePacket, and the packets before it that moved the mouse on its way.
processMousePacket ==
  /\ pc = "idle" \/ user.hasty
  /\ \E p \in user.spots, left \in BOOLEAN :
       /\ left => ui.nextId < MAX_IDS
       /\ mouse' = [x |-> p[1], y |-> p[2], left |-> left]
       /\ mouse' # mouse
  /\ late' = (late \/ pc # "idle")
  /\ UNCHANGED <<user, pc, ui, wm, icons>>

\* wmUpdate does nothing for a mouse on the task bar.
OverTaskbar ==
  /\ pc = "idle" /\ wm.drag = NoDrag /\ mouse.y >= TASKBAR_Y
  /\ wm' = [wm EXCEPT !.consumed = FALSE, !.prevLeft = mouse.left]
  /\ pc' = "desktop"
  /\ UNCHANGED <<user, mouse, ui, icons, late>>

InWindows == pc = "idle" /\ ~ (wm.drag = NoDrag /\ mouse.y >= TASKBAR_Y)
Hit == IF mouse.left /\ ~ wm.prevLeft THEN HitTest(ui.wins, mouse) ELSE 0

NothingHit ==
  /\ InWindows /\ Hit = 0
  /\ wm' = [wm EXCEPT !.consumed = FALSE]
  /\ pc' = "move"
  /\ UNCHANGED <<user, mouse, ui, icons, late>>

CloseWindow ==
  /\ InWindows /\ Hit # 0 /\ OnCloseButton(ui.wins[Hit], mouse)
  /\ ui' = [ui EXCEPT !.wins = Closed(@, Hit)]
  /\ wm' = [wm EXCEPT !.consumed = TRUE, !.drag = NoDrag]
  /\ pc' = "move"
  /\ UNCHANGED <<user, mouse, icons, late>>

\* Mutant: the click that starts a drag is left for the desktop as well.
Consume_BodyOnly == wm.drag # NoDrag

Consume == TRUE

GrabTitle ==
  /\ InWindows /\ Hit # 0 /\ OnTitle(ui.wins[Hit], mouse)
  /\ ui' = [ui EXCEPT !.wins = Raised(@, Hit)]
  /\ wm' = [wm EXCEPT !.consumed = Consume,
                      !.drag = [NoDrag EXCEPT !.of = Len(ui.wins),
                                              !.dx = mouse.x - ui.wins[Hit].x,
                                              !.dy = mouse.y - ui.wins[Hit].y]]
  /\ pc' = "move"
  /\ UNCHANGED <<user, mouse, icons, late>>

\* The program's own handler, which may launch another program.
ClickBody ==
  /\ InWindows /\ Hit # 0 /\ InBody(ui.wins[Hit], mouse)
  /\ LET u == [ui EXCEPT !.wins = Raised(@, Hit)]
         a == Apps[ui.wins[Hit].app].opens
     IN  ui' = u \/ (a # 0 /\ ui' = appLaunch(u, a))
  /\ wm' = [wm EXCEPT !.consumed = TRUE]
  /\ pc' = "move"
  /\ UNCHANGED <<user, mouse, icons, late>>

\* Mutant: releasing the button does not end the drag.
StillDragging_Released == wm.drag.of # 0

StillDragging == wm.drag.of # 0 /\ mouse.left

\* The rest of wmUpdate: the window follows the mouse, its title above the task bar.
DragWindow ==
  /\ pc = "move"
  /\ LET k == wm.drag.of IN
     IF StillDragging
     THEN /\ ui' = [ui EXCEPT !.wins[k].x = mouse.x - wm.drag.dx,
                              !.wins[k].y = Within(mouse.y - wm.drag.dy, 0, TASKBAR_Y - TITLE_H)]
          /\ wm' = [wm EXCEPT !.prevLeft = mouse.left]
     ELSE /\ wm' = [wm EXCEPT !.prevLeft = mouse.left, !.drag = NoDrag]
          /\ UNCHANGED ui
  /\ pc' = "desktop"
  /\ UNCHANGED <<user, mouse, icons, late>>

\* desktopUpdate, after the polls: a press that no window took.
DesktopPressed == mouse.left /\ ~ icons.prevLeft /\ mouse.y < TASKBAR_Y /\ ~ wm.consumed

NoPress ==
  /\ pc = "desktop" /\ ~ DesktopPressed
  /\ pc' = "drop"
  /\ UNCHANGED <<user, mouse, ui, wm, icons, late>>

DoubleClick ==
  LET a == IconAt(mouse) IN
  /\ pc = "desktop" /\ DesktopPressed
  /\ a # 0 /\ a = icons.lastClick
  /\ ui' = appLaunch(ui, a)
  /\ icons' = [icons EXCEPT !.lastClick = 0, !.drag = NoDrag]
  /\ pc' = "drop"
  /\ UNCHANGED <<user, mouse, wm, late>>

Click ==
  LET a == IconAt(mouse) IN
  /\ pc = "desktop" /\ DesktopPressed
  /\ icons' = [icons EXCEPT !.lastClick = a,
                 !.drag = IF a = 0 THEN @
                          ELSE [of |-> a, moved |-> FALSE, x |-> mouse.x, y |-> mouse.y,
                                dx |-> mouse.x - IconX(a), dy |-> mouse.y - IconY(a)]]
  /\ pc' = "drop"
  /\ UNCHANGED <<user, mouse, ui, wm, late>>

Settles == late' = (late /\ icons'.prevLeft # wm.prevLeft)

\* The rest of desktopUpdate.  Until the drag has begun, drag.x and drag.y hold
\* where the button was pressed.
DropIcon ==
  /\ pc = "drop" /\ icons.drag.of # 0 /\ ~ mouse.left
  /\ icons' = IF icons.drag.moved
              THEN [icons EXCEPT !.cell[icons.drag.of] = targetCell(icons.drag),
                                 !.lastClick = 0, !.drag = NoDrag, !.prevLeft = FALSE]
              ELSE [icons EXCEPT !.drag = NoDrag, !.prevLeft = FALSE]
  /\ Settles
  /\ pc' = "idle"
  /\ UNCHANGED <<user, mouse, ui, wm>>

DragIcon ==
  LET d == icons.drag
      far == (mouse.x - d.x) * (mouse.x - d.x) + (mouse.y - d.y) * (mouse.y - d.y)
             > DRAG_THRESHOLD * DRAG_THRESHOLD IN
  /\ pc = "drop" /\ d.of # 0 /\ mouse.left
  /\ icons' = [icons EXCEPT !.prevLeft = TRUE,
                 !.drag = IF d.moved \/ far
                          THEN [d EXCEPT !.moved = TRUE,
                                         !.x = Within(mouse.x - d.dx, 0, SCREEN_WIDTH - CELL_W),
                                         !.y = Within(mouse.y - d.dy, 0, TASKBAR_Y - CELL_H)]
                          ELSE d]
  /\ Settles
  /\ pc' = "idle"
  /\ UNCHANGED <<user, mouse, ui, wm>>

NoIconDragged ==
  /\ pc = "drop" /\ icons.drag.of = 0
  /\ icons' = [icons EXCEPT !.prevLeft = mouse.left]
  /\ Settles
  /\ pc' = "idle"
  /\ UNCHANGED <<user, mouse, ui, wm>>

wmUpdate == OverTaskbar \/ NothingHit \/ CloseWindow \/ GrabTitle \/ ClickBody \/ DragWindow
desktopUpdate == NoPress \/ DoubleClick \/ Click \/ DropIcon \/ DragIcon \/ NoIconDragged

DesktopNext == processMousePacket \/ wmUpdate \/ desktopUpdate
=============================================================================

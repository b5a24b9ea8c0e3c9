------------------------------ MODULE GuiProofs ------------------------------
(***************************************************************************)
(* For any programs, windows, icons and users: the properties of windows   *)
(* and clicks, wherever the mouse's interrupt comes.  For any tree to      *)
(* begin with, and as many inodes: what the file manager shows, what the   *)
(* editor has saved, and what Del deletes.                                 *)
(***************************************************************************)
EXTENDS Gui, SequenceTheorems, FiniteSetTheorems, WellFoundedInduction, TLAPS

Windows == [id : Nat, app : DOMAIN Apps, x : Int, y : Int]

\* A window that belongs to the program that remembers it, and to no other.
Owned(u) == {w \in Windows : /\ w.id < u.nextId
                             /\ \A a \in DOMAIN Apps : w.app = a <=> w.id = u.winId[a]}

\* All windows do, and a number that was never given away is remembered by nobody.
AllOwned(u) ==
  /\ DOMAIN u = {"wins", "winId", "nextId", "cascade"}
  /\ u.wins \in Seq(Owned(u))
  /\ u.winId \in [DOMAIN Apps -> Int]
  /\ u.nextId \in Nat /\ u.cascade \in Nat
  /\ \A a \in DOMAIN Apps : u.winId[a] < u.nextId

Drags == [of : Nat, moved : BOOLEAN, dx : Int, dy : Int, x : Int, y : Int]

Typed ==
  /\ user \in Users
  /\ mouse \in [x : Int, y : Int, left : BOOLEAN]
  /\ pc \in {"idle", "move", "desktop", "drop"}
  /\ wm \in [consumed : BOOLEAN, prevLeft : BOOLEAN, drag : Drags]
  /\ DOMAIN icons = {"prevLeft", "lastClick", "cell", "drag"}
  /\ icons.prevLeft \in BOOLEAN
  /\ late \in BOOLEAN

\* What the two memories of the button are where the frame is, unless a packet came
\* inside it: a press is new to both or to none, and whoever drags has seen it.
Pressed ==
  /\ pc # "move" /\ wm.drag.of # 0 => wm.prevLeft
  /\ ~ late =>
       /\ pc \in {"idle", "move"} => icons.prevLeft = wm.prevLeft
       /\ pc \in {"desktop", "drop"} => wm.prevLeft = mouse.left
       /\ (pc = "move" /\ mouse.left /\ ~ wm.prevLeft /\ ~ wm.consumed) =>
            HitTest(ui.wins, mouse) = 0 /\ wm.drag.of = 0
       /\ (pc = "desktop" /\ wm.drag.of # 0 /\ ~ wm.consumed) => icons.prevLeft
  /\ ClickHasOneOwner

IInv == Typed /\ AllOwned(ui) /\ Pressed

-----------------------------------------------------------------------------
\* The first of some places is one of them.
LEMMA FirstIsIn ==
  ASSUME NEW S \in SUBSET Nat, S # {}
  PROVE  \E x \in S : \A y \in S : x <= y
  <1> DEFINE less == OpToRel(<, Nat)
  <1>1. IsWellFoundedOn(less, Nat)
    BY NatLessThanWellFounded
  <1>2. \A x \in Nat, y \in Nat : x < y => <<x, y>> \in less
    BY DEF OpToRel
  <1> HIDE DEF less
  <1>3. PICK x \in S : \A y \in S : <<y, x>> \notin less
    BY <1>1, WFMin
  <1>4. ASSUME NEW y \in S PROVE x <= y
    <2>1. x \in Nat /\ y \in Nat
      OBVIOUS
    <2>2. ~ y < x
      BY <1>2, <1>3, <2>1
    <2> QED
      BY <2>1, <2>2
  <1> QED
    BY <1>4

\* So is the last one.
LEMMA LastIsIn ==
  ASSUME NEW n \in Nat, NEW S \in SUBSET (1 .. n), S # {}
  PROVE  \E x \in S : \A y \in S : x >= y
  <1> DEFINE T == {n - x : x \in S}
  <1>1. T \in SUBSET Nat /\ T # {}
    <2>1. \A x \in S : x \in 1 .. n /\ n - x \in Nat
      OBVIOUS
    <2> QED
      BY <2>1
  <1>2. PICK t \in T : \A y \in T : t <= y
    BY <1>1, FirstIsIn
  <1>3. PICK x \in S : t = n - x
    OBVIOUS
  <1>4. ASSUME NEW y \in S PROVE x >= y
    <2>1. n - x <= n - y
      BY <1>2, <1>3
    <2> QED
      BY <2>1
  <1> QED
    BY <1>4

\* A sequence whose elements are in a set is a sequence over it.
LEMMA SeqOver ==
  ASSUME NEW S, NEW s \in Seq(S), NEW T, \A i \in 1 .. Len(s) : s[i] \in T
  PROVE  s \in Seq(T)
  OBVIOUS

\* Raising and closing lose and add no other window.
LEMMA StackIsFine ==
  ASSUME NEW S, NEW ws \in Seq(S), NEW k \in 1 .. Len(ws)
  PROVE  Raised(ws, k) \in Seq(S) /\ Closed(ws, k) \in Seq(S)
  <1>1. SubSeq(ws, 1, k - 1) \in Seq(S) /\ SubSeq(ws, k + 1, Len(ws)) \in Seq(S)
    OBVIOUS
  <1>2. RemoveAt(ws, k) \in Seq(S)
    BY <1>1, ConcatProperties DEF RemoveAt
  <1>3. ws[k] \in S
    OBVIOUS
  <1> QED
    BY <1>2, <1>3, AppendProperties DEF Raised, Closed

\* What a program may launch is a program.
LEMMA Programs ==
  ASSUME NEW a \in DOMAIN Apps
  PROVE  Apps[a].opens \in 0 .. Len(Apps) /\ DOMAIN Apps = 1 .. Len(Apps) /\ Len(Apps) \in Nat
  <1> DEFINE App == [name : STRING, w : Nat \ {0}, h : Nat \ {0}, opens : 0 .. Len(Apps)]
  <1>1. Apps \in Seq(App)
    BY AppsAssumption
  <1>2. DOMAIN Apps = 1 .. Len(Apps) /\ Len(Apps) \in Nat
    BY <1>1, LenProperties
  <1>3. Apps[a] \in App
    BY <1>1, <1>2, ElementOfSeq
  <1> QED
    BY <1>2, <1>3

\* A number is found where it is, and not found when it is nowhere.
LEMMA IndexIsTrue ==
  ASSUME NEW S, NEW ws \in Seq(S), NEW id
  PROVE  /\ IndexOfId(ws, id) # 0 => IndexOfId(ws, id) \in 1 .. Len(ws)
         /\ IndexOfId(ws, id) = 0 => \A i \in 1 .. Len(ws) : ws[i].id # id
  <1> DEFINE I == {i \in 1 .. Len(ws) : ws[i].id = id}
  <1>1. IndexOfId(ws, id) = IF I # {} THEN CHOOSE x \in I : \A y \in I : x <= y ELSE 0
    BY DEF IndexOfId, SelectInSeq, Min
  <1>2. I \in SUBSET Nat /\ I \subseteq 1 .. Len(ws)
    OBVIOUS
  <1>3. I = {} => \A i \in 1 .. Len(ws) : ws[i].id # id
    OBVIOUS
  <1> HIDE DEF I
  <1>4. I # {} => (CHOOSE x \in I : \A y \in I : x <= y) \in I
    BY <1>2, FirstIsIn
  <1>5. 0 \notin I
    BY <1>2
  <1> QED
    BY <1>1, <1>2, <1>3, <1>4, <1>5

\* What is hit is a window.
LEMMA HitIsTrue ==
  ASSUME NEW S, NEW ws \in Seq(S), NEW p
  PROVE  HitTest(ws, p) # 0 => HitTest(ws, p) \in 1 .. Len(ws)
  <1> DEFINE I == {i \in 1 .. Len(ws) :
                     /\ ws[i].x <= p.x /\ p.x < ws[i].x + Apps[ws[i].app].w
                     /\ ws[i].y <= p.y /\ p.y < ws[i].y + Apps[ws[i].app].h + TITLE_H}
  <1>1. HitTest(ws, p) = IF I # {} THEN CHOOSE x \in I : \A y \in I : x >= y ELSE 0
    BY DEF HitTest, SelectLastInSeq, Max
  <1>2. I \in SUBSET (1 .. Len(ws)) /\ Len(ws) \in Nat
    OBVIOUS
  <1> HIDE DEF I
  <1>3. I # {} => (CHOOSE x \in I : \A y \in I : x >= y) \in I
    BY <1>2, LastIsIn
  <1> QED
    BY <1>1, <1>2, <1>3

-----------------------------------------------------------------------------
(* Launching.                                                              *)

\* The window of a program is raised; another program's new window is its own,
\* since nobody remembers its number and the program has no other window.
LEMMA LaunchIsFine ==
  ASSUME NEW u, AllOwned(u), NEW a \in DOMAIN Apps
  PROVE  AllOwned(appLaunch(u, a))
  <1> DEFINE k == IndexOfId(u.wins, u.winId[a])
             w == [id |-> u.nextId, app |-> a, x |-> 140 + u.cascade * 28, y |-> 40 + u.cascade * 28]
             r == [u EXCEPT !.wins = Raised(@, k)]
             none == [u EXCEPT !.winId[a] = -1, !.cascade = (u.cascade + 1) % 8]
             new == [wins |-> Append(u.wins, w), winId |-> [u.winId EXCEPT ![a] = w.id],
                     nextId |-> u.nextId + 1, cascade |-> (u.cascade + 1) % 8]
  <1>1. appLaunch(u, a) = IF k # 0 THEN r ELSE IF Len(u.wins) >= MAX_WINDOWS THEN none ELSE new
    BY DEF appLaunch
  <1>2. /\ k # 0 => k \in 1 .. Len(u.wins)
        /\ k = 0 => \A i \in 1 .. Len(u.wins) : u.wins[i].id # u.winId[a]
    BY IndexIsTrue DEF AllOwned
  <1> HIDE DEF k
  <1>3. CASE k # 0
    <2>1. Raised(u.wins, k) \in Seq(Owned(u))
      BY <1>2, <1>3, StackIsFine DEF AllOwned
    <2>2. /\ DOMAIN r = DOMAIN u /\ r.wins = Raised(u.wins, k) /\ r.winId = u.winId
          /\ r.nextId = u.nextId /\ r.cascade = u.cascade
      BY DEF AllOwned
    <2> HIDE DEF r
    <2>3. Owned(r) = Owned(u)
      BY <2>2 DEF Owned
    <2>4. AllOwned(r)
      BY <2>1, <2>2, <2>3 DEF AllOwned
    <2> QED
      BY <1>1, <1>3, <2>4
  <1>4. ASSUME k = 0, NEW i \in 1 .. Len(u.wins)
        PROVE  /\ u.wins[i] \in Owned(u) /\ u.wins[i] \in Windows
               /\ u.wins[i].id # u.winId[a] /\ u.wins[i].app # a
               /\ u.wins[i].id \in Nat /\ u.wins[i].id < u.nextId
               /\ \A b \in DOMAIN Apps : u.wins[i].app = b <=> u.wins[i].id = u.winId[b]
    <2>1. u.wins[i] \in Owned(u)
      BY ElementOfSeq DEF AllOwned
    <2> QED
      BY <1>2, <1>4, <2>1 DEF Owned, Windows
  <1>5. (u.cascade + 1) % 8 \in Nat
    BY DEF AllOwned
  <1>6. CASE k = 0 /\ Len(u.wins) >= MAX_WINDOWS
    <2>1. /\ DOMAIN none = DOMAIN u /\ none.wins = u.wins /\ none.winId = [u.winId EXCEPT ![a] = -1]
          /\ none.nextId = u.nextId /\ none.cascade \in Nat
      BY <1>5 DEF AllOwned
    <2> HIDE DEF none
    <2>2. \A i \in 1 .. Len(u.wins) : u.wins[i] \in Owned(none)
      <3> SUFFICES ASSUME NEW i \in 1 .. Len(u.wins) PROVE u.wins[i] \in Owned(none)
        OBVIOUS
      <3>1. \A b \in DOMAIN Apps : none.winId[b] = IF b = a THEN -1 ELSE u.winId[b]
        BY <2>1 DEF AllOwned
      <3>2. ASSUME NEW b \in DOMAIN Apps
            PROVE  u.wins[i].app = b <=> u.wins[i].id = none.winId[b]
        BY <1>4, <1>6, <3>1
      <3> QED
        BY <1>4, <1>6, <2>1, <3>2 DEF Owned
    <2>3. none.wins \in Seq(Owned(none))
      BY <2>1, <2>2, SeqOver DEF AllOwned
    <2>4. AllOwned(none)
      BY <2>1, <2>3 DEF AllOwned
    <2> QED
      BY <1>1, <1>6, <2>4
  <1>7. CASE k = 0 /\ ~ (Len(u.wins) >= MAX_WINDOWS)
    <2>1. w \in Windows /\ w.id = u.nextId /\ w.app = a
      BY DEF Windows, AllOwned
    <2>2. /\ DOMAIN new = DOMAIN u /\ new.wins = Append(u.wins, w)
          /\ new.winId = [u.winId EXCEPT ![a] = u.nextId]
          /\ new.nextId = u.nextId + 1 /\ new.cascade \in Nat
      BY <1>5 DEF AllOwned
    <2> HIDE DEF new, w
    <2>3. \A i \in 1 .. Len(u.wins) : u.wins[i] \in Owned(new)
      <3> SUFFICES ASSUME NEW i \in 1 .. Len(u.wins) PROVE u.wins[i] \in Owned(new)
        OBVIOUS
      <3>1. \A b \in DOMAIN Apps : new.winId[b] = IF b = a THEN u.nextId ELSE u.winId[b]
        BY <2>2 DEF AllOwned
      <3>2. u.wins[i].id < u.nextId + 1 /\ u.wins[i].id # u.nextId
        BY <1>4, <1>7 DEF AllOwned
      <3>3. ASSUME NEW b \in DOMAIN Apps
            PROVE  u.wins[i].app = b <=> u.wins[i].id = new.winId[b]
        BY <1>4, <1>7, <3>1, <3>2
      <3> QED
        BY <1>4, <1>7, <2>2, <3>2, <3>3 DEF Owned
    <2>4. w \in Owned(new)
      <3>1. \A b \in DOMAIN Apps : new.winId[b] = IF b = a THEN u.nextId ELSE u.winId[b]
        BY <2>2 DEF AllOwned
      <3>2. \A b \in DOMAIN Apps : u.winId[b] # u.nextId
        BY DEF AllOwned
      <3>3. u.nextId < u.nextId + 1
        BY DEF AllOwned
      <3> QED
        BY <2>1, <2>2, <3>1, <3>2, <3>3 DEF Owned
    <2>5. new.wins \in Seq(Owned(new))
      BY <2>2, <2>3, <2>4, SeqOver, AppendProperties DEF AllOwned
    <2>6. AllOwned(new)
      BY <2>2, <2>5 DEF AllOwned
    <2> QED
      BY <1>1, <1>7, <2>6
  <1> QED
    BY <1>3, <1>6, <1>7

\* What a user has launched before.
LEMMA ShownFirst ==
  ASSUME NEW u \in Users
  PROVE  u.shown \in Seq(DOMAIN Apps) /\ Len(u.shown) \in 0 .. 2
  <1>1. u.shown \in Seq(DOMAIN Apps) /\ Len(u.shown) <= 2
    BY UsersAssumption
  <1>2. Len(u.shown) \in Nat
    BY <1>1, LenProperties
  <1>3. \A n \in Nat : n <= 2 => n \in 0 .. 2
    OBVIOUS
  <1> QED
    BY <1>1, <1>2, <1>3

\* At the start up to two programs have been launched, and no button was pressed.
LEMMA InitInv == Init => IInv
  <1> SUFFICES ASSUME Init PROVE IInv
    OBVIOUS
  <1> USE DEF Init, DesktopInit
  <1>1. Typed
    <2>1. wm \in [consumed : BOOLEAN, prevLeft : BOOLEAN, drag : Drags]
      BY DEF NoDrag, Drags
    <2>2. mouse \in [x : Int, y : Int, left : BOOLEAN]
      BY DEF SCREEN_WIDTH
    <2>3. DOMAIN icons = {"prevLeft", "lastClick", "cell", "drag"} /\ icons.prevLeft = FALSE
      OBVIOUS
    <2> QED
      BY <2>1, <2>2, <2>3 DEF Typed
  <1>2. AllOwned(NoWindows)
    BY DEF NoWindows, AllOwned
  <1>3. user.shown \in Seq(DOMAIN Apps) /\ Len(user.shown) \in 0 .. 2
    BY ShownFirst
  <1>4. AllOwned(ui)
    <2>1. CASE Len(user.shown) = 0
      BY <1>2, <2>1 DEF Launched
    <2>2. CASE Len(user.shown) = 1
      <3>1. user.shown[1] \in DOMAIN Apps
        BY <1>3, <2>2
      <3> QED
        BY <1>2, <2>2, <3>1, LaunchIsFine DEF Launched
    <2>3. CASE Len(user.shown) = 2
      <3>1. user.shown[1] \in DOMAIN Apps /\ user.shown[2] \in DOMAIN Apps
        BY <1>3, <2>3
      <3> QED
        BY <1>2, <2>3, <3>1, LaunchIsFine DEF Launched
    <2> QED
      BY <1>3, <2>1, <2>2, <2>3
  <1>5. Pressed
    BY DEF Pressed, ClickHasOneOwner, DesktopPressed, NoDrag
  <1> QED
    BY <1>1, <1>4, <1>5 DEF IInv

-----------------------------------------------------------------------------
(* The steps of a frame.                                                   *)

\* A window keeps its owner when it is moved.
LEMMA MovingIsFine ==
  ASSUME AllOwned(ui), NEW k, NEW x \in Int, NEW y \in Int
  PROVE  /\ AllOwned([ui EXCEPT !.wins[k].x = x, !.wins[k].y = y])
         /\ [ui EXCEPT !.wins[k].x = x, !.wins[k].y = y].wins[k].id = ui.wins[k].id
  <1> DEFINE u == [ui EXCEPT !.wins[k].x = x, !.wins[k].y = y]
             w == [ui.wins[k] EXCEPT !.x = x, !.y = y]
  <1>1. /\ DOMAIN u = DOMAIN ui /\ u.winId = ui.winId
        /\ u.nextId = ui.nextId /\ u.cascade = ui.cascade
        /\ u.wins = [ui.wins EXCEPT ![k] = w]
    BY DEF AllOwned
  <1>2. Owned(u) = Owned(ui)
    <2> HIDE DEF u
    <2> QED
      BY <1>1 DEF Owned
  <1>3. CASE k \in 1 .. Len(ui.wins)
    <2>1. ui.wins[k] \in Owned(ui)
      BY <1>3, ElementOfSeq DEF AllOwned
    <2>2. w \in Owned(ui) /\ w.id = ui.wins[k].id
      BY <2>1 DEF Owned, Windows
    <2> HIDE DEF u, w
    <2>3. u.wins \in Seq(Owned(ui)) /\ u.wins[k] = w
      BY <1>1, <1>3, <2>2, ExceptSeq DEF AllOwned
    <2>4. AllOwned(u)
      BY <1>1, <1>2, <2>3 DEF AllOwned
    <2>5. u.wins[k].id = ui.wins[k].id
      BY <2>2, <2>3
    <2> QED
      BY <2>4, <2>5 DEF u
  <1>4. CASE k \notin 1 .. Len(ui.wins)
    <2>1. ui.wins \in [1 .. Len(ui.wins) -> Owned(ui)]
      BY LenProperties DEF AllOwned
    <2> HIDE DEF u, w
    <2>2. u.wins = ui.wins
      BY <1>1, <1>4, <2>1
    <2>3. AllOwned(u)
      BY <1>1, <1>2, <2>2 DEF AllOwned
    <2> QED
      BY <2>2, <2>3 DEF u
  <1> QED
    BY <1>3, <1>4

\* The mouse's interrupt.
LEMMA PacketIsFine == IInv /\ processMousePacket => IInv'
  <1> SUFFICES ASSUME IInv, processMousePacket PROVE IInv'
    OBVIOUS
  <1>1. PICK p \in user.spots, left \in BOOLEAN :
          mouse' = [x |-> p[1], y |-> p[2], left |-> left]
    BY DEF processMousePacket
  <1>2. UNCHANGED <<user, pc, ui, wm, icons>> /\ late' = (late \/ pc # "idle")
    BY DEF processMousePacket
  <1>3. mouse' \in [x : Int, y : Int, left : BOOLEAN]
    BY <1>1, UsersAssumption DEF IInv, Typed
  <1>4. Typed'
    BY <1>2, <1>3 DEF IInv, Typed
  <1>5. Pressed'
    BY <1>2 DEF IInv, Pressed, ClickHasOneOwner
  <1> QED
    BY <1>2, <1>4, <1>5 DEF IInv

\* wmUpdate where a press is looked for.
LEMMA PressIsFine ==
  ASSUME IInv, OverTaskbar \/ NothingHit \/ CloseWindow \/ GrabTitle \/ ClickBody
  PROVE  /\ IInv'
         /\ (wm.drag.of # 0 /\ wm'.drag.of # 0) => ui' = ui /\ wm'.drag = wm.drag
  <1>1. UNCHANGED <<user, mouse, icons, late>> /\ pc = "idle" /\ pc' \in {"move", "desktop"}
    BY DEF OverTaskbar, NothingHit, CloseWindow, GrabTitle, ClickBody, InWindows
  <1>2. ui.wins \in Seq(Owned(ui)) /\ (Hit # 0 => Hit \in 1 .. Len(ui.wins))
    BY HitIsTrue DEF IInv, AllOwned, Hit
  <1>3. Hit # 0 => ui.wins[Hit] \in Windows
    BY <1>2, ElementOfSeq DEF Owned
  <1>4. ASSUME NEW ws \in Seq(Owned(ui))
        PROVE  AllOwned([ui EXCEPT !.wins = ws])
    <2> DEFINE u == [ui EXCEPT !.wins = ws]
    <2>1. /\ DOMAIN u = DOMAIN ui /\ u.wins = ws /\ u.winId = ui.winId
          /\ u.nextId = ui.nextId /\ u.cascade = ui.cascade
      BY DEF IInv, AllOwned
    <2> HIDE DEF u
    <2>2. Owned(u) = Owned(ui)
      BY <2>1 DEF Owned
    <2>3. AllOwned(u)
      BY <2>1, <2>2 DEF IInv, AllOwned
    <2> QED
      BY <2>3 DEF u
  <1>5. AllOwned(ui')
    <2>1. CASE OverTaskbar \/ NothingHit
      BY <2>1 DEF OverTaskbar, NothingHit, IInv
    <2>2. CASE CloseWindow
      BY <1>2, <1>4, <2>2, StackIsFine DEF CloseWindow
    <2>3. CASE GrabTitle
      BY <1>2, <1>4, <2>3, StackIsFine DEF GrabTitle
    <2>4. CASE ClickBody
      <3> DEFINE u == [ui EXCEPT !.wins = Raised(@, Hit)]
                 a == Apps[ui.wins[Hit].app].opens
      <3>1. Hit # 0 /\ (ui' = u \/ (a # 0 /\ ui' = appLaunch(u, a)))
        BY <2>4 DEF ClickBody
      <3>2. AllOwned(u)
        BY <1>2, <1>4, <3>1, StackIsFine
      <3>3. a \in 0 .. Len(Apps) /\ (a # 0 => a \in DOMAIN Apps)
        <4>1. ui.wins[Hit].app \in DOMAIN Apps
          BY <1>3, <3>1 DEF Windows
        <4> QED
          BY <4>1, Programs
      <3> HIDE DEF u, a
      <3> QED
        BY <3>1, <3>2, <3>3, LaunchIsFine
    <2> QED
      BY <2>1, <2>2, <2>3, <2>4
  <1>6. wm' \in [consumed : BOOLEAN, prevLeft : BOOLEAN, drag : Drags]
    <2>1. NoDrag \in Drags /\ Len(ui.wins) \in Nat
      BY <1>2 DEF NoDrag, Drags
    <2>2. CASE OverTaskbar \/ NothingHit \/ CloseWindow \/ ClickBody
      BY <2>1, <2>2 DEF OverTaskbar, NothingHit, CloseWindow, ClickBody, IInv, Typed
    <2>3. CASE GrabTitle
      <3>1. /\ mouse.x - ui.wins[Hit].x \in Int
            /\ mouse.y - ui.wins[Hit].y \in Int
        BY <1>3, <2>3 DEF GrabTitle, IInv, Typed, Windows
      <3> QED
        BY <2>1, <2>3, <3>1 DEF GrabTitle, IInv, Typed, NoDrag, Drags, Consume
    <2> QED
      BY <2>2, <2>3
  <1>7. Typed'
    BY <1>1, <1>6 DEF IInv, Typed
  <1>8. wm.drag.of # 0 => Hit = 0
    BY <1>1 DEF Hit, IInv, Pressed
  <1>9. Pressed'
    <2> USE <1>1, <1>8 DEF IInv, Typed, Pressed, ClickHasOneOwner
    <2>1. CASE OverTaskbar
      <3>1. wm'.prevLeft = mouse.left /\ wm'.drag = NoDrag /\ pc' = "desktop" /\ ~ DesktopPressed'
        BY <2>1 DEF OverTaskbar, DesktopPressed, TASKBAR_Y
      <3> QED
        BY <3>1 DEF NoDrag
    <2>2. CASE NothingHit
      <3>1. /\ pc' = "move" /\ Hit = 0 /\ UNCHANGED <<ui, mouse>>
            /\ wm'.prevLeft = wm.prevLeft /\ wm'.drag = wm.drag
        BY <2>2 DEF NothingHit
      <3>2. (mouse.left /\ ~ wm.prevLeft) => HitTest(ui.wins, mouse)' = 0 /\ wm.drag.of = 0
        BY <3>1 DEF Hit
      <3> QED
        BY <3>1, <3>2
    <2>3. CASE CloseWindow \/ GrabTitle \/ ClickBody
      <3>1. pc' = "move" /\ wm'.consumed = TRUE /\ wm'.prevLeft = wm.prevLeft
        BY <2>3 DEF CloseWindow, GrabTitle, ClickBody, Consume
      <3> QED
        BY <3>1
    <2> QED
      BY <2>1, <2>2, <2>3
  <1>10. (wm.drag.of # 0 /\ wm'.drag.of # 0) => ui' = ui /\ wm'.drag = wm.drag
    BY <1>8 DEF NoDrag, IInv, Typed, OverTaskbar, NothingHit, CloseWindow, GrabTitle, ClickBody
  <1> QED
    BY <1>5, <1>7, <1>9, <1>10 DEF IInv

\* The rest of wmUpdate.
LEMMA DragIsFine ==
  ASSUME IInv, DragWindow
  PROVE  IInv' /\ (wm'.drag.of # 0 => ui'.wins[wm'.drag.of].id = ui.wins[wm.drag.of].id)
  <1> DEFINE k == wm.drag.of
             x == mouse.x - wm.drag.dx
             y == Within(mouse.y - wm.drag.dy, 0, TASKBAR_Y - TITLE_H)
  <1>1. /\ pc = "move" /\ pc' = "desktop" /\ UNCHANGED <<user, mouse, icons, late>>
        /\ StillDragging => /\ ui' = [ui EXCEPT !.wins[k].x = x, !.wins[k].y = y]
                            /\ wm' = [wm EXCEPT !.prevLeft = mouse.left]
        /\ ~ StillDragging => /\ ui' = ui
                              /\ wm' = [wm EXCEPT !.prevLeft = mouse.left, !.drag = NoDrag]
    BY DEF DragWindow
  <1>2. x \in Int /\ y \in Int
    BY DEF IInv, Typed, Drags, Within, TASKBAR_Y, TITLE_H
  <1>3. AllOwned(ui') /\ (StillDragging => ui'.wins[k].id = ui.wins[k].id)
    <2> HIDE DEF x, y
    <2>1. CASE StillDragging
      <3>1. /\ AllOwned([ui EXCEPT !.wins[k].x = x, !.wins[k].y = y])
            /\ [ui EXCEPT !.wins[k].x = x, !.wins[k].y = y].wins[k].id = ui.wins[k].id
        BY <1>2, MovingIsFine DEF IInv
      <3> QED
        BY <1>1, <2>1, <3>1
    <2>2. CASE ~ StillDragging
      BY <1>1, <2>2 DEF IInv
    <2> QED
      BY <2>1, <2>2
  <1>4. /\ wm' \in [consumed : BOOLEAN, prevLeft : BOOLEAN, drag : Drags]
        /\ wm'.prevLeft = mouse.left /\ wm'.consumed = wm.consumed
        /\ wm'.drag = IF StillDragging THEN wm.drag ELSE NoDrag
    <2>1. wm \in [consumed : BOOLEAN, prevLeft : BOOLEAN, drag : Drags] /\ mouse.left \in BOOLEAN
      BY DEF IInv, Typed
    <2>2. NoDrag \in Drags
      BY DEF NoDrag, Drags
    <2>3. CASE StillDragging
      BY <1>1, <2>1, <2>3
    <2>4. CASE ~ StillDragging
      BY <1>1, <2>1, <2>2, <2>4
    <2> QED
      BY <2>3, <2>4
  <1>5. Typed'
    BY <1>1, <1>4 DEF IInv, Typed
  <1>6. wm'.drag.of # 0 => StillDragging /\ wm'.drag.of = k /\ mouse.left
    BY <1>4 DEF StillDragging, NoDrag
  <1>7. Pressed'
    <2>1. ClickHasOneOwner'
      <3> SUFFICES ASSUME DesktopPressed', ~ late' PROVE HitTest(ui.wins, mouse)' = 0
        BY DEF ClickHasOneOwner
      <3>1. mouse.left /\ ~ wm.prevLeft /\ ~ wm.consumed
        BY <1>1, <1>4 DEF DesktopPressed, IInv, Pressed
      <3>2. HitTest(ui.wins, mouse) = 0 /\ wm.drag.of = 0
        BY <1>1, <3>1 DEF IInv, Pressed
      <3>3. ui' = ui
        BY <1>1, <3>2 DEF StillDragging
      <3> QED
        BY <1>1, <3>2, <3>3
    <2> QED
      BY <1>1, <1>4, <1>6, <2>1 DEF IInv, Typed, Pressed
  <1> QED
    BY <1>3, <1>5, <1>6, <1>7 DEF IInv

\* desktopUpdate launches only on a press that no window has taken, and nobody drags then.
LEMMA DesktopIsFine ==
  ASSUME IInv, desktopUpdate
  PROVE  IInv' /\ UNCHANGED wm /\ ((wm.drag.of # 0 /\ ~ late) => ui' = ui)
  <1>1. UNCHANGED <<user, mouse, wm>>
    BY DEF desktopUpdate, NoPress, DoubleClick, Click, DropIcon, DragIcon, NoIconDragged
  <1>2. CASE NoPress \/ DoubleClick \/ Click
    <2>1. /\ pc = "desktop" /\ pc' = "drop" /\ late' = late
          /\ DOMAIN icons' = DOMAIN icons /\ icons'.prevLeft = icons.prevLeft
      BY <1>2 DEF NoPress, DoubleClick, Click, IInv, Typed
    <2>2. AllOwned(ui')
      <3>1. CASE DoubleClick
        <4> DEFINE under == {a \in DOMAIN Apps : /\ IconX(a) <= mouse.x /\ mouse.x < IconX(a) + CELL_W
                                                 /\ IconY(a) <= mouse.y /\ mouse.y < IconY(a) + CELL_H}
        <4>1. IconAt(mouse) = IF under = {} THEN 0 ELSE CHOOSE x \in under : \A y \in under : x <= y
          BY DEF IconAt, Min
        <4>2. under \in SUBSET Nat /\ under \subseteq DOMAIN Apps
          BY Programs
        <4> HIDE DEF under
        <4>3. under # {} => (CHOOSE x \in under : \A y \in under : x <= y) \in under
          BY <4>2, FirstIsIn
        <4>4. IconAt(mouse) # 0 => IconAt(mouse) \in DOMAIN Apps
          BY <4>1, <4>2, <4>3
        <4> QED
          BY <3>1, <4>4, LaunchIsFine DEF DoubleClick, IInv
      <3>2. CASE ~ DoubleClick
        BY <1>2, <3>2 DEF NoPress, Click, IInv
      <3> QED
        BY <3>1, <3>2
    <2>3. Typed' /\ Pressed'
      BY <1>1, <2>1 DEF IInv, Typed, Pressed, ClickHasOneOwner
    <2>4. (wm.drag.of # 0 /\ ~ late) => ui' = ui
      BY <1>2 DEF NoPress, DoubleClick, Click, DesktopPressed, IInv, Pressed
    <2> QED
      BY <1>1, <2>2, <2>3, <2>4 DEF IInv
  <1>3. CASE DropIcon \/ DragIcon \/ NoIconDragged
    <2>1. /\ pc = "drop" /\ pc' = "idle" /\ ui' = ui
          /\ DOMAIN icons' = DOMAIN icons /\ icons'.prevLeft = mouse.left
          /\ late' = (late /\ icons'.prevLeft # wm.prevLeft)
      BY <1>3 DEF DropIcon, DragIcon, NoIconDragged, Settles, IInv, Typed
    <2>2. Typed' /\ Pressed'
      BY <1>1, <2>1 DEF IInv, Typed, Pressed, ClickHasOneOwner
    <2> QED
      BY <1>1, <2>1, <2>2 DEF IInv
  <1> QED
    BY <1>2, <1>3 DEF desktopUpdate

-----------------------------------------------------------------------------
\* No step of a frame, of the mouse or of the programs disturbs it.
LEMMA StepInv ==
  ASSUME IInv, [Next]_vars
  PROVE  /\ IInv'
         /\ (wm.drag.of # 0 /\ wm'.drag.of # 0 /\ ~ late) =>
              ui'.wins[wm'.drag.of].id = ui.wins[wm.drag.of].id
  <1>1. CASE processMousePacket
    <2>1. UNCHANGED <<ui, wm>>
      BY <1>1 DEF processMousePacket
    <2> QED
      BY <1>1, <2>1, PacketIsFine
  <1>2. CASE OverTaskbar \/ NothingHit \/ CloseWindow \/ GrabTitle \/ ClickBody
    BY <1>2, PressIsFine
  <1>3. CASE DragWindow
    BY <1>3, DragIsFine
  <1>4. CASE desktopUpdate
    BY <1>4, DesktopIsFine
  <1>5. CASE UNCHANGED desktop
    <2>1. UNCHANGED <<user, mouse, pc, ui, wm, icons, late>>
      BY <1>5 DEF desktop
    <2>2. Typed' /\ Pressed'
      BY <2>1 DEF IInv, Typed, Pressed, ClickHasOneOwner, DesktopPressed
    <2> QED
      BY <2>1, <2>2 DEF IInv
  <1> QED
    BY <1>1, <1>2, <1>3, <1>4, <1>5 DEF Next, DesktopNext, wmUpdate, vars

\* The invariant, for any programs, windows and users.
THEOREM Invariance == Spec => []IInv
  <1>1. IInv /\ [Next]_vars => IInv'
    BY StepInv
  <1> QED
    BY InitInv, <1>1, PTL DEF Spec

\* Whatever is launched, raised, moved and closed, a program remembers its own window.
THEOREM WindowsOfApps == Spec => []WindowOfItsApp
  <1>1. IInv => WindowOfItsApp
    <2> SUFFICES ASSUME IInv, NEW k \in DOMAIN ui.wins, NEW a \in DOMAIN Apps
                 PROVE  ui.wins[k].app = a <=> ui.wins[k].id = ui.winId[a]
      BY DEF WindowOfItsApp
    <2>1. k \in 1 .. Len(ui.wins) /\ ui.wins \in Seq(Owned(ui))
      BY LenProperties DEF IInv, AllOwned
    <2>2. ui.wins[k] \in Owned(ui)
      BY <2>1, ElementOfSeq
    <2> QED
      BY <2>2 DEF Owned
  <1> QED
    BY <1>1, Invariance, PTL

\* A press has one owner, wherever the windows and icons are.
THEOREM OneOwner == Spec => []ClickHasOneOwner
  <1>1. IInv => ClickHasOneOwner
    BY DEF IInv, Pressed
  <1> QED
    BY <1>1, Invariance, PTL

\* A drag stays with the window it began with.
THEOREM DragStays == Spec => DragKeepsItsWindow
  <1>1. IInv /\ [Next]_vars =>
          [(wm.drag.of # 0 /\ wm'.drag.of # 0 /\ ~ late) =>
             ui'.wins[wm'.drag.of].id = ui.wins[wm.drag.of].id]_vars
    BY StepInv
  <1> QED
    BY <1>1, Invariance, PTL DEF Spec, DragKeepsItsWindow

-----------------------------------------------------------------------------
(* Directories as lists of entries.                                        *)

Entry == [name : STRING, node : Inodes]

\* No two entries have a name or an inode in common.
Proper(list) ==
  /\ list \in Seq(Entry)
  /\ \A i, j \in 1 .. Len(list) :
       (list[i].name = list[j].name \/ list[i].node = list[j].node) => i = j

InList(list, name, node) ==
  \E i \in 1 .. Len(list) : list[i].name = name /\ list[i].node = node

LEMMA EmptyList == Proper(<< >>) /\ \A name, node : ~ InList(<< >>, name, node)
  BY DEF Proper, InList

LEMMA AppendList ==
  ASSUME NEW list, Proper(list), NEW name \in STRING, NEW node \in Inodes,
         \A s, n : InList(list, s, n) => s # name /\ n # node
  PROVE  LET longer == Append(list, [name |-> name, node |-> node])
         IN  /\ Proper(longer)
             /\ \A s, n : InList(longer, s, n) <=> InList(list, s, n) \/ (s = name /\ n = node)
  <1> DEFINE e == [name |-> name, node |-> node]
             longer == Append(list, e)
  <1>1. e \in Entry /\ e.name = name /\ e.node = node /\ list \in Seq(Entry)
    BY DEF Entry, Proper
  <1>2. /\ longer \in Seq(Entry) /\ Len(longer) = Len(list) + 1 /\ Len(list) \in Nat
        /\ \A i \in 1 .. Len(list) : longer[i] = list[i]
        /\ longer[Len(list) + 1] = e
    BY <1>1, AppendProperties, LenProperties
  <1> HIDE DEF e, longer
  <1>3. \A i \in 1 .. Len(list) : list[i].name # name /\ list[i].node # node
    BY DEF InList
  <1>4. Proper(longer)
    <2> SUFFICES ASSUME NEW i \in 1 .. Len(longer), NEW j \in 1 .. Len(longer),
                        longer[i].name = longer[j].name \/ longer[i].node = longer[j].node
                 PROVE  i = j
      BY <1>2 DEF Proper
    <2>1. i \in 1 .. Len(list) \/ i = Len(list) + 1
      BY <1>2
    <2>2. j \in 1 .. Len(list) \/ j = Len(list) + 1
      BY <1>2
    <2> QED
      BY <1>1, <1>2, <1>3, <2>1, <2>2 DEF Proper
  <1>5. ASSUME NEW s, NEW n
        PROVE  InList(longer, s, n) <=> InList(list, s, n) \/ (s = name /\ n = node)
    <2>1. InList(list, s, n) => InList(longer, s, n)
      BY <1>2 DEF InList
    <2>2. s = name /\ n = node => InList(longer, s, n)
      <3>1. Len(list) + 1 \in 1 .. Len(longer)
        BY <1>2
      <3> QED
        BY <1>1, <1>2, <3>1 DEF InList
    <2>3. InList(longer, s, n) => InList(list, s, n) \/ (s = name /\ n = node)
      <3> SUFFICES ASSUME NEW i \in 1 .. Len(longer), longer[i].name = s, longer[i].node = n
                   PROVE  InList(list, s, n) \/ (s = name /\ n = node)
        BY DEF InList
      <3>1. i \in 1 .. Len(list) \/ i = Len(list) + 1
        BY <1>2
      <3> QED
        BY <1>1, <1>2, <3>1 DEF InList
    <2> QED
      BY <2>1, <2>2, <2>3
  <1> QED
    BY <1>4, <1>5 DEF longer, e

\* The last entry takes the place of the one that is removed.
LEMMA RemoveList ==
  ASSUME NEW list, Proper(list), NEW k \in 1 .. Len(list)
  PROVE  LET fewer == Front([list EXCEPT ![k] = Last(list)])
         IN  /\ Proper(fewer)
             /\ \A s, n : InList(fewer, s, n) <=> InList(list, s, n) /\ s # list[k].name
  <1> DEFINE l2 == [list EXCEPT ![k] = Last(list)]
             fewer == Front(l2)
             N == Len(list)
             At(i) == IF i = k THEN N ELSE i
  <1>1. list \in Seq(Entry) /\ N \in Nat /\ k \in 1 .. N /\ N \in 1 .. N
    BY LenProperties DEF Proper
  <1>2. /\ l2 \in Seq(Entry) /\ Len(l2) = N
        /\ \A i \in 1 .. N : l2[i] = list[At(i)]
    <2>1. list[N] \in Entry
      BY <1>1, ElementOfSeq
    <2> QED
      BY <1>1, <2>1, ExceptSeq DEF Last
  <1> HIDE DEF l2
  <1>3. /\ fewer \in Seq(Entry) /\ Len(fewer) = N - 1
        /\ \A i \in 1 .. N - 1 : fewer[i] = list[At(i)] /\ At(i) \in 1 .. N /\ At(i) # k
    <2>1. /\ SubSeq(l2, 1, N - 1) \in Seq(Entry) /\ Len(SubSeq(l2, 1, N - 1)) = N - 1
          /\ \A i \in 1 .. N - 1 : SubSeq(l2, 1, N - 1)[i] = l2[i]
      BY <1>1, <1>2
    <2>2. \A i \in 1 .. N - 1 : i \in 1 .. N /\ At(i) \in 1 .. N /\ At(i) # k
      BY <1>1
    <2> HIDE DEF At
    <2> QED
      BY <1>1, <1>2, <2>1, <2>2 DEF Front
  <1>4. \A i \in 1 .. N : i # k => \E j \in 1 .. N - 1 : At(j) = i
    <2> SUFFICES ASSUME NEW i \in 1 .. N, i # k PROVE \E j \in 1 .. N - 1 : At(j) = i
      OBVIOUS
    <2>1. CASE i = N
      BY <1>1, <2>1
    <2>2. CASE i # N
      BY <1>1, <2>2
    <2> QED
      BY <2>1, <2>2
  <1>5. \A i, j \in 1 .. N - 1 : At(i) = At(j) => i = j
    BY <1>1
  <1> HIDE DEF fewer, At, N
  <1>6. Proper(fewer)
    <2> SUFFICES ASSUME NEW i \in 1 .. N - 1, NEW j \in 1 .. N - 1,
                        fewer[i].name = fewer[j].name \/ fewer[i].node = fewer[j].node
                 PROVE  i = j
      BY <1>3 DEF Proper
    <2>1. At(i) \in 1 .. N /\ At(j) \in 1 .. N /\ fewer[i] = list[At(i)] /\ fewer[j] = list[At(j)]
      BY <1>3
    <2>2. At(i) = At(j)
      BY <2>1 DEF Proper, N
    <2> QED
      BY <1>5, <2>2
  <1>7. ASSUME NEW s, NEW n
        PROVE  InList(fewer, s, n) <=> InList(list, s, n) /\ s # list[k].name
    <2>1. InList(fewer, s, n) => InList(list, s, n) /\ s # list[k].name
      <3> SUFFICES ASSUME NEW i \in 1 .. N - 1, fewer[i].name = s, fewer[i].node = n
                   PROVE  InList(list, s, n) /\ s # list[k].name
        BY <1>3 DEF InList
      <3>1. At(i) \in 1 .. Len(list) /\ At(i) # k /\ list[At(i)].name = s /\ list[At(i)].node = n
        BY <1>3 DEF N
      <3> QED
        BY <3>1 DEF InList, Proper
    <2>2. InList(list, s, n) /\ s # list[k].name => InList(fewer, s, n)
      <3> SUFFICES ASSUME NEW i \in 1 .. N, list[i].name = s, list[i].node = n, s # list[k].name
                   PROVE  InList(fewer, s, n)
        BY DEF InList, N
      <3>1. PICK j \in 1 .. N - 1 : At(j) = i
        BY <1>4
      <3>2. j \in 1 .. Len(fewer) /\ fewer[j] = list[i]
        BY <1>3, <3>1
      <3> QED
        BY <3>2 DEF InList
    <2> QED
      BY <2>1, <2>2
  <1> QED
    BY <1>6, <1>7 DEF fewer, l2

-----------------------------------------------------------------------------
(* Trees.                                                                  *)

Holds(t, dir, name, node) == InList(t[dir].list, name, node)

\* IsTree, with the entries as a relation.
LEMMA TreeIs ==
  ASSUME NEW t
  PROVE  IsTree(t) <=>
           /\ t \in [Inodes -> Inode]
           /\ t[0].used /\ t[0].type = "dir"
           /\ \A d \in Inodes :
                /\ Proper(t[d].list)
                /\ \A s, n : Holds(t, d, s, n) =>
                     n \in Inodes \ {0, d} /\ s \in STRING /\ t[n].used /\ t[n].parent = d
  <1> SUFFICES ASSUME t \in [Inodes -> Inode]
               PROVE  IsTree(t) <=>
                 /\ t[0].used /\ t[0].type = "dir"
                 /\ \A d \in Inodes :
                      /\ Proper(t[d].list)
                      /\ \A s, n : Holds(t, d, s, n) =>
                           n \in Inodes \ {0, d} /\ s \in STRING /\ t[n].used /\ t[n].parent = d
    BY DEF IsTree
  <1> SUFFICES ASSUME NEW d \in Inodes
               PROVE  (/\ \A i, j \in DOMAIN t[d].list :
                            (t[d].list[i].name = t[d].list[j].name
                               \/ t[d].list[i].node = t[d].list[j].node) => i = j
                       /\ \A e \in Range(t[d].list) :
                            e.node \notin {0, d} /\ t[e.node].used /\ t[e.node].parent = d)
                  <=>
                      (/\ Proper(t[d].list)
                       /\ \A s, n : Holds(t, d, s, n) =>
                            n \in Inodes \ {0, d} /\ s \in STRING /\ t[n].used /\ t[n].parent = d)
    BY DEF IsTree
  <1> DEFINE list == t[d].list
  <1>1. list \in Seq(Entry)
    BY DEF Inode, Entry
  <1>2. DOMAIN list = 1 .. Len(list) /\ \A i \in 1 .. Len(list) : list[i] \in Entry
    BY <1>1, LenProperties, ElementOfSeq
  <1>3. \A i \in 1 .. Len(list) : list[i].name \in STRING /\ list[i].node \in Inodes
    BY <1>2 DEF Entry
  <1>4. (\A e \in Range(list) : e.node \notin {0, d} /\ t[e.node].used /\ t[e.node].parent = d)
        <=> \A i \in 1 .. Len(list) :
              list[i].node \notin {0, d} /\ t[list[i].node].used /\ t[list[i].node].parent = d
    BY <1>2 DEF Range
  <1>5. (\A s, n : InList(list, s, n) =>
           n \in Inodes \ {0, d} /\ s \in STRING /\ t[n].used /\ t[n].parent = d)
        <=> \A i \in 1 .. Len(list) :
              list[i].node \notin {0, d} /\ t[list[i].node].used /\ t[list[i].node].parent = d
    BY <1>3 DEF InList
  <1> QED
    BY <1>1, <1>2, <1>4, <1>5 DEF Proper, Holds

\* findFile finds the one entry of that name.
LEMMA FindIs ==
  ASSUME NEW t, NEW dir, Proper(t[dir].list), NEW name
  PROVE  /\ \A n : Holds(t, dir, name, n) => n \in Inodes /\ name \in STRING
         /\ \A n : Holds(t, dir, name, n) => FindFile(t, dir, name) = n
         /\ FindFile(t, dir, name) # NotFound => Holds(t, dir, name, FindFile(t, dir, name))
         /\ \A n \in Inodes : n # NotFound
  <1> DEFINE list == t[dir].list
             I == {i \in 1 .. Len(list) : list[i].name = name}
             k == SelectInSeq(list, LAMBDA e : e.name = name)
  <1>1. k = IF I # {} THEN CHOOSE x \in I : \A y \in I : x <= y ELSE 0
    BY DEF SelectInSeq, Min
  <1>2. I \in SUBSET Nat /\ list \in Seq(Entry)
    <2>1. list \in Seq(Entry)
      BY DEF Proper
    <2> QED
      BY <2>1, LenProperties
  <1>3. \A i \in 1 .. Len(list) : list[i].name \in STRING /\ list[i].node \in Inodes
    <2>1. \A i \in 1 .. Len(list) : list[i] \in Entry
      BY <1>2, ElementOfSeq
    <2> QED
      BY <2>1 DEF Entry
  <1>4. I # {} => k \in I
    <2> HIDE DEF I
    <2> QED
      BY <1>1, <1>2, FirstIsIn
  <1>5. I = {} => k = 0
    BY <1>1
  <1>6. FindFile(t, dir, name) = IF k = 0 THEN NotFound ELSE list[k].node
    BY DEF FindFile
  <1>7. \A n \in Inodes : n # NotFound
    BY DEF Inodes, NotFound
  <1> HIDE DEF k
  <1>8. \A n : Holds(t, dir, name, n) <=> \E i \in I : list[i].node = n
    BY DEF Holds, InList
  <1>9. \A i, j \in I : i = j
    BY DEF Proper
  <1> QED
    BY <1>3, <1>4, <1>5, <1>6, <1>7, <1>8, <1>9

\* What is left of an inode by an operation that is not about it; a file that
\* entries are written into is not whole any more.
Kept(t, u, n) ==
  /\ u[n].used = t[n].used /\ u[n].type = t[n].type /\ u[n].parent = t[n].parent
  /\ u[n].type = "file" /\ u[n].whole => t[n].whole /\ u[n].text = t[n].text

LEMMA Fields ==
  ASSUME NEW t \in [Inodes -> Inode], NEW n \in Inodes
  PROVE  /\ t[n].used \in BOOLEAN /\ t[n].type \in {"file", "dir"} /\ t[n].parent \in Inodes
         /\ t[n].list \in Seq(Entry) /\ t[n].text \in Bytes /\ t[n].whole \in BOOLEAN
  <1>1. t[n] \in Inode
    OBVIOUS
  <1> QED
    BY <1>1 DEF Inode, Entry

LEMMA AddIs ==
  ASSUME NEW t \in [Inodes -> Inode], NEW dir \in Inodes, NEW node \in Inodes,
         NEW name \in STRING, NEW u, u = AddDirEntry(t, dir, node, name)
  PROVE  /\ u \in [Inodes -> Inode]
         /\ \A n \in Inodes : Kept(t, u, n) /\ (n # dir => u[n] = t[n])
         /\ ~ t[dir].used => u = t
         /\ t[dir].used => u[dir].list = Append(t[dir].list, [name |-> name, node |-> node])
         /\ t[dir].used /\ t[dir].type = "file" => ~ u[dir].whole
  <1> DEFINE e == [name |-> name, node |-> node]
             more == Append(t[dir].list, e)
             some == IF t[dir].type = "file" THEN "entries" ELSE t[dir].text
             folder == t[dir].type = "dir"
             r == [t[dir] EXCEPT !.list = more, !.text = some, !.whole = folder]
  <1>1. /\ t[dir].used \in BOOLEAN /\ t[dir].type \in {"file", "dir"} /\ t[dir].parent \in Inodes
        /\ t[dir].list \in Seq(Entry) /\ t[dir].text \in Bytes
    BY Fields
  <1>2. more \in Seq(Entry)
    <2>1. e \in Entry
      BY DEF Entry
    <2> HIDE DEF e
    <2> QED
      BY <1>1, <2>1, AppendProperties
  <1>3. some \in Bytes /\ folder \in BOOLEAN
    <2>1. some \in Bytes
      BY <1>1 DEF Bytes
    <2>2. folder \in BOOLEAN
      BY Zenon
    <2> QED
      BY <2>1, <2>2
  <1>4. CASE ~ t[dir].used
    BY <1>4 DEF AddDirEntry, Kept
  <1>5. CASE t[dir].used
    <2>1. u = [t EXCEPT ![dir].list = more, ![dir].text = some, ![dir].whole = folder]
      BY <1>5 DEF AddDirEntry
    <2> HIDE DEF e, more
    <2>2. t[dir] \in [used : BOOLEAN, type : {"file", "dir"}, parent : Inodes,
                      list : Seq(Entry), text : Bytes, whole : BOOLEAN]
      BY DEF Inode, Entry
    <2>3. /\ r \in Inode /\ r.used = t[dir].used /\ r.type = t[dir].type
          /\ r.parent = t[dir].parent /\ r.list = more /\ r.text = some /\ r.whole = folder
      BY <1>2, <1>3, <2>2 DEF Inode, Entry
    <2>4. u = [t EXCEPT ![dir] = r]
      BY <2>1
    <2> HIDE DEF r
    <2>5. u \in [Inodes -> Inode] /\ u[dir] = r /\ \A n \in Inodes : n # dir => u[n] = t[n]
      BY <2>3, <2>4
    <2>6. \A n \in Inodes : Kept(t, u, n)
      BY <1>1, <2>3, <2>5 DEF Kept
    <2> QED
      BY <1>1, <1>5, <2>3, <2>5, <2>6 DEF more, e
  <1> QED
    BY <1>1, <1>4, <1>5

LEMMA RemoveIs ==
  ASSUME NEW t \in [Inodes -> Inode], NEW dir \in Inodes, Proper(t[dir].list),
         NEW name, FindFile(t, dir, name) # NotFound, NEW u, u = RemoveDirEntry(t, dir, name)
  PROVE  /\ u \in [Inodes -> Inode]
         /\ \A n \in Inodes : /\ Kept(t, u, n) /\ (n # dir => u[n] = t[n])
                              /\ u[n].text = t[n].text /\ u[n].whole = t[n].whole
         /\ Proper(u[dir].list)
         /\ \A s, n : Holds(u, dir, s, n) <=> Holds(t, dir, s, n) /\ s # name
  <1> DEFINE list == t[dir].list
             I == {i \in 1 .. Len(list) : list[i].name = name}
             k == SelectInSeq(list, LAMBDA e : e.name = name)
             fewer == Front([list EXCEPT ![k] = Last(list)])
  <1>1. k = IF I # {} THEN CHOOSE x \in I : \A y \in I : x <= y ELSE 0
    BY DEF SelectInSeq, Min
  <1>2. list \in Seq(Entry) /\ I \in SUBSET Nat
    BY Fields, LenProperties DEF Proper
  <1>3. I # {} => k \in I
    <2> HIDE DEF I
    <2> QED
      BY <1>1, <1>2, FirstIsIn
  <1>4. k # 0
    BY DEF FindFile
  <1>5. u = [t EXCEPT ![dir].list = fewer]
    BY DEF RemoveDirEntry
  <1> HIDE DEF k
  <1>6. k \in 1 .. Len(list) /\ list[k].name = name
    BY <1>1, <1>3, <1>4
  <1> HIDE DEF I
  <1>7. Proper(fewer) /\ \A s, n : InList(fewer, s, n) <=> InList(list, s, n) /\ s # name
    <2> HIDE DEF list
    <2> QED
      BY <1>6, RemoveList DEF list
  <1> HIDE DEF fewer
  <1>8. /\ t[dir].used \in BOOLEAN /\ t[dir].type \in {"file", "dir"} /\ t[dir].parent \in Inodes
        /\ t[dir].text \in Bytes /\ t[dir].whole \in BOOLEAN
    BY Fields
  <1>9. fewer \in Seq(Entry)
    BY <1>7 DEF Proper
  <1>a. t[dir] \in [used : BOOLEAN, type : {"file", "dir"}, parent : Inodes,
                    list : Seq(Entry), text : Bytes, whole : BOOLEAN]
    BY DEF Inode, Entry
  <1>10. /\ u \in [Inodes -> Inode] /\ \A x \in Inodes : x # dir => u[x] = t[x]
         /\ u[dir].used = t[dir].used /\ u[dir].type = t[dir].type /\ u[dir].parent = t[dir].parent
         /\ u[dir].list = fewer /\ u[dir].text = t[dir].text /\ u[dir].whole = t[dir].whole
    <2> DEFINE r == [t[dir] EXCEPT !.list = fewer]
    <2>1. /\ r \in Inode /\ r.used = t[dir].used /\ r.type = t[dir].type
          /\ r.parent = t[dir].parent /\ r.list = fewer /\ r.text = t[dir].text /\ r.whole = t[dir].whole
      BY <1>9, <1>a DEF Inode, Entry
    <2>2. u = [t EXCEPT ![dir] = r]
      BY <1>5
    <2> HIDE DEF r
    <2> QED
      BY <2>1, <2>2
  <1>11. \A n \in Inodes : /\ Kept(t, u, n) /\ (n # dir => u[n] = t[n])
                           /\ u[n].text = t[n].text /\ u[n].whole = t[n].whole
    BY <1>10 DEF Kept
  <1> QED
    BY <1>7, <1>10, <1>11 DEF Holds, list

\* IsTree, unfolded, for what is derived from it.
LEMMA TreeHas ==
  ASSUME NEW t, IsTree(t)
  PROVE  /\ t \in [Inodes -> Inode] /\ 0 \in Inodes
         /\ t[0].used /\ t[0].type = "dir"
         /\ \A d \in Inodes : Proper(t[d].list)
         /\ \A d \in Inodes : \A s, n : Holds(t, d, s, n) =>
              n \in Inodes \ {0, d} /\ s \in STRING /\ t[n].used /\ t[n].parent = d
         /\ \A d \in Inodes : \A s, n, m : Holds(t, d, s, n) /\ Holds(t, d, s, m) => n = m
         /\ \A d \in Inodes : \A r, s, n : Holds(t, d, r, n) /\ Holds(t, d, s, n) => r = s
  <1>1. 0 \in Inodes
    BY InodesAssumption DEF Inodes
  <1>2. \A d \in Inodes : Proper(t[d].list)
    BY TreeIs
  <1>3. \A d \in Inodes : \A s, n, m : Holds(t, d, s, n) /\ Holds(t, d, s, m) => n = m
    BY <1>2 DEF Holds, InList, Proper
  <1>4. \A d \in Inodes : \A r, s, n : Holds(t, d, r, n) /\ Holds(t, d, s, n) => r = s
    BY <1>2 DEF Holds, InList, Proper
  <1> QED
    BY <1>1, <1>2, <1>3, <1>4, TreeIs

\* A tree whose entries go from one inode are nothing else is still a tree.
LEMMA IsStillTree ==
  ASSUME NEW t, IsTree(t), NEW u \in [Inodes -> Inode],
         u[0].used, u[0].type = "dir",
         \A d \in Inodes : Proper(u[d].list),
         \A d \in Inodes : \A s, n : Holds(u, d, s, n) =>
           n \in Inodes \ {0, d} /\ s \in STRING /\ u[n].used /\ u[n].parent = d
  PROVE  IsTree(u)
  BY TreeIs

\* renameFile: the entry is removed, and added under the new name.
LEMMA RenameIs ==
  ASSUME NEW t, IsTree(t), NEW dir \in Inodes, t[dir].used,
         NEW old, NEW new \in STRING,
         Exists(t, dir, old), ~ Exists(t, dir, new), NEW u, u = RenameFile(t, dir, old, new)
  PROVE  /\ IsTree(u)
         /\ \A n \in Inodes : Kept(t, u, n)
         /\ \A d \in Inodes : \A s, n : Holds(u, d, s, n) <=>
              \/ Holds(t, d, s, n) /\ ~ (d = dir /\ s = old)
              \/ d = dir /\ s = new /\ n = FindFile(t, dir, old)
  <1> DEFINE v == RemoveDirEntry(t, dir, old)
             x == FindFile(t, dir, old)
  <1>1. /\ t \in [Inodes -> Inode] /\ Proper(t[dir].list) /\ FindFile(t, dir, old) # NotFound
        /\ \A d \in Inodes : Proper(t[d].list)
    BY TreeHas DEF Exists
  <1>2. Holds(t, dir, old, x) /\ x \in Inodes \ {0, dir} /\ t[x].used /\ t[x].parent = dir
    <2>1. Holds(t, dir, old, x)
      BY <1>1, FindIs
    <2> HIDE DEF x
    <2> QED
      BY <2>1, TreeHas
  <1>3. \A n : ~ Holds(t, dir, new, n)
    BY <1>1, FindIs DEF Exists
  <1>4. /\ v \in [Inodes -> Inode]
        /\ \A n \in Inodes : Kept(t, v, n) /\ (n # dir => v[n] = t[n])
        /\ Proper(v[dir].list)
        /\ \A s, n : Holds(v, dir, s, n) <=> Holds(t, dir, s, n) /\ s # old
    BY <1>1, RemoveIs
  <1>5. u = AddDirEntry(v, dir, x, new)
    BY DEF RenameFile
  <1> HIDE DEF v, x
  <1>6. /\ u \in [Inodes -> Inode]
        /\ \A n \in Inodes : Kept(v, u, n) /\ (n # dir => u[n] = v[n])
        /\ v[dir].used => u[dir].list = Append(v[dir].list, [name |-> new, node |-> x])
    BY <1>2, <1>4, <1>5, AddIs
  <1>7. u[dir].list = Append(v[dir].list, [name |-> new, node |-> x])
    BY <1>4, <1>6 DEF Kept
  <1>8. \A s, n : InList(v[dir].list, s, n) => s # new /\ n # x
    <2>1. \A r, s, n : Holds(t, dir, r, n) /\ Holds(t, dir, s, n) => r = s
      BY TreeHas
    <2> QED
      BY ONLY <1>2, <1>3, <1>4, <2>1 DEF Holds
  <1>9. /\ Proper(u[dir].list)
        /\ \A s, n : Holds(u, dir, s, n) <=> Holds(v, dir, s, n) \/ (s = new /\ n = x)
    BY <1>2, <1>4, <1>7, <1>8, AppendList DEF Holds
  <1>10. \A d \in Inodes : d # dir => u[d].list = t[d].list
    BY <1>4, <1>6
  <1>11. \A d \in Inodes : \A s, n : Holds(u, d, s, n) <=>
           \/ Holds(t, d, s, n) /\ ~ (d = dir /\ s = old)
           \/ d = dir /\ s = new /\ n = x
    BY <1>4, <1>9, <1>10 DEF Holds
  <1>12. \A n \in Inodes : Kept(t, u, n)
    BY <1>4, <1>6 DEF Kept
  <1>13. \A d \in Inodes : Proper(u[d].list)
    BY <1>1, <1>9, <1>10
  <1>14. u[0].used /\ u[0].type = "dir"
    BY <1>12, TreeHas DEF Kept
  <1>15. \A d \in Inodes : \A s, n : Holds(u, d, s, n) =>
           n \in Inodes \ {0, d} /\ s \in STRING /\ u[n].used /\ u[n].parent = d
    <2> SUFFICES ASSUME NEW d \in Inodes, NEW s, NEW n, Holds(u, d, s, n)
                 PROVE  n \in Inodes \ {0, d} /\ s \in STRING /\ u[n].used /\ u[n].parent = d
      OBVIOUS
    <2>1. n \in Inodes \ {0, d} /\ s \in STRING /\ t[n].used /\ t[n].parent = d
      BY <1>2, <1>11, TreeHas
    <2> QED
      BY <1>12, <2>1 DEF Kept
  <1> QED
    BY <1>6, <1>11, <1>12, <1>13, <1>14, <1>15, IsStillTree DEF x

\* deleteFile: the inode is unused and the entry is gone.
LEMMA DeleteIs ==
  ASSUME NEW t, IsTree(t), NEW dir \in Inodes, NEW name, Exists(t, dir, name),
         NEW x, x = FindFile(t, dir, name), NEW u, u = DeleteFile(t, dir, name)
  PROVE  /\ IsTree(u)
         /\ Holds(t, dir, name, x) /\ x \in Inodes \ {0, dir} /\ t[x].parent = dir
         /\ \A n \in Inodes \ {x} : Kept(t, u, n)
         /\ \A d \in Inodes : \A s, n : Holds(u, d, s, n) <=>
              Holds(t, d, s, n) /\ d # x /\ ~ (d = dir /\ s = name)
  <1> DEFINE v == [t EXCEPT ![x] = [@ EXCEPT !.used = FALSE, !.list = << >>, !.text = ""]]
  <1>1. /\ t \in [Inodes -> Inode] /\ Proper(t[dir].list) /\ x # NotFound
        /\ \A d \in Inodes : Proper(t[d].list)
    BY TreeHas DEF Exists
  <1>2. Holds(t, dir, name, x) /\ x \in Inodes \ {0, dir} /\ t[x].used /\ t[x].parent = dir
    <2>1. Holds(t, dir, name, x)
      BY <1>1, FindIs
    <2> QED
      BY <2>1, TreeHas
  <1>3. /\ v \in [Inodes -> Inode] /\ \A n \in Inodes : n # x => v[n] = t[n]
        /\ ~ v[x].used /\ v[x].list = << >>
    <2>1. t[x] \in [used : BOOLEAN, type : {"file", "dir"}, parent : Inodes,
                    list : Seq(Entry), text : Bytes, whole : BOOLEAN]
      BY <1>1, <1>2 DEF Inode, Entry
    <2> DEFINE r == [t[x] EXCEPT !.used = FALSE, !.list = << >>, !.text = ""]
    <2>2. "" \in Bytes
      BY TextsAssumption DEF Bytes
    <2>5. << >> \in Seq(Entry)
      OBVIOUS
    <2>3. r \in Inode /\ ~ r.used /\ r.list = << >>
      BY <2>1, <2>2, <2>5 DEF Inode, Entry
    <2>4. v = [t EXCEPT ![x] = r]
      OBVIOUS
    <2> HIDE DEF r, v
    <2> QED
      BY <1>1, <1>2, <2>3, <2>4
  <1>4. u = RemoveDirEntry(v, dir, name)
    BY DEF DeleteFile
  <1> HIDE DEF v
  <1>5. v[dir] = t[dir] /\ FindFile(v, dir, name) = x
    BY <1>2, <1>3 DEF FindFile
  <1>6. /\ u \in [Inodes -> Inode]
        /\ \A n \in Inodes : Kept(v, u, n) /\ (n # dir => u[n] = v[n])
        /\ Proper(u[dir].list)
        /\ \A s, n : Holds(u, dir, s, n) <=> Holds(v, dir, s, n) /\ s # name
    BY <1>1, <1>3, <1>4, <1>5, RemoveIs
  <1>7. \A d \in Inodes : \A s, n : Holds(u, d, s, n) <=>
          Holds(t, d, s, n) /\ d # x /\ ~ (d = dir /\ s = name)
    <2>1. ASSUME NEW d \in Inodes, d # x, d # dir, NEW s, NEW n
          PROVE  Holds(u, d, s, n) <=> Holds(t, d, s, n)
      BY <1>3, <1>6, <2>1 DEF Holds
    <2>2. \A s, n : ~ Holds(u, x, s, n)
      BY <1>2, <1>3, <1>6, EmptyList DEF Holds
    <2>3. \A s, n : Holds(u, dir, s, n) <=> Holds(t, dir, s, n) /\ s # name
      BY <1>5, <1>6 DEF Holds
    <2> QED
      BY <1>2, <2>1, <2>2, <2>3
  <1>8. \A n \in Inodes \ {x} : Kept(t, u, n)
    BY <1>3, <1>6 DEF Kept
  <1>9. \A d \in Inodes : Proper(u[d].list)
    <2> SUFFICES ASSUME NEW d \in Inodes PROVE Proper(u[d].list)
      OBVIOUS
    <2>1. CASE d = dir
      BY <1>6, <2>1
    <2>2. CASE d = x
      BY <1>2, <1>3, <1>6, <2>2, EmptyList
    <2>3. CASE d # dir /\ d # x
      BY <1>1, <1>3, <1>6, <2>3
    <2> QED
      BY <2>1, <2>2, <2>3
  <1>10. u[0].used /\ u[0].type = "dir"
    BY <1>2, <1>8, TreeHas DEF Kept
  <1>11. \A d \in Inodes : \A s, n : Holds(u, d, s, n) =>
           n \in Inodes \ {0, d} /\ s \in STRING /\ u[n].used /\ u[n].parent = d
    <2> SUFFICES ASSUME NEW d \in Inodes, NEW s, NEW n, Holds(u, d, s, n)
                 PROVE  n \in Inodes \ {0, d} /\ s \in STRING /\ u[n].used /\ u[n].parent = d
      OBVIOUS
    <2>1. Holds(t, d, s, n) /\ ~ (d = dir /\ s = name)
      BY <1>7
    <2>2. n \in Inodes \ {0, d} /\ s \in STRING /\ t[n].used /\ t[n].parent = d
      BY <2>1, TreeHas
    <2>3. n # x
      BY <1>2, <2>1, <2>2, TreeHas
    <2> QED
      BY <1>8, <2>2, <2>3 DEF Kept
  <1> QED
    BY <1>2, <1>6, <1>7, <1>8, <1>9, <1>10, <1>11, IsStillTree

\* A file is written, to its end or not.
LEMMA WrittenIs ==
  ASSUME NEW t \in [Inodes -> Inode], NEW x \in Inodes, NEW text \in Bytes,
         NEW u, u = WriteFile(t, x, text) \/ u = WriteFails(t, x, text)
  PROVE  /\ u \in [Inodes -> Inode] /\ \A n \in Inodes \ {x} : u[n] = t[n]
         /\ u[x].used = t[x].used /\ u[x].type = t[x].type /\ u[x].parent = t[x].parent
         /\ u[x].list = << >> /\ (u[x].whole => u[x].text = text)
         /\ u = WriteFails(t, x, text) => ~ u[x].whole
  <1>2. PICK a \in Bytes, b \in BOOLEAN :
          /\ u = [t EXCEPT ![x].text = a, ![x].list = << >>, ![x].whole = b]
          /\ b => a = text
          /\ u = WriteFails(t, x, text) => ~ b
    <2>1. CASE u = WriteFails(t, x, text)
      <3>1. "part" \in Bytes
        BY DEF Bytes
      <3> QED
        BY <2>1, <3>1 DEF WriteFails
    <2>2. CASE u = WriteFile(t, x, text) /\ u # WriteFails(t, x, text)
      BY <2>2 DEF WriteFile
    <2> QED
      BY <2>1, <2>2
  <1> DEFINE r == [t[x] EXCEPT !.text = a, !.list = << >>, !.whole = b]
  <1>3. t[x] \in [used : BOOLEAN, type : {"file", "dir"}, parent : Inodes,
                  list : Seq(Entry), text : Bytes, whole : BOOLEAN]
    BY DEF Inode, Entry
  <1>4. << >> \in Seq(Entry)
    OBVIOUS
  <1>5. /\ r \in Inode /\ r.used = t[x].used /\ r.type = t[x].type /\ r.parent = t[x].parent
        /\ r.list = << >> /\ r.text = a /\ r.whole = b
    BY <1>3, <1>4 DEF Inode, Entry
  <1>6. u = [t EXCEPT ![x] = r]
    BY <1>2
  <1> HIDE DEF r
  <1>7. u \in [Inodes -> Inode] /\ u[x] = r /\ \A n \in Inodes \ {x} : u[n] = t[n]
    BY ONLY <1>5, <1>6, t \in [Inodes -> Inode], x \in Inodes
  <1> QED
    BY ONLY <1>2, <1>5, <1>7

LEMMA WriteIs ==
  ASSUME NEW t, IsTree(t), NEW x \in Inodes, t[x].type = "file", NEW text \in Bytes,
         NEW u, u = WriteFile(t, x, text) \/ u = WriteFails(t, x, text)
  PROVE  /\ IsTree(u)
         /\ \A n \in Inodes \ {x} : u[n] = t[n]
         /\ u[x].used = t[x].used /\ u[x].type = "file" /\ u[x].parent = t[x].parent
         /\ u[x].whole => u[x].text = text
         /\ u = WriteFails(t, x, text) => ~ u[x].whole
         /\ \A d \in Inodes : \A s, n : Holds(u, d, s, n) <=> Holds(t, d, s, n) /\ d # x
  <1>1. t \in [Inodes -> Inode] /\ \A d \in Inodes : Proper(t[d].list)
    BY TreeHas
  <1>3. /\ u \in [Inodes -> Inode] /\ \A n \in Inodes \ {x} : u[n] = t[n]
        /\ u[x].used = t[x].used /\ u[x].type = t[x].type /\ u[x].parent = t[x].parent
        /\ u[x].list = << >> /\ (u[x].whole => u[x].text = text)
        /\ u = WriteFails(t, x, text) => ~ u[x].whole
    BY <1>1, WrittenIs
  <1>4. \A d \in Inodes : Proper(u[d].list)
    BY <1>1, <1>3, EmptyList
  <1>5. \A d \in Inodes : \A s, n : Holds(u, d, s, n) <=> Holds(t, d, s, n) /\ d # x
    BY <1>3, EmptyList DEF Holds
  <1>6. \A n \in Inodes : u[n].used = t[n].used /\ u[n].parent = t[n].parent /\ u[n].type = t[n].type
    BY <1>3
  <1>7. \A d \in Inodes : \A s, n : Holds(u, d, s, n) =>
          n \in Inodes \ {0, d} /\ s \in STRING /\ u[n].used /\ u[n].parent = d
    BY <1>5, <1>6, TreeHas
  <1>8. u[0].used /\ u[0].type = "dir"
    BY <1>6, TreeHas
  <1>9. IsTree(u)
    BY <1>3, <1>4, <1>7, <1>8, IsStillTree
  <1> QED
    BY <1>3, <1>5, <1>9

\* The first free inode is free.
LEMMA FreeIs ==
  ASSUME NEW t, FreeInodes(t) # {}
  PROVE  NewInode(t) \in Inodes /\ ~ t[NewInode(t)].used
  <1>1. FreeInodes(t) \in SUBSET Nat
    BY InodesAssumption DEF FreeInodes, Inodes
  <1>2. \E n \in FreeInodes(t) : \A m \in FreeInodes(t) : n <= m
    BY <1>1, FirstIsIn
  <1>3. NewInode(t) \in FreeInodes(t)
    BY <1>2 DEF NewInode
  <1> QED
    BY <1>3 DEF FreeInodes

Taken(t, x, type, dir) ==
  [t EXCEPT ![x] = [Unused EXCEPT !.used = TRUE, !.type = type, !.parent = dir]]

\* The inode that createFile and createDir take, before its entry is added.
LEMMA TakenIs ==
  ASSUME NEW t, IsTree(t), FreeInodes(t) # {}, NEW dir \in Inodes, NEW type \in {"file", "dir"},
         NEW x, x = NewInode(t),
         NEW v, v = Taken(t, x, type, dir)
  PROVE  /\ x \in Inodes \ {0} /\ ~ t[x].used
         /\ v \in [Inodes -> Inode] /\ \A n \in Inodes \ {x} : v[n] = t[n]
         /\ v[x].used /\ v[x].type = type /\ v[x].parent = dir /\ v[x].list = << >>
         /\ \A d \in Inodes : Proper(v[d].list)
         /\ \A d \in Inodes : \A s, n : Holds(v, d, s, n) <=> Holds(t, d, s, n) /\ d # x
         /\ IsTree(v)
  <1>1. /\ t \in [Inodes -> Inode] /\ t[0].used /\ t[0].type = "dir" /\ 0 \in Inodes
        /\ \A d \in Inodes : Proper(t[d].list)
    BY TreeHas
  <1>2. x \in Inodes \ {0} /\ ~ t[x].used
    BY <1>1, FreeIs
  <1>3. /\ v \in [Inodes -> Inode] /\ \A n \in Inodes \ {x} : v[n] = t[n]
        /\ v[x].used /\ v[x].type = type /\ v[x].parent = dir /\ v[x].list = << >>
    <2> DEFINE r == [Unused EXCEPT !.used = TRUE, !.type = type, !.parent = dir]
    <2>1. "" \in Bytes
      BY TextsAssumption DEF Bytes
    <2>2. << >> \in Seq(Entry)
      OBVIOUS
    <2>3. r \in Inode /\ r.used /\ r.type = type /\ r.parent = dir /\ r.list = << >>
      BY <2>1, <2>2 DEF Unused, Inode, Entry
    <2>4. v = [t EXCEPT ![x] = r]
      BY DEF Taken
    <2> HIDE DEF r
    <2> QED
      BY <1>1, <1>2, <2>3, <2>4
  <1>4. \A d \in Inodes : Proper(v[d].list)
    BY <1>1, <1>3, EmptyList
  <1>5. \A d \in Inodes : \A s, n : Holds(v, d, s, n) <=> Holds(t, d, s, n) /\ d # x
    BY <1>3, EmptyList DEF Holds
  <1>6. \A d \in Inodes : \A s, n : Holds(v, d, s, n) =>
          n \in Inodes \ {0, d} /\ s \in STRING /\ v[n].used /\ v[n].parent = d
    <2> SUFFICES ASSUME NEW d \in Inodes, NEW s, NEW n, Holds(v, d, s, n)
                 PROVE  n \in Inodes \ {0, d} /\ s \in STRING /\ v[n].used /\ v[n].parent = d
      OBVIOUS
    <2>3. Holds(t, d, s, n)
      BY <1>5
    <2>1. n \in Inodes \ {0, d} /\ s \in STRING /\ t[n].used /\ t[n].parent = d
      BY <2>3, TreeHas
    <2>2. n # x
      BY <1>2, <2>1
    <2> QED
      BY <1>3, <2>1, <2>2
  <1>7. IsTree(v)
    <2>1. v[0].used /\ v[0].type = "dir"
      BY <1>1, <1>2, <1>3
    <2> QED
      BY <1>3, <1>4, <1>6, <2>1, IsStillTree
  <1> QED
    BY <1>2, <1>3, <1>4, <1>5, <1>7

\* createFile and createDir in a directory that is there.
LEMMA CreateIs ==
  ASSUME NEW t, IsTree(t), NEW dir \in Inodes, t[dir].used, NEW name \in STRING,
         NEW type \in {"file", "dir"}, CanCreate(t, dir, name),
         NEW x, x = NewInode(t), NEW u, u = CreateFile(t, dir, name, type)
  PROVE  /\ IsTree(u)
         /\ x \in Inodes \ {0, dir} /\ ~ t[x].used /\ u[x].type = type
         /\ \A n \in Inodes \ {x} : Kept(t, u, n) /\ (n # dir => u[n] = t[n])
         /\ t[dir].type = "file" => ~ u[dir].whole
         /\ \A d \in Inodes : \A s, n : Holds(u, d, s, n) <=>
              (Holds(t, d, s, n) /\ d # x) \/ (d = dir /\ s = name /\ n = x)
  <1> DEFINE v == Taken(t, x, type, dir)
  <1>0. FreeInodes(t) # {} /\ ~ Exists(t, dir, name)
    BY DEF CanCreate
  <1>1. /\ x \in Inodes \ {0} /\ ~ t[x].used
        /\ v \in [Inodes -> Inode] /\ \A n \in Inodes \ {x} : v[n] = t[n]
        /\ v[x].used /\ v[x].type = type /\ v[x].parent = dir /\ v[x].list = << >>
        /\ \A d \in Inodes : Proper(v[d].list)
        /\ \A d \in Inodes : \A s, n : Holds(v, d, s, n) <=> Holds(t, d, s, n) /\ d # x
        /\ IsTree(v)
    BY <1>0, TakenIs
  <1>2. u = AddDirEntry(v, dir, x, name)
    BY DEF CreateFile, Taken
  <1> HIDE DEF v
  <1>3. x # dir /\ v[dir] = t[dir] /\ v[dir].used
    BY <1>1
  <1>4. /\ u \in [Inodes -> Inode]
        /\ \A n \in Inodes : Kept(v, u, n) /\ (n # dir => u[n] = v[n])
        /\ u[dir].list = Append(v[dir].list, [name |-> name, node |-> x])
        /\ t[dir].type = "file" => ~ u[dir].whole
    BY <1>1, <1>2, <1>3, AddIs
  <1>5. \A s, n : Holds(v, dir, s, n) => s # name /\ n # x
    <2>1. \A n : ~ Holds(t, dir, name, n)
      BY <1>0, FindIs, TreeHas DEF Exists
    <2>2. \A s, n : Holds(t, dir, s, n) => t[n].used
      BY TreeHas
    <2> QED
      BY <1>1, <2>1, <2>2
  <1>6. /\ Proper(u[dir].list)
        /\ \A s, n : Holds(u, dir, s, n) <=> Holds(v, dir, s, n) \/ (s = name /\ n = x)
    BY <1>1, <1>4, <1>5, AppendList DEF Holds
  <1>7. \A d \in Inodes : Proper(u[d].list)
    BY <1>1, <1>4, <1>6
  <1>8. \A d \in Inodes : \A s, n : Holds(u, d, s, n) <=>
          (Holds(t, d, s, n) /\ d # x) \/ (d = dir /\ s = name /\ n = x)
    <2>1. \A d \in Inodes : d # dir => \A s, n : Holds(u, d, s, n) <=> Holds(v, d, s, n)
      BY <1>4 DEF Holds
    <2> QED
      BY <1>1, <1>3, <1>6, <2>1
  <1>9. \A n \in Inodes \ {x} : Kept(t, u, n) /\ (n # dir => u[n] = t[n])
    BY <1>1, <1>4 DEF Kept
  <1>10. u[x].used /\ u[x].type = type /\ u[x].parent = dir
    BY <1>1, <1>3, <1>4
  <1>11. u[0].used /\ u[0].type = "dir"
    BY <1>1, <1>9, TreeHas DEF Kept
  <1>12. \A d \in Inodes : \A s, n : Holds(u, d, s, n) =>
           n \in Inodes \ {0, d} /\ s \in STRING /\ u[n].used /\ u[n].parent = d
    <2> SUFFICES ASSUME NEW d \in Inodes, NEW s, NEW n, Holds(u, d, s, n)
                 PROVE  n \in Inodes \ {0, d} /\ s \in STRING /\ u[n].used /\ u[n].parent = d
      OBVIOUS
    <2>1. CASE d = dir /\ s = name /\ n = x
      BY <1>1, <1>3, <1>10, <2>1
    <2>2. CASE Holds(t, d, s, n)
      <3>1. n \in Inodes \ {0, d} /\ s \in STRING /\ t[n].used /\ t[n].parent = d
        BY <2>2, TreeHas
      <3>2. n # x
        BY <1>1, <3>1
      <3> QED
        BY <1>9, <3>1, <3>2 DEF Kept
    <2> QED
      BY <1>8, <2>1, <2>2
  <1>13. IsTree(u)
    BY <1>4, <1>7, <1>11, <1>12, IsStillTree
  <1> QED
    BY <1>1, <1>3, <1>4, <1>8, <1>9, <1>10, <1>13

\* Save As: a new file and its contents, also where its folder is no more; when the
\* folder's inode is the one that is taken, its only entry is for itself, and goes
\* when it is written.
LEMMA NewFileIs ==
  ASSUME NEW t, IsTree(t), NEW dir \in Inodes, NEW name \in STRING, NEW text \in Bytes,
         CanCreate(t, dir, name), NEW x, x = NewInode(t),
         NEW v, v = CreateFile(t, dir, name, "file"), NEW y, y = FindFile(v, dir, name), NEW u,
         \/ y # NotFound /\ (u = WriteFile(v, y, text) \/ u = WriteFails(v, y, text))
         \/ y = NotFound /\ u = v
  PROVE  /\ IsTree(u)
         /\ x \in Inodes \ {0} /\ ~ t[x].used /\ u[x].used /\ u[x].type = "file"
         /\ \A n \in Inodes \ {x} : Kept(t, u, n) /\ (n # dir => u[n] = t[n])
         /\ t[dir].used /\ t[dir].type = "file" => ~ u[dir].whole
         /\ \A d \in Inodes : \A s, n : Holds(u, d, s, n) <=>
              (Holds(t, d, s, n) /\ d # x) \/ (t[dir].used /\ d = dir /\ s = name /\ n = x)
         /\ t[dir].used \/ y # NotFound => y = x
         /\ y # NotFound => /\ u[x].whole => u[x].text = text
                            /\ u = WriteFails(v, y, text) => ~ u[x].whole
  <1> DEFINE w == Taken(t, x, "file", dir)
  <1>0. FreeInodes(t) # {} /\ ~ Exists(t, dir, name)
    BY DEF CanCreate
  <1>1. /\ x \in Inodes \ {0} /\ ~ t[x].used
        /\ w \in [Inodes -> Inode] /\ \A n \in Inodes \ {x} : w[n] = t[n]
        /\ w[x].used /\ w[x].type = "file" /\ w[x].parent = dir /\ w[x].list = << >>
        /\ \A d \in Inodes : Proper(w[d].list)
        /\ \A d \in Inodes : \A s, n : Holds(w, d, s, n) <=> Holds(t, d, s, n) /\ d # x
        /\ IsTree(w)
    BY <1>0, TakenIs
  <1>2. v = AddDirEntry(w, dir, x, name)
    BY DEF CreateFile, Taken
  <1> HIDE DEF w
  <1>n. \A n : ~ Holds(t, dir, name, n)
    BY <1>0, FindIs, TreeHas DEF Exists
  <1>3. CASE t[dir].used
    <2>1. /\ IsTree(v)
          /\ x \in Inodes \ {0, dir} /\ ~ t[x].used /\ v[x].type = "file"
          /\ \A n \in Inodes \ {x} : Kept(t, v, n) /\ (n # dir => v[n] = t[n])
          /\ t[dir].type = "file" => ~ v[dir].whole
          /\ \A d \in Inodes : \A s, n : Holds(v, d, s, n) <=>
               (Holds(t, d, s, n) /\ d # x) \/ (d = dir /\ s = name /\ n = x)
      BY <1>3, CreateIs
    <2>2. Proper(v[dir].list) /\ Holds(v, dir, name, x)
      BY <2>1, TreeHas
    <2>3. y = x /\ y # NotFound
      BY <2>2, FindIs
    <2>4. /\ IsTree(u)
          /\ \A n \in Inodes \ {x} : u[n] = v[n]
          /\ u[x].used = v[x].used /\ u[x].type = "file" /\ (u[x].whole => u[x].text = text)
          /\ u = WriteFails(v, y, text) => ~ u[x].whole
          /\ \A d \in Inodes : \A s, n : Holds(u, d, s, n) <=> Holds(v, d, s, n) /\ d # x
      BY <2>1, <2>3, WriteIs
    <2>8. v[x].used
      BY <2>1, <2>2, TreeHas
    <2>5. \A d \in Inodes : \A s, n : Holds(u, d, s, n) <=>
            (Holds(t, d, s, n) /\ d # x) \/ (d = dir /\ s = name /\ n = x)
      BY ONLY <2>1, <2>4
    <2>6. \A n \in Inodes \ {x} : Kept(t, u, n) /\ (n # dir => u[n] = t[n])
      BY ONLY <2>1, <2>4 DEF Kept
    <2>7. t[dir].type = "file" => ~ u[dir].whole
      BY ONLY <2>1, <2>4, dir \in Inodes
    <2> QED
      BY ONLY <1>3, <2>1, <2>3, <2>4, <2>5, <2>6, <2>7, <2>8
  <1>4. CASE ~ t[dir].used /\ dir # x
    <2>1. v = w
      <3>1. ~ w[dir].used
        BY <1>1, <1>4
      <3> QED
        BY ONLY <1>2, <3>1 DEF AddDirEntry
    <2>2. y = NotFound /\ u = w
      <3>1. \A n : ~ Holds(w, dir, name, n)
        BY <1>1, <1>n
      <3>2. Proper(w[dir].list)
        BY <1>1
      <3> QED
        BY <2>1, <3>1, <3>2, FindIs
    <2>3. \A n \in Inodes \ {x} : Kept(t, u, n) /\ (n # dir => u[n] = t[n])
      BY <1>1, <2>2 DEF Kept
    <2> QED
      BY <1>1, <1>4, <2>2, <2>3
  <1>5. CASE dir = x
    <2>1. /\ v \in [Inodes -> Inode]
          /\ \A n \in Inodes : Kept(w, v, n) /\ (n # dir => v[n] = w[n])
          /\ v[dir].list = Append(w[dir].list, [name |-> name, node |-> x])
      BY <1>1, <1>2, <1>5, AddIs
    <2>2. \A s, n : ~ InList(w[dir].list, s, n)
      BY <1>1, <1>5, EmptyList
    <2>3. Proper(v[dir].list) /\ Holds(v, dir, name, x)
      <3>1. Proper(w[dir].list) /\ x \in Inodes
        BY <1>1
      <3> DEFINE list == w[dir].list
      <3>2. Proper(list) /\ \A a, n : ~ InList(list, a, n)
        BY <2>2, <3>1
      <3> HIDE DEF list
      <3>3. /\ Proper(Append(list, [name |-> name, node |-> x]))
            /\ InList(Append(list, [name |-> name, node |-> x]), name, x)
        BY <3>1, <3>2, AppendList
      <3> QED
        BY <2>1, <3>3 DEF Holds, list
    <2>4. y = x /\ y # NotFound
      BY <2>3, FindIs
    <2>5. /\ u \in [Inodes -> Inode] /\ \A n \in Inodes \ {x} : u[n] = v[n]
          /\ u[x].used = v[x].used /\ u[x].type = v[x].type /\ u[x].parent = v[x].parent
          /\ u[x].list = << >> /\ (u[x].whole => u[x].text = text)
          /\ u = WriteFails(v, y, text) => ~ u[x].whole
      BY <1>1, <2>1, <2>4, WrittenIs
    <2>6. \A n \in Inodes \ {x} : u[n] = t[n] /\ Kept(t, u, n)
      BY <1>1, <1>5, <2>1, <2>5 DEF Kept
    <2>7. u[x].used /\ u[x].type = "file"
      BY <1>1, <2>1, <2>5 DEF Kept
    <2>8. \A d \in Inodes : Proper(u[d].list)
      BY <2>5, <2>6, EmptyList, TreeHas
    <2>9. \A d \in Inodes : \A s, n : Holds(u, d, s, n) <=> Holds(t, d, s, n) /\ d # x
      BY <2>5, <2>6, EmptyList DEF Holds
    <2>10. \A d \in Inodes : \A s, n : Holds(u, d, s, n) =>
             n \in Inodes \ {0, d} /\ s \in STRING /\ u[n].used /\ u[n].parent = d
      <3> SUFFICES ASSUME NEW d \in Inodes, NEW s, NEW n, Holds(u, d, s, n)
                   PROVE  n \in Inodes \ {0, d} /\ s \in STRING /\ u[n].used /\ u[n].parent = d
        OBVIOUS
      <3>1. n \in Inodes \ {0, d} /\ s \in STRING /\ t[n].used /\ t[n].parent = d
        BY <2>9, TreeHas
      <3> QED
        BY <1>1, <2>6, <3>1
    <2>11. u[0].used /\ u[0].type = "dir"
      BY <1>1, <2>6, TreeHas
    <2>12. IsTree(u)
      BY <2>5, <2>8, <2>10, <2>11, IsStillTree
    <2> QED
      BY ONLY <1>1, <1>5, <2>4, <2>5, <2>6, <2>7, <2>9, <2>12
  <1> QED
    BY <1>3, <1>4, <1>5

-----------------------------------------------------------------------------
\* Induction over an interval.
LEMMA Induction ==
  ASSUME NEW n \in Nat, NEW S, 0 \in S, \A k \in 1 .. n : k - 1 \in S => k \in S
  PROVE  0 .. n \subseteq S
  <1> SUFFICES ASSUME (0 .. n) \ S # {} PROVE FALSE
    OBVIOUS
  <1>1. PICK first \in (0 .. n) \ S : \A y \in (0 .. n) \ S : first <= y
    <2> DEFINE T == (0 .. n) \ S
    <2>1. T \in SUBSET Nat /\ T # {}
      OBVIOUS
    <2> HIDE DEF T
    <2>2. \E x \in T : \A y \in T : x <= y
      BY <2>1, FirstIsIn
    <2> QED
      BY <2>2 DEF T
  <1>2. first - 1 \in S /\ first \in 1 .. n
    BY <1>1
  <1> QED
    BY <1>1, <1>2

\* f is defined by recursion over an interval.
Recurs(f, n, x, F) == f = [k \in 0 .. n |-> IF k = 0 THEN x ELSE F[<<k, f[k - 1]>>]]

\* A function can be defined by recursion over an interval.
LEMMA Recursion ==
  ASSUME NEW n \in Nat, NEW V, NEW x \in V, NEW F \in [(0 .. n) \X V -> V]
  PROVE  \E f \in [0 .. n -> V] : Recurs(f, n, x, F)
  <1> DEFINE Upto(k, f) == f \in [0 .. k -> V] /\ \A l \in 0 .. k :
                             f[l] = IF l = 0 THEN x ELSE F[<<l, f[l - 1]>>]
             S == {k \in 0 .. n : \E f : Upto(k, f)}
  <1> HIDE DEF Upto
  <1>1. 0 \in S
    <2>1. Upto(0, [l \in 0 .. 0 |-> x])
      BY DEF Upto
    <2> QED
      BY <2>1
  <1>2. ASSUME NEW k \in 1 .. n, k - 1 \in S PROVE k \in S
    <2>1. PICK f : Upto(k - 1, f)
      BY <1>2
    <2> DEFINE g == [l \in 0 .. k |-> IF l = k THEN F[<<k, f[k - 1]>>] ELSE f[l]]
    <2>2. f[k - 1] \in V
      BY <2>1 DEF Upto
    <2>3. F[<<k, f[k - 1]>>] \in V
      BY <2>2
    <2>4. g \in [0 .. k -> V]
      BY <2>1, <2>3 DEF Upto
    <2>5. ASSUME NEW l \in 0 .. k PROVE g[l] = IF l = 0 THEN x ELSE F[<<l, g[l - 1]>>]
      <3>1. CASE l = k
        <4>1. k - 1 \in 0 .. k /\ k - 1 # k /\ g[k - 1] = f[k - 1]
          OBVIOUS
        <4> QED
          BY <3>1, <4>1
      <3>2. CASE l # k
        <4>1. l \in 0 .. k - 1 /\ g[l] = f[l]
          BY <3>2
        <4>2. l # 0 => l - 1 \in 0 .. k - 1 /\ l - 1 # k /\ g[l - 1] = f[l - 1]
          BY <4>1
        <4> QED
          BY <2>1, <4>1, <4>2 DEF Upto
      <3> QED
        BY <3>1, <3>2
    <2>6. Upto(k, g)
      BY <2>4, <2>5 DEF Upto
    <2> QED
      BY <2>6
  <1>3. n \in S
    <2> HIDE DEF S
    <2> QED
      BY <1>1, <1>2, Induction
  <1>4. PICK f : Upto(n, f)
    BY <1>3
  <1> QED
    BY <1>4 DEF Upto, Recurs

-----------------------------------------------------------------------------
\* c is the way from the root to dir.
OnWay(t, c, l, dir) ==
  /\ l \in Nat /\ c \in [0 .. l -> Inodes] /\ c[0] = 0 /\ c[l] = dir
  /\ \A k \in 0 .. l : t[c[k]].used /\ t[c[k]].type = "dir"
  /\ \A k \in 1 .. l : t[c[k]].parent = c[k - 1]
  /\ \A i, j \in 0 .. l : c[i] = c[j] => i = j

\* A way is no longer than there are inodes.
LEMMA WayIsShort ==
  ASSUME NEW t, NEW c, NEW l, NEW dir, OnWay(t, c, l, dir)
  PROVE  l < MAX_FILES
  <1> SUFFICES ASSUME l >= MAX_FILES PROVE FALSE
    BY InodesAssumption DEF OnWay
  <1> DEFINE A == 0 .. l
             B == 0 .. MAX_FILES - 1
  <1>1. l \in Nat /\ MAX_FILES \in Nat \ {0} /\ c \in [A -> B]
    BY InodesAssumption DEF OnWay, Inodes
  <1>2. IsFiniteSet(A) /\ Cardinality(A) = l + 1
    <2>1. IsFiniteSet(0 .. l) /\ Cardinality(0 .. l) = IF 0 > l THEN 0 ELSE l - 0 + 1
      BY <1>1, FS_Interval
    <2> QED
      BY <1>1, <2>1
  <1>3. IsFiniteSet(B) /\ Cardinality(B) = MAX_FILES
    <2>1. MAX_FILES - 1 \in Int /\ 0 \in Int
      BY <1>1
    <2>2. /\ IsFiniteSet(0 .. MAX_FILES - 1)
          /\ Cardinality(0 .. MAX_FILES - 1) =
               IF 0 > MAX_FILES - 1 THEN 0 ELSE (MAX_FILES - 1) - 0 + 1
      BY <2>1, FS_Interval
    <2> QED
      BY <1>1, <2>2
  <1>4. Cardinality(B) < Cardinality(A)
    BY <1>1, <1>2, <1>3
  <1>5. \A i, j \in A : c[i] = c[j] => i = j
    BY DEF OnWay
  <1> HIDE DEF A, B
  <1>6. \E i, j \in A : i # j /\ c[i] = c[j]
    BY ONLY <1>1, <1>2, <1>3, <1>4, FS_PigeonHole
  <1> QED
    BY <1>5, <1>6

\* moveFile's loop from dir to the root sees everything on the way.
LEMMA AboveIs ==
  ASSUME NEW t \in [Inodes -> Inode], NEW c, NEW l, NEW dir, OnWay(t, c, l, dir),
         NEW k \in 0 .. l
  PROVE  c[k] \in Above(t, dir)
  <1> DEFINE F == [p \in (0 .. MAX_FILES) \X Inodes |-> t[p[2]].parent]
             Up(f) == f = [i \in 0 .. MAX_FILES |-> IF i = 0 THEN dir ELSE t[f[i - 1]].parent]
             up == CHOOSE f : Up(f)
  <1>1. MAX_FILES \in Nat /\ dir \in Inodes /\ l \in Nat /\ l < MAX_FILES
    <2>1. l \in Nat /\ c \in [0 .. l -> Inodes] /\ c[l] = dir /\ l < MAX_FILES
      BY WayIsShort DEF OnWay
    <2>2. l \in 0 .. l
      BY <2>1
    <2> QED
      BY <2>1, <2>2, InodesAssumption
  <1>2. F \in [(0 .. MAX_FILES) \X Inodes -> Inodes]
    <2>1. \A n \in Inodes : t[n].parent \in Inodes
      BY Fields
    <2>2. \A p \in (0 .. MAX_FILES) \X Inodes : p[2] \in Inodes
      OBVIOUS
    <2> QED
      BY <2>1, <2>2
  <1>3. PICK f \in [0 .. MAX_FILES -> Inodes] : Recurs(f, MAX_FILES, dir, F)
    <2> HIDE DEF F
    <2> QED
      BY <1>1, <1>2, Recursion
  <1>4. Up(f)
    <2>1. \A i \in 0 .. MAX_FILES : i # 0 => F[<<i, f[i - 1]>>] = t[f[i - 1]].parent
      <3> SUFFICES ASSUME NEW i \in 0 .. MAX_FILES, i # 0
                   PROVE  F[<<i, f[i - 1]>>] = t[f[i - 1]].parent
        OBVIOUS
      <3>1. i - 1 \in 0 .. MAX_FILES
        BY <1>1
      <3>2. <<i, f[i - 1]>> \in (0 .. MAX_FILES) \X Inodes
        BY <1>3, <3>1
      <3> QED
        BY <3>2
    <2> HIDE DEF F
    <2> QED
      BY <1>3, <2>1 DEF Recurs
  <1>5. Up(up)
    <2> HIDE DEF Up
    <2> QED
      BY <1>4
  <1>6. Above(t, dir) = {up[i] : i \in 0 .. MAX_FILES}
    BY DEF Above
  <1> HIDE DEF up
  <1>7. \A i \in 0 .. MAX_FILES : up[i] = IF i = 0 THEN dir ELSE t[up[i - 1]].parent
    BY <1>5
  <1> DEFINE S == {i \in 0 .. l : up[i] = c[l - i]}
  <1>8. 0 \in S
    BY <1>1, <1>7 DEF OnWay
  <1>9. ASSUME NEW i \in 1 .. l, i - 1 \in S PROVE i \in S
    <2>1. i \in 0 .. MAX_FILES /\ i # 0 /\ l - (i - 1) \in 1 .. l /\ l - (i - 1) - 1 = l - i
      BY <1>1
    <2>2. up[i] = t[c[l - (i - 1)]].parent
      BY <1>7, <1>9, <2>1
    <2>3. t[c[l - (i - 1)]].parent = c[l - i]
      BY <2>1 DEF OnWay
    <2> QED
      BY <1>1, <2>2, <2>3
  <1>10. 0 .. l \subseteq S
    <2> HIDE DEF S
    <2> QED
      BY <1>1, <1>8, <1>9, Induction
  <1>11. l - k \in 0 .. l /\ l - (l - k) = k /\ l - k \in 0 .. MAX_FILES
    BY <1>1
  <1> QED
    BY <1>6, <1>10, <1>11

\* The ways of two trees in which its inodes have stayed what they are.
LEMMA WayStays ==
  ASSUME NEW t, NEW u, NEW c, NEW l, NEW dir, OnWay(t, c, l, dir),
         \A k \in 0 .. l : /\ u[c[k]].used = t[c[k]].used /\ u[c[k]].type = t[c[k]].type
                           /\ u[c[k]].parent = t[c[k]].parent
  PROVE  OnWay(u, c, l, dir)
  <1>1. \A k \in 1 .. l : k \in 0 .. l
    BY DEF OnWay
  <1> QED
    BY <1>1 DEF OnWay

\* Nothing that has an entry in dir is on the way there.
LEMMA ChildIsNotAbove ==
  ASSUME NEW t, NEW c, NEW l, NEW dir, OnWay(t, c, l, dir), NEW x, x # 0, t[x].parent = dir
  PROVE  \A k \in 0 .. l : c[k] # x
  <1> SUFFICES ASSUME NEW k \in 0 .. l, c[k] = x PROVE FALSE
    OBVIOUS
  <1>1. l \in Nat /\ k # 0
    BY DEF OnWay
  <1>2. k \in 1 .. l /\ k - 1 \in 0 .. l /\ l \in 0 .. l /\ k - 1 # l
    BY <1>1
  <1>3. c[k - 1] = c[l]
    BY <1>2 DEF OnWay
  <1> QED
    BY <1>2, <1>3 DEF OnWay

\* One directory further, and one back.
LEMMA WayGoesOn ==
  ASSUME NEW t, NEW c, NEW l, NEW dir, OnWay(t, c, l, dir), NEW x \in Inodes \ {0},
         t[x].parent = dir, t[x].used, t[x].type = "dir"
  PROVE  \E d : OnWay(t, d, l + 1, x)
  <1> DEFINE d == [k \in 0 .. l + 1 |-> IF k = l + 1 THEN x ELSE c[k]]
  <1>1. l \in Nat /\ l + 1 \in Nat /\ c \in [0 .. l -> Inodes]
    BY DEF OnWay
  <1>2. \A k \in 0 .. l + 1 : k = l + 1 \/ k \in 0 .. l
    BY <1>1
  <1>3. \A k \in 0 .. l : c[k] # x
    BY ChildIsNotAbove
  <1>4. d \in [0 .. l + 1 -> Inodes]
    BY <1>1, <1>2
  <1>5. d[l + 1] = x /\ \A k \in 0 .. l : d[k] = c[k]
    BY <1>1
  <1> HIDE DEF d
  <1>6. d[0] = 0
    BY <1>1, <1>5 DEF OnWay
  <1>7. \A k \in 0 .. l + 1 : t[d[k]].used /\ t[d[k]].type = "dir"
    BY <1>2, <1>5 DEF OnWay
  <1>8. \A k \in 1 .. l + 1 : t[d[k]].parent = d[k - 1]
    <2> SUFFICES ASSUME NEW k \in 1 .. l + 1 PROVE t[d[k]].parent = d[k - 1]
      OBVIOUS
    <2>1. k - 1 \in 0 .. l /\ (k = l + 1 \/ k \in 1 .. l)
      BY <1>1
    <2>2. k \in 1 .. l => k \in 0 .. l
      BY <1>1
    <2> QED
      BY <1>1, <1>5, <2>1, <2>2 DEF OnWay
  <1>9. \A i, j \in 0 .. l + 1 : d[i] = d[j] => i = j
    BY <1>2, <1>3, <1>5 DEF OnWay
  <1> QED
    BY <1>1, <1>4, <1>5, <1>6, <1>7, <1>8, <1>9 DEF OnWay

LEMMA WayGoesBack ==
  ASSUME NEW t, NEW c, NEW l, NEW dir, OnWay(t, c, l, dir), dir # 0
  PROVE  \E d, k : OnWay(t, d, k, t[dir].parent)
  <1> DEFINE d == [k \in 0 .. l - 1 |-> c[k]]
  <1>1. l \in Nat /\ l # 0 /\ c \in [0 .. l -> Inodes]
    BY DEF OnWay
  <1>2. l - 1 \in Nat /\ l - 1 \in 0 .. l - 1 /\ 0 \in 0 .. l - 1 /\ l \in 1 .. l
    BY <1>1
  <1>3. \A k \in 0 .. l - 1 : k \in 0 .. l
    BY <1>1
  <1>4. \A k \in 1 .. l - 1 : k \in 0 .. l - 1 /\ k - 1 \in 0 .. l - 1 /\ k \in 1 .. l
    BY <1>1
  <1>5. d \in [0 .. l - 1 -> Inodes] /\ \A k \in 0 .. l - 1 : d[k] = c[k]
    BY <1>1, <1>3
  <1> HIDE DEF d
  <1>6. t[dir].parent = c[l - 1]
    BY <1>2 DEF OnWay
  <1>7. OnWay(t, d, l - 1, c[l - 1])
    BY <1>2, <1>3, <1>4, <1>5 DEF OnWay
  <1> QED
    BY <1>6, <1>7

-----------------------------------------------------------------------------
\* moveFile: the entry is added to the directory shown, which is not in what is moved,
\* and removed where it was.
LEMMA MoveIs ==
  ASSUME NEW t, IsTree(t), NEW from \in Inodes, NEW to \in Inodes, NEW name,
         CanMove(t, from, to, name), NEW c, NEW l, OnWay(t, c, l, to),
         NEW x, x = FindFile(t, from, name), NEW u, u = MoveFile(t, from, to, name)
  PROVE  /\ IsTree(u)
         /\ Holds(t, from, name, x) /\ x \in Inodes \ {0}
         /\ \A n \in Inodes \ {x} : Kept(t, u, n)
         /\ u[x].used = t[x].used /\ u[x].type = t[x].type
         /\ u[x].type = "file" /\ u[x].whole => t[x].whole /\ u[x].text = t[x].text
         /\ \A k \in 0 .. l : c[k] # x
         /\ \A d \in Inodes : \A s, n : Holds(u, d, s, n) <=>
              \/ Holds(t, d, s, n) /\ ~ (d = from /\ s = name)
              \/ d = to /\ s = name /\ n = x
  <1> DEFINE v == AddDirEntry(t, to, x, name)
             w == RemoveDirEntry(v, from, name)
  <1>1. /\ t \in [Inodes -> Inode] /\ \A d \in Inodes : Proper(t[d].list)
        /\ x # NotFound /\ to # from /\ t[to].used /\ t[to].type = "dir"
        /\ ~ (t[x].type = "dir" /\ x \in Above(t, to)) /\ ~ Exists(t, to, name)
    BY TreeHas DEF CanMove, Exists
  <1>2. /\ Holds(t, from, name, x) /\ x \in Inodes \ {0, from} /\ name \in STRING
        /\ t[x].used /\ t[x].parent = from
    <2>1. Proper(t[from].list)
      BY <1>1
    <2>2. Holds(t, from, name, x)
      BY <1>1, <2>1, FindIs
    <2> QED
      BY <2>2, TreeHas
  <1>3. \A k \in 0 .. l : c[k] # x
    <2> SUFFICES ASSUME NEW k \in 0 .. l, c[k] = x PROVE FALSE
      OBVIOUS
    <2>1. t[x].type = "dir"
      BY DEF OnWay
    <2>2. c[k] \in Above(t, to)
      BY <1>1, AboveIs
    <2> QED
      BY <1>1, <2>1, <2>2
  <1>4. x # to
    <2>1. l \in 0 .. l /\ c[l] = to
      BY DEF OnWay
    <2> QED
      BY <1>3, <2>1
  <1>5. \A n : ~ Holds(t, to, name, n)
    <2>1. Proper(t[to].list) /\ FindFile(t, to, name) = NotFound
      BY <1>1 DEF Exists
    <2>2. \A n : Holds(t, to, name, n) => FindFile(t, to, name) = n /\ n \in Inodes
      BY <2>1, FindIs
    <2>3. \A n \in Inodes : n # NotFound
      BY <2>1, FindIs
    <2> QED
      BY <2>1, <2>2, <2>3
  <1>6. /\ v \in [Inodes -> Inode]
        /\ \A n \in Inodes : Kept(t, v, n) /\ (n # to => v[n] = t[n])
        /\ v[to].list = Append(t[to].list, [name |-> name, node |-> x])
    <2>1. t \in [Inodes -> Inode] /\ to \in Inodes /\ x \in Inodes /\ name \in STRING /\ t[to].used
      BY ONLY <1>1, <1>2, to \in Inodes
    <2>2. v = AddDirEntry(t, to, x, name)
      OBVIOUS
    <2> HIDE DEF v
    <2> QED
      BY ONLY <2>1, <2>2, AddIs
  <1>7. \A s, n : Holds(t, to, s, n) => s # name /\ n # x
    <2>1. \A s, n : Holds(t, to, s, n) => t[n].parent = to
      BY TreeHas
    <2> QED
      BY <1>1, <1>2, <1>5, <2>1
  <1>8. /\ Proper(v[to].list)
        /\ \A s, n : Holds(v, to, s, n) <=> Holds(t, to, s, n) \/ (s = name /\ n = x)
    <2> DEFINE list == t[to].list
    <2>1. Proper(list) /\ \A s, n : InList(list, s, n) => s # name /\ n # x
      BY <1>1, <1>7 DEF Holds
    <2> HIDE DEF list
    <2>2. /\ Proper(Append(list, [name |-> name, node |-> x]))
          /\ \A s, n : InList(Append(list, [name |-> name, node |-> x]), s, n) <=>
                 InList(list, s, n) \/ (s = name /\ n = x)
      BY <1>2, <2>1, AppendList
    <2> QED
      BY <1>6, <2>2 DEF Holds, list
  <1> HIDE DEF v
  <1>9. v[from] = t[from] /\ FindFile(v, from, name) = x
    BY <1>1, <1>6 DEF FindFile
  <1>10. /\ w \in [Inodes -> Inode]
         /\ \A n \in Inodes : /\ Kept(v, w, n) /\ (n # from => w[n] = v[n])
         /\ Proper(w[from].list)
         /\ \A s, n : Holds(w, from, s, n) <=> Holds(v, from, s, n) /\ s # name
    <2>1. Proper(v[from].list) /\ FindFile(v, from, name) # NotFound
      BY <1>1, <1>9
    <2> HIDE DEF w
    <2> QED
      BY <1>6, <2>1, RemoveIs DEF w
  <1> HIDE DEF w
  <1>11. u = [w EXCEPT ![x].parent = to]
    BY DEF MoveFile, v, w
  <1>12. /\ u \in [Inodes -> Inode] /\ \A n \in Inodes : n # x => u[n] = w[n]
         /\ u[x].used = w[x].used /\ u[x].type = w[x].type /\ u[x].parent = to
         /\ u[x].list = w[x].list /\ u[x].text = w[x].text /\ u[x].whole = w[x].whole
    <2> DEFINE r == [w[x] EXCEPT !.parent = to]
    <2>1. w[x] \in [used : BOOLEAN, type : {"file", "dir"}, parent : Inodes,
                    list : Seq(Entry), text : Bytes, whole : BOOLEAN]
      BY <1>2, <1>10 DEF Inode, Entry
    <2>2. /\ r \in Inode /\ r.used = w[x].used /\ r.type = w[x].type /\ r.parent = to
          /\ r.list = w[x].list /\ r.text = w[x].text /\ r.whole = w[x].whole
      BY <2>1 DEF Inode, Entry
    <2>3. u = [w EXCEPT ![x] = r]
      BY <1>11
    <2> HIDE DEF r
    <2> QED
      BY ONLY <1>2, <1>10, <2>2, <2>3
  <1>13. w[x] = t[x] /\ \A d \in Inodes : u[d].list = w[d].list
    BY <1>2, <1>4, <1>6, <1>10, <1>12
  <1>14. \A d \in Inodes : \A s, n : Holds(u, d, s, n) <=>
              \/ Holds(t, d, s, n) /\ ~ (d = from /\ s = name)
              \/ d = to /\ s = name /\ n = x
    <2>1. \A d \in Inodes : \A s, n : Holds(u, d, s, n) <=> Holds(w, d, s, n)
      BY <1>13 DEF Holds
    <2>2. \A d \in Inodes \ {from} : \A s, n : Holds(w, d, s, n) <=> Holds(v, d, s, n)
      BY <1>10 DEF Holds
    <2>3. \A d \in Inodes \ {to} : \A s, n : Holds(v, d, s, n) <=> Holds(t, d, s, n)
      BY <1>6 DEF Holds
    <2> QED
      BY ONLY <1>1, <1>8, <1>10, <2>1, <2>2, <2>3, from \in Inodes, to \in Inodes
  <1>15. \A n \in Inodes \ {x} : Kept(t, u, n)
    BY <1>6, <1>10, <1>12 DEF Kept
  <1>16. \A d \in Inodes : Proper(u[d].list)
    <2>1. \A d \in Inodes : Proper(w[d].list)
      BY ONLY <1>1, <1>6, <1>8, <1>10, from \in Inodes, to \in Inodes
    <2> QED
      BY <1>13, <2>1
  <1>17. \A d \in Inodes : \A s, n : Holds(u, d, s, n) =>
           n \in Inodes \ {0, d} /\ s \in STRING /\ u[n].used /\ u[n].parent = d
    <2> SUFFICES ASSUME NEW d \in Inodes, NEW s, NEW n, Holds(u, d, s, n)
                 PROVE  n \in Inodes \ {0, d} /\ s \in STRING /\ u[n].used /\ u[n].parent = d
      OBVIOUS
    <2>1. CASE d = to /\ s = name /\ n = x
      BY <1>2, <1>4, <1>12, <1>13, <2>1
    <2>2. CASE Holds(t, d, s, n) /\ ~ (d = from /\ s = name)
      <3>1. n \in Inodes \ {0, d} /\ s \in STRING /\ t[n].used /\ t[n].parent = d
        BY <2>2, TreeHas
      <3>2. \A r : Holds(t, from, r, x) => r = name
        BY <1>2, TreeHas
      <3>3. n # x
        BY <1>2, <2>2, <3>1, <3>2
      <3> QED
        BY <1>15, <3>1, <3>3 DEF Kept
    <2> QED
      BY <1>14, <2>1, <2>2
  <1>18. u[0].used /\ u[0].type = "dir"
    <2>1. 0 \in Inodes \ {x} /\ t[0].used /\ t[0].type = "dir"
      BY <1>2, TreeHas
    <2> QED
      BY <1>15, <2>1 DEF Kept
  <1>19. IsTree(u)
    BY <1>12, <1>16, <1>17, <1>18, IsStillTree
  <1> QED
    BY ONLY <1>2, <1>3, <1>12, <1>13, <1>14, <1>15, <1>19

-----------------------------------------------------------------------------
(* Listings.                                                               *)

\* The recursion of Those, unfolded.
Unfolds(f, rows, folder) ==
  /\ Those(rows, folder) = f[Len(rows)] /\ f[0] = << >>
  /\ \A k \in 1 .. Len(rows) :
       f[k] = IF rows[k].folder = folder THEN Append(f[k - 1], rows[k]) ELSE f[k - 1]

LEMMA ThoseAre ==
  ASSUME NEW R, NEW rows \in Seq(R), NEW folder
  PROVE  \E f \in [0 .. Len(rows) -> Seq(R)] : Unfolds(f, rows, folder)
  <1> DEFINE n == Len(rows)
             Step(k, s) == IF rows[k].folder = folder THEN Append(s, rows[k]) ELSE s
             F == [p \in (0 .. n) \X Seq(R) |-> IF p[1] = 0 THEN p[2] ELSE Step(p[1], p[2])]
             Is(g) == g = [k \in 0 .. n |-> IF k = 0 THEN << >> ELSE Step(k, g[k - 1])]
             f == CHOOSE g : Is(g)
  <1>1. n \in Nat /\ << >> \in Seq(R) /\ \A k \in 1 .. n : rows[k] \in R
    BY LenProperties, ElementOfSeq
  <1>2. \A k \in 1 .. n, s \in Seq(R) : Step(k, s) \in Seq(R)
    BY <1>1, AppendProperties
  <1>s. Those(rows, folder) = f[n]
    BY DEF Those
  <1> HIDE DEF n, Step
  <1>3. F \in [(0 .. n) \X Seq(R) -> Seq(R)]
    <2>1. ASSUME NEW p \in (0 .. n) \X Seq(R)
          PROVE  (IF p[1] = 0 THEN p[2] ELSE Step(p[1], p[2])) \in Seq(R)
      <3>1. p[1] \in 0 .. n /\ p[2] \in Seq(R)
        OBVIOUS
      <3>2. p[1] # 0 => p[1] \in 1 .. n
        BY <1>1, <3>1
      <3> QED
        BY <1>2, <3>1, <3>2
    <2> QED
      BY <2>1
  <1>4. \A k \in 0 .. n, s \in Seq(R) : k # 0 => F[<<k, s>>] = Step(k, s)
    <2> SUFFICES ASSUME NEW k \in 0 .. n, NEW s \in Seq(R), k # 0 PROVE F[<<k, s>>] = Step(k, s)
      OBVIOUS
    <2>1. <<k, s>> \in (0 .. n) \X Seq(R)
      OBVIOUS
    <2> QED
      BY <2>1
  <1> HIDE DEF F
  <1>5. PICK g \in [0 .. n -> Seq(R)] : Recurs(g, n, << >>, F)
    BY <1>1, <1>3, Recursion
  <1>6. Is(g)
    <2>1. \A k \in 0 .. n : k # 0 => F[<<k, g[k - 1]>>] = Step(k, g[k - 1])
      <3> SUFFICES ASSUME NEW k \in 0 .. n, k # 0 PROVE F[<<k, g[k - 1]>>] = Step(k, g[k - 1])
        OBVIOUS
      <3>1. k - 1 \in 0 .. n
        BY <1>1
      <3>2. g[k - 1] \in Seq(R)
        BY <1>5, <3>1
      <3> QED
        BY <1>4, <3>2
    <2> QED
      BY <1>5, <2>1 DEF Recurs
  <1>7. Is(f)
    <2> HIDE DEF Is
    <2> QED
      BY <1>6
  <1> HIDE DEF f
  <1>8. DOMAIN f = 0 .. n /\ \A k \in 0 .. n : f[k] = IF k = 0 THEN << >> ELSE Step(k, f[k - 1])
    BY <1>7
  <1>9. \A k \in 1 .. n : f[k] = Step(k, f[k - 1])
    BY <1>1, <1>8
  <1> DEFINE S == {k \in 0 .. n : f[k] \in Seq(R)}
  <1>14. 0 \in 0 .. n /\ f[0] = << >>
    BY <1>1, <1>8
  <1>10. 0 \in S
    BY <1>1, <1>14
  <1>11. \A k \in 1 .. n : k - 1 \in S => k \in S
    BY <1>1, <1>2, <1>9
  <1>12. 0 .. n \subseteq S
    <2> HIDE DEF S
    <2> QED
      BY <1>1, <1>10, <1>11, Induction
  <1>13. f \in [0 .. n -> Seq(R)]
    <2>1. f = [k \in 0 .. n |-> f[k]]
      BY <1>7
    <2> QED
      BY <1>12, <2>1
  <1> QED
    BY <1>s, <1>9, <1>13, <1>14 DEF n, Step, Unfolds

\* From two lists of rows that agree on what is a folder the same places are taken.
LEMMA ThoseAgree ==
  ASSUME NEW R, NEW P \in Seq(R), NEW Q \in Seq(R), NEW folder, Len(Q) = Len(P),
         \A i \in 1 .. Len(P) : P[i].folder = Q[i].folder
  PROVE  /\ Those(P, folder) \in Seq(R) /\ Those(Q, folder) \in Seq(R)
         /\ Len(Those(Q, folder)) = Len(Those(P, folder))
         /\ \A k \in 1 .. Len(Those(P, folder)) : \E i \in 1 .. Len(P) :
              Those(P, folder)[k] = P[i] /\ Those(Q, folder)[k] = Q[i]
  <1> DEFINE n == Len(P)
  <1>1. n \in Nat /\ \A i \in 1 .. n : P[i] \in R /\ Q[i] \in R
    BY LenProperties, ElementOfSeq
  <1>a. PICK f \in [0 .. n -> Seq(R)] : Unfolds(f, P, folder)
    BY ThoseAre
  <1>b. PICK g \in [0 .. n -> Seq(R)] : Unfolds(g, Q, folder)
    BY ThoseAre
  <1>2. /\ Those(P, folder) = f[n] /\ f[0] = << >>
        /\ \A k \in 1 .. n :
             f[k] = IF P[k].folder = folder THEN Append(f[k - 1], P[k]) ELSE f[k - 1]
    BY <1>a DEF Unfolds
  <1>3. /\ Those(Q, folder) = g[n] /\ g[0] = << >>
        /\ \A k \in 1 .. n :
             g[k] = IF Q[k].folder = folder THEN Append(g[k - 1], Q[k]) ELSE g[k - 1]
    BY <1>b DEF Unfolds
  <1> HIDE DEF n
  <1> DEFINE Same(a, b) == /\ Len(b) = Len(a)
                           /\ \A k \in 1 .. Len(a) : \E i \in 1 .. n : a[k] = P[i] /\ b[k] = Q[i]
             S == {k \in 0 .. n : Same(f[k], g[k])}
  <1>4. 0 \in S
    BY <1>1, <1>2, <1>3
  <1>5. ASSUME NEW k \in 1 .. n, k - 1 \in S PROVE k \in S
    <2> DEFINE a == f[k - 1]
               b == g[k - 1]
    <2>0. a \in Seq(R) /\ b \in Seq(R) /\ k \in 0 .. n /\ k - 1 \in 0 .. n
      BY <1>1
    <2>1. a \in Seq(R) /\ b \in Seq(R) /\ Same(a, b) /\ k \in 0 .. n /\ k - 1 \in 0 .. n
      BY <1>1, <1>5, <2>0
    <2>2. CASE P[k].folder = folder
      <3>1. f[k] = Append(a, P[k]) /\ g[k] = Append(b, Q[k])
        BY <1>2, <1>3, <2>2 DEF n
      <3> HIDE DEF a, b
      <3>2. /\ Len(Append(a, P[k])) = Len(a) + 1 /\ Append(a, P[k])[Len(a) + 1] = P[k]
            /\ \A i \in 1 .. Len(a) : Append(a, P[k])[i] = a[i]
        BY <1>1, <2>1, AppendProperties
      <3>3. /\ Len(Append(b, Q[k])) = Len(b) + 1 /\ Append(b, Q[k])[Len(b) + 1] = Q[k]
            /\ \A i \in 1 .. Len(b) : Append(b, Q[k])[i] = b[i]
        BY <1>1, <2>1, AppendProperties
      <3>6. Len(a) \in Nat
        BY <2>0, LenProperties
      <3>4. Len(a) \in Nat /\ \A i \in 1 .. Len(a) + 1 : i \in 1 .. Len(a) \/ i = Len(a) + 1
        BY ONLY <3>6
      <3>5. Same(Append(a, P[k]), Append(b, Q[k]))
        BY ONLY <2>1, <3>2, <3>3, <3>4, k \in 1 .. n
      <3> HIDE DEF Same
      <3> QED
        BY <2>1, <3>1, <3>5
    <2>3. CASE P[k].folder # folder
      <3>1. f[k] = a /\ g[k] = b
        BY <1>2, <1>3, <2>3 DEF n
      <3> HIDE DEF Same
      <3> QED
        BY <2>1, <3>1
    <2> QED
      BY <2>2, <2>3
  <1>6. n \in S
    <2> HIDE DEF S
    <2>1. 0 .. n \subseteq S
      BY <1>1, <1>4, <1>5, Induction
    <2> QED
      BY <1>1, <2>1
  <1>7. f[n] \in Seq(R) /\ g[n] \in Seq(R)
    BY <1>1
  <1> QED
    BY <1>2, <1>3, <1>6, <1>7 DEF n

RowOf(t, name, node) == Row(t, [name |-> name, node |-> node])

\* What a row says.
LEMMA RowIs ==
  ASSUME NEW t, NEW name, NEW node
  PROVE  /\ RowOf(t, name, node).name = name
         /\ RowOf(t, name, node).folder = (t[node].type = "dir")
         /\ RowOf(t, name, node).size = IF t[node].type = "dir" THEN Len(t[node].list)
                                        ELSE Size(t[node].text)
  BY DEF RowOf, Row

Joined(a, b, c) == a \o b \o c

JoinedOf(l, a, b, c) ==
  /\ Len(l) = Len(a) + Len(b) + Len(c)
  /\ \A k \in 1 .. Len(a) : l[k] = a[k]
  /\ \A k \in 1 .. Len(b) : l[Len(a) + k] = b[k]
  /\ \A k \in 1 .. Len(c) : l[Len(a) + Len(b) + k] = c[k]
  /\ \A k \in 1 .. Len(l) :
       \/ k \in 1 .. Len(a)
       \/ \E j \in 1 .. Len(b) : k = Len(a) + j
       \/ \E j \in 1 .. Len(c) : k = Len(a) + Len(b) + j

LEMMA JoinIs ==
  ASSUME NEW R, NEW a \in Seq(R), NEW b \in Seq(R), NEW c \in Seq(R)
  PROVE  Joined(a, b, c) \in Seq(R) /\ JoinedOf(Joined(a, b, c), a, b, c)
  <1>1. Len(a) \in Nat /\ Len(b) \in Nat /\ Len(c) \in Nat
    BY LenProperties
  <1>2. /\ a \o b \in Seq(R) /\ Len(a \o b) = Len(a) + Len(b)
        /\ \A k \in 1 .. Len(a) + Len(b) :
             (a \o b)[k] = IF k <= Len(a) THEN a[k] ELSE b[k - Len(a)]
    BY ConcatProperties
  <1>3. /\ a \o b \o c \in Seq(R) /\ Len(a \o b \o c) = Len(a \o b) + Len(c)
        /\ \A k \in 1 .. Len(a \o b) + Len(c) :
             (a \o b \o c)[k] = IF k <= Len(a \o b) THEN (a \o b)[k] ELSE c[k - Len(a \o b)]
    BY <1>2, ConcatProperties
  <1> DEFINE abc == a \o b \o c
             ab == a \o b
  <1> HIDE DEF ab, abc
  <1>4. Len(abc) = Len(a) + Len(b) + Len(c)
    BY <1>1, <1>2, <1>3 DEF ab, abc
  <1>5. \A k \in 1 .. Len(a) : abc[k] = a[k]
    <2> SUFFICES ASSUME NEW k \in 1 .. Len(a) PROVE abc[k] = a[k]
      OBVIOUS
    <2>1. k \in 1 .. Len(a) + Len(b) /\ k \in 1 .. Len(ab) + Len(c) /\ k <= Len(ab) /\ k <= Len(a)
      BY <1>1, <1>2 DEF ab
    <2>2. abc[k] = ab[k]
      BY <1>3, <2>1 DEF ab, abc
    <2> QED
      BY <1>2, <2>1, <2>2 DEF ab
  <1>6. \A k \in 1 .. Len(b) : abc[Len(a) + k] = b[k]
    <2> SUFFICES ASSUME NEW k \in 1 .. Len(b) PROVE abc[Len(a) + k] = b[k]
      OBVIOUS
    <2> DEFINE j == Len(a) + k
    <2>1. /\ j \in 1 .. Len(a) + Len(b) /\ j \in 1 .. Len(ab) + Len(c) /\ j <= Len(ab)
          /\ ~ j <= Len(a) /\ j - Len(a) = k
      BY <1>1, <1>2 DEF ab
    <2> HIDE DEF j
    <2>2. abc[j] = ab[j]
      BY <1>3, <2>1 DEF ab, abc
    <2>3. ab[j] = b[k]
      BY <1>2, <2>1 DEF ab
    <2> QED
      BY <2>2, <2>3 DEF j
  <1>7. \A k \in 1 .. Len(c) : abc[Len(a) + Len(b) + k] = c[k]
    <2> SUFFICES ASSUME NEW k \in 1 .. Len(c) PROVE abc[Len(a) + Len(b) + k] = c[k]
      OBVIOUS
    <2> DEFINE j == Len(a) + Len(b) + k
    <2>1. /\ j \in 1 .. Len(ab) + Len(c) /\ ~ j <= Len(ab) /\ j - Len(ab) = k
      BY <1>1, <1>2 DEF ab
    <2> HIDE DEF j
    <2>2. abc[j] = c[k]
      BY <1>3, <2>1 DEF ab, abc
    <2> QED
      BY <2>2 DEF j
  <1>8. ASSUME NEW k \in 1 .. Len(abc)
        PROVE  \/ k \in 1 .. Len(a)
               \/ \E j \in 1 .. Len(b) : k = Len(a) + j
               \/ \E j \in 1 .. Len(c) : k = Len(a) + Len(b) + j
    <2>1. CASE k <= Len(a)
      BY <1>1, <2>1
    <2>2. CASE Len(a) < k /\ k <= Len(a) + Len(b)
      <3>1. k - Len(a) \in 1 .. Len(b) /\ k = Len(a) + (k - Len(a))
        BY <1>1, <2>2
      <3> QED
        BY <3>1
    <2>3. CASE Len(a) + Len(b) < k
      <3>1. k - (Len(a) + Len(b)) \in 1 .. Len(c) /\ k = Len(a) + Len(b) + (k - (Len(a) + Len(b)))
        BY <1>1, <1>4, <2>3
      <3> QED
        BY <3>1
    <2> QED
      BY <1>1, <2>1, <2>2, <2>3
  <1> QED
    BY <1>3, <1>4, <1>5, <1>6, <1>7, <1>8 DEF abc, Joined, JoinedOf

\* Two lines of a listing about the same thing.
SameLine(t, u, dir, p, q) ==
  \/ p = UpRow /\ q = UpRow
  \/ \E s, n : Holds(t, dir, s, n) /\ p = RowOf(t, s, n) /\ q = RowOf(u, s, n)

\* Listings of a directory that has the same entries and folders in two trees.
LEMMA ListingsAgree ==
  ASSUME NEW t \in [Inodes -> Inode], NEW u \in [Inodes -> Inode], NEW dir \in Inodes,
         u[dir].list = t[dir].list,
         \A s, n : Holds(t, dir, s, n) => u[n].type = t[n].type
  PROVE  /\ Len(Listing(t, dir)) \in Nat
         /\ DOMAIN Listing(t, dir) = 1 .. Len(Listing(t, dir))
         /\ Len(Listing(u, dir)) = Len(Listing(t, dir))
         /\ \A k \in 1 .. Len(Listing(t, dir)) :
              SameLine(t, u, dir, Listing(t, dir)[k], Listing(u, dir)[k])
  <1> DEFINE list == t[dir].list
             n == Shown(t, dir)
             P == [k \in 1 .. n |-> Row(t, list[k])]
             Q == [k \in 1 .. n |-> Row(u, list[k])]
             up == IF dir = 0 THEN << >> ELSE << UpRow >>
             R == {P[k] : k \in 1 .. n} \cup {Q[k] : k \in 1 .. n} \cup {UpRow}
  <1>0. list \in Seq(Entry) /\ Len(list) \in Nat
    BY Fields, LenProperties
  <1>1. n \in Nat /\ n <= Len(list) /\ Shown(u, dir) = n
    BY <1>0, EntriesAssumption DEF Shown
  <1> HIDE DEF n
  <1>2. \A k \in 1 .. n : k \in 1 .. Len(list) /\ list[k] \in Entry
    <2>1. \A k \in 1 .. n : k \in 1 .. Len(list)
      BY <1>0, <1>1
    <2> QED
      BY <1>0, <2>1, ElementOfSeq
  <1>3. /\ P \in Seq(R) /\ Q \in Seq(R) /\ Len(P) = n /\ Len(Q) = n
        /\ \A k \in 1 .. n : P[k] = Row(t, list[k]) /\ Q[k] = Row(u, list[k])
    <2>1. P = [k \in 1 .. n |-> P[k]] /\ Q = [k \in 1 .. n |-> Q[k]]
      BY <1>1
    <2>2. \A k \in 1 .. n : P[k] \in R /\ Q[k] \in R
      BY <1>1
    <2>3. \A k \in 1 .. n : P[k] = Row(t, list[k]) /\ Q[k] = Row(u, list[k])
      BY <1>1
    <2> HIDE DEF P, Q, R, n
    <2>4. P \in [1 .. n -> R] /\ Q \in [1 .. n -> R]
      BY <2>1, <2>2
    <2> QED
      BY <1>1, <2>3, <2>4
  <1>4. \A k \in 1 .. n : /\ Holds(t, dir, list[k].name, list[k].node)
                          /\ P[k] = RowOf(t, list[k].name, list[k].node)
                          /\ Q[k] = RowOf(u, list[k].name, list[k].node)
    <2> SUFFICES ASSUME NEW k \in 1 .. n
                 PROVE  /\ Holds(t, dir, list[k].name, list[k].node)
                        /\ P[k] = RowOf(t, list[k].name, list[k].node)
                        /\ Q[k] = RowOf(u, list[k].name, list[k].node)
      OBVIOUS
    <2>1. list[k] = [name |-> list[k].name, node |-> list[k].node]
      BY <1>2 DEF Entry
    <2>2. Holds(t, dir, list[k].name, list[k].node)
      BY <1>2 DEF Holds, InList
    <2>3. P[k] = Row(t, list[k]) /\ Q[k] = Row(u, list[k])
      BY <1>3
    <2> HIDE DEF list, P, Q
    <2> QED
      BY <2>1, <2>2, <2>3 DEF RowOf
  <1>5. \A k \in 1 .. n : P[k].folder = Q[k].folder
    <2> SUFFICES ASSUME NEW k \in 1 .. n PROVE P[k].folder = Q[k].folder
      OBVIOUS
    <2> HIDE DEF P, Q, list
    <2>1. u[list[k].node].type = t[list[k].node].type
      BY <1>4
    <2> QED
      BY <1>4, <2>1, RowIs
  <1>6. up \in Seq(R) /\ \A k \in 1 .. Len(up) : up[k] = UpRow
    <2>1. UpRow \in R
      OBVIOUS
    <2> HIDE DEF R
    <2> QED
      BY <2>1
  <1>7. /\ Listing(t, dir) = up \o Those(P, TRUE) \o Those(P, FALSE)
        /\ Listing(u, dir) = up \o Those(Q, TRUE) \o Those(Q, FALSE)
    BY <1>1 DEF Listing, n
  <1> HIDE DEF P, Q, R, up, list
  <1>8. \A b \in BOOLEAN :
          /\ Those(P, b) \in Seq(R) /\ Those(Q, b) \in Seq(R)
          /\ Len(Those(Q, b)) = Len(Those(P, b))
          /\ \A k \in 1 .. Len(Those(P, b)) :
               SameLine(t, u, dir, Those(P, b)[k], Those(Q, b)[k])
    <2> SUFFICES ASSUME NEW b \in BOOLEAN
                 PROVE  /\ Those(P, b) \in Seq(R) /\ Those(Q, b) \in Seq(R)
                        /\ Len(Those(Q, b)) = Len(Those(P, b))
                        /\ \A k \in 1 .. Len(Those(P, b)) :
                             SameLine(t, u, dir, Those(P, b)[k], Those(Q, b)[k])
      OBVIOUS
    <2>0. Len(Q) = Len(P) /\ \A i \in 1 .. Len(P) : P[i].folder = Q[i].folder
      BY ONLY <1>3, <1>5
    <2>1. /\ Those(P, b) \in Seq(R) /\ Those(Q, b) \in Seq(R)
          /\ Len(Those(Q, b)) = Len(Those(P, b))
          /\ \A k \in 1 .. Len(Those(P, b)) : \E i \in 1 .. Len(P) :
               Those(P, b)[k] = P[i] /\ Those(Q, b)[k] = Q[i]
      <3>1. P \in Seq(R) /\ Q \in Seq(R)
        BY ONLY <1>3
      <3> QED
        BY ONLY <2>0, <3>1, ThoseAgree
    <2>2. \A i \in 1 .. Len(P) : SameLine(t, u, dir, P[i], Q[i])
      BY <1>3, <1>4 DEF SameLine
    <2> QED
      BY <2>1, <2>2
  <1> DEFINE a == Those(P, TRUE)
             b == Those(P, FALSE)
             c == Those(Q, TRUE)
             d == Those(Q, FALSE)
  <1>9. /\ a \in Seq(R) /\ b \in Seq(R) /\ c \in Seq(R) /\ d \in Seq(R)
        /\ Len(c) = Len(a) /\ Len(d) = Len(b)
        /\ \A k \in 1 .. Len(a) : SameLine(t, u, dir, a[k], c[k])
        /\ \A k \in 1 .. Len(b) : SameLine(t, u, dir, b[k], d[k])
    BY <1>8
  <1>10. Listing(t, dir) = Joined(up, a, b) /\ Listing(u, dir) = Joined(up, c, d)
    BY <1>7 DEF Joined
  <1> HIDE DEF a, b, c, d
  <1> DEFINE l == Joined(up, a, b)
             m == Joined(up, c, d)
  <1>l. /\ l \in Seq(R) /\ JoinedOf(l, up, a, b)
        /\ m \in Seq(R) /\ JoinedOf(m, up, c, d)
    BY <1>6, <1>9, JoinIs
  <1> HIDE DEF l, m
  <1>11. /\ l \in Seq(R) /\ Len(l) = Len(up) + Len(a) + Len(b)
         /\ \A k \in 1 .. Len(up) : l[k] = up[k]
         /\ \A k \in 1 .. Len(a) : l[Len(up) + k] = a[k]
         /\ \A k \in 1 .. Len(b) : l[Len(up) + Len(a) + k] = b[k]
         /\ \A k \in 1 .. Len(l) :
              \/ k \in 1 .. Len(up)
              \/ \E j \in 1 .. Len(a) : k = Len(up) + j
              \/ \E j \in 1 .. Len(b) : k = Len(up) + Len(a) + j
    BY ONLY <1>l DEF JoinedOf
  <1>12. /\ m \in Seq(R) /\ Len(m) = Len(up) + Len(c) + Len(d)
         /\ \A k \in 1 .. Len(up) : m[k] = up[k]
         /\ \A k \in 1 .. Len(c) : m[Len(up) + k] = c[k]
         /\ \A k \in 1 .. Len(d) : m[Len(up) + Len(c) + k] = d[k]
    BY ONLY <1>l DEF JoinedOf
  <1>13. ASSUME NEW k \in 1 .. Len(l) PROVE SameLine(t, u, dir, l[k], m[k])
    <2>1. CASE k \in 1 .. Len(up)
      BY <1>6, <1>11, <1>12, <2>1 DEF SameLine
    <2>2. ASSUME NEW j \in 1 .. Len(a), k = Len(up) + j PROVE SameLine(t, u, dir, l[k], m[k])
      BY <1>9, <1>11, <1>12, <2>2
    <2>3. ASSUME NEW j \in 1 .. Len(b), k = Len(up) + Len(a) + j
          PROVE  SameLine(t, u, dir, l[k], m[k])
      BY <1>9, <1>11, <1>12, <2>3
    <2> QED
      BY <1>11, <2>1, <2>2, <2>3
  <1>14. Len(l) \in Nat /\ DOMAIN l = 1 .. Len(l) /\ Len(m) = Len(l)
    BY <1>9, <1>11, <1>12, LenProperties
  <1> QED
    BY <1>10, <1>13, <1>14 DEF l, m

\* rows show the directory dir as ListingIsCurrent says.
Shows(rows, t, dir, since) ==
  LET now == Listing(t, dir)
  IN  /\ Len(rows) = Len(now)
      /\ \A k \in DOMAIN now :
           LET row  == rows[k]
               node == FindFile(t, dir, row.name) IN
           /\ row.name = now[k].name /\ row.folder = now[k].folder
           /\ \/ row.size = now[k].size
              \/ row.folder /\ node \in since
              \/ ~ row.folder /\ ~ t[node].whole

\* A line of a listing is the way up or an entry.
LineIs(t, dir, p) == p = UpRow \/ \E s, n : Holds(t, dir, s, n) /\ p = RowOf(t, s, n)

LEMMA ListingIs ==
  ASSUME NEW t \in [Inodes -> Inode], NEW dir \in Inodes
  PROVE  /\ Len(Listing(t, dir)) \in Nat
         /\ DOMAIN Listing(t, dir) = 1 .. Len(Listing(t, dir))
         /\ \A k \in 1 .. Len(Listing(t, dir)) : LineIs(t, dir, Listing(t, dir)[k])
  <1>1. \A k \in 1 .. Len(Listing(t, dir)) :
          SameLine(t, t, dir, Listing(t, dir)[k], Listing(t, dir)[k])
    BY ListingsAgree
  <1>2. \A p : SameLine(t, t, dir, p, p) => LineIs(t, dir, p)
    BY DEF SameLine, LineIs
  <1>3. /\ Len(Listing(t, dir)) \in Nat
        /\ DOMAIN Listing(t, dir) = 1 .. Len(Listing(t, dir))
    BY ListingsAgree
  <1> QED
    BY <1>1, <1>2, <1>3

\* What has just been read is shown.
LEMMA FreshIs ==
  ASSUME NEW t, NEW dir, NEW since
  PROVE  Shows(Listing(t, dir), t, dir, since)
  BY DEF Shows

\* What is shown stays true while the directory has the same entries, a folder in it
\* the same entries or another file of the editor's, and a file what it held, unless
\* it has been written in part.
LEMMA ListingKeeps ==
  ASSUME NEW t, IsTree(t), NEW u \in [Inodes -> Inode], NEW dir \in Inodes, NEW rows, NEW since, NEW now,
         Shows(rows, t, dir, since), u[dir].list = t[dir].list, since \subseteq now,
         \A s, n : Holds(t, dir, s, n) =>
           /\ u[n].type = t[n].type
           /\ t[n].type = "dir" => u[n].list = t[n].list \/ n \in now
           /\ u[n].type = "file" /\ u[n].whole => t[n].whole /\ u[n].text = t[n].text
  PROVE  Shows(rows, u, dir, now)
  <1> DEFINE a == Listing(t, dir)
             b == Listing(u, dir)
  <1>t. t \in [Inodes -> Inode] /\ Proper(t[dir].list)
    BY TreeHas
  <1>1. /\ Len(a) \in Nat /\ DOMAIN a = 1 .. Len(a) /\ Len(b) = Len(a)
        /\ \A k \in 1 .. Len(a) : SameLine(t, u, dir, a[k], b[k])
    BY <1>t, ListingsAgree
  <1>2. DOMAIN b = 1 .. Len(b)
    BY ListingIs
  <1>3. /\ Len(rows) = Len(a)
        /\ \A k \in 1 .. Len(a) :
             /\ rows[k].name = a[k].name /\ rows[k].folder = a[k].folder
             /\ \/ rows[k].size = a[k].size
                \/ rows[k].folder /\ FindFile(t, dir, rows[k].name) \in since
                \/ ~ rows[k].folder /\ ~ t[FindFile(t, dir, rows[k].name)].whole
    BY <1>1 DEF Shows
  <1>4. \A s : FindFile(u, dir, s) = FindFile(t, dir, s)
    BY DEF FindFile
  <1> HIDE DEF a, b
  <1>5. ASSUME NEW k \in 1 .. Len(a)
        PROVE  /\ rows[k].name = b[k].name /\ rows[k].folder = b[k].folder
               /\ \/ rows[k].size = b[k].size
                  \/ rows[k].folder /\ FindFile(u, dir, rows[k].name) \in now
                  \/ ~ rows[k].folder /\ ~ u[FindFile(u, dir, rows[k].name)].whole
    <2>a. SameLine(t, u, dir, a[k], b[k])
      BY <1>1
    <2>1. CASE a[k] = UpRow /\ b[k] = UpRow
      <3>1. UpRow.name = ".." /\ UpRow.folder = TRUE /\ UpRow.size = 0
        BY DEF UpRow
      <3> QED
        BY <1>3, <2>1, <3>1, <1>4
    <2>2. ASSUME NEW s, NEW n, Holds(t, dir, s, n), a[k] = RowOf(t, s, n), b[k] = RowOf(u, s, n)
          PROVE  /\ rows[k].name = b[k].name /\ rows[k].folder = b[k].folder
                 /\ \/ rows[k].size = b[k].size
                    \/ rows[k].folder /\ FindFile(u, dir, rows[k].name) \in now
                    \/ ~ rows[k].folder /\ ~ u[FindFile(u, dir, rows[k].name)].whole
      <3>1. FindFile(t, dir, s) = n /\ n \in Inodes
        BY <1>t, <2>2, FindIs
      <3>2. /\ a[k].name = s /\ a[k].folder = (t[n].type = "dir")
            /\ a[k].size = IF t[n].type = "dir" THEN Len(t[n].list) ELSE Size(t[n].text)
        BY <2>2, RowIs
      <3>3. /\ b[k].name = s /\ b[k].folder = (u[n].type = "dir")
            /\ b[k].size = IF u[n].type = "dir" THEN Len(u[n].list) ELSE Size(u[n].text)
        BY <2>2, RowIs
      <3>4. /\ rows[k].name = s /\ rows[k].folder = (t[n].type = "dir")
            /\ \/ rows[k].size = a[k].size
               \/ rows[k].folder /\ n \in since
               \/ ~ rows[k].folder /\ ~ t[n].whole
        BY <1>3, <3>1, <3>2
      <3>5. /\ u[n].type = t[n].type /\ t[n].type \in {"dir", "file"}
            /\ t[n].type = "dir" => u[n].list = t[n].list \/ n \in now
            /\ u[n].type = "file" /\ u[n].whole => t[n].whole /\ u[n].text = t[n].text
        BY <1>t, <2>2, <3>1, Fields
      <3>6. FindFile(u, dir, rows[k].name) = n
        BY <1>4, <3>1, <3>4
      <3>7. CASE t[n].type = "dir"
        BY <3>2, <3>3, <3>4, <3>5, <3>6, <3>7
      <3>8. CASE t[n].type = "file"
        BY <3>2, <3>3, <3>4, <3>5, <3>6, <3>8
      <3> QED
        BY <3>5, <3>7, <3>8
    <2> QED
      BY <2>a, <2>1, <2>2 DEF SameLine
  <1> QED
    BY <1>1, <1>2, <1>3, <1>5 DEF Shows, b

\* A row of a file is an entry of a file, and says how long it is when it is whole.
LEMMA RowsFile ==
  ASSUME NEW t, IsTree(t), NEW dir \in Inodes, NEW rows, NEW since, Shows(rows, t, dir, since),
         NEW k \in 1 .. Len(rows), ~ rows[k].folder
  PROVE  LET x == FindFile(t, dir, rows[k].name)
         IN  /\ Holds(t, dir, rows[k].name, x) /\ x \in Inodes /\ t[x].type = "file"
             /\ t[x].whole => rows[k].size = Size(t[x].text)
  <1> DEFINE a == Listing(t, dir)
             x == FindFile(t, dir, rows[k].name)
  <1>t. t \in [Inodes -> Inode] /\ Proper(t[dir].list)
    BY TreeHas
  <1>1. /\ Len(a) \in Nat /\ DOMAIN a = 1 .. Len(a)
        /\ \A i \in 1 .. Len(a) : LineIs(t, dir, a[i])
    BY <1>t, ListingIs
  <1>3. /\ k \in 1 .. Len(a) /\ rows[k].name = a[k].name /\ rows[k].folder = a[k].folder
        /\ \/ rows[k].size = a[k].size
           \/ rows[k].folder /\ x \in since
           \/ ~ rows[k].folder /\ ~ t[x].whole
    BY <1>1 DEF Shows
  <1> HIDE DEF a
  <1>4. a[k] # UpRow
    BY <1>3 DEF UpRow
  <1>5. PICK s, n : Holds(t, dir, s, n) /\ a[k] = RowOf(t, s, n)
    BY <1>1, <1>3, <1>4 DEF LineIs
  <1>6. /\ a[k].name = s /\ a[k].folder = (t[n].type = "dir")
        /\ a[k].size = IF t[n].type = "dir" THEN Len(t[n].list) ELSE Size(t[n].text)
    BY <1>5, RowIs
  <1>7. FindFile(t, dir, s) = n /\ n \in Inodes
    BY <1>t, <1>5, FindIs
  <1>8. x = n /\ rows[k].name = s
    BY <1>3, <1>6, <1>7
  <1>9. t[n].type \in {"file", "dir"}
    BY <1>t, <1>7, Fields
  <1>10. t[n].type = "file"
    BY <1>3, <1>6, <1>9
  <1> HIDE DEF x
  <1>11. /\ Holds(t, dir, rows[k].name, x) /\ x \in Inodes /\ t[x].type = "file"
         /\ t[x].whole => rows[k].size = Size(t[x].text)
    BY <1>3, <1>5, <1>6, <1>7, <1>8, <1>10
  <1> QED
    BY <1>11 DEF x

-----------------------------------------------------------------------------
(* The invariant of the two programs and the tree.                         *)

FmTyped(f) ==
  /\ DOMAIN f = {"loaded", "rows", "selected", "lastClick", "confirm", "input", "move", "path",
                "stale"}
  /\ DOMAIN f.rows = 1 .. Len(f.rows)
  /\ f.move.dir \in Inodes

EdTyped(e) ==
  /\ DOMAIN e = {"text", "dirty", "named", "name", "dir", "naming", "stored", "ours"}
  /\ e.dir \in Inodes /\ e.text \in Bytes /\ e.ours \in BOOLEAN

\* The directory shown is there, and so is every directory above it.
Reached(t, dir) == dir \in Inodes /\ \E c, l : OnWay(t, c, l, dir)

\* The file that the document was stored in is there and holds what is shown without a
\* star; and the entry that the editor has for it, when that is its own.
Backed(t, e) ==
  /\ e.stored # NotFound =>
       /\ e.stored \in Inodes /\ t[e.stored].used /\ t[e.stored].type = "file"
       /\ ~ e.dirty /\ t[e.stored].whole => t[e.stored].text = e.text
  /\ e.ours => e.stored # NotFound /\ t[e.dir].used /\ Holds(t, e.dir, e.name, e.stored)

Asked(f, dir, q) == f.confirm # 0 => q = <<dir, f.rows[f.confirm].name>>

Seen(f, t, dir, since) == f.loaded /\ ~ f.stale => Shows(f.rows, t, dir, since)

\* The row of a file, also after a rename that has lost an entry, is that of no entry or
\* of a file's, and says how long it is when it is whole.
RowIsRight(row, t, dir) ==
  LET x == FindFile(t, dir, row.name)
  IN  ~ row.folder /\ x # NotFound =>
        x \in Inodes /\ t[x].type = "file" /\ (t[x].whole => row.size = Size(t[x].text))

Right(f, t, dir) == f.loaded => \A k \in 1 .. Len(f.rows) : RowIsRight(f.rows[k], t, dir)

FilesFine(t, dir, f, e, since, q) ==
  /\ FmTyped(f) /\ EdTyped(e) /\ IsTree(t)
  /\ Reached(t, dir) /\ Backed(t, e) /\ Asked(f, dir, q) /\ Seen(f, t, dir, since)
  /\ Right(f, t, dir)

FInv == FilesFine(inodes, currentDirINode, fm, ed, behind, asked)
FInvNext == FilesFine(inodes', currentDirINode', fm', ed', behind', asked')

\* No inode is freed; or what the property says.
NoneFreed == \A n \in Inodes : inodes[n].used => inodes'[n].used
OnlyAsked == \A n \in Inodes : (inodes[n].used /\ ~ inodes'[n].used) =>
               asked # << >> /\ n = FindFile(inodes, asked[1], asked[2])

-----------------------------------------------------------------------------
LEMMA ReachedIs ==
  ASSUME NEW t, NEW dir, Reached(t, dir)
  PROVE  dir \in Inodes /\ t[dir].used /\ t[dir].type = "dir"
  <1>1. PICK c, l : OnWay(t, c, l, dir)
    BY DEF Reached
  <1>2. l \in 0 .. l /\ c[l] = dir
    BY <1>1 DEF OnWay
  <1>3. \A k \in 0 .. l : t[c[k]].used /\ t[c[k]].type = "dir"
    BY <1>1 DEF OnWay
  <1> QED
    BY <1>2, <1>3 DEF Reached

\* What is reached stays so while everything but an inode elsewhere stays what it is.
LEMMA StaysReached ==
  ASSUME NEW t, NEW u, NEW c, NEW l, NEW dir, OnWay(t, c, l, dir),
         NEW x, \A k \in 0 .. l : c[k] # x, \A n \in Inodes \ {x} : Kept(t, u, n)
  PROVE  Reached(u, dir)
  <1>1. \A k \in 0 .. l : c[k] \in Inodes \ {x}
    BY DEF OnWay
  <1>2. \A k \in 0 .. l : /\ u[c[k]].used = t[c[k]].used /\ u[c[k]].type = t[c[k]].type
                         /\ u[c[k]].parent = t[c[k]].parent
    BY <1>1 DEF Kept
  <1>3. OnWay(u, c, l, dir)
    BY <1>2, WayStays
  <1>4. dir \in Inodes
    BY DEF OnWay
  <1> QED
    BY <1>3, <1>4 DEF Reached

LEMMA RootIsReached ==
  ASSUME NEW t, IsTree(t)
  PROVE  Reached(t, 0)
  <1> DEFINE c == [k \in 0 .. 0 |-> 0]
  <1>1. 0 \in Inodes /\ t[0].used /\ t[0].type = "dir"
    BY TreeHas
  <1>2. c \in [0 .. 0 -> Inodes] /\ \A k \in 0 .. 0 : k = 0 /\ c[k] = 0
    BY <1>1
  <1>3. 0 \in Nat /\ 0 \in 0 .. 0 /\ 1 .. 0 = {}
    OBVIOUS
  <1> HIDE DEF c
  <1>4. OnWay(t, c, 0, 0)
    BY <1>1, <1>2, <1>3 DEF OnWay
  <1> QED
    BY <1>1, <1>4 DEF Reached

-----------------------------------------------------------------------------
\* What is shown is right.
LEMMA ShownIsRight ==
  ASSUME NEW t, IsTree(t), NEW dir \in Inodes, NEW rows, NEW since, Shows(rows, t, dir, since)
  PROVE  \A k \in 1 .. Len(rows) : RowIsRight(rows[k], t, dir)
  <1> SUFFICES ASSUME NEW k \in 1 .. Len(rows), ~ rows[k].folder PROVE RowIsRight(rows[k], t, dir)
    BY DEF RowIsRight
  <1>1. PICK x : x = FindFile(t, dir, rows[k].name)
    OBVIOUS
  <1>2. x \in Inodes /\ t[x].type = "file" /\ (t[x].whole => rows[k].size = Size(t[x].text))
    BY <1>1, RowsFile
  <1> QED
    BY <1>1, <1>2 DEF RowIsRight

\* And stays so while no file comes into the directory, and none in it is rewritten.
LEMMA RightKeeps ==
  ASSUME NEW t, NEW u, NEW dir, Proper(t[dir].list), Proper(u[dir].list),
         NEW f, Right(f, t, dir),
         \A s, n : Holds(u, dir, s, n) =>
           /\ Holds(t, dir, s, n) /\ u[n].type = t[n].type
           /\ u[n].type = "file" /\ u[n].whole => t[n].whole /\ u[n].text = t[n].text
  PROVE  Right(f, u, dir)
  <1> SUFFICES ASSUME f.loaded, NEW k \in 1 .. Len(f.rows) PROVE RowIsRight(f.rows[k], u, dir)
    BY DEF Right
  <1>1. PICK row, x : row = f.rows[k] /\ x = FindFile(u, dir, row.name)
    OBVIOUS
  <1>2. RowIsRight(row, t, dir)
    BY <1>1 DEF Right
  <1> SUFFICES ASSUME ~ row.folder, x # NotFound
               PROVE  x \in Inodes /\ u[x].type = "file" /\ (u[x].whole => row.size = Size(u[x].text))
    BY <1>1 DEF RowIsRight
  <1>3. Holds(u, dir, row.name, x)
    BY <1>1, FindIs
  <1>4. /\ Holds(t, dir, row.name, x) /\ u[x].type = t[x].type
        /\ u[x].type = "file" /\ u[x].whole => t[x].whole /\ u[x].text = t[x].text
    BY <1>3
  <1>5. FindFile(t, dir, row.name) = x
    BY <1>4, FindIs
  <1> QED
    BY <1>2, <1>4, <1>5 DEF RowIsRight

\* refresh.
LEMMA RefreshedIs ==
  ASSUME NEW t, IsTree(t), NEW dir \in Inodes, NEW f, FmTyped(f), NEW name,
         NEW g, g = Refreshed(f, t, dir, name)
  PROVE  /\ FmTyped(g) /\ g.loaded = f.loaded /\ g.rows = Listing(t, dir) /\ g.confirm = 0
         /\ \A q : Asked(g, dir, q)
         /\ \A since : Seen(g, t, dir, since)
         /\ Right(g, t, dir)
  <1>1. /\ DOMAIN g = DOMAIN f /\ g.loaded = f.loaded /\ g.rows = Listing(t, dir) /\ g.confirm = 0
        /\ g.move = f.move
    BY DEF Refreshed, FmTyped
  <1>2. DOMAIN Listing(t, dir) = 1 .. Len(Listing(t, dir))
    BY TreeHas, ListingIs
  <1>3. Right(g, t, dir)
    <2>1. Shows(g.rows, t, dir, {})
      BY <1>1, FreshIs
    <2> QED
      BY <2>1, ShownIsRight DEF Right
  <1> QED
    BY <1>1, <1>2, <1>3, FreshIs DEF FmTyped, Asked, Seen

\* The listing is the same, and what Del was pressed on.
SameShown(f) ==
  /\ FmTyped(f) /\ f.rows = fm.rows /\ f.confirm = fm.confirm /\ f.loaded = fm.loaded
  /\ f.stale = fm.stale

\* A step that changes only what is selected, typed or moved.
LEMMA OnlyIs ==
  ASSUME FInv, NEW f, Only(f), SameShown(f), UNCHANGED asked
  PROVE  FInvNext /\ NoneFreed
  <1>1. fm' = f /\ UNCHANGED <<inodes, currentDirINode, ed, behind, asked>>
    BY DEF Only
  <1>2. /\ Asked(f, currentDirINode, asked) /\ Seen(f, inodes, currentDirINode, behind)
        /\ Right(f, inodes, currentDirINode)
    BY DEF SameShown, FInv, FilesFine, Asked, Seen, Right
  <1> QED
    BY <1>1, <1>2 DEF SameShown, FInv, FInvNext, FilesFine, NoneFreed

\* The fields of the file manager's state that a click sets.
LEMMA SmallSteps ==
  ASSUME FInv, UNCHANGED asked,
         \/ ClickCancels \/ startRename \/ startCreate \/ startMove \/ CancelMove \/ ClickBlank
         \/ NameDropped
         \/ \E k \in DOMAIN fm.rows : ClickRow(k) \/ DoubleClickInVain(k)
  PROVE  FInvNext /\ NoneFreed
  <1>1. FmTyped(fm) /\ currentDirINode \in Inodes /\ 0 \in Inodes
    BY TreeHas, ReachedIs DEF FInv, FilesFine
  <1>6. ASSUME NEW v, Only([fm EXCEPT !.input = v]) PROVE FInvNext /\ NoneFreed
    <2>1. PICK f : f = [fm EXCEPT !.input = v] /\ Only(f)
      BY <1>6
    <2>2. SameShown(f)
      BY <1>1, <2>1 DEF FmTyped, SameShown
    <2> QED
      BY <2>1, <2>2, OnlyIs
  <1>7. ASSUME NEW v, v.dir \in Inodes, Only([fm EXCEPT !.move = v]) PROVE FInvNext /\ NoneFreed
    <2>1. PICK f : f = [fm EXCEPT !.move = v] /\ Only(f)
      BY <1>7
    <2>2. SameShown(f)
      BY <1>1, <1>7, <2>1 DEF FmTyped, SameShown
    <2> QED
      BY <2>1, <2>2, OnlyIs
  <1>8. ASSUME NEW v, NEW w, Only([fm EXCEPT !.selected = v, !.lastClick = w])
        PROVE  FInvNext /\ NoneFreed
    <2>1. PICK f : f = [fm EXCEPT !.selected = v, !.lastClick = w] /\ Only(f)
      BY <1>8
    <2>2. SameShown(f)
      BY <1>1, <2>1 DEF FmTyped, SameShown
    <2> QED
      BY <2>1, <2>2, OnlyIs
  <1>9. ASSUME NEW w, Only([fm EXCEPT !.lastClick = w]) PROVE FInvNext /\ NoneFreed
    <2>1. PICK f : f = [fm EXCEPT !.lastClick = w] /\ Only(f)
      BY <1>9
    <2>2. SameShown(f)
      BY <1>1, <2>1 DEF FmTyped, SameShown
    <2> QED
      BY <2>1, <2>2, OnlyIs
  <1>10. CASE ClickCancels \/ startRename \/ startCreate \/ NameDropped
    BY <1>6, <1>10 DEF ClickCancels, startRename, startCreate, NameDropped
  <1>11. CASE startMove
    BY <1>1, <1>7, <1>11 DEF startMove
  <1>12. CASE CancelMove
    BY <1>1, <1>7, <1>12 DEF CancelMove, NoMove
  <1>13. CASE ClickBlank
    BY <1>8, <1>13 DEF ClickBlank
  <1>14. ASSUME NEW k \in DOMAIN fm.rows, ClickRow(k) \/ DoubleClickInVain(k)
         PROVE  FInvNext /\ NoneFreed
    BY <1>8, <1>9, <1>14 DEF ClickRow, DoubleClickInVain
  <1> QED
    BY <1>10, <1>11, <1>12, <1>13, <1>14

\* A step that changes the tree and reads the listing again.
LEMMA ChangesAre ==
  ASSUME FInv, NEW t, IsTree(t), Reached(t, currentDirINode), NEW f, FmTyped(f), NEW name,
         Changes(t, f, name), UNCHANGED asked, EdTyped(ed'), Backed(t, ed')
  PROVE  FInvNext
  <1>1. /\ inodes' = t /\ fm' = Refreshed(f, t, currentDirINode, name)
        /\ behind' = {} /\ currentDirINode' = currentDirINode /\ asked' = asked
    BY DEF Changes
  <1>2. currentDirINode \in Inodes
    BY ReachedIs
  <1>3. /\ FmTyped(fm') /\ Asked(fm', currentDirINode, asked) /\ Seen(fm', t, currentDirINode, {})
        /\ Right(fm', t, currentDirINode)
    BY <1>1, <1>2, RefreshedIs
  <1> QED
    BY <1>1, <1>3 DEF FInvNext, FilesFine

\* What the invariant says, for the lemmas about the actions.
LEMMA InvHas ==
  ASSUME FInv
  PROVE  /\ FmTyped(fm) /\ EdTyped(ed) /\ IsTree(inodes) /\ inodes \in [Inodes -> Inode]
         /\ Reached(inodes, currentDirINode) /\ currentDirINode \in Inodes
         /\ inodes[currentDirINode].used /\ inodes[currentDirINode].type = "dir"
         /\ Backed(inodes, ed)
         /\ \A d \in Inodes : Proper(inodes[d].list)
  BY ReachedIs, TreeHas DEF FInv, FilesFine

\* A name that is typed is a name.
LEMMA TypedName == \A name \in Names : name \in STRING
  BY NamesAssumption

\* The fields of fm that are set before the listing is read again.
LEMMA FmSet ==
  ASSUME NEW f, FmTyped(f)
  PROVE  /\ \A v : FmTyped([f EXCEPT !.input = v]) /\ [f EXCEPT !.input = v].loaded = f.loaded
         /\ \A v : FmTyped([f EXCEPT !.path = v]) /\ [f EXCEPT !.path = v].loaded = f.loaded
         /\ \A v : v.dir \in Inodes =>
              FmTyped([f EXCEPT !.move = v]) /\ [f EXCEPT !.move = v].loaded = f.loaded
  BY DEF FmTyped

-----------------------------------------------------------------------------
\* An inode in use is what it was, whatever its entry.
Stays(t, u, n) ==
  t[n].used =>
    /\ u[n].used /\ u[n].type = t[n].type
    /\ u[n].type = "file" /\ u[n].whole => t[n].whole /\ u[n].text = t[n].text

LEMMA KeptStays == \A t, u, n : Kept(t, u, n) => Stays(t, u, n)
  BY DEF Kept, Stays

\* Nothing but names has changed, and the document is not one whose entry has gone.
LEMMA StillBacked ==
  ASSUME NEW t \in [Inodes -> Inode], NEW u, NEW e, EdTyped(e), Backed(t, e),
         \A n \in Inodes : t[n].used => Stays(t, u, n),
         e.ours => Holds(u, e.dir, e.name, e.stored)
  PROVE  Backed(u, e)
  <1>1. e.dir \in Inodes
    BY DEF EdTyped
  <1> QED
    BY <1>1 DEF Backed, Stays

\* What is true of a document whose entry the editor does not have.
LEMMA UnfollowedIs ==
  ASSUME EdTyped(ed), NEW name, NEW dir, NEW e, e = Unfollowed(name, dir)
  PROVE  /\ EdTyped(e) /\ e.text = ed.text /\ e.dirty = ed.dirty /\ e.stored = ed.stored
         /\ e.dir = ed.dir /\ e.name = ed.name
         /\ e.ours => ed.ours /\ ~ (ed.name = name /\ ed.dir = dir)
  <1>1. CASE ed.name = name /\ ed.dir = dir
    <2>1. e = [ed EXCEPT !.ours = FALSE]
      BY <1>1 DEF Unfollowed
    <2> QED
      BY <2>1 DEF EdTyped
  <1>2. CASE ~ (ed.name = name /\ ed.dir = dir)
    <2>1. e = ed
      BY <1>2 DEF Unfollowed
    <2> QED
      BY <1>2, <2>1
  <1> QED
    BY <1>1, <1>2

\* The entry old of a directory becomes the entry new of another, or of the same.
EntryGoes(t, u, from, old, to, new, x) ==
  \A e \in Inodes : \A s, n : Holds(u, e, s, n) <=>
    \/ Holds(t, e, s, n) /\ ~ (e = from /\ s = old)
    \/ e = to /\ s = new /\ n = x

Follows(e, from, old, to, new) ==
  \/ IsOpen(old, from) /\ e = [ed EXCEPT !.name = new, !.dir = to]
  \/ e = Unfollowed(old, from)

\* An entry has got another name or directory, and the editor follows, or the document
\* is not known by it any more.
LEMMA FollowedIs ==
  ASSUME NEW t \in [Inodes -> Inode], NEW u, EdTyped(ed), Backed(t, ed), Proper(t[ed.dir].list),
         \A n \in Inodes : t[n].used => Stays(t, u, n),
         NEW from \in Inodes, NEW to \in Inodes, NEW old, NEW new, NEW x,
         t[to].used, FindFile(t, from, old) = x,
         EntryGoes(t, u, from, old, to, new, x), NEW e, Follows(e, from, old, to, new)
  PROVE  EdTyped(e) /\ Backed(u, e)
  <1>1. CASE IsOpen(old, from) /\ e = [ed EXCEPT !.name = new, !.dir = to]
    <2>1. /\ DOMAIN e = DOMAIN ed /\ e.text = ed.text /\ e.dirty = ed.dirty
          /\ e.stored = ed.stored /\ e.dir = to /\ e.name = new /\ e.ours = ed.ours
      BY <1>1 DEF EdTyped
    <2>2. EdTyped(e)
      BY <2>1 DEF EdTyped
    <2>3. ASSUME ed.ours PROVE u[to].used /\ Holds(u, to, new, ed.stored)
      <3>1. Holds(t, from, old, ed.stored)
        BY <1>1, <2>3 DEF Backed, IsOpen
      <3>2. ed.stored = x
        BY <1>1, <3>1, FindIs DEF IsOpen
      <3> QED
        BY <3>2 DEF Stays, EntryGoes
    <2> QED
      BY <2>1, <2>2, <2>3 DEF Backed, Stays
  <1>2. CASE e = Unfollowed(old, from)
    <2>1. /\ EdTyped(e) /\ e.text = ed.text /\ e.dirty = ed.dirty /\ e.stored = ed.stored
          /\ e.dir = ed.dir /\ e.name = ed.name
          /\ e.ours => ed.ours /\ ~ (ed.name = old /\ ed.dir = from)
      BY <1>2, UnfollowedIs
    <2>2. Backed(t, e)
      BY <2>1 DEF Backed
    <2>3. e.ours => Holds(u, e.dir, e.name, e.stored)
      BY <2>1 DEF Backed, EdTyped, EntryGoes
    <2> QED
      BY <2>1, <2>2, <2>3, StillBacked
  <1> QED
    BY <1>1, <1>2 DEF Follows

\* What is reached stays so while no inode in use changes but in what it contains.
LEMMA KeptReached ==
  ASSUME NEW t, NEW u, NEW dir, Reached(t, dir), \A n \in Inodes : t[n].used => Kept(t, u, n)
  PROVE  Reached(u, dir)
  <1>1. PICK c, l : OnWay(t, c, l, dir)
    BY DEF Reached
  <1>2. \A k \in 0 .. l : c[k] \in Inodes /\ t[c[k]].used
    BY <1>1 DEF OnWay
  <1>3. \A k \in 0 .. l : /\ u[c[k]].used = t[c[k]].used /\ u[c[k]].type = t[c[k]].type
                         /\ u[c[k]].parent = t[c[k]].parent
    BY <1>2 DEF Kept
  <1>4. OnWay(u, c, l, dir)
    BY <1>1, <1>3, WayStays
  <1> QED
    BY <1>4 DEF Reached

\* finishRename, which tells the editor.
LEMMA RenameStep ==
  ASSUME FInv, NEW name \in Names, CanRename(name),
         Changes(RenameFile(inodes, currentDirINode, fm.input.old, name),
                 [fm EXCEPT !.input = NoInput], name),
         ed' = editorRenamed(fm.input.old, name), UNCHANGED asked
  PROVE  FInvNext /\ NoneFreed
  <1> DEFINE t == inodes
             d == currentDirINode
             old == fm.input.old
  <1>1. Exists(t, d, old) /\ ~ Exists(t, d, name)
    BY DEF CanRename
  <1>2. name \in STRING
    BY TypedName
  <1> DEFINE u == RenameFile(t, d, old, name)
             y == FindFile(t, d, old)
  <1>3. /\ FmTyped(fm) /\ EdTyped(ed) /\ IsTree(t) /\ t \in [Inodes -> Inode]
        /\ Reached(t, d) /\ d \in Inodes /\ t[d].used /\ Backed(t, ed)
        /\ Proper(t[ed.dir].list)
    BY InvHas DEF EdTyped
  <1>4. FmTyped([fm EXCEPT !.input = NoInput])
    BY <1>3, FmSet
  <1>5. /\ IsTree(u)
        /\ \A n \in Inodes : Kept(t, u, n)
        /\ EntryGoes(t, u, d, old, d, name, y)
    BY <1>1, <1>2, <1>3, RenameIs DEF EntryGoes
  <1>7. inodes' = u /\ Changes(u, [fm EXCEPT !.input = NoInput], name)
    BY DEF Changes
  <1> HIDE DEF u
  <1>8. Reached(u, d)
    BY <1>3, <1>5, KeptReached
  <1>9. EdTyped(ed') /\ Backed(u, ed')
    <2>1. Follows(ed', d, old, d, name)
      <3>1. CASE IsOpen(old, d)
        <4>1. ed' = [ed EXCEPT !.name = name] /\ ed.dir = d
          BY <3>1 DEF editorRenamed, IsOpen
        <4>2. ed' = [ed EXCEPT !.name = name, !.dir = d]
          BY <1>3, <4>1 DEF EdTyped
        <4> QED
          BY <3>1, <4>2 DEF Follows
      <3>2. CASE ~ IsOpen(old, d)
        BY <3>2 DEF editorRenamed, Follows
      <3> QED
        BY <3>1, <3>2
    <2> QED
      BY <1>3, <1>5, <2>1, KeptStays, FollowedIs
  <1>10. FInvNext
    BY <1>4, <1>5, <1>7, <1>8, <1>9, ChangesAre
  <1> QED
    BY <1>5, <1>7, <1>10 DEF NoneFreed, Kept

\* When the disk is full: the old entry is gone, and what is shown is not read again.
LEMMA RenameLosesStep ==
  ASSUME FInv, RenameLoses, UNCHANGED asked
  PROVE  FInvNext /\ NoneFreed
  <1> DEFINE t == inodes
             d == currentDirINode
             old == fm.input.old
             u == RemoveDirEntry(t, d, old)
             f == [fm EXCEPT !.input = NoInput, !.stale = TRUE]
  <1>1. /\ Exists(t, d, old) /\ inodes' = u /\ fm' = f /\ ed' = Unfollowed(old, d)
        /\ UNCHANGED <<currentDirINode, behind, asked>>
    BY DEF RenameLoses, CanRename
  <1>2. /\ FmTyped(fm) /\ EdTyped(ed) /\ IsTree(t) /\ t \in [Inodes -> Inode]
        /\ Reached(t, d) /\ d \in Inodes /\ Backed(t, ed)
        /\ \A e \in Inodes : Proper(t[e].list)
    BY InvHas
  <1>3. /\ u \in [Inodes -> Inode]
        /\ \A n \in Inodes : Kept(t, u, n) /\ (n # d => u[n] = t[n])
        /\ Proper(u[d].list)
        /\ \A s, n : Holds(u, d, s, n) <=> Holds(t, d, s, n) /\ s # old
    BY <1>1, <1>2, RemoveIs DEF Exists
  <1>4. FmTyped(f) /\ f.rows = fm.rows /\ f.confirm = fm.confirm /\ f.loaded = fm.loaded /\ f.stale
    BY <1>2 DEF FmTyped
  <1> HIDE DEF u, f
  <1>5. \A e \in Inodes : \A s, n : Holds(u, e, s, n) <=> Holds(t, e, s, n) /\ ~ (e = d /\ s = old)
    BY <1>3 DEF Holds
  <1>6. IsTree(u)
    <2>1. \A e \in Inodes : Proper(u[e].list)
      BY <1>2, <1>3
    <2>2. u[0].used /\ u[0].type = "dir"
      BY <1>2, <1>3, TreeHas DEF Kept
    <2>3. ASSUME NEW e \in Inodes, NEW s, NEW n, Holds(u, e, s, n)
          PROVE  n \in Inodes \ {0, e} /\ s \in STRING /\ u[n].used /\ u[n].parent = e
      <3>1. n \in Inodes \ {0, e} /\ s \in STRING /\ t[n].used /\ t[n].parent = e
        BY <1>2, <1>5, <2>3, TreeHas
      <3> QED
        BY <1>3, <3>1 DEF Kept
    <2> QED
      BY <1>2, <1>3, <2>1, <2>2, <2>3, IsStillTree
  <1>7. Reached(u, d)
    BY <1>2, <1>3, KeptReached
  <1>8. EdTyped(ed') /\ Backed(u, ed')
    <2>1. /\ EdTyped(ed') /\ ed'.text = ed.text /\ ed'.dirty = ed.dirty /\ ed'.stored = ed.stored
          /\ ed'.dir = ed.dir /\ ed'.name = ed.name
          /\ ed'.ours => ed.ours /\ ~ (ed.name = old /\ ed.dir = d)
      BY <1>1, <1>2, UnfollowedIs
    <2>2. Backed(t, ed')
      BY <1>2, <2>1 DEF Backed
    <2>3. ed'.ours => Holds(u, ed'.dir, ed'.name, ed'.stored)
      BY <1>2, <1>5, <2>1 DEF Backed, EdTyped
    <2> QED
      BY <1>2, <1>3, <2>1, <2>2, <2>3, KeptStays, StillBacked
  <1>9. Right(fm', u, d)
    <2>1. Right(f, t, d)
      BY <1>4 DEF FInv, FilesFine, Right
    <2>2. \A s, n : Holds(u, d, s, n) =>
            /\ Holds(t, d, s, n) /\ u[n].type = t[n].type
            /\ u[n].type = "file" /\ u[n].whole => t[n].whole /\ u[n].text = t[n].text
      <3>1. \A s, n : Holds(t, d, s, n) => n \in Inodes
        BY <1>2, TreeHas
      <3> QED
        BY <1>3, <3>1 DEF Kept
    <2> QED
      BY <1>1, <1>2, <1>3, <2>1, <2>2, RightKeeps
  <1>10. Asked(fm', d, asked) /\ Seen(fm', u, d, behind)
    BY <1>1, <1>4 DEF FInv, FilesFine, Asked, Seen
  <1>11. FInvNext
    BY <1>1, <1>4, <1>6, <1>7, <1>8, <1>9, <1>10 DEF FInvNext, FilesFine
  <1> QED
    BY <1>1, <1>3, <1>11 DEF NoneFreed, Kept

\* finishCreate; when the name is taken, there is no inode or no block for the entry,
\* nothing is created.
LEMMA CreateStep ==
  ASSUME FInv, finishCreate, UNCHANGED asked
  PROVE  FInvNext /\ NoneFreed
  <1> DEFINE t == inodes
             d == currentDirINode
  <1>1. PICK name \in Names :
          \/ /\ CanCreate(t, d, name)
             /\ Changes(CreateFile(t, d, name, fm.input.kind), [fm EXCEPT !.input = NoInput], name)
          \/ Changes(t, [fm EXCEPT !.input = NoInput], name)
    BY DEF finishCreate
  <1>2. name \in STRING /\ fm.input.kind \in {"file", "dir"} /\ ed' = ed
    BY TypedName DEF finishCreate
  <1>3. /\ FmTyped(fm) /\ EdTyped(ed) /\ IsTree(t) /\ t \in [Inodes -> Inode]
        /\ Reached(t, d) /\ d \in Inodes /\ t[d].used /\ Backed(t, ed)
    BY InvHas
  <1>4. FmTyped([fm EXCEPT !.input = NoInput])
    BY <1>3, FmSet
  <1>5. CASE Changes(t, [fm EXCEPT !.input = NoInput], name)
    <2>2. inodes' = t
      BY <1>5 DEF Changes
    <2>3. FInvNext
      BY <1>2, <1>3, <1>4, <1>5, ChangesAre
    <2> QED
      BY <2>2, <2>3 DEF NoneFreed
  <1>6. CASE /\ CanCreate(t, d, name)
             /\ Changes(CreateFile(t, d, name, fm.input.kind), [fm EXCEPT !.input = NoInput], name)
    <2> DEFINE u == CreateFile(t, d, name, fm.input.kind)
               x == NewInode(t)
    <2>1. Changes(u, [fm EXCEPT !.input = NoInput], name)
      BY <1>6
    <2>2. /\ IsTree(u)
          /\ x \in Inodes \ {0, d} /\ ~ t[x].used
          /\ \A n \in Inodes \ {x} : Kept(t, u, n)
          /\ \A e \in Inodes : \A s, n : Holds(u, e, s, n) <=>
               (Holds(t, e, s, n) /\ e # x) \/ (e = d /\ s = name /\ n = x)
      BY <1>2, <1>3, <1>6, CreateIs
    <2> HIDE DEF u, x
    <2>3. inodes' = u
      BY <2>1 DEF Changes
    <2>k. \A n \in Inodes : t[n].used => Kept(t, u, n)
      BY <2>2
    <2>4. Reached(u, d)
      BY <1>3, <2>k, KeptReached
    <2>5. Backed(u, ed)
      <3>1. ASSUME ed.ours PROVE Holds(u, ed.dir, ed.name, ed.stored)
        <4>1. ed.dir \in Inodes /\ t[ed.dir].used /\ ed.dir # x /\ Holds(t, ed.dir, ed.name, ed.stored)
          BY <1>3, <2>2, <3>1 DEF Backed, EdTyped
        <4> QED
          BY <2>2, <4>1
      <3> QED
        BY <1>3, <2>k, <3>1, KeptStays, StillBacked
    <2>6. FInvNext
      BY <1>2, <1>3, <1>4, <2>1, <2>2, <2>4, <2>5, ChangesAre
    <2> QED
      BY <2>3, <2>6, <2>k DEF NoneFreed, Kept
  <1> QED
    BY <1>1, <1>5, <1>6

\* finishMove, which tells the editor too.
LEMMA MoveStep ==
  ASSUME FInv, finishMove, UNCHANGED asked
  PROVE  FInvNext /\ NoneFreed
  <1> DEFINE t == inodes
             d == currentDirINode
             from == fm.move.dir
             name == fm.move.name
             f == [fm EXCEPT !.move = NoMove]
  <1>3. /\ FmTyped(fm) /\ EdTyped(ed) /\ IsTree(t) /\ t \in [Inodes -> Inode]
        /\ Reached(t, d) /\ d \in Inodes /\ t[d].used /\ Backed(t, ed)
        /\ from \in Inodes /\ Proper(t[from].list) /\ Proper(t[ed.dir].list)
    BY InvHas DEF FmTyped, EdTyped
  <1>4. FmTyped(f) /\ SameShown(f)
    <2>1. NoMove.dir \in Inodes
      BY <1>3, TreeHas DEF NoMove
    <2>2. FmTyped(f)
      BY <1>3, <2>1, FmSet
    <2> QED
      BY <1>3, <2>2 DEF FmTyped, SameShown
  <1>a. \/ CanMove(t, from, d, name) /\ Changes(MoveFile(t, from, d, name), f, name)
           /\ ed' = editorMoved(name, from, d)
        \/ Only(f)
    BY DEF finishMove
  <1>5. CASE Only(f)
    <2> HIDE DEF f
    <2> QED
      BY <1>4, <1>5, OnlyIs
  <1>6. CASE /\ CanMove(t, from, d, name) /\ Changes(MoveFile(t, from, d, name), f, name)
             /\ ed' = editorMoved(name, from, d)
    <2> DEFINE u == MoveFile(t, from, d, name)
               x == FindFile(t, from, name)
    <2>1. Changes(u, f, name) /\ ed' = editorMoved(name, from, d)
      BY <1>6
    <2>2. PICK c, l : OnWay(t, c, l, d)
      BY <1>3 DEF Reached
    <2>3. /\ IsTree(u)
          /\ Holds(t, from, name, x) /\ x \in Inodes \ {0}
          /\ \A n \in Inodes \ {x} : Kept(t, u, n)
          /\ u[x].used = t[x].used /\ u[x].type = t[x].type
          /\ u[x].type = "file" /\ u[x].whole => t[x].whole /\ u[x].text = t[x].text
          /\ \A k \in 0 .. l : c[k] # x
          /\ \A e \in Inodes : \A s, n : Holds(u, e, s, n) <=>
               \/ Holds(t, e, s, n) /\ ~ (e = from /\ s = name)
               \/ e = d /\ s = name /\ n = x
      BY <1>3, <1>6, <2>2, MoveIs
    <2>4. FindFile(t, from, name) = x
      OBVIOUS
    <2> HIDE DEF u, x, f
    <2>5. inodes' = u
      BY <2>1 DEF Changes
    <2>6. Reached(u, d)
      BY <2>2, <2>3, StaysReached
    <2>7. \A n \in Inodes : u[n].used = t[n].used /\ u[n].type = t[n].type /\
            (u[n].type = "file" /\ u[n].whole => t[n].whole /\ u[n].text = t[n].text)
      <3> SUFFICES ASSUME NEW n \in Inodes
                   PROVE  /\ u[n].used = t[n].used /\ u[n].type = t[n].type
                          /\ u[n].type = "file" /\ u[n].whole => t[n].whole /\ u[n].text = t[n].text
        OBVIOUS
      <3>1. CASE n = x
        BY <2>3, <3>1
      <3>2. CASE n # x
        BY <2>3, <3>2 DEF Kept
      <3> QED
        BY <3>1, <3>2
    <2>8. EdTyped(ed') /\ Backed(u, ed')
      <3>1. Follows(ed', from, name, d, name)
        <4>1. CASE IsOpen(name, from)
          <5>1. ed' = [ed EXCEPT !.dir = d] /\ ed.name = name
            BY <2>1, <4>1 DEF editorMoved, IsOpen
          <5>2. ed' = [ed EXCEPT !.name = name, !.dir = d]
            BY <1>3, <5>1 DEF EdTyped
          <5> QED
            BY <4>1, <5>2 DEF Follows
        <4>2. CASE ~ IsOpen(name, from)
          BY <2>1, <4>2 DEF editorMoved, Follows
        <4> QED
          BY <4>1, <4>2
      <3>2. EntryGoes(t, u, from, name, d, name, x)
        BY <2>3 DEF EntryGoes
      <3>3. \A n \in Inodes : Stays(t, u, n)
        BY <2>7 DEF Stays
      <3> QED
        BY <1>3, <2>4, <3>1, <3>2, <3>3, FollowedIs
    <2>9. FInvNext
      BY <1>4, <2>1, <2>3, <2>6, <2>8, ChangesAre
    <2> QED
      BY <2>5, <2>7, <2>9 DEF NoneFreed
  <1> HIDE DEF f
  <1> QED
    BY <1>a, <1>5, <1>6

\* The first Del.
LEMMA AskStep ==
  ASSUME FInv, DelAsks
  PROVE  FInvNext /\ NoneFreed
  <1>1. /\ fm' = [fm EXCEPT !.confirm = fm.selected]
        /\ asked' = <<currentDirINode, fm.rows[fm.selected].name>>
        /\ UNCHANGED <<inodes, currentDirINode, ed, behind>>
    BY DEF DelAsks, Chosen
  <1>2. FmTyped(fm)
    BY InvHas
  <1>3. /\ FmTyped(fm') /\ fm'.rows = fm.rows /\ fm'.loaded = fm.loaded
        /\ fm'.stale = fm.stale /\ fm'.confirm = fm.selected
    BY <1>1, <1>2 DEF FmTyped
  <1>4. /\ Asked(fm', currentDirINode, asked') /\ Seen(fm', inodes, currentDirINode, behind)
        /\ Right(fm', inodes, currentDirINode)
    BY <1>1, <1>3 DEF Asked, Seen, Right, FInv, FilesFine
  <1> QED
    BY <1>1, <1>3, <1>4 DEF FInv, FInvNext, FilesFine, NoneFreed

\* The second: the row that is selected is the one that Del was pressed on before, and
\* the editor's file stays what it is unless it is the one, or in the one, that goes.
LEMMA DeleteStep ==
  ASSUME FInv, DelDeletes, UNCHANGED asked
  PROVE  FInvNext /\ OnlyAsked
  <1> DEFINE t == inodes
             d == currentDirINode
             name == Chosen.name
             x == FindFile(t, d, name)
             u == DeleteFile(t, d, name)
  <1>1. /\ Changes(IF Exists(t, d, name) THEN u ELSE t, fm, "") /\ ed' = Forgotten(x)
        /\ fm.selected # 0 /\ fm.confirm = fm.selected /\ name = fm.rows[fm.selected].name
    BY DEF DelDeletes, SomethingChosen, Chosen
  <1>2. asked = <<d, name>>
    BY <1>1 DEF FInv, FilesFine, Asked
  <1>3. /\ FmTyped(fm) /\ EdTyped(ed) /\ IsTree(t) /\ t \in [Inodes -> Inode]
        /\ Reached(t, d) /\ d \in Inodes /\ t[d].used /\ Backed(t, ed)
        /\ \A e \in Inodes : Proper(t[e].list)
    BY InvHas
  <1>4. /\ EdTyped(ed') /\ ed'.text = ed.text /\ ed'.dirty = ed.dirty
        /\ ed'.dir = ed.dir /\ ed'.name = ed.name
        /\ ed'.stored = IF x = ed.stored THEN NotFound ELSE ed.stored
        /\ ed'.ours => ed.ours /\ x # ed.stored /\ x # ed.dir
    <2>1. /\ ed' = [ed EXCEPT !.stored = IF x = ed.stored THEN NotFound ELSE ed.stored,
                             !.ours = ed.ours /\ x \notin {ed.stored, ed.dir}]
      BY <1>1 DEF Forgotten
    <2> QED
      BY <1>3, <2>1 DEF EdTyped
  <1>5. CASE ~ Exists(t, d, name)
    <2>1. Changes(t, fm, "")
      BY <1>1, <1>5
    <2>2. inodes' = t
      BY <2>1 DEF Changes
    <2>3. Backed(t, ed')
      BY <1>3, <1>4 DEF Backed
    <2>4. FInvNext
      BY <1>3, <1>4, <2>1, <2>3, ChangesAre
    <2> QED
      BY <2>2, <2>4 DEF OnlyAsked
  <1>6. CASE Exists(t, d, name)
    <2>1. Changes(u, fm, "")
      BY <1>1, <1>6
    <2>2. inodes' = u
      BY <2>1 DEF Changes
    <2>3. /\ IsTree(u)
          /\ Holds(t, d, name, x) /\ x \in Inodes \ {0, d} /\ t[x].parent = d
          /\ \A n \in Inodes \ {x} : Kept(t, u, n)
          /\ \A e \in Inodes : \A s, n : Holds(u, e, s, n) <=>
               Holds(t, e, s, n) /\ e # x /\ ~ (e = d /\ s = name)
      BY <1>3, <1>6, DeleteIs
    <2>f. /\ x = FindFile(t, d, name)
          /\ ed'.stored = IF x = ed.stored THEN NotFound ELSE ed.stored
          /\ ed'.ours => ed.ours /\ x # ed.stored /\ x # ed.dir
      BY <1>4
    <2> HIDE DEF u, x, name
    <2>4. Reached(u, d)
      <3>1. PICK c, l : OnWay(t, c, l, d)
        BY <1>3 DEF Reached
      <3>2. \A k \in 0 .. l : c[k] # x
        BY <2>3, <3>1, ChildIsNotAbove
      <3> QED
        BY <2>3, <3>1, <3>2, StaysReached
    <2>5. Backed(u, ed')
      <3>1. ed'.stored # NotFound => ed'.stored = ed.stored /\ ed.stored # x
        BY <1>4, <2>f
      <3>2. ed'.stored # NotFound =>
              /\ ed'.stored \in Inodes /\ u[ed'.stored].used /\ u[ed'.stored].type = "file"
              /\ ~ ed'.dirty /\ u[ed'.stored].whole => u[ed'.stored].text = ed'.text
        BY <1>3, <1>4, <2>3, <3>1 DEF Backed, Kept
      <3>3. ASSUME ed'.ours
            PROVE  ed'.stored # NotFound /\ u[ed.dir].used /\ Holds(u, ed.dir, ed.name, ed'.stored)
        <4>1. ed.ours /\ ed.stored # x /\ ed.dir # x /\ ed'.stored = ed.stored
          BY <1>4, <2>f, <3>3
        <4>2. /\ ed.stored # NotFound /\ ed.dir \in Inodes /\ t[ed.dir].used
              /\ Holds(t, ed.dir, ed.name, ed.stored)
          BY <1>3, <4>1 DEF Backed, EdTyped
        <4>3. FindFile(t, ed.dir, ed.name) = ed.stored
          BY <1>3, <4>2, FindIs
        <4>4. ~ (ed.dir = d /\ ed.name = name)
          BY <2>f, <4>1, <4>3
        <4> QED
          BY <2>3, <4>1, <4>2, <4>4 DEF Kept
      <3> QED
        BY <1>4, <3>2, <3>3 DEF Backed
    <2>6. FInvNext
      BY <1>3, <1>4, <2>1, <2>3, <2>4, <2>5, ChangesAre
    <2>7. ASSUME NEW n \in Inodes, t[n].used, ~ u[n].used PROVE n = x
      BY <2>3, <2>7 DEF Kept
    <2>8. asked # << >> /\ asked[1] = d /\ asked[2] = name
      BY <1>2
    <2> QED
      BY <2>2, <2>6, <2>7, <2>8 DEF OnlyAsked, x
  <1> QED
    BY <1>5, <1>6

-----------------------------------------------------------------------------
\* navigate, to a directory that can be reached.
LEMMA NavigateIs ==
  ASSUME FInv, NEW dir, Reached(inodes, dir), NEW path, navigate(dir, path), UNCHANGED asked
  PROVE  FInvNext /\ NoneFreed
  <1> DEFINE f == [fm EXCEPT !.path = path]
  <1>1. /\ currentDirINode' = dir /\ fm' = Refreshed(f, inodes, dir, "") /\ behind' = {}
        /\ inodes' = inodes /\ ed' = ed /\ asked' = asked
    BY DEF navigate
  <1>2. FmTyped(f) /\ EdTyped(ed) /\ IsTree(inodes) /\ Backed(inodes, ed) /\ dir \in Inodes
    BY InvHas, FmSet, ReachedIs
  <1> HIDE DEF f
  <1>3. /\ FmTyped(fm') /\ Asked(fm', dir, asked) /\ Seen(fm', inodes, dir, {})
        /\ Right(fm', inodes, dir)
    BY <1>1, <1>2, RefreshedIs
  <1> QED
    BY <1>1, <1>2, <1>3 DEF FInvNext, FilesFine, NoneFreed

\* The row "..", and the directory above.
LEMMA UpStep ==
  ASSUME FInv, GoUp, UNCHANGED asked
  PROVE  FInvNext /\ NoneFreed
  <1> DEFINE dir == inodes[currentDirINode].parent
  <1>1. currentDirINode # 0 /\ navigate(dir, Front(fm.path))
    BY DEF GoUp
  <1>2. Reached(inodes, currentDirINode) /\ currentDirINode \in Inodes /\ inodes \in [Inodes -> Inode]
    BY InvHas
  <1>3. dir \in Inodes
    BY <1>2, Fields
  <1>4. Reached(inodes, dir)
    BY <1>1, <1>2, <1>3, WayGoesBack DEF Reached
  <1> HIDE DEF dir
  <1> QED
    BY <1>1, <1>4, NavigateIs

LEMMA FolderStep ==
  ASSUME FInv, NEW k, DoubleClickFolder(k), UNCHANGED asked
  PROVE  FInvNext /\ NoneFreed
  <1> DEFINE name == fm.rows[k].name
             x == FindFile(inodes, currentDirINode, name)
             f == [fm EXCEPT !.lastClick = 0]
  <1>1. \/ GoUp
        \/ x # NotFound /\ inodes[x].type = "dir" /\ navigate(x, Append(fm.path, name))
        \/ Only(f)
    BY DEF DoubleClickFolder
  <1>2. /\ FmTyped(fm) /\ IsTree(inodes) /\ currentDirINode \in Inodes
        /\ Reached(inodes, currentDirINode) /\ Proper(inodes[currentDirINode].list)
    BY InvHas
  <1>3. SameShown(f)
    BY <1>2 DEF FmTyped, SameShown
  <1>4. CASE x # NotFound /\ inodes[x].type = "dir" /\ navigate(x, Append(fm.path, name))
    <2>1. Holds(inodes, currentDirINode, name, x)
      BY <1>2, <1>4, FindIs
    <2> HIDE DEF x, f
    <2>2. x \in Inodes \ {0} /\ inodes[x].used /\ inodes[x].parent = currentDirINode
      BY <1>2, <2>1, TreeHas
    <2>3. PICK c, l : OnWay(inodes, c, l, currentDirINode)
      BY <1>2 DEF Reached
    <2>4. \E b : OnWay(inodes, b, l + 1, x)
      BY <1>4, <2>2, <2>3, WayGoesOn
    <2>5. Reached(inodes, x)
      BY <2>2, <2>4 DEF Reached
    <2> QED
      BY <1>4, <2>5, NavigateIs
  <1>5. CASE Only(f)
    <2> HIDE DEF f
    <2> QED
      BY <1>3, <1>5, OnlyIs
  <1> QED
    BY <1>1, <1>4, <1>5, UpStep

\* The window is drawn for the first time.
LEMMA DrawStep ==
  ASSUME FInv, filemgrDraw, UNCHANGED asked
  PROVE  FInvNext /\ NoneFreed
  <1>0. PICK root : root = 0
    OBVIOUS
  <1>g. PICK g : g = Refreshed(fm, inodes, root, "")
    OBVIOUS
  <1>1. /\ fm' = [g EXCEPT !.loaded = TRUE] /\ currentDirINode' = root /\ behind' = {}
        /\ inodes' = inodes /\ ed' = ed /\ asked' = asked
    BY <1>0, <1>g DEF filemgrDraw
  <1>2. /\ FmTyped(fm) /\ EdTyped(ed) /\ IsTree(inodes) /\ Backed(inodes, ed) /\ root \in Inodes
        /\ Reached(inodes, root)
    BY <1>0, InvHas, RootIsReached, TreeHas
  <1>3. FmTyped(g) /\ g.rows = Listing(inodes, root) /\ g.confirm = 0
    <2>1. IsTree(inodes) /\ root \in Inodes /\ FmTyped(fm)
      BY ONLY <1>2
    <2>2. FmTyped(g)
      BY ONLY <1>g, <2>1, RefreshedIs
    <2>3. g.rows = Listing(inodes, root) /\ g.confirm = 0
      BY ONLY <1>g, <2>1 DEF Refreshed, FmTyped
    <2> QED
      BY <2>2, <2>3
  <1>4. /\ FmTyped(fm') /\ fm'.rows = Listing(inodes, root) /\ fm'.confirm = 0
    BY <1>1, <1>3 DEF FmTyped
  <1>5. Shows(fm'.rows, inodes, root, {})
    BY <1>4, FreshIs
  <1>6. \A k \in 1 .. Len(fm'.rows) : RowIsRight(fm'.rows[k], inodes, root)
    BY <1>2, <1>5, ShownIsRight
  <1>7. Asked(fm', root, asked) /\ Seen(fm', inodes, root, {}) /\ Right(fm', inodes, root)
    BY <1>4, <1>5, <1>6 DEF Asked, Seen, Right
  <1> QED
    BY <1>1, <1>2, <1>4, <1>7 DEF FInvNext, FilesFine, NoneFreed

\* A step that leaves the tree alone and the listing as it is.
LEMMA OnlyOpens ==
  ASSUME FInv, UNCHANGED <<inodes, currentDirINode, behind, asked>>, SameShown(fm'),
         EdTyped(ed'), Backed(inodes, ed')
  PROVE  FInvNext /\ NoneFreed
  <1>1. /\ Asked(fm', currentDirINode, asked) /\ Seen(fm', inodes, currentDirINode, behind)
        /\ Right(fm', inodes, currentDirINode)
    BY DEF SameShown, FInv, FilesFine, Asked, Seen, Right
  <1> QED
    BY <1>1 DEF SameShown, FInv, FInvNext, FilesFine, NoneFreed

\* The editor opens what a row shows; the row says how much there is to read.
LEMMA OpenStep ==
  ASSUME FInv, fm.loaded, NEW k \in DOMAIN fm.rows, DoubleClickOpens(k), UNCHANGED asked
  PROVE  FInvNext /\ NoneFreed
  <1> DEFINE t == inodes
             d == currentDirINode
             row == fm.rows[k]
             x == FindFile(t, d, row.name)
             f == [fm EXCEPT !.lastClick = 0]
  <1>1. /\ ed' = editorOpen(row) /\ fm' = f /\ ~ row.folder
        /\ UNCHANGED <<inodes, currentDirINode, behind, asked>>
    BY DEF DoubleClickOpens
  <1>2. /\ FmTyped(fm) /\ EdTyped(ed) /\ IsTree(t) /\ t \in [Inodes -> Inode]
        /\ Reached(t, d) /\ d \in Inodes /\ Backed(t, ed) /\ Proper(t[d].list)
        /\ Right(fm, t, d)
    BY InvHas DEF FInv, FilesFine
  <1>3. SameShown(f)
    BY <1>2 DEF FmTyped, SameShown
  <1>4. k \in 1 .. Len(fm.rows)
    BY <1>2 DEF FmTyped
  <1>5. x # NotFound => /\ Holds(t, d, row.name, x) /\ x \in Inodes /\ t[x].used
                        /\ t[x].type = "file" /\ (t[x].whole => row.size = Size(t[x].text))
    <2>1. RowIsRight(row, t, d)
      BY <1>2, <1>4 DEF Right
    <2>2. ASSUME x # NotFound PROVE Holds(t, d, row.name, x)
      BY <1>2, <2>2, FindIs
    <2>3. ASSUME x # NotFound PROVE t[x].used
      BY <1>2, <2>2, <2>3, TreeHas
    <2> QED
      BY <1>1, <2>1, <2>2, <2>3 DEF RowIsRight
  <1> HIDE DEF f
  <1>6. CASE IsOpen(row.name, d)
    <2>1. EdTyped(ed') /\ Backed(t, ed')
      BY <1>1, <1>2, <1>6 DEF editorOpen
    <2> QED
      BY <1>1, <1>2, <1>3, <2>1, OnlyOpens
  <1>7. CASE ~ IsOpen(row.name, d)
    <2>1. NodeOf(row) = x
      BY DEF NodeOf
    <2>2. row.size # 0 => x # NotFound
      BY <1>7, <2>1 DEF DoubleClickOpens, Refuses
    <2>3. ed' = [ed EXCEPT !.text = Read(row), !.dirty = FALSE, !.named = TRUE,
                           !.name = row.name, !.dir = d, !.stored = x,
                           !.ours = (x # NotFound)]
      BY <1>1, <1>7, <2>1 DEF editorOpen
    <2>4. Read(row) = IF row.size = 0 THEN ""
                      ELSE IF row.size = Size(t[x].text) THEN t[x].text ELSE "torn"
      BY <2>1 DEF Read
    <2> HIDE DEF x, row
    <2>5. Read(row) \in Bytes
      <3>1. x # NotFound => t[x].text \in Bytes
        BY <1>2, <1>5, Fields
      <3>2. "" \in Bytes /\ "torn" \in Bytes
        BY TextsAssumption DEF Bytes
      <3> QED
        BY <2>2, <2>4, <3>1, <3>2
    <2>6. x # NotFound /\ t[x].whole => Read(row) = t[x].text
      <3> SUFFICES ASSUME x # NotFound, t[x].whole PROVE Read(row) = t[x].text
        OBVIOUS
      <3>1. row.size = Size(t[x].text)
        BY <1>5
      <3>2. Size(t[x].text) = 0 => t[x].text = ""
        <4>1. PICK text : text = t[x].text
          OBVIOUS
        <4>2. CASE text = "one"
          BY <4>1, <4>2 DEF Size
        <4>3. CASE text # "one" /\ text # ""
          <5>1. Size(text) = 5
            BY <4>3, Zenon DEF Size
          <5>2. \A m : m = 5 => m # 0
            OBVIOUS
          <5> QED
            BY <4>1, <5>1, <5>2, Zenon
        <4> QED
          BY <4>1, <4>2, <4>3
      <3> QED
        BY <2>4, <3>1, <3>2
    <2>7. /\ DOMAIN ed' = DOMAIN ed /\ ed'.text = Read(row) /\ ed'.name = row.name /\ ed'.dir = d
          /\ ed'.stored = x /\ ed'.ours = (x # NotFound)
      BY <1>2, <2>3 DEF EdTyped
    <2>8. EdTyped(ed')
      BY <1>2, <2>5, <2>7 DEF EdTyped
    <2>9. t[d].used
      BY InvHas
    <2>10. Backed(t, ed')
      BY <1>5, <2>6, <2>7, <2>9 DEF Backed
    <2> QED
      BY <1>1, <1>2, <1>3, <2>8, <2>10, OnlyOpens
  <1> QED
    BY <1>6, <1>7

\* filemgrRefresh, of what is shown already.
LEMMA RefreshOrNot ==
  ASSUME NEW t, IsTree(t), Reached(t, currentDirINode), FmTyped(fm), NEW f, f = filemgrRefresh(fm, t),
         ~ fm.loaded => Asked(fm, currentDirINode, asked)
  PROVE  /\ FmTyped(f) /\ Asked(f, currentDirINode, asked)
         /\ \A since : Seen(f, t, currentDirINode, since)
         /\ Right(f, t, currentDirINode)
  <1>1. currentDirINode \in Inodes
    BY ReachedIs
  <1>2. CASE ~ fm.loaded
    BY <1>2 DEF filemgrRefresh, Seen, Right
  <1>3. CASE fm.loaded
    <2>1. PICK name : f = Refreshed(fm, t, currentDirINode, name)
      BY <1>3 DEF filemgrRefresh
    <2> QED
      BY <1>1, <2>1, RefreshedIs
  <1> QED
    BY <1>2, <1>3

\* What a save leaves to the file manager, when nothing is changed but in the editor's
\* folder.
LEMMA SavedIs ==
  ASSUME FInv, NEW u, IsTree(u), Reached(u, currentDirINode), Saved(u), UNCHANGED asked,
         EdTyped(ed'), Backed(u, ed'),
         ed.dir # currentDirINode /\ Shows(fm.rows, inodes, currentDirINode, behind) =>
           Shows(fm.rows, u, currentDirINode, behind \cup {ed.dir}),
         ed.dir # currentDirINode => Right(fm, u, currentDirINode)
  PROVE  FInvNext
  <1>1. FmTyped(fm) /\ Asked(fm, currentDirINode, asked) /\ Seen(fm, inodes, currentDirINode, behind)
    BY DEF FInv, FilesFine
  <1>2. inodes' = u /\ currentDirINode' = currentDirINode /\ asked' = asked
    BY DEF Saved
  <1>3. CASE ed.dir = currentDirINode
    <2>1. fm' = filemgrRefresh(fm, u) /\ behind' = {}
      BY <1>3 DEF Saved
    <2>2. /\ FmTyped(fm') /\ Asked(fm', currentDirINode, asked)
          /\ \A since : Seen(fm', u, currentDirINode, since)
          /\ Right(fm', u, currentDirINode)
      BY <1>1, <2>1, RefreshOrNot
    <2> QED
      BY <1>2, <2>1, <2>2 DEF FInvNext, FilesFine
  <1>4. CASE ed.dir # currentDirINode
    <2>1. fm' = fm /\ behind' = behind \cup {ed.dir}
      BY <1>4 DEF Saved
    <2>2. Seen(fm, u, currentDirINode, behind \cup {ed.dir}) /\ Right(fm, u, currentDirINode)
      BY <1>1, <1>4 DEF Seen
    <2> QED
      BY <1>1, <1>2, <2>1, <2>2 DEF FInvNext, FilesFine
  <1> QED
    BY <1>3, <1>4

-----------------------------------------------------------------------------
\* A write to the file that is found, to its end or not: the file is in the editor's
\* folder, and not in the directory shown when that is another.
LEMMA WriteStep ==
  ASSUME FInv, SaveWrites \/ SaveFails, UNCHANGED asked
  PROVE  FInvNext /\ NoneFreed
  <1> DEFINE t == inodes
             d == currentDirINode
             x == OpenNode
  <1>1. /\ FmTyped(fm) /\ EdTyped(ed) /\ IsTree(t) /\ t \in [Inodes -> Inode]
        /\ Reached(t, d) /\ d \in Inodes /\ t[d].used /\ t[d].type = "dir" /\ Backed(t, ed)
        /\ ed.dir \in Inodes /\ ed.text \in Bytes /\ Proper(t[ed.dir].list)
    BY InvHas DEF EdTyped
  <1>2. x # NotFound /\ t[x].type = "file" /\ x = FindFile(t, ed.dir, ed.name)
    BY DEF SaveWrites, SaveFails, CanWrite, OpenNode
  <1>3. /\ Holds(t, ed.dir, ed.name, x)
        /\ \A n : Holds(t, ed.dir, ed.name, n) => n = x
    BY <1>1, <1>2, FindIs
  <1>4. x \in Inodes \ {0} /\ x # ed.dir /\ t[x].used /\ t[x].parent = ed.dir
    BY <1>1, <1>3, TreeHas
  <1>5. PICK u : /\ u = WriteFile(t, x, ed.text) \/ u = WriteFails(t, x, ed.text)
                 /\ inodes' = u
                 /\ SaveWrites => Saved(u)
                 /\ SaveFails => u = WriteFails(t, x, ed.text)
    <2> DEFINE whole == WriteFile(t, x, ed.text)
               part == WriteFails(t, x, ed.text)
    <2>1. SaveWrites => Saved(whole) /\ inodes' = whole
      BY DEF SaveWrites, Saved
    <2>2. SaveFails => inodes' = part
      BY DEF SaveFails
    <2>3. CASE SaveWrites /\ ~ SaveFails
      <3> HIDE DEF whole, part
      <3> QED
        BY <2>1, <2>3 DEF whole
    <2>4. CASE SaveFails
      <3>1. inodes' = part /\ (SaveWrites => Saved(part))
        BY <2>1, <2>2, <2>4
      <3> HIDE DEF whole, part
      <3> QED
        BY <3>1 DEF part
    <2> QED
      BY <2>3, <2>4
  <1>f. inodes' = u
    BY <1>5
  <1> HIDE DEF x
  <1>6. /\ IsTree(u)
        /\ \A n \in Inodes \ {x} : u[n] = t[n]
        /\ u[x].used = t[x].used /\ u[x].type = "file" /\ u[x].parent = t[x].parent
        /\ u[x].whole => u[x].text = ed.text
        /\ u = WriteFails(t, x, ed.text) => ~ u[x].whole
        /\ \A e \in Inodes : \A s, n : Holds(u, e, s, n) <=> Holds(t, e, s, n) /\ e # x
    <2>1. IsTree(t) /\ x \in Inodes /\ t[x].type = "file" /\ ed.text \in Bytes
      BY ONLY <1>1, <1>2, <1>4
    <2>2. u = WriteFile(t, x, ed.text) \/ u = WriteFails(t, x, ed.text)
      BY ONLY <1>5
    <2> QED
      BY ONLY <2>1, <2>2, WriteIs
  <1>7. Reached(u, d)
    <2>1. PICK c, l : OnWay(t, c, l, d)
      BY <1>1 DEF Reached
    <2>2. \A k \in 0 .. l : c[k] # x
      BY <1>2, <2>1 DEF OnWay
    <2>3. \A n \in Inodes \ {x} : Kept(t, u, n)
      BY <1>6 DEF Kept
    <2> QED
      BY <2>1, <2>2, <2>3, StaysReached
  <1>8. Holds(u, ed.dir, ed.name, x) /\ u[ed.dir] = t[ed.dir]
    BY <1>1, <1>3, <1>4, <1>6
  <1>9. NoneFreed
    <2>1. ASSUME NEW n \in Inodes, t[n].used PROVE u[n].used
      BY <1>4, <1>6, <2>1
    <2> QED
      BY <1>f, <2>1 DEF NoneFreed
  <1>10. u[d].list = t[d].list /\ u \in [Inodes -> Inode]
    BY <1>1, <1>2, <1>6, TreeHas
  <1>r. ASSUME ed.dir # d \/ ~ u[x].whole PROVE Right(fm, u, d)
    <2>1. Right(fm, t, d) /\ Proper(t[d].list) /\ Proper(u[d].list)
      BY <1>6, <1>1, TreeHas DEF FInv, FilesFine
    <2>2. ASSUME NEW s, NEW n, Holds(u, d, s, n)
          PROVE  /\ Holds(t, d, s, n) /\ u[n].type = t[n].type
                 /\ u[n].type = "file" /\ u[n].whole => t[n].whole /\ u[n].text = t[n].text
      <3>1. Holds(t, d, s, n)
        BY <1>1, <1>6, <2>2
      <3>2. n \in Inodes /\ t[n].parent = d
        BY <1>1, <3>1, TreeHas
      <3>3. CASE n = x
        BY <1>r, <1>2, <1>4, <1>6, <3>1, <3>2, <3>3
      <3>4. CASE n # x
        BY <1>6, <3>1, <3>2, <3>4
      <3> QED
        BY <3>3, <3>4
    <2> QED
      BY <2>1, <2>2, RightKeeps
  <1>11. CASE SaveWrites
    <2>1. ed' = [ed EXCEPT !.dirty = FALSE, !.naming = FALSE, !.stored = x, !.ours = FolderIsThere]
      BY <1>11 DEF SaveWrites, x
    <2>2. /\ DOMAIN ed' = DOMAIN ed /\ ed'.text = ed.text /\ ed'.dir = ed.dir /\ ed'.name = ed.name
          /\ ed'.stored = x /\ ed'.ours = FolderIsThere
      BY <1>1, <2>1 DEF EdTyped
    <2>3. EdTyped(ed') /\ Backed(u, ed')
      <3>1. FolderIsThere \in BOOLEAN
        BY DEF FolderIsThere
      <3>2. EdTyped(ed')
        BY <1>1, <2>2, <3>1 DEF EdTyped
      <3>3. Backed(u, ed')
        BY <1>2, <1>4, <1>6, <1>8, <2>2 DEF Backed, FolderIsThere
      <3> QED
        BY <3>2, <3>3
    <2>4. ASSUME ed.dir # d, Shows(fm.rows, t, d, behind)
          PROVE  Shows(fm.rows, u, d, behind \cup {ed.dir})
      <3>1. ASSUME NEW s, NEW n, Holds(t, d, s, n) PROVE u[n] = t[n]
        <4>1. n \in Inodes /\ t[n].parent = d
          BY <1>1, <3>1, TreeHas
        <4>2. n # x
          BY <1>4, <2>4, <4>1
        <4> QED
          BY <1>6, <4>1, <4>2
      <3> DEFINE now == behind \cup {ed.dir}
      <3>2. behind \subseteq now
        OBVIOUS
      <3> HIDE DEF now
      <3>3. Shows(fm.rows, u, d, now)
        BY <1>1, <1>10, <2>4, <3>1, <3>2, ListingKeeps
      <3> QED
        BY <3>3 DEF now
    <2>5. Saved(u)
      BY <1>5, <1>11
    <2>r. ed.dir # d => Right(fm, u, d)
      BY <1>r
    <2>6. FInvNext
      BY <1>6, <1>7, <2>3, <2>4, <2>5, <2>r, SavedIs
    <2> QED
      BY <1>9, <2>6
  <1>12. CASE SaveFails
    <2>1. ed' = [ed EXCEPT !.naming = FALSE] /\ UNCHANGED <<currentDirINode, fm, behind, asked>>
      BY <1>12 DEF SaveFails
    <2>2. /\ DOMAIN ed' = DOMAIN ed /\ ed'.text = ed.text /\ ed'.dir = ed.dir /\ ed'.name = ed.name
          /\ ed'.ours = ed.ours /\ ed'.dirty = ed.dirty /\ ed'.stored = ed.stored
      BY <1>1, <2>1 DEF EdTyped
    <2>3. u = WriteFails(t, x, ed.text) /\ ~ u[x].whole
      BY <1>5, <1>6, <1>12
    <2>4. EdTyped(ed') /\ Backed(u, ed')
      <3>1. EdTyped(ed') /\ Backed(t, ed')
        BY <1>1, <2>2 DEF EdTyped, Backed
      <3>2. \A n \in Inodes : Stays(t, u, n)
        BY <1>2, <1>4, <1>6, <2>3 DEF Stays
      <3>3. ed'.ours => Holds(u, ed'.dir, ed'.name, ed'.stored)
        BY <1>1, <1>3, <1>8, <2>2 DEF Backed
      <3> QED
        BY <1>1, <3>1, <3>2, <3>3, StillBacked
    <2>5. Seen(fm, u, d, behind)
      <3> SUFFICES ASSUME fm.loaded, ~ fm.stale PROVE Shows(fm.rows, u, d, behind)
        BY DEF Seen
      <3>1. Shows(fm.rows, t, d, behind)
        BY DEF FInv, FilesFine, Seen
      <3>2. ASSUME NEW s, NEW n, Holds(t, d, s, n)
            PROVE  /\ u[n].type = t[n].type
                   /\ t[n].type = "dir" => u[n].list = t[n].list \/ n \in behind
                   /\ u[n].type = "file" /\ u[n].whole => t[n].whole /\ u[n].text = t[n].text
        <4>1. n \in Inodes
          BY <1>1, <3>2, TreeHas
        <4>2. CASE n = x
          BY <1>2, <1>6, <2>3, <4>2
        <4>3. CASE n # x
          BY <1>6, <4>1, <4>3
        <4> QED
          BY <4>2, <4>3
      <3> QED
        BY <1>1, <1>10, <3>1, <3>2, ListingKeeps
    <2>6. Asked(fm, d, asked)
      BY DEF FInv, FilesFine
    <2>r. Right(fm, u, d)
      BY <1>r, <2>3
    <2>7. FInvNext
      BY <1>1, <1>f, <1>6, <1>7, <2>1, <2>4, <2>5, <2>6, <2>r DEF FInvNext, FilesFine
    <2> QED
      BY <1>9, <2>7
  <1> QED
    BY <1>11, <1>12

\* A save that finds no file: it was not the editor's any more.
LEMMA NoneStep ==
  ASSUME FInv, SaveFindsNone, UNCHANGED asked
  PROVE  FInvNext /\ NoneFreed
  <1> DEFINE t == inodes
             d == currentDirINode
  <1>1. /\ FmTyped(fm) /\ EdTyped(ed) /\ IsTree(t) /\ Reached(t, d) /\ Backed(t, ed)
        /\ ed.dir \in Inodes /\ Proper(t[ed.dir].list)
        /\ Asked(fm, d, asked) /\ Seen(fm, t, d, behind) /\ Right(fm, t, d)
    BY InvHas DEF EdTyped, FInv, FilesFine
  <1>2. PICK success \in BOOLEAN :
          /\ ed' = [ed EXCEPT !.dirty = IF success THEN FALSE ELSE @, !.naming = FALSE,
                              !.stored = IF success THEN NotFound ELSE @]
          /\ fm' = IF success /\ ed.dir = d THEN filemgrRefresh(fm, t) ELSE fm
    BY DEF SaveFindsNone
  <1>3. UNCHANGED <<inodes, currentDirINode, behind, asked>> /\ ~ CanWrite
    BY DEF SaveFindsNone
  <1>4. ~ ed.ours
    <2> SUFFICES ASSUME ed.ours PROVE FALSE
      OBVIOUS
    <2>1. ed.stored # NotFound /\ Holds(t, ed.dir, ed.name, ed.stored) /\ t[ed.stored].type = "file"
      BY <1>1 DEF Backed
    <2>2. FindFile(t, ed.dir, ed.name) = ed.stored
      BY <1>1, <2>1, FindIs
    <2> QED
      BY <1>3, <2>1, <2>2 DEF CanWrite, OpenNode
  <1>5. /\ DOMAIN ed' = DOMAIN ed /\ ed'.text = ed.text /\ ed'.dir = ed.dir
        /\ ed'.ours = ed.ours
        /\ \/ ed'.dirty = ed.dirty /\ ed'.stored = ed.stored
           \/ ed'.stored = NotFound
    BY <1>1, <1>2 DEF EdTyped
  <1>6. EdTyped(ed') /\ Backed(t, ed')
    BY <1>1, <1>4, <1>5 DEF EdTyped, Backed
  <1>7. FmTyped(fm') /\ Asked(fm', d, asked) /\ Seen(fm', t, d, behind) /\ Right(fm', t, d)
    BY <1>1, <1>2, RefreshOrNot
  <1> QED
    BY <1>1, <1>3, <1>6, <1>7 DEF FInvNext, FilesFine, NoneFreed

\* Save As under a new name: what it writes, and what it leaves in the editor.
NewFile(name, v, y, u) ==
  /\ name \in STRING /\ CanCreate(inodes, ed.dir, name)
  /\ v = CreateFile(inodes, ed.dir, name, "file") /\ y = FindFile(v, ed.dir, name)
  /\ \/ y # NotFound /\ (u = WriteFile(v, y, ed.text) \/ u = WriteFails(v, y, ed.text))
     \/ y = NotFound /\ u = v
  /\ Saved(u)
  /\ DOMAIN ed' = DOMAIN ed /\ ed'.text = ed.text /\ ed'.dir = ed.dir /\ ed'.name = name
  /\ ed'.stored = y /\ ed'.ours \in BOOLEAN /\ (ed'.ours => FolderIsThere /\ y # NotFound)

LEMMA NewFileStep ==
  ASSUME EdTyped(ed), SaveAsCreates
  PROVE  \E name, v, y, u : NewFile(name, v, y, u)
  <1>1. PICK name \in Names :
          LET v == CreateFile(inodes, ed.dir, name, "file")
              y == FindFile(v, ed.dir, name)
              done == [ed EXCEPT !.naming = FALSE, !.name = name] IN
          /\ CanCreate(inodes, ed.dir, name)
          /\ \/ /\ y # NotFound
                /\ Saved(WriteFile(v, y, ed.text))
                /\ ed' = [done EXCEPT !.dirty = FALSE, !.stored = y, !.ours = FolderIsThere]
             \/ /\ y # NotFound
                /\ Saved(WriteFails(v, y, ed.text))
                /\ ed' = [done EXCEPT !.stored = y, !.ours = FolderIsThere]
             \/ /\ y = NotFound
                /\ Saved(v)
                /\ \E dirty \in {FALSE, ed.dirty} :
                     ed' = [done EXCEPT !.dirty = dirty, !.stored = NotFound, !.ours = FALSE]
    BY DEF SaveAsCreates
  <1>2. PICK v, y, done :
          /\ v = CreateFile(inodes, ed.dir, name, "file") /\ y = FindFile(v, ed.dir, name)
          /\ done = [ed EXCEPT !.naming = FALSE, !.name = name]
    OBVIOUS
  <1>3. /\ CanCreate(inodes, ed.dir, name) /\ name \in STRING
        /\ \/ /\ y # NotFound
              /\ Saved(WriteFile(v, y, ed.text))
              /\ ed' = [done EXCEPT !.dirty = FALSE, !.stored = y, !.ours = FolderIsThere]
           \/ /\ y # NotFound
              /\ Saved(WriteFails(v, y, ed.text))
              /\ ed' = [done EXCEPT !.stored = y, !.ours = FolderIsThere]
           \/ /\ y = NotFound
              /\ Saved(v)
              /\ \E dirty : ed' = [done EXCEPT !.dirty = dirty, !.stored = NotFound, !.ours = FALSE]
    BY <1>1, <1>2, TypedName
  <1>4. /\ DOMAIN done = DOMAIN ed /\ done.text = ed.text /\ done.dir = ed.dir /\ done.name = name
    BY <1>2 DEF EdTyped
  <1>5. ASSUME NEW u, Saved(u),
               \/ y # NotFound /\ (u = WriteFile(v, y, ed.text) \/ u = WriteFails(v, y, ed.text))
               \/ y = NotFound /\ u = v,
               DOMAIN ed' = DOMAIN done, ed'.text = done.text, ed'.dir = done.dir,
               ed'.name = done.name, ed'.stored = y, ed'.ours \in BOOLEAN,
               ed'.ours => FolderIsThere /\ y # NotFound
        PROVE  NewFile(name, v, y, u)
    BY <1>2, <1>3, <1>4, <1>5 DEF NewFile
  <1>d. /\ DOMAIN done = {"text", "dirty", "named", "name", "dir", "naming", "stored", "ours"}
        /\ FolderIsThere \in BOOLEAN
    BY <1>4 DEF EdTyped, FolderIsThere
  <1>6. CASE y # NotFound /\ Saved(WriteFile(v, y, ed.text))
             /\ ed' = [done EXCEPT !.dirty = FALSE, !.stored = y, !.ours = FolderIsThere]
    <2>1. PICK u : u = WriteFile(v, y, ed.text)
      OBVIOUS
    <2>2. /\ DOMAIN ed' = DOMAIN done /\ ed'.text = done.text /\ ed'.dir = done.dir
          /\ ed'.name = done.name /\ ed'.stored = y
      BY ONLY <1>d, <1>6
    <2>3. ed'.ours = FolderIsThere
      BY ONLY <1>d, <1>6
    <2>4. NewFile(name, v, y, u)
      BY <1>d, <1>5, <1>6, <2>1, <2>2, <2>3
    <2> QED
      BY <2>4
  <1>7. CASE y # NotFound /\ Saved(WriteFails(v, y, ed.text))
             /\ ed' = [done EXCEPT !.stored = y, !.ours = FolderIsThere]
    <2>1. PICK u : u = WriteFails(v, y, ed.text)
      OBVIOUS
    <2>2. /\ DOMAIN ed' = DOMAIN done /\ ed'.text = done.text /\ ed'.dir = done.dir
          /\ ed'.name = done.name /\ ed'.stored = y
      BY ONLY <1>d, <1>7
    <2>3. ed'.ours = FolderIsThere
      BY ONLY <1>d, <1>7
    <2>4. NewFile(name, v, y, u)
      BY <1>d, <1>5, <1>7, <2>1, <2>2, <2>3
    <2> QED
      BY <2>4
  <1>8. CASE y = NotFound /\ Saved(v) /\
             \E dirty : ed' = [done EXCEPT !.dirty = dirty, !.stored = NotFound, !.ours = FALSE]
    <2>1. PICK dirty : ed' = [done EXCEPT !.dirty = dirty, !.stored = NotFound, !.ours = FALSE]
      BY <1>8
    <2>2. /\ DOMAIN ed' = DOMAIN done /\ ed'.text = done.text /\ ed'.dir = done.dir
          /\ ed'.name = done.name /\ ed'.stored = NotFound
      BY ONLY <1>d, <2>1
    <2>3. ed'.ours = FALSE
      BY ONLY <1>d, <2>1
    <2>4. NewFile(name, v, y, v)
      BY <1>5, <1>8, <2>2, <2>3
    <2> QED
      BY <2>4
  <1> QED
    BY <1>3, <1>6, <1>7, <1>8

LEMMA SaveAsStep ==
  ASSUME FInv, SaveAsCreates, UNCHANGED asked
  PROVE  FInvNext /\ NoneFreed
  <1> DEFINE t == inodes
             d == currentDirINode
             dir == ed.dir
             x == NewInode(t)
  <1>1. /\ FmTyped(fm) /\ EdTyped(ed) /\ IsTree(t) /\ t \in [Inodes -> Inode]
        /\ Reached(t, d) /\ d \in Inodes /\ t[d].used /\ t[d].type = "dir" /\ Backed(t, ed)
        /\ dir \in Inodes /\ ed.text \in Bytes
    BY InvHas DEF EdTyped
  <1>2. PICK name, v, y, u : NewFile(name, v, y, u)
    BY <1>1, NewFileStep
  <1>3. /\ name \in STRING /\ CanCreate(t, dir, name)
        /\ v = CreateFile(t, dir, name, "file") /\ y = FindFile(v, dir, name)
        /\ \/ y # NotFound /\ (u = WriteFile(v, y, ed.text) \/ u = WriteFails(v, y, ed.text))
           \/ y = NotFound /\ u = v
    BY <1>2 DEF NewFile
  <1>4. /\ Saved(u) /\ inodes' = u
        /\ DOMAIN ed' = DOMAIN ed /\ ed'.text = ed.text /\ ed'.dir = dir /\ ed'.name = name
        /\ ed'.stored = y /\ ed'.ours \in BOOLEAN /\ (ed'.ours => FolderIsThere /\ y # NotFound)
    BY <1>2 DEF NewFile, Saved
  <1>x. PICK z : z = x
    OBVIOUS
  <1>5. /\ IsTree(u)
        /\ z \in Inodes \ {0} /\ ~ t[z].used /\ u[z].used /\ u[z].type = "file"
        /\ t[dir].used \/ y # NotFound => y = z
        /\ \A n \in Inodes \ {z} : Kept(t, u, n) /\ (n # dir => u[n] = t[n])
        /\ \A e \in Inodes : \A s, n : Holds(u, e, s, n) <=>
             (Holds(t, e, s, n) /\ e # z) \/ (t[dir].used /\ e = dir /\ s = name /\ n = z)
        /\ y # NotFound => (u[z].whole => u[z].text = ed.text)
    <2>1. IsTree(t) /\ dir \in Inodes /\ name \in STRING /\ ed.text \in Bytes /\ CanCreate(t, dir, name)
      BY ONLY <1>1, <1>3
    <2>2. /\ v = CreateFile(t, dir, name, "file") /\ y = FindFile(v, dir, name)
          /\ \/ y # NotFound /\ (u = WriteFile(v, y, ed.text) \/ u = WriteFails(v, y, ed.text))
             \/ y = NotFound /\ u = v
      BY ONLY <1>3
    <2> QED
      BY ONLY <1>x, <2>1, <2>2, NewFileIs
  <1>6. Reached(u, d)
    <2>1. PICK c, l : OnWay(t, c, l, d)
      BY <1>1 DEF Reached
    <2>2. \A k \in 0 .. l : c[k] # z
      BY <1>5, <2>1 DEF OnWay
    <2>3. \A n \in Inodes \ {z} : Kept(t, u, n)
      BY <1>5
    <2> QED
      BY <2>1, <2>2, <2>3, StaysReached
  <1>7. NoneFreed
    <2>1. ASSUME NEW n \in Inodes, t[n].used PROVE u[n].used
      <3>1. n # z
        BY <1>5, <2>1
      <3> QED
        BY <1>5, <2>1, <3>1 DEF Kept
    <2> QED
      BY <1>4, <2>1 DEF NoneFreed
  <1>8. EdTyped(ed') /\ Backed(u, ed')
    <2>1. EdTyped(ed')
      BY <1>1, <1>4 DEF EdTyped
    <2>2. Backed(u, ed')
      <3>1. ed'.stored # NotFound =>
              /\ ed'.stored = z
              /\ ~ ed'.dirty /\ u[z].whole => u[z].text = ed'.text
        BY <1>4, <1>5
      <3>2. ASSUME ed'.ours PROVE y = z /\ y # NotFound /\ u[dir].used /\ Holds(u, dir, name, z)
        <4>1. t[dir].used /\ y # NotFound
          BY <1>4, <3>2 DEF FolderIsThere
        <4>2. dir # z
          BY <1>5, <4>1
        <4> QED
          BY <1>1, <1>5, <4>1, <4>2 DEF Kept
      <3> QED
        BY <1>4, <1>5, <3>1, <3>2 DEF Backed
    <2> QED
      BY <2>1, <2>2
  <1>9. ASSUME dir # d, Shows(fm.rows, t, d, behind)
        PROVE  Shows(fm.rows, u, d, behind \cup {dir})
    <2>1. u[d].list = t[d].list /\ u \in [Inodes -> Inode]
      <3>1. d # z
        BY <1>1, <1>5
      <3> QED
        BY <1>1, <1>5, <1>9, <3>1, TreeHas
    <2>2. PICK now : now = behind \cup {dir}
      OBVIOUS
    <2>3. ASSUME NEW s, NEW n, Holds(t, d, s, n)
          PROVE  /\ u[n].type = t[n].type
                 /\ t[n].type = "dir" => u[n].list = t[n].list \/ n \in now
                 /\ u[n].type = "file" /\ u[n].whole => t[n].whole /\ u[n].text = t[n].text
      <3>1. n \in Inodes /\ t[n].used
        BY <1>1, <2>3, TreeHas
      <3>2. n # z
        BY <1>5, <3>1
      <3> QED
        BY <1>5, <2>2, <3>1, <3>2 DEF Kept
    <2>4. behind \subseteq now
      BY <2>2
    <2>5. Shows(fm.rows, u, d, now)
      BY <1>1, <1>9, <2>1, <2>3, <2>4, ListingKeeps
    <2> QED
      BY <2>2, <2>5
  <1>10. ASSUME dir # d PROVE Right(fm, u, d)
    <2>1. Right(fm, t, d) /\ Proper(t[d].list) /\ Proper(u[d].list)
      BY <1>5, <1>1, TreeHas DEF FInv, FilesFine
    <2>2. ASSUME NEW s, NEW n, Holds(u, d, s, n)
          PROVE  /\ Holds(t, d, s, n) /\ u[n].type = t[n].type
                 /\ u[n].type = "file" /\ u[n].whole => t[n].whole /\ u[n].text = t[n].text
      <3>1. Holds(t, d, s, n)
        BY <1>1, <1>5, <1>10, <2>2
      <3>2. n \in Inodes /\ n # z
        BY <1>1, <1>5, <3>1, TreeHas
      <3> QED
        BY <1>5, <3>1, <3>2 DEF Kept
    <2> QED
      BY <2>1, <2>2, RightKeeps
  <1>11. FInvNext
    BY <1>4, <1>5, <1>6, <1>8, <1>9, <1>10, SavedIs
  <1> QED
    BY <1>7, <1>11

-----------------------------------------------------------------------------
\* Typing, and the line in which a name is asked for.
LEMMA EditStep ==
  ASSUME FInv, EditText \/ startSaveAs \/ SaveAsDropped, UNCHANGED asked
  PROVE  FInvNext /\ NoneFreed
  <1> DEFINE t == inodes
             d == currentDirINode
  <1>1. /\ EdTyped(ed) /\ d \in Inodes /\ Backed(t, ed)
    BY InvHas
  <1>2. UNCHANGED <<inodes, currentDirINode, fm, behind, asked>>
    BY DEF EditText, startSaveAs, SaveAsDropped
  <1>3. CASE EditText
    <2>1. PICK text \in Texts : ed' = [ed EXCEPT !.text = text, !.dirty = TRUE]
      BY <1>3 DEF EditText
    <2>2. text \in Bytes
      BY DEF Bytes
    <2>3. /\ DOMAIN ed' = DOMAIN ed /\ ed'.text = text /\ ed'.dir = ed.dir /\ ed'.name = ed.name
          /\ ed'.ours = ed.ours /\ ed'.stored = ed.stored /\ ed'.dirty = TRUE
      BY <1>1, <2>1 DEF EdTyped
    <2>4. EdTyped(ed') /\ Backed(t, ed')
      BY <1>1, <2>2, <2>3 DEF EdTyped, Backed
    <2> QED
      BY <1>2, <2>4 DEF FInv, FInvNext, FilesFine, NoneFreed
  <1>4. CASE startSaveAs \/ SaveAsDropped
    <2>1. PICK dir \in Inodes, naming, ours \in BOOLEAN :
            /\ ed' = [ed EXCEPT !.naming = naming, !.dir = dir, !.ours = ours]
            /\ ours => ed.ours /\ dir = ed.dir
      <3>1. CASE startSaveAs
        <4>1. ed' = [ed EXCEPT !.naming = TRUE, !.dir = IF ed.named THEN ed.dir ELSE d,
                               !.ours = ed.ours /\ (ed.named \/ ed.dir = d)]
          BY <3>1 DEF startSaveAs
        <4>2. (IF ed.named THEN ed.dir ELSE d) \in Inodes
          BY <1>1 DEF EdTyped
        <4> QED
          BY <4>1, <4>2
      <3>2. CASE SaveAsDropped
        <4>1. ed' = [ed EXCEPT !.naming = FALSE]
          BY <3>2 DEF SaveAsDropped
        <4>2. ed' = [ed EXCEPT !.naming = FALSE, !.dir = ed.dir, !.ours = ed.ours]
          BY <1>1, <4>1 DEF EdTyped
        <4> QED
          BY <1>1, <4>2 DEF EdTyped
      <3> QED
        BY <1>4, <3>1, <3>2
    <2>3. /\ DOMAIN ed' = DOMAIN ed /\ ed'.text = ed.text /\ ed'.name = ed.name
          /\ ed'.ours = ours /\ ed'.stored = ed.stored /\ ed'.dirty = ed.dirty /\ ed'.dir = dir
      BY <1>1, <2>1 DEF EdTyped
    <2>2. EdTyped(ed') /\ Backed(t, ed')
      BY <1>1, <2>1, <2>3 DEF EdTyped, Backed
    <2> QED
      BY <1>2, <2>2 DEF FInv, FInvNext, FilesFine, NoneFreed
  <1> QED
    BY <1>3, <1>4

-----------------------------------------------------------------------------
\* The users' trees are trees, and nothing is shown, open or asked.
LEMMA FilesBegin == Init => FInv
  <1> SUFFICES ASSUME Init PROVE FInv
    OBVIOUS
  <1>1. /\ inodes = user.tree /\ currentDirINode = 0 /\ behind = {} /\ asked = << >>
        /\ ed = Untitled /\ user \in Users
        /\ fm = [loaded |-> FALSE, rows |-> << >>, selected |-> 0, lastClick |-> 0, confirm |-> 0,
                 input |-> NoInput, move |-> NoMove, path |-> << >>, stale |-> FALSE]
    BY DEF Init, FilesInit, DesktopInit
  <1>2. IsTree(inodes)
    BY <1>1, TreesAssumption
  <1>3. 0 \in Inodes /\ Reached(inodes, 0)
    BY <1>2, TreeHas, RootIsReached
  <1>4. FmTyped(fm) /\ ~ fm.loaded /\ fm.confirm = 0
    <2>1. fm.rows = << >> /\ fm.move = NoMove /\ NoMove.dir = 0 /\ ~ fm.loaded /\ fm.confirm = 0
      BY <1>1 DEF NoMove
    <2>2. DOMAIN fm.rows = 1 .. Len(fm.rows)
      BY <2>1
    <2>3. DOMAIN fm = {"loaded", "rows", "selected", "lastClick", "confirm", "input", "move", "path",
                       "stale"}
      BY <1>1
    <2> QED
      BY <1>3, <2>1, <2>2, <2>3 DEF FmTyped
  <1>5. EdTyped(ed) /\ ed.stored = NotFound /\ ~ ed.ours
    BY <1>1, <1>3, TextsAssumption DEF Untitled, EdTyped, Bytes
  <1> QED
    BY <1>1, <1>2, <1>3, <1>4, <1>5 DEF FInv, FilesFine, Backed, Asked, Seen, Right

\* One step of the files, with what it may free.
LEMMA FilesStep ==
  ASSUME FInv, FilesNext
  PROVE  FInvNext /\ OnlyAsked
  <1>n. NoneFreed => OnlyAsked
    BY DEF NoneFreed, OnlyAsked
  <1>1. CASE filemgrDraw /\ UNCHANGED asked
    BY <1>1, <1>n, DrawStep
  <1>2. CASE fm.loaded /\ filemgrClick
    <2>1. CASE DelAsks
      BY <1>n, <2>1, AskStep
    <2>2. CASE UNCHANGED asked /\ DelDeletes
      BY <2>2, DeleteStep
    <2>3. CASE UNCHANGED asked /\ (ClickCancels \/ startRename \/ startCreate \/ startMove \/ CancelMove \/ ClickBlank)
      BY <1>n, <2>3, SmallSteps
    <2>4. CASE UNCHANGED asked /\ finishMove
      BY <1>n, <2>4, MoveStep
    <2>5. CASE UNCHANGED asked /\ ClickUp
      BY <1>n, <2>5, UpStep DEF ClickUp
    <2>6. ASSUME UNCHANGED asked, NEW k \in DOMAIN fm.rows,
                 ClickRow(k) \/ DoubleClickFolder(k) \/ DoubleClickInVain(k) \/ DoubleClickOpens(k)
          PROVE  FInvNext /\ OnlyAsked
      <3>1. CASE ClickRow(k) \/ DoubleClickInVain(k)
        BY <1>n, <2>6, <3>1, SmallSteps
      <3>2. CASE DoubleClickFolder(k)
        BY <1>n, <2>6, <3>2, FolderStep
      <3>3. CASE DoubleClickOpens(k)
        BY <1>2, <1>n, <2>6, <3>3, OpenStep
      <3> QED
        BY <2>6, <3>1, <3>2, <3>3
    <2> QED
      BY <1>2, <2>1, <2>2, <2>3, <2>4, <2>5, <2>6 DEF filemgrClick
  <1>3. CASE filemgrKey
    <2>1. UNCHANGED asked
      BY <1>3 DEF filemgrKey
    <2>2. CASE CancelMove \/ NameDropped
      BY <1>n, <2>1, <2>2, SmallSteps
    <2>3. CASE finishRename
      BY <1>n, <2>1, <2>3, RenameStep, RenameLosesStep DEF finishRename
    <2>4. CASE finishCreate
      BY <1>n, <2>1, <2>4, CreateStep
    <2> QED
      BY <1>3, <2>2, <2>3, <2>4 DEF filemgrKey
  <1>4. CASE editorKey \/ editorClick
    <2>1. UNCHANGED asked
      BY <1>4 DEF editorKey, editorClick
    <2>2. CASE EditText \/ startSaveAs \/ SaveAsDropped
      BY <1>n, <2>1, <2>2, EditStep
    <2>3. CASE WritesBack
      <3>1. CASE SaveWrites \/ SaveFails
        BY <1>n, <2>1, <3>1, WriteStep
      <3>2. CASE SaveFindsNone
        BY <1>n, <2>1, <3>2, NoneStep
      <3> QED
        BY <2>3, <3>1, <3>2 DEF WritesBack
    <2>4. CASE SaveAsCreates
      BY <1>n, <2>1, <2>4, SaveAsStep
    <2> QED
      BY <1>4, <2>2, <2>3, <2>4 DEF editorKey, editorClick, save, SaveAsSame
  <1> QED
    BY <1>1, <1>2, <1>3, <1>4 DEF FilesNext

\* Every step keeps the invariant, those of the windows too.
LEMMA FInvIsKept == FInv /\ [Next]_vars => FInv' /\ (OnlyAsked \/ UNCHANGED vars)
  <1> SUFFICES ASSUME FInv, [Next]_vars PROVE FInv' /\ (OnlyAsked \/ UNCHANGED vars)
    OBVIOUS
  <1>p. FInvNext => FInv'
    BY DEF FInv, FInvNext
  <1>1. CASE UNCHANGED files
    <2>1. UNCHANGED <<inodes, currentDirINode, fm, ed, behind, asked>>
      BY <1>1 DEF files
    <2>2. FInvNext /\ OnlyAsked
      BY <2>1 DEF FInv, FInvNext, OnlyAsked
    <2> QED
      BY <1>p, <2>2
  <1>2. CASE FilesNext
    BY <1>2, <1>p, FilesStep
  <1> QED
    BY <1>1, <1>2 DEF Next, vars

\* The invariant of the files, for any tree that the users begin with.
THEOREM FilesInvariance == Spec => []FInv
  <1>1. FInv /\ [Next]_vars => FInv'
    BY FInvIsKept
  <1> QED
    BY FilesBegin, <1>1, PTL DEF Spec

\* refresh is called wherever the first MAX_ENTRIES entries are no longer what it showed,
\* but for what the property allows.
THEOREM ListingCurrent == Spec => []ListingIsCurrent
  <1>1. FInv => ListingIsCurrent
    <2> SUFFICES ASSUME FInv, fm.loaded, ~ fm.stale PROVE ListingIsCurrent
      BY DEF ListingIsCurrent
    <2>1. Shows(fm.rows, inodes, currentDirINode, behind)
      BY DEF FInv, FilesFine, Seen
    <2> QED
      BY <2>1 DEF Shows, ListingIsCurrent
  <1> QED
    BY <1>1, FilesInvariance, PTL

\* What the editor shows without a star is on the disk, and is found where the editor will
\* save it, whatever the file manager does, but for what the property allows.
THEOREM CleanSaved == Spec => []CleanMeansSaved
  <1>1. FInv => CleanMeansSaved
    <2> SUFFICES ASSUME FInv PROVE CleanMeansSaved
      OBVIOUS
    <2>1. Backed(inodes, ed) /\ ed.dir \in Inodes /\ Proper(inodes[ed.dir].list)
      BY InvHas DEF EdTyped
    <2>2. ASSUME ed.ours PROVE ed.stored # NotFound /\ OpenNode = ed.stored
      BY <2>1, <2>2, FindIs DEF Backed, OpenNode
    <2> QED
      BY <2>1, <2>2 DEF CleanMeansSaved, Backed
  <1> QED
    BY <1>1, FilesInvariance, PTL

\* No other step than a confirmed Del frees an inode, and it frees the one asked for.
THEOREM DeletesConfirmed == Spec => DeletesWhatWasConfirmed
  <1>1. FInv /\ [Next]_vars =>
          [\A n \in Inodes : (inodes[n].used /\ ~ inodes'[n].used) =>
             asked # << >> /\ n = FindFile(inodes, asked[1], asked[2])]_vars
    BY FInvIsKept DEF OnlyAsked
  <1> QED
    BY <1>1, FilesInvariance, PTL DEF Spec, DeletesWhatWasConfirmed
=============================================================================

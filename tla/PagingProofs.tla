---------------------------- MODULE PagingProofs ----------------------------
(***************************************************************************)
(* For every number of frames, whatever the BIOS reports, and whatever     *)
(* pages are mapped at boot or touched later: no frame has two uses        *)
(* (OneUse), and a page keeps its bytes (BytesStay).                       *)
(*                                                                         *)
(* For the first, the strengthening speaks of the entries of all user      *)
(* tables at once, says that the kernel's regions are never free, and that *)
(* there are no tables until initializePaging makes them.  For the second  *)
(* it adds what the processor may remember of every page.                  *)
(***************************************************************************)
EXTENDS Paging, TLAPS, WellFoundedInduction

Leaf(s, i) == entries[pde[s].frame][i].frame

\* The frame behind an address, or ERROR.
Behind(s, i) == IF HasTable(s) THEN Leaf(s, i) ELSE ERROR

Typed ==
  /\ free \in SUBSET Frames
  /\ pde \in [Slots -> EntrySet]
  /\ entries \in [Frames -> [Entries -> EntrySet]]
  /\ todo \in Seq(UserPages)

NoTablesYet ==
  phase \in {"frames", "paging"} => \A s \in Slots : pde[s].frame = ERROR

TablesApart ==
  /\ \A s, r \in Slots : HasTable(s) /\ pde[s].frame = pde[r].frame => s = r
  /\ \A s \in Slots : HasTable(s) => pde[s].frame \notin free \cup Regions

LeavesApart ==
  \A s \in UserSlots, i \in Entries : HasTable(s) /\ Leaf(s, i) # ERROR =>
    /\ Leaf(s, i) \notin free \cup Regions
    /\ \A r \in Slots : HasTable(r) => Leaf(s, i) # pde[r].frame
    /\ \A r \in UserSlots, j \in Entries :
         HasTable(r) /\ Leaf(r, j) = Leaf(s, i) => r = s /\ j = i

Apart == TablesApart /\ LeavesApart

IInv == Typed /\ free \cap Regions = {} /\ NoTablesYet /\ Apart

-----------------------------------------------------------------------------
\* allocateFreeFrame returns a frame of the set it searches.
LEMMA LowestIsIn ==
  ASSUME NEW set \in SUBSET Frames, set # {}
  PROVE  Lowest(set) \in set /\ Lowest(set) \in Frames
  <1>1. set \subseteq Nat
    BY FramesAssumption DEF Frames
  <1> DEFINE less == OpToRel(<, Nat)
  <1>2. IsWellFoundedOn(less, Nat)
    BY NatLessThanWellFounded
  <1>3. \A x \in Nat, y \in Nat : x < y => <<x, y>> \in less
    BY DEF OpToRel
  <1> HIDE DEF less
  <1>4. PICK f \in set : \A g \in set : <<g, f>> \notin less
    BY <1>1, <1>2, WFMin
  <1>5. ASSUME NEW g \in set PROVE f <= g
    <2>1. g \in Nat /\ f \in Nat
      BY <1>1
    <2>2. ~ (g < f)
      BY <1>3, <1>4, <2>1
    <2> QED
      BY <2>1, <2>2
  <1> QED
    BY <1>5 DEF Lowest

\* A page that is mapped to a frame taken from the free ones shares neither that
\* frame nor its page table, and its old frame, if it had one, is given up.
LEMMA MapPageKeepsApart ==
  ASSUME IInv, NEW page \in UserPages, NEW f \in free,
         ~ NoTable(page, free \ {f}),
         MapPage(page, f, "user", free \ {f})
  PROVE  /\ free' \in SUBSET free
         /\ pde' \in [Slots -> EntrySet]
         /\ entries' \in [Frames -> [Entries -> EntrySet]]
         /\ Apart'
         /\ f \notin free'
         /\ \A r \in Slots, j \in Entries :
              Behind(r, j)' = IF r = page[1] /\ j = page[2] THEN f ELSE Behind(r, j)
  <1> DEFINE s == page[1]
             i == page[2]
             left == free \ {f}
             t == Lowest(left)
  <1>1. s \in UserSlots /\ i \in Entries /\ s \in Slots /\ f \in Frames /\ left \in SUBSET Frames
    BY DEF UserPages, IInv, Typed, Slots
  <1>2. Without(free, f) = left
    BY DEF Without
  <1>e. Entry(f, "user") \in EntrySet /\ Absent \in EntrySet /\ Absent.frame = ERROR
    BY <1>1 DEF Entry, EntrySet, Absent, Modes
  <1>3. CASE HasTable(s)
    <2>1. /\ free' = left
          /\ pde' = [pde EXCEPT ![s] = Entry(pde[s].frame, PdeUser(s, "user"))]
          /\ entries' = [entries EXCEPT ![pde[s].frame][i] = Entry(f, "user")]
      BY <1>3 DEF MapPage
    <2>2. pde[s].frame \in Frames
      BY <1>1, <1>3 DEF IInv, Typed, EntrySet, HasTable
    <2>3. pde' \in [Slots -> EntrySet] /\ \A r \in Slots : pde'[r].frame = pde[r].frame
      BY <1>1, <2>1, <2>2 DEF IInv, Typed, EntrySet, Entry, PdeUser, Modes
    <2>4. entries' \in [Frames -> [Entries -> EntrySet]]
      BY <1>1, <1>e, <2>1, <2>2 DEF IInv, Typed
    <2>5. \A r \in Slots : HasTable(r)' <=> HasTable(r)
      BY <2>3 DEF HasTable
    <2>6. \A r \in Slots, j \in Entries : HasTable(r) =>
            Leaf(r, j)' = IF r = s /\ j = i THEN f ELSE Leaf(r, j)
      <3> SUFFICES ASSUME NEW r \in Slots, NEW j \in Entries, HasTable(r)
                   PROVE  Leaf(r, j)' = IF r = s /\ j = i THEN f ELSE Leaf(r, j)
        OBVIOUS
      <3>1. pde[r].frame \in Frames /\ (pde[r].frame = pde[s].frame => r = s)
        BY <1>1 DEF IInv, Typed, EntrySet, HasTable, Apart, TablesApart
      <3>2. entries[pde[r].frame] \in [Entries -> EntrySet]
        BY <3>1 DEF IInv, Typed
      <3>3. CASE r = s
        <4>1. entries'[pde[s].frame] = [entries[pde[s].frame] EXCEPT ![i] = Entry(f, "user")]
          BY <2>1, <2>2 DEF IInv, Typed
        <4> QED
          BY <1>1, <2>3, <3>2, <3>3, <4>1 DEF Leaf, Entry
      <3>4. CASE r # s
        <4>1. entries'[pde[r].frame] = entries[pde[r].frame]
          BY <2>1, <2>2, <3>1, <3>4 DEF IInv, Typed
        <4> QED
          BY <2>3, <3>4, <4>1 DEF Leaf
      <3> QED
        BY <3>3, <3>4
    <2>7. TablesApart'
      BY <2>1, <2>3, <2>5 DEF IInv, Apart, TablesApart
    <2>8. \A r \in Slots : HasTable(r) => pde[r].frame # f
      BY DEF IInv, Apart, TablesApart
    <2>9. \A r \in UserSlots, j \in Entries : HasTable(r) => Leaf(r, j) # f \/ Leaf(r, j) = ERROR
      BY DEF IInv, Apart, LeavesApart
    <2>b. \A r \in Slots, j \in Entries :
            Behind(r, j)' = IF r = s /\ j = i THEN f ELSE Behind(r, j)
      BY <1>3, <2>5, <2>6 DEF Behind
    <2>10. f # ERROR /\ f \notin Regions
      BY <1>1 DEF ERROR, Frames, IInv
    <2>11. UserSlots \subseteq Slots
      BY DEF Slots
    <2> HIDE DEF s, i, left, t
    <2>12. LeavesApart'
      BY <1>1, <2>1, <2>3, <2>5, <2>6, <2>8, <2>9, <2>10, <2>11 DEF IInv, Apart, LeavesApart, left
    <2> QED
      BY <2>1, <2>3, <2>4, <2>7, <2>12, <2>b DEF Apart, left, s, i
  <1>4. CASE ~ HasTable(s)
    <2>0. left # {} /\ t \in left /\ t \in Frames /\ t # f
      <3>1. left # {}
        BY <1>4 DEF NoTable
      <3>2. t \in left /\ t \in Frames
        BY <1>1, <3>1, LowestIsIn
      <3> QED
        BY <3>1, <3>2
    <2>1. /\ free' = left \ {t}
          /\ pde' = [pde EXCEPT ![s] = Entry(t, "user")]
          /\ entries' = [entries EXCEPT ![t] = [ZeroTable EXCEPT ![i] = Entry(f, "user")]]
      BY <1>2, <1>4 DEF MapPage, Without
    <2>2. [ZeroTable EXCEPT ![i] = Entry(f, "user")] \in [Entries -> EntrySet]
      BY <1>1, <1>e DEF ZeroTable
    <2>3. /\ pde' \in [Slots -> EntrySet]
          /\ pde'[s].frame = t
          /\ \A r \in Slots \ {s} : pde'[r].frame = pde[r].frame
      BY <1>1, <2>0, <2>1 DEF IInv, Typed, EntrySet, Entry, Modes
    <2>4. entries' \in [Frames -> [Entries -> EntrySet]]
      BY <2>1, <2>2 DEF IInv, Typed
    <2>5. t # ERROR /\ f # ERROR /\ f \notin Regions /\ t \notin Regions /\ t \in free
      BY <1>1, <2>0 DEF ERROR, Frames, IInv
    <2>6. \A r \in Slots : HasTable(r)' <=> HasTable(r) \/ r = s
      BY <1>1, <2>3, <2>5 DEF HasTable
    <2>7. \A r \in Slots : HasTable(r) => pde[r].frame # f /\ pde[r].frame # t
      BY <2>5 DEF IInv, Apart, TablesApart
    <2>8. \A r \in UserSlots, j \in Entries : HasTable(r) =>
            Leaf(r, j) = ERROR \/ (Leaf(r, j) # f /\ Leaf(r, j) # t)
      BY <2>5 DEF IInv, Apart, LeavesApart
    <2>9. UserSlots \subseteq Slots
      BY DEF Slots
    <2>10. \A r \in Slots, j \in Entries : HasTable(r) => Leaf(r, j)' = Leaf(r, j)
      <3> SUFFICES ASSUME NEW r \in Slots, NEW j \in Entries, HasTable(r)
                   PROVE  Leaf(r, j)' = Leaf(r, j)
        OBVIOUS
      <3>1. pde[r].frame \in Frames /\ pde[r].frame # t /\ r # s
        BY <1>4, <2>7 DEF IInv, Typed, EntrySet, HasTable
      <3>2. entries'[pde[r].frame] = entries[pde[r].frame]
        BY <2>1, <3>1 DEF IInv, Typed
      <3> QED
        BY <2>3, <3>1, <3>2 DEF Leaf
    <2>11. \A j \in Entries : Leaf(s, j)' = IF j = i THEN f ELSE ERROR
      <3>1. entries'[t] = [ZeroTable EXCEPT ![i] = Entry(f, "user")]
        BY <2>0, <2>1 DEF IInv, Typed
      <3> QED
        BY <1>1, <1>e, <2>3, <3>1 DEF Leaf, Entry, ZeroTable
    <2>b. \A r \in Slots, j \in Entries :
            Behind(r, j)' = IF r = s /\ j = i THEN f ELSE Behind(r, j)
      BY <1>4, <2>6, <2>10, <2>11 DEF Behind
    <2>12. TablesApart'
      <3>1. ASSUME NEW q \in Slots, NEW r \in Slots, HasTable(q)', pde'[q].frame = pde'[r].frame
            PROVE  q = r
        <4>1. HasTable(r)'
          BY <3>1 DEF HasTable
        <4>2. CASE q = s \/ r = s
          BY <2>3, <2>6, <2>7, <3>1, <4>1, <4>2
        <4>3. CASE q # s /\ r # s
          BY <2>3, <2>6, <3>1, <4>3 DEF IInv, Apart, TablesApart
        <4> QED
          BY <4>2, <4>3
      <3>2. ASSUME NEW q \in Slots, HasTable(q)'
            PROVE  pde'[q].frame \notin free' \cup Regions
        BY <2>1, <2>3, <2>5, <2>6, <3>2 DEF IInv, Apart, TablesApart
      <3> QED
        BY <3>1, <3>2 DEF TablesApart
    <2> HIDE DEF s, i, left, t
    <2>13. LeavesApart'
      <3> SUFFICES ASSUME NEW r \in UserSlots, NEW j \in Entries, HasTable(r)', Leaf(r, j)' # ERROR
                   PROVE  /\ Leaf(r, j)' \notin free' \cup Regions
                          /\ \A q \in Slots : HasTable(q)' => Leaf(r, j)' # pde'[q].frame
                          /\ \A q \in UserSlots, k \in Entries :
                               HasTable(q)' /\ Leaf(q, k)' = Leaf(r, j)' => q = r /\ k = j
        BY DEF LeavesApart
      <3>1. CASE r = s
        BY <1>1, <1>4, <2>0, <2>1, <2>3, <2>5, <2>6, <2>7, <2>8, <2>9, <2>10, <2>11, <3>1 DEF left
      <3>2. CASE r # s
        <4>1. HasTable(r) /\ Leaf(r, j)' = Leaf(r, j)
          BY <2>6, <2>9, <2>10, <3>2
        <4> QED
          BY <1>1, <1>4, <2>0, <2>1, <2>3, <2>5, <2>6, <2>7, <2>8, <2>9, <2>10, <2>11, <3>2, <4>1
             DEF IInv, Apart, LeavesApart, left
      <3> QED
        BY <3>1, <3>2
    <2> QED
      BY <2>1, <2>3, <2>4, <2>12, <2>13, <2>b DEF Apart, left, s, i
  <1> QED
    BY <1>3, <1>4

\* The tables of user space, and what is free of frames, are as good as before.
LEMMA MapFreshKeepsApart ==
  ASSUME IInv, NEW page \in UserPages, NEW next, MapFresh(page, next)
  PROVE  /\ free' \in SUBSET free
         /\ pde' \in [Slots -> EntrySet]
         /\ entries' \in [Frames -> [Entries -> EntrySet]]
         /\ Apart'
         /\ phase' = next \/ (phase' = "panic" /\ todo' = todo)
         /\ \/ phase' = "panic" /\ UNCHANGED <<pde, entries, bytes, tlb, written>>
            \/ phase' = next /\ \E f \in free :
                 /\ bytes' = Cleared(f) /\ f \notin free'
                 /\ \A r \in Slots, j \in Entries :
                      Behind(r, j)' = IF r = page[1] /\ j = page[2] THEN f ELSE Behind(r, j)
  <1> DEFINE f == Lowest(free)
             left == free \ {f}
  <1>1. CASE free = {} \/ NoTable(page, left)
    <2>1. /\ phase' = "panic" /\ todo' = todo /\ free' = {}
          /\ pde' = pde /\ entries' = entries
          /\ bytes' = bytes /\ tlb' = tlb /\ written' = written
      BY <1>1 DEF MapFresh, Without, Panic
    <2>2. Apart'
      BY <2>1 DEF IInv, Apart, TablesApart, LeavesApart, HasTable, Leaf
    <2> QED
      BY <2>1, <2>2 DEF IInv, Typed
  <1>2. CASE free # {} /\ ~ NoTable(page, left)
    <2>1. f \in free
      BY <1>2, LowestIsIn DEF IInv, Typed
    <2>2. MapPage(page, f, "user", left) /\ phase' = next /\ bytes' = Cleared(f)
      BY <1>2 DEF MapFresh, Without
    <2> QED
      BY <1>2, <2>1, <2>2, MapPageKeepsApart
  <1> QED
    BY <1>1, <1>2

\* A step that leaves the frames and the tables alone.
LEMMA NothingMapped ==
  ASSUME IInv, UNCHANGED <<free, pde, entries>>,
         phase' \in {"frames", "paging"} => phase' = phase,
         todo' \in Seq(UserPages)
  PROVE  IInv'
  <1>1. Apart'
    BY DEF IInv, Apart, TablesApart, LeavesApart, HasTable, Leaf
  <1>2. NoTablesYet'
    BY DEF IInv, NoTablesYet
  <1> QED
    BY <1>1, <1>2 DEF IInv, Typed

\* A step that maps a fresh frame, after the kernel's tables are there.
LEMMA FreshFrame ==
  ASSUME IInv, NEW page \in UserPages, NEW next, MapFresh(page, next),
         next \notin {"frames", "paging"},
         todo' \in Seq(UserPages)
  PROVE  IInv'
  <1>1. /\ free' \in SUBSET free
        /\ pde' \in [Slots -> EntrySet]
        /\ entries' \in [Frames -> [Entries -> EntrySet]]
        /\ Apart'
        /\ phase' \notin {"frames", "paging"}
    BY MapFreshKeepsApart
  <1> QED
    BY <1>1 DEF IInv, Typed, NoTablesYet

\* initializePaging: the two tables of the kernel are different free frames, and
\* there is none for user space yet.
LEMMA KernelTables ==
  ASSUME IInv, InitializePaging
  PROVE  /\ IInv'
         /\ UNCHANGED <<bytes, tlb, written>>
         /\ \/ phase' = "panic" /\ UNCHANGED <<pde, entries>> /\ free' = {}
            \/ /\ phase' = "mapping"
               /\ \A i \in Entries : Behind(Low, i)' = i /\ Behind(High, i)' \in Regions \cup {ERROR}
               /\ \A s \in UserSlots, i \in Entries : Behind(s, i)' = ERROR
  <1> DEFINE t == Lowest(free)
             left == free \ {t}
             h == Lowest(left)
  <1>0. UNCHANGED <<bytes, tlb, written>>
    BY DEF InitializePaging, Panic
  <1>1. CASE free = {} \/ left = {}
    <2>1. /\ phase' = "panic" /\ todo' = todo /\ free' = {}
          /\ pde' = pde /\ entries' = entries
      BY <1>1 DEF InitializePaging, Without, Panic
    <2>2. Apart'
      BY <2>1 DEF IInv, Apart, TablesApart, LeavesApart, HasTable, Leaf
    <2> QED
      BY <1>0, <2>1, <2>2 DEF IInv, Typed, NoTablesYet
  <1>2. CASE free # {} /\ left # {}
    <2>1. /\ t \in free /\ h \in left /\ t \in Frames /\ h \in Frames
          /\ t # h /\ t \notin Regions /\ h \notin Regions /\ t # ERROR /\ h # ERROR
      <3>1. t \in free /\ t \in Frames
        BY <1>2, LowestIsIn DEF IInv, Typed
      <3>2. left \in SUBSET Frames
        BY DEF IInv, Typed
      <3>3. h \in left /\ h \in Frames
        BY <1>2, <3>2, LowestIsIn
      <3> QED
        BY <3>1, <3>3 DEF IInv, ERROR, Frames
    <2>2. /\ free' = (left \ {h}) \ {PAGING_STRUCT}
          /\ pde' = [pde EXCEPT ![Low] = Entry(t, "kernel"), ![High] = Entry(h, "user")]
          /\ entries' = [entries EXCEPT
                           ![t] = [i \in Entries |-> Entry(i, "kernel")],
                           ![h] = [i \in Entries |-> IF i \in Regions THEN Entry(i, "user")
                                                                      ELSE Absent]]
          /\ todo' = CodePages /\ phase' = "mapping" /\ phase = "paging"
      BY <1>2 DEF InitializePaging, Without
    <2>3. Low # High /\ Low \in Slots /\ High \in Slots /\ UserSlots \subseteq Slots
          /\ \A s \in UserSlots : s # Low /\ s # High
      BY SlotsAssumption DEF Slots
    <2>4. \A s \in Slots : pde[s].frame = ERROR
      BY <2>2 DEF IInv, NoTablesYet
    <2>5. Entry(t, "kernel") \in EntrySet /\ Entry(h, "user") \in EntrySet /\ Absent \in EntrySet
          /\ \A i \in Entries : Entry(i, "kernel") \in EntrySet /\ Entry(i, "user") \in EntrySet
      BY <2>1 DEF Entry, EntrySet, Absent, Modes, Entries
    <2>6. /\ pde' \in [Slots -> EntrySet]
          /\ pde'[Low].frame = t /\ pde'[High].frame = h
          /\ \A s \in Slots \ {Low, High} : pde'[s].frame = ERROR
      BY <2>2, <2>3, <2>4, <2>5 DEF IInv, Typed, Entry
    <2>7. entries' \in [Frames -> [Entries -> EntrySet]]
      <3>1. /\ [i \in Entries |-> Entry(i, "kernel")] \in [Entries -> EntrySet]
            /\ [i \in Entries |-> IF i \in Regions THEN Entry(i, "user") ELSE Absent]
                 \in [Entries -> EntrySet]
        BY <2>5
      <3> QED
        BY <2>2, <3>1 DEF IInv, Typed
    <2>8. \A s \in Slots : HasTable(s)' <=> s \in {Low, High}
      BY <2>1, <2>3, <2>6 DEF HasTable
    <2>9. TablesApart'
      BY <2>1, <2>2, <2>3, <2>6, <2>8 DEF TablesApart
    <2>10. LeavesApart'
      BY <2>3, <2>8 DEF LeavesApart
    <2>11. CodePages \in Seq(UserPages)
      BY SlotsAssumption
    <2>12. IInv'
      BY <2>2, <2>6, <2>7, <2>9, <2>10, <2>11 DEF IInv, Typed, NoTablesYet, Apart
    <2>13. \A i \in Entries : Behind(Low, i)' = i /\ Behind(High, i)' \in Regions \cup {ERROR}
      <3>1. /\ entries'[t] = [i \in Entries |-> Entry(i, "kernel")]
            /\ entries'[h] = [i \in Entries |-> IF i \in Regions THEN Entry(i, "user") ELSE Absent]
        BY <2>1, <2>2 DEF IInv, Typed
      <3>2. \A i \in Entries : Leaf(Low, i)' = i /\ Leaf(High, i)' \in Regions \cup {ERROR}
        BY <2>6, <3>1 DEF Leaf, Entry, Absent
      <3> QED
        BY <2>3, <2>8, <3>2 DEF Behind
    <2>14. \A s \in UserSlots, i \in Entries : Behind(s, i)' = ERROR
      BY <2>3, <2>8 DEF Behind
    <2> QED
      BY <1>0, <2>2, <2>12, <2>13, <2>14
  <1> QED
    BY <1>1, <1>2

-----------------------------------------------------------------------------
\* Before the frame table is filled there are no tables.
LEMMA InitHolds == Init => IInv
  <1> SUFFICES ASSUME Init PROVE IInv
    OBVIOUS
  <1>1. \A s \in Slots : pde[s].frame = ERROR
    BY DEF Init, Absent, Entry
  <1>2. Typed
    <2>1. Absent \in EntrySet
      BY DEF Absent, Entry, EntrySet, Modes
    <2> QED
      BY <2>1 DEF Init, Typed, ZeroTable
  <1>3. Apart
    BY <1>1 DEF Apart, TablesApart, LeavesApart, HasTable, Slots
  <1> QED
    BY <1>1, <1>2, <1>3 DEF Init, IInv, NoTablesYet

\* Every step keeps the frames apart.
LEMMA StepKeeps == IInv /\ [Next]_vars => IInv'
  <1> SUFFICES ASSUME IInv, [Next]_vars PROVE IInv'
    OBVIOUS
  <1>t. todo \in Seq(UserPages) /\ HeapPage \in UserPages
    BY SlotsAssumption DEF IInv, Typed
  <1>1. CASE InitializeMemoryManager
    <2>1. PICK available \in parseMemoryMap : free' = available \ Regions
      BY <1>1 DEF InitializeMemoryManager, settingReservedFrames
    <2>2. available \subseteq Frames
      BY DEF parseMemoryMap
    <2>3. /\ phase = "frames" /\ phase' = "paging"
          /\ todo' = todo /\ pde' = pde /\ entries' = entries
      BY <1>1 DEF InitializeMemoryManager
    <2>4. \A s \in Slots : pde[s].frame = ERROR
      BY <2>3 DEF IInv, NoTablesYet
    <2>5. Apart'
      BY <2>3, <2>4 DEF Apart, TablesApart, LeavesApart, HasTable, Slots
    <2> QED
      BY <2>1, <2>2, <2>3, <2>4, <2>5 DEF IInv, Typed, NoTablesYet
  <1>2. CASE InitializePaging
    BY <1>2, KernelTables
  <1>3. CASE MapUserPages
    <2>1. CASE todo = << >>
      BY <1>3, <1>t, <2>1, NothingMapped DEF MapUserPages
    <2>2. CASE todo # << >>
      <3>1. Head(todo) \in UserPages /\ Tail(todo) \in Seq(UserPages)
        BY <1>t, <2>2
      <3>2. MapFresh(Head(todo), "mapping") /\ (phase' = "mapping" => todo' = Tail(todo))
        BY <1>3, <2>2 DEF MapUserPages
      <3>3. todo' \in Seq(UserPages)
        BY <1>t, <3>1, <3>2, MapFreshKeepsApart
      <3> QED
        BY <3>1, <3>2, <3>3, FreshFrame
    <2> QED
      BY <2>1, <2>2
  <1>4. ASSUME NEW page, NEW next, next \in {"header", "run"}, Fault(page, next) PROVE IInv'
    <2>1. /\ page \in UserPages /\ MapFresh(page, next)
          /\ phase' = next => todo' = todo
      BY <1>4 DEF Fault
    <2>2. todo' \in Seq(UserPages)
      BY <1>t, <2>1, MapFreshKeepsApart
    <2> QED
      BY <1>4, <2>1, <2>2, FreshFrame
  <1>5. ASSUME NEW page, NEW who, NEW writes, Use(page, who, writes), phase' \in {"remap", "run"}
        PROVE  IInv'
    BY <1>5, <1>t, NothingMapped DEF Use
  <1>6. CASE UserHeapHeader
    BY <1>4, <1>5, <1>6 DEF UserHeapHeader
  <1>7. CASE UserHeapPage
    <2>1. MapFresh(HeapPage, "run") /\ (phase' = "run" => todo' = todo)
      BY <1>7 DEF UserHeapPage
    <2>2. todo' \in Seq(UserPages)
      BY <1>t, <2>1, MapFreshKeepsApart
    <2> QED
      BY <1>t, <2>1, <2>2, FreshFrame
  <1>8. CASE \E page \in Touched : DemandPage(page)
    BY <1>4, <1>8 DEF DemandPage
  <1>9. CASE \E page \in Touched : Forget(page)
    BY <1>9, <1>t, NothingMapped DEF Forget
  <1>10. CASE \E page \in Touched, who \in Modes : ProtectionFault(page, who)
    BY <1>10, <1>t, NothingMapped DEF ProtectionFault
  <1>11. CASE \E page \in Touched, who \in Modes, writes \in BOOLEAN : Access(page, who, writes)
    BY <1>5, <1>11 DEF Access
  <1>12. CASE UNCHANGED vars
    BY <1>12, <1>t, NothingMapped DEF vars
  <1> QED
    BY <1>1, <1>2, <1>3, <1>6, <1>7, <1>8, <1>9, <1>10, <1>11, <1>12 DEF Next

\* The strengthening is an invariant.
THEOREM Invariance == Spec => []IInv
  BY InitHolds, StepKeeps, PTL DEF Spec

\* Every frame has one use, for all values of the constants: a page of one program
\* is never another's, a page table, or memory of the kernel, and nothing that is in
\* use is handed out again (allocateFreeFrame, mapPage, pageFaultHandler).
THEOREM OneUse == Spec => []FramesHaveOneUse
  <1>1. IInv => FramesHaveOneUse
    <2> SUFFICES ASSUME IInv PROVE FramesHaveOneUse
      OBVIOUS
    <2>1. \A page \in Mapped : /\ page[1] \in UserSlots /\ page[2] \in Entries
                              /\ page = <<page[1], page[2]>>
                              /\ HasTable(page[1])
                              /\ FrameOf(page) = Leaf(page[1], page[2])
                              /\ FrameOf(page) # ERROR
      BY DEF Mapped, UserPages, FrameOf, Walk, Leaf, HasTable, Entry, Absent
    <2>2. UserSlots \subseteq Slots
      BY DEF Slots
    <2>3. \A x : x \in Tables <=> \E s \in Slots : HasTable(s) /\ x = pde[s].frame
      BY DEF Tables
    <2>4. \A p \in Mapped, q \in Mapped : FrameOf(p) = FrameOf(q) => p = q
      BY <2>1 DEF IInv, Apart, LeavesApart
    <2>5. \A s \in Slots, r \in Slots : HasTable(s) /\ pde[s].frame = pde[r].frame => s = r
      BY DEF IInv, Apart, TablesApart
    <2>6. \A p \in Mapped : FrameOf(p) \notin Tables \cup Regions \cup free
      BY <2>1, <2>3 DEF IInv, Apart, LeavesApart
    <2>7. Tables \cap (free \cup Regions) = {}
      BY <2>3 DEF IInv, Apart, TablesApart
    <2> QED
      BY <2>4, <2>5, <2>6, <2>7 DEF FramesHaveOneUse
  <1> QED
    BY <1>1, Invariance, PTL

-----------------------------------------------------------------------------
(* What pages hold.  A page reads as it should through the tables and      *)
(* through every translation that the processor may still remember, if the *)
(* frames the kernel writes under its own addresses are its own.           *)

KernelPagesAreRegions == \A p \in Touched : p[1] = Low => p[2] \in Regions

Contents ==
  /\ bytes \in [Frames -> Pages \cup {Junk, Zero}]
  /\ tlb \in [Pages -> EntrySet]
  /\ \A p \in Pages : tlb[p] # Absent => tlb[p].frame # ERROR
  /\ phase \in {"frames", "paging", "mapping"} => written = {} /\ \A p \in Pages : tlb[p] = Absent

\* The kernel's two slots.
KernelSlots ==
  \A i \in Entries :
    /\ Behind(Low, i) \in {i, ERROR} /\ Behind(High, i) \in Regions \cup {ERROR}
    /\ tlb[<<Low, i>>].frame \in {i, ERROR} /\ tlb[<<High, i>>].frame \in Regions \cup {ERROR}

\* A page that has no frame was never read or written.
PageIsRight(p) ==
  IF Behind(p[1], p[2]) = ERROR THEN tlb[p] = Absent /\ p \notin written
  ELSE /\ bytes[Behind(p[1], p[2])] = (IF p \in written THEN p ELSE Zero)
       /\ tlb[p] # Absent => tlb[p].frame = Behind(p[1], p[2])

\* The frame that the user heap's first page had before it was mapped again.
OldFrameIsNobodys ==
  tlb[HeapPage] # Absent =>
    /\ tlb[HeapPage].frame \notin free
    /\ \A p \in UserPages \ {HeapPage} : Behind(p[1], p[2]) # tlb[HeapPage].frame

Faithful ==
  /\ Contents /\ KernelSlots /\ OldFrameIsNobodys
  /\ \A p \in UserPages \ {HeapPage} : PageIsRight(p)

\* What a page is made of.
LEMMA PageParts ==
  ASSUME NEW p \in UserPages
  PROVE  /\ p \in Pages /\ p = <<p[1], p[2]>> /\ p[2] \in Entries
         /\ p[1] \in UserSlots /\ p[1] \in Slots /\ p[1] # Low /\ p[1] # High
  BY SlotsAssumption DEF UserPages, Pages, Slots

\* The kernel's pages are not user space.
LEMMA KernelParts ==
  ASSUME NEW i \in Entries
  PROVE  /\ <<Low, i>> \in Pages /\ <<High, i>> \in Pages
         /\ <<Low, i>> \notin UserPages /\ <<High, i>> \notin UserPages
         /\ Low \in Slots /\ High \in Slots /\ UserSlots \subseteq Slots
  BY SlotsAssumption DEF UserPages, Pages, Slots

\* Frames of different pages of user space are different, and not free or the kernel's.
LEMMA BehindApart ==
  ASSUME IInv, NEW p \in UserPages, Behind(p[1], p[2]) # ERROR
  PROVE  /\ Behind(p[1], p[2]) \in Frames
         /\ Behind(p[1], p[2]) \notin free \cup Regions
         /\ \A q \in UserPages : Behind(q[1], q[2]) = Behind(p[1], p[2]) => q = p
  <1>1. HasTable(p[1]) /\ Behind(p[1], p[2]) = Leaf(p[1], p[2])
    BY DEF Behind
  <1>2. p[1] \in UserSlots /\ p[1] \in Slots /\ p[2] \in Entries
    BY PageParts
  <1>3. Behind(p[1], p[2]) \in Frames
    <2>1. pde[p[1]].frame \in Frames
      BY <1>1, <1>2 DEF IInv, Typed, EntrySet, HasTable
    <2>2. entries[pde[p[1]].frame][p[2]] \in EntrySet
      BY <1>2, <2>1 DEF IInv, Typed
    <2> QED
      BY <1>1, <2>2 DEF Leaf, EntrySet
  <1>4. Behind(p[1], p[2]) \notin free \cup Regions
    BY <1>1, <1>2 DEF IInv, Apart, LeavesApart
  <1>5. ASSUME NEW q \in UserPages, Behind(q[1], q[2]) = Behind(p[1], p[2]) PROVE q = p
    <2>1. HasTable(q[1]) /\ Behind(q[1], q[2]) = Leaf(q[1], q[2])
      BY <1>5 DEF Behind
    <2>2. q[1] \in UserSlots /\ q[2] \in Entries /\ q = <<q[1], q[2]>> /\ p = <<p[1], p[2]>>
      BY PageParts
    <2>3. \A r \in UserSlots, j \in Entries :
            HasTable(r) /\ Leaf(r, j) = Leaf(p[1], p[2]) => r = p[1] /\ j = p[2]
      BY <1>1, <1>2 DEF IInv, Apart, LeavesApart
    <2>4. q[1] = p[1] /\ q[2] = p[2]
      BY <1>1, <1>5, <2>1, <2>2, <2>3
    <2> QED
      BY <2>2, <2>4
  <1> QED
    BY <1>3, <1>4, <1>5

\* The processor finds the frame the tables give, or the one it remembers.
LEMMA Translated ==
  ASSUME IInv, Contents, NEW p \in Pages
  PROVE  /\ Translate(p) \in EntrySet
         /\ Walk(p).frame = Behind(p[1], p[2])
         /\ Translate(p) = Absent \/ Translate(p).frame # ERROR
         /\ IF tlb[p] # Absent THEN Translate(p) = tlb[p]
            ELSE Translate(p).frame = Behind(p[1], p[2])
  <1>1. p[1] \in Slots /\ p[2] \in Entries
    BY DEF Pages
  <1>2. Absent \in EntrySet /\ Absent.frame = ERROR
    BY DEF Absent, Entry, EntrySet, Modes
  <1>3. Walk(p) \in EntrySet /\ (Walk(p) = Absent \/ Walk(p).frame # ERROR)
        /\ Walk(p).frame = Behind(p[1], p[2])
    <2>1. CASE ~ HasTable(p[1])
      BY <1>2, <2>1 DEF Walk, HasTable, Behind
    <2>2. CASE HasTable(p[1])
      <3> DEFINE d == pde[p[1]]
                 e == entries[d.frame][p[2]]
      <3>1. d.frame \in Frames /\ d.frame # ERROR /\ d.user \in Modes
        BY <1>1, <2>2 DEF IInv, Typed, EntrySet, HasTable
      <3>2. e \in EntrySet
        BY <1>1, <3>1 DEF IInv, Typed
      <3>3. Behind(p[1], p[2]) = e.frame
        BY <2>2 DEF Behind, Leaf
      <3>4. Walk(p) = IF e.frame = ERROR THEN Absent
                      ELSE Entry(e.frame, IF d.user = "user" THEN e.user ELSE "kernel")
        BY <3>1 DEF Walk
      <3> HIDE DEF d, e
      <3> QED
        BY <1>2, <3>2, <3>3, <3>4 DEF Entry, EntrySet, Modes
    <2> QED
      BY <2>1, <2>2
  <1> QED
    BY <1>3 DEF Translate, Contents

\* A step after which tables, contents and translations are what they were.
LEMMA NothingWritten ==
  ASSUME Faithful, UNCHANGED <<pde, entries, bytes, tlb, written>>,
         free' \subseteq free \/ tlb[HeapPage] = Absent,
         phase' \in {"frames", "paging", "mapping"} => phase \in {"frames", "paging", "mapping"}
  PROVE  Faithful'
  <1>1. \A s \in Slots, i \in Entries : Behind(s, i)' = Behind(s, i)
    BY DEF Behind, HasTable, Leaf
  <1>2. Contents'
    BY DEF Faithful, Contents
  <1>3. KernelSlots'
    BY <1>1, KernelParts DEF Faithful, KernelSlots
  <1>4. \A p \in UserPages : Behind(p[1], p[2])' = Behind(p[1], p[2])
    BY <1>1, PageParts
  <1>5. OldFrameIsNobodys'
    BY <1>4 DEF Faithful, OldFrameIsNobodys
  <1>6. ASSUME NEW p \in UserPages \ {HeapPage} PROVE PageIsRight(p)'
    BY <1>4 DEF Faithful, PageIsRight
  <1> QED
    BY <1>2, <1>3, <1>5, <1>6 DEF Faithful

\* A page that gets a fresh frame reads as zeroes, and the others as before.
LEMMA FreshPage ==
  ASSUME IInv, Faithful, NEW page \in UserPages, NEW next, MapFresh(page, next),
         next \notin {"frames", "paging"}, next = "mapping" => phase = "mapping",
         UNCHANGED <<tlb, written>>,
         page # HeapPage => tlb[page] = Absent /\ page \notin written
  PROVE  Faithful'
  <1>1. /\ free' \in SUBSET free
        /\ phase' \in {next, "panic"}
        /\ \/ phase' = "panic" /\ UNCHANGED <<pde, entries, bytes, tlb, written>>
           \/ \E f \in free :
                /\ bytes' = Cleared(f) /\ f \notin free'
                /\ \A r \in Slots, j \in Entries :
                     Behind(r, j)' = IF r = page[1] /\ j = page[2] THEN f ELSE Behind(r, j)
    BY MapFreshKeepsApart
  <1>2. CASE phase' = "panic" /\ UNCHANGED <<pde, entries, bytes, tlb, written>>
    BY <1>1, <1>2, NothingWritten
  <1>3. ASSUME NEW f \in free, bytes' = Cleared(f), f \notin free',
               \A r \in Slots, j \in Entries :
                 Behind(r, j)' = IF r = page[1] /\ j = page[2] THEN f ELSE Behind(r, j)
        PROVE  Faithful'
    <2>1. f \in Frames /\ f # ERROR
      BY DEF IInv, Typed, ERROR, Frames
    <2>2. /\ bytes' \in [Frames -> Pages \cup {Junk, Zero}]
          /\ bytes'[f] = Zero /\ \A g \in Frames \ {f} : bytes'[g] = bytes[g]
      BY <1>3, <2>1 DEF Cleared, Faithful, Contents
    <2>3. Contents'
      BY <1>1, <2>2 DEF Faithful, Contents
    <2>4. \A i \in Entries : Behind(Low, i)' = Behind(Low, i) /\ Behind(High, i)' = Behind(High, i)
      BY <1>3, PageParts, KernelParts
    <2>5. KernelSlots'
      BY <2>4 DEF Faithful, KernelSlots
    <2>6. \A p \in UserPages :
            Behind(p[1], p[2])' = IF p = page THEN f ELSE Behind(p[1], p[2])
      <3> SUFFICES ASSUME NEW p \in UserPages
                   PROVE  Behind(p[1], p[2])' = IF p = page THEN f ELSE Behind(p[1], p[2])
        OBVIOUS
      <3>1. /\ p[1] \in Slots /\ p[2] \in Entries /\ p = <<p[1], p[2]>>
            /\ page = <<page[1], page[2]>>
        BY PageParts
      <3> QED
        BY <1>3, <3>1
    <2>7. OldFrameIsNobodys'
      BY <1>1, <2>6 DEF Faithful, OldFrameIsNobodys
    <2>8. ASSUME NEW p \in UserPages \ {HeapPage} PROVE PageIsRight(p)'
      <3>1. CASE p = page
        BY <2>1, <2>2, <2>6, <3>1 DEF PageIsRight
      <3>2. CASE p # page
        <4>1. Behind(p[1], p[2])' = Behind(p[1], p[2]) /\ PageIsRight(p)
          BY <2>6, <3>2 DEF Faithful
        <4>2. CASE Behind(p[1], p[2]) = ERROR
          BY <4>1, <4>2 DEF PageIsRight
        <4>3. CASE Behind(p[1], p[2]) # ERROR
          <5>1. Behind(p[1], p[2]) \in Frames \ {f}
            BY <4>3, BehindApart
          <5> QED
            BY <2>2, <4>1, <4>3, <5>1 DEF PageIsRight
        <4> QED
          BY <4>2, <4>3
      <3> QED
        BY <3>1, <3>2
    <2> QED
      BY <2>3, <2>5, <2>7, <2>8 DEF Faithful
  <1> QED
    BY <1>1, <1>2, <1>3

\* Reading or writing a page touches no other page's frame.
LEMMA UsedPage ==
  ASSUME IInv, Faithful, NEW page \in Pages, page[1] = Low => page[2] \in Regions,
         NEW who, NEW writes \in BOOLEAN, Use(page, who, writes), phase' \in {"remap", "run"}
  PROVE  Faithful'
  <1> DEFINE e == Translate(page)
  <1>1. /\ e.frame # ERROR
        /\ tlb' = [tlb EXCEPT ![page] = e]
        /\ bytes' = IF writes THEN [bytes EXCEPT ![e.frame] = page] ELSE bytes
        /\ written' = IF writes THEN written \cup {page} ELSE written
        /\ free' = free /\ pde' = pde /\ entries' = entries
    BY DEF Use
  <1>2. /\ e \in EntrySet /\ e.frame \in Frames
        /\ IF tlb[page] # Absent THEN e = tlb[page] ELSE e.frame = Behind(page[1], page[2])
    <2>1. e \in EntrySet
          /\ IF tlb[page] # Absent THEN e = tlb[page] ELSE e.frame = Behind(page[1], page[2])
      BY Translated DEF Faithful
    <2> QED
      BY <1>1, <2>1 DEF EntrySet
  <1> HIDE DEF e
  <1>3. ASSUME NEW q \in UserPages \ {HeapPage}, q # page
        PROVE  Behind(q[1], q[2]) # e.frame
    <2> SUFFICES ASSUME Behind(q[1], q[2]) = e.frame PROVE FALSE
      OBVIOUS
    <2>1. /\ Behind(q[1], q[2]) \notin Regions
          /\ \A p \in UserPages : Behind(p[1], p[2]) = Behind(q[1], q[2]) => p = q
      BY <1>1, BehindApart
    <2>2. CASE page \in UserPages \ {HeapPage}
      <3>1. PageIsRight(page)
        BY <2>2 DEF Faithful
      <3>2. e.frame = Behind(page[1], page[2])
        BY <1>1, <1>2, <3>1 DEF PageIsRight
      <3> QED
        BY <1>3, <2>1, <2>2, <3>2
    <2>3. CASE page = HeapPage
      <3>1. tlb[HeapPage] = Absent
        BY <1>2, <2>3 DEF Faithful, OldFrameIsNobodys
      <3> QED
        BY <1>2, <1>3, <2>1, <2>3, <3>1, SlotsAssumption
    <2>4. CASE page \notin UserPages
      <3>1. page = <<page[1], page[2]>> /\ page[2] \in Entries /\ page[1] \in {Low, High}
        BY <2>4 DEF Pages, UserPages, Slots
      <3>2. /\ Behind(Low, page[2]) \in {page[2], ERROR}
            /\ Behind(High, page[2]) \in Regions \cup {ERROR}
            /\ tlb[<<Low, page[2]>>].frame \in {page[2], ERROR}
            /\ tlb[<<High, page[2]>>].frame \in Regions \cup {ERROR}
        BY <3>1 DEF Faithful, KernelSlots
      <3>3. e.frame \in Regions
        <4>1. CASE page[1] = Low
          BY <1>1, <1>2, <3>1, <3>2, <4>1
        <4>2. CASE page[1] = High
          BY <1>1, <1>2, <3>1, <3>2, <4>2
        <4> QED
          BY <3>1, <4>1, <4>2
      <3> QED
        BY <2>1, <3>3
    <2> QED
      BY <2>2, <2>3, <2>4
  <1>4. \A s \in Slots, i \in Entries : Behind(s, i)' = Behind(s, i)
    BY <1>1 DEF Behind, HasTable, Leaf
  <1>5. \A p \in UserPages : Behind(p[1], p[2])' = Behind(p[1], p[2])
    BY <1>4, PageParts
  <1>6. /\ bytes' \in [Frames -> Pages \cup {Junk, Zero}]
        /\ writes => bytes'[e.frame] = page
        /\ \A g \in Frames \ {e.frame} : bytes'[g] = bytes[g]
        /\ ~ writes => bytes' = bytes
    BY <1>1, <1>2 DEF Faithful, Contents
  <1>7. /\ tlb' \in [Pages -> EntrySet] /\ tlb'[page] = e
        /\ \A p \in Pages \ {page} : tlb'[p] = tlb[p]
    BY <1>1, <1>2 DEF Faithful, Contents
  <1>8. Contents'
    BY <1>1, <1>6, <1>7 DEF Faithful, Contents
  <1>9. KernelSlots'
    <2> SUFFICES ASSUME NEW i \in Entries
                 PROVE  /\ Behind(Low, i)' \in {i, ERROR} /\ Behind(High, i)' \in Regions \cup {ERROR}
                        /\ tlb'[<<Low, i>>].frame \in {i, ERROR}
                        /\ tlb'[<<High, i>>].frame \in Regions \cup {ERROR}
      BY DEF KernelSlots
    <2>1. /\ Behind(Low, i) \in {i, ERROR} /\ Behind(High, i) \in Regions \cup {ERROR}
          /\ tlb[<<Low, i>>].frame \in {i, ERROR} /\ tlb[<<High, i>>].frame \in Regions \cup {ERROR}
      BY DEF Faithful, KernelSlots
    <2>2. /\ <<Low, i>> \in Pages /\ <<High, i>> \in Pages /\ Low \in Slots /\ High \in Slots
      BY KernelParts
    <2>3. tlb'[<<Low, i>>].frame \in {i, ERROR}
      <3>1. CASE page = <<Low, i>>
        BY <1>2, <1>7, <2>1, <3>1
      <3>2. CASE page # <<Low, i>>
        BY <1>7, <2>1, <2>2, <3>2
      <3> QED
        BY <3>1, <3>2
    <2>4. tlb'[<<High, i>>].frame \in Regions \cup {ERROR}
      <3>1. CASE page = <<High, i>>
        BY <1>2, <1>7, <2>1, <3>1
      <3>2. CASE page # <<High, i>>
        BY <1>7, <2>1, <2>2, <3>2
      <3> QED
        BY <3>1, <3>2
    <2> QED
      BY <1>4, <2>1, <2>2, <2>3, <2>4
  <1>10. OldFrameIsNobodys'
    <2>1. CASE page = HeapPage
      <3>1. e.frame \notin free
        <4>1. CASE tlb[HeapPage] # Absent
          BY <1>2, <2>1, <4>1 DEF Faithful, OldFrameIsNobodys
        <4>2. CASE tlb[HeapPage] = Absent
          BY <1>1, <1>2, <2>1, <4>2, BehindApart, SlotsAssumption
        <4> QED
          BY <4>1, <4>2
      <3> QED
        BY <1>1, <1>3, <1>5, <1>7, <2>1, <3>1 DEF OldFrameIsNobodys
    <2>2. CASE page # HeapPage
      <3>1. tlb'[HeapPage] = tlb[HeapPage]
        BY <1>7, <2>2, PageParts, SlotsAssumption
      <3> QED
        BY <1>1, <1>5, <3>1 DEF Faithful, OldFrameIsNobodys
    <2> QED
      BY <2>1, <2>2
  <1>11. ASSUME NEW p \in UserPages \ {HeapPage} PROVE PageIsRight(p)'
    <2>1. PageIsRight(p) /\ p \in Pages
      BY PageParts DEF Faithful
    <2>2. CASE p = page
      <3>1. e.frame = Behind(p[1], p[2]) /\ Behind(p[1], p[2]) # ERROR
        BY <1>1, <1>2, <2>1, <2>2 DEF PageIsRight
      <3> QED
        BY <1>1, <1>5, <1>6, <1>7, <2>1, <2>2, <3>1 DEF PageIsRight
    <2>3. CASE p # page
      <3>1. tlb'[p] = tlb[p] /\ (p \in written' <=> p \in written)
        BY <1>1, <1>7, <2>1, <2>3
      <3>2. CASE Behind(p[1], p[2]) = ERROR
        BY <1>5, <2>1, <3>1, <3>2 DEF PageIsRight
      <3>3. CASE Behind(p[1], p[2]) # ERROR
        <4>1. Behind(p[1], p[2]) \in Frames \ {e.frame}
          BY <1>3, <2>3, <3>3, BehindApart
        <4> QED
          BY <1>5, <1>6, <2>1, <3>1, <3>3, <4>1 DEF PageIsRight
      <3> QED
        BY <3>2, <3>3
    <2> QED
      BY <2>2, <2>3
  <1> QED
    BY <1>8, <1>9, <1>10, <1>11 DEF Faithful

\* Every step keeps what pages hold.
LEMMA StepIsFaithful ==
  KernelPagesAreRegions /\ IInv /\ Faithful /\ [Next]_vars => Faithful'
  <1> SUFFICES ASSUME KernelPagesAreRegions, IInv, Faithful, [Next]_vars PROVE Faithful'
    OBVIOUS
  <1>1. todo \in Seq(UserPages) /\ HeapPage \in UserPages /\ HeapPage \in Pages /\ Touched \subseteq Pages
        /\ HeapPage[1] # Low
    BY PageParts, SlotsAssumption DEF IInv, Typed
  <1>2. CASE InitializeMemoryManager
    <2>1. tlb[HeapPage] = Absent
      BY <1>1, <1>2 DEF InitializeMemoryManager, Faithful, Contents
    <2> QED
      BY <1>2, <2>1, NothingWritten DEF InitializeMemoryManager
  <1>3. CASE InitializePaging
    <2>1. \/ phase' = "panic" /\ UNCHANGED <<pde, entries, bytes, tlb, written>> /\ free' = {}
          \/ /\ phase' = "mapping" /\ UNCHANGED <<bytes, tlb, written>>
             /\ \A i \in Entries : Behind(Low, i)' = i /\ Behind(High, i)' \in Regions \cup {ERROR}
             /\ \A s \in UserSlots, i \in Entries : Behind(s, i)' = ERROR
      BY <1>3, KernelTables
    <2>2. CASE phase' = "panic" /\ UNCHANGED <<pde, entries, bytes, tlb, written>> /\ free' = {}
      BY <2>2, NothingWritten
    <2>3. CASE /\ phase' = "mapping" /\ UNCHANGED <<bytes, tlb, written>>
               /\ \A i \in Entries : Behind(Low, i)' = i /\ Behind(High, i)' \in Regions \cup {ERROR}
               /\ \A s \in UserSlots, i \in Entries : Behind(s, i)' = ERROR
      <3>1. phase = "paging"
        BY <1>3 DEF InitializePaging
      <3>2. written = {} /\ \A p \in Pages : tlb[p] = Absent
        BY <3>1 DEF Faithful, Contents
      <3>3. Contents'
        BY <2>3, <3>2 DEF Faithful, Contents
      <3>4. KernelSlots'
        BY <2>3, KernelParts DEF Faithful, KernelSlots
      <3>5. OldFrameIsNobodys'
        BY <1>1, <2>3, <3>2 DEF OldFrameIsNobodys
      <3>6. ASSUME NEW p \in UserPages \ {HeapPage} PROVE PageIsRight(p)'
        BY <2>3, <3>2, PageParts DEF PageIsRight
      <3> QED
        BY <3>3, <3>4, <3>5, <3>6 DEF Faithful
    <2> QED
      BY <2>1, <2>2, <2>3
  <1>4. CASE MapUserPages
    <2>1. CASE todo = << >>
      BY <1>4, <2>1, NothingWritten DEF MapUserPages
    <2>2. CASE todo # << >>
      <3>1. Head(todo) \in UserPages
        BY <1>1, <2>2
      <3>2. /\ MapFresh(Head(todo), "mapping") /\ phase = "mapping"
            /\ phase' = "mapping" => UNCHANGED <<tlb, written>>
        BY <1>4, <2>2 DEF MapUserPages
      <3>3. UNCHANGED <<tlb, written>>
        BY <3>1, <3>2, MapFreshKeepsApart
      <3>4. tlb[Head(todo)] = Absent /\ Head(todo) \notin written
        BY <3>1, <3>2, PageParts DEF Faithful, Contents
      <3> QED
        BY <3>1, <3>2, <3>3, <3>4, FreshPage
    <2> QED
      BY <2>1, <2>2
  <1>5. ASSUME NEW page \in Pages, NEW next, next \in {"header", "run"}, Fault(page, next)
        PROVE  Faithful'
    <2>1. /\ page \in UserPages /\ MapFresh(page, next) /\ Translate(page).frame = ERROR
          /\ phase' = next => UNCHANGED <<tlb, written>>
      BY <1>5 DEF Fault
    <2>2. UNCHANGED <<tlb, written>>
      BY <2>1, MapFreshKeepsApart
    <2>3. tlb[page] = Absent /\ Behind(page[1], page[2]) = ERROR
      BY <2>1, Translated DEF Faithful, Contents
    <2>4. page # HeapPage => page \notin written
      BY <2>1, <2>3 DEF Faithful, PageIsRight
    <2> QED
      BY <1>5, <2>1, <2>2, <2>3, <2>4, FreshPage
  <1>6. CASE UserHeapHeader
    <2>1. CASE Translate(HeapPage).frame = ERROR
      BY <1>1, <1>5, <1>6, <2>1 DEF UserHeapHeader
    <2>2. CASE Translate(HeapPage).frame # ERROR
      <3>1. Use(HeapPage, "kernel", TRUE) /\ phase' = "remap"
        BY <1>6, <2>2 DEF UserHeapHeader
      <3> QED
        BY <1>1, <3>1, UsedPage
    <2> QED
      BY <2>1, <2>2
  <1>7. CASE UserHeapPage
    <2>1. MapFresh(HeapPage, "run") /\ (phase' = "run" => UNCHANGED <<tlb, written>>)
      BY <1>7 DEF UserHeapPage
    <2>2. UNCHANGED <<tlb, written>>
      BY <1>1, <2>1, MapFreshKeepsApart
    <2> QED
      BY <1>1, <2>1, <2>2, FreshPage
  <1>8. CASE \E page \in Touched : DemandPage(page)
    BY <1>1, <1>5, <1>8 DEF DemandPage
  <1>9. ASSUME NEW page \in Touched, Forget(page) PROVE Faithful'
    <2>1. /\ tlb' = [tlb EXCEPT ![page] = Absent] /\ phase' = phase /\ phase \in {"remap", "run"}
          /\ free' = free /\ pde' = pde /\ entries' = entries /\ bytes' = bytes /\ written' = written
      BY <1>9 DEF Forget
    <2>2. Absent \in EntrySet /\ Absent.frame = ERROR
      BY DEF Absent, Entry, EntrySet, Modes
    <2>3. /\ tlb' \in [Pages -> EntrySet]
          /\ \A p \in Pages : tlb'[p] = Absent \/ tlb'[p] = tlb[p]
      BY <1>1, <2>1, <2>2 DEF Faithful, Contents
    <2>4. \A s \in Slots, i \in Entries : Behind(s, i)' = Behind(s, i)
      BY <2>1 DEF Behind, HasTable, Leaf
    <2>5. \A p \in UserPages : Behind(p[1], p[2])' = Behind(p[1], p[2])
      BY <2>4, PageParts
    <2>6. Contents'
      BY <2>1, <2>3 DEF Faithful, Contents
    <2>7. KernelSlots'
      BY <2>2, <2>3, <2>4, KernelParts DEF Faithful, KernelSlots
    <2>8. OldFrameIsNobodys'
      BY <1>1, <2>1, <2>3, <2>5 DEF Faithful, OldFrameIsNobodys
    <2>9. ASSUME NEW p \in UserPages \ {HeapPage} PROVE PageIsRight(p)'
      BY <2>1, <2>3, <2>5, PageParts DEF Faithful, PageIsRight
    <2> QED
      BY <2>6, <2>7, <2>8, <2>9 DEF Faithful
  <1>10. CASE \E page \in Touched, who \in Modes : ProtectionFault(page, who)
    BY <1>10, NothingWritten DEF ProtectionFault
  <1>11. ASSUME NEW page \in Touched, NEW who \in Modes, NEW writes \in BOOLEAN,
                Access(page, who, writes)
         PROVE  Faithful'
    <2>1. Use(page, who, writes) /\ phase' = "run"
      BY <1>11 DEF Access
    <2>2. page \in Pages /\ (page[1] = Low => page[2] \in Regions)
      BY <1>1 DEF KernelPagesAreRegions
    <2> QED
      BY <2>1, <2>2, UsedPage
  <1>12. CASE UNCHANGED vars
    BY <1>12, NothingWritten DEF vars
  <1> QED
    BY <1>2, <1>3, <1>4, <1>6, <1>7, <1>8, <1>9, <1>10, <1>11, <1>12 DEF Next

\* A page of user space reads as zeroes until it is written and then as what was
\* written, for all values of the constants, also through a translation that the
\* processor remembers: nothing else is ever written through its frame, and its frame
\* never changes (pageFaultHandler, mapPage).  The kernel's data lie in its regions.
THEOREM BytesStay ==
  ASSUME KernelPagesAreRegions
  PROVE  Spec => []PagesKeepTheirBytes
  <1>1. Init => Faithful
    <2> SUFFICES ASSUME Init PROVE Faithful
      OBVIOUS
    <2>1. Absent \in EntrySet /\ Absent.frame = ERROR
      BY DEF Absent, Entry, EntrySet, Modes
    <2>2. \A s \in Slots, i \in Entries : Behind(s, i) = ERROR
      BY <2>1 DEF Init, Behind, HasTable
    <2>3. Contents
      BY <2>1 DEF Init, Contents
    <2>4. KernelSlots
      BY <2>1, <2>2, KernelParts DEF Init, KernelSlots
    <2>5. OldFrameIsNobodys
      BY PageParts, SlotsAssumption DEF Init, OldFrameIsNobodys
    <2>6. ASSUME NEW p \in UserPages \ {HeapPage} PROVE PageIsRight(p)
      BY <2>2, PageParts DEF Init, PageIsRight
    <2> QED
      BY <2>3, <2>4, <2>5, <2>6 DEF Faithful
  <1>2. IInv /\ Faithful => PagesKeepTheirBytes
    <2> SUFFICES ASSUME IInv, Faithful, NEW p \in Mapped \ {HeapPage}
                 PROVE  /\ bytes[FrameOf(p)] = (IF p \in written THEN p ELSE Zero)
                        /\ tlb[p] # Absent => tlb[p].frame = FrameOf(p)
      BY DEF PagesKeepTheirBytes
    <2>1. p \in UserPages \ {HeapPage} /\ FrameOf(p) # ERROR
      BY DEF Mapped
    <2>2. FrameOf(p) = Behind(p[1], p[2])
      BY <2>1, PageParts, Translated DEF FrameOf, Faithful
    <2> QED
      BY <2>1, <2>2 DEF Faithful, PageIsRight
  <1> QED
    BY <1>1, <1>2, StepIsFaithful, Invariance, PTL DEF Spec
=============================================================================

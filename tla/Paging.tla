------------------------------- MODULE Paging -------------------------------
(***************************************************************************)
(* Memory/memoryMap.c, paging.c, pageFault.c and the part of heap.c that   *)
(* maps the user heap: the frame table, page directory and page tables,    *)
(* the boot sequence that fills them, and demand paging afterwards.        *)
(*                                                                         *)
(* The processor's TLB is part of the state: nothing in the code ever      *)
(* invalidates an entry, and the hardware drops entries when it likes.     *)
(* The kernel reaches every frame under its own address (the low mapping   *)
(* has exactly TOTAL_FRAMES pages), so its memset of a frame is direct.    *)
(***************************************************************************)
EXTENDS Integers, Sequences

CONSTANTS FRAMES,         \* TOTAL_FRAMES, and entries of a page table
          Regions,        \* frames of the kernel's own regions
          Firmware,       \* frames the BIOS map may report as not available
          PAGING_STRUCT,  \* the frame of the page directory
          Low, High,      \* 4 MB slots: identity mapping, higher half
          UserSlots,      \* the slots between USER_SPACE_START and USER_SPACE_END
          CodePages,      \* pages mapUserPages maps, in order; the stack is last
          HeapPage,       \* page of USER_HEAP_START
          Touched,        \* pages that user and kernel code access
          Junk, Zero      \* contents of a frame nobody has written, of a cleared one

ERROR == -1
Frames == 0 .. FRAMES - 1
Entries == Frames
Slots == {Low, High} \cup UserSlots
Pages == Slots \X Entries
UserPages == UserSlots \X Entries
Modes == {"user", "kernel"}

ASSUME FramesAssumption ==
  /\ FRAMES \in Nat
  /\ Regions \subseteq Frames /\ Firmware \subseteq Frames
  /\ PAGING_STRUCT \in Regions
ASSUME SlotsAssumption ==
  /\ Low # High /\ {Low, High} \cap UserSlots = {}
  /\ CodePages \in Seq(UserPages)
  /\ HeapPage \in UserPages
  /\ Touched \subseteq Pages

VARIABLES
  phase,      \* how far obos_main has come
  todo,       \* mapPage calls that initializePaging has still to make
  free,       \* frames whose isFree is set
  pde,        \* page directory: for every slot a page table's frame, and who may use it
  entries,    \* what every frame holds, read as a page table
  bytes,      \* what every frame holds, read as data: the page it was written through
  tlb,        \* translations the processor remembers
  written     \* history: pages that have been written

vars == <<phase, todo, free, pde, entries, bytes, tlb, written>>

Entry(f, who) == [frame |-> f, user |-> who]
Absent == Entry(ERROR, "kernel")
ZeroTable == [i \in Entries |-> Absent]

Init ==
  /\ phase = "frames"
  /\ todo = << >>
  /\ free = {}
  /\ pde = [s \in Slots |-> Absent]
  /\ entries = [f \in Frames |-> ZeroTable]
  /\ bytes = [f \in Frames |-> Junk]
  /\ tlb = [p \in Pages |-> Absent]
  /\ written = {}

-----------------------------------------------------------------------------
(* Frames.                                                                 *)

\* parseMemoryMap: the BIOS reports some frames as not available.
parseMemoryMap == {Frames \ reported : reported \in SUBSET Firmware}

\* reserveKernelRegions and settingReservedFrames.
settingReservedFrames(available) == available \ Regions

InitializeMemoryManager ==
  /\ phase = "frames"
  /\ \E available \in parseMemoryMap : free' = settingReservedFrames(available)
  /\ phase' = "paging"
  /\ UNCHANGED <<todo, pde, entries, bytes, tlb, written>>

\* allocateFreeFrame returns the first free frame.
Lowest(set) == CHOOSE f \in set : \A g \in set : f <= g

\* Mutant: the frame that is handed out stays free.
Without_NotMarked(set, f) == set

Without(set, f) == set \ {f}

-----------------------------------------------------------------------------
(* Page tables.                                                            *)

Panic ==
  /\ phase' = "panic"
  /\ UNCHANGED <<todo, pde, entries, bytes, tlb, written>>

HasTable(s) == pde[s].frame # ERROR

PdeUser(s, who) == IF who = "user" THEN "user" ELSE pde[s].user

\* mapPage with getOrCreatePageTable, given the frames that are still free.
MapPage(page, f, who, left) ==
  LET s == page[1]
      i == page[2]
      t == Lowest(left)
  IN  IF HasTable(s)
      THEN /\ free' = left
           /\ pde' = [pde EXCEPT ![s] = Entry(pde[s].frame, PdeUser(s, who))]
           /\ entries' = [entries EXCEPT ![pde[s].frame][i] = Entry(f, who)]
      ELSE /\ left # {}
           /\ free' = Without(left, t)
           /\ pde' = [pde EXCEPT ![s] = Entry(t, who)]
           /\ entries' = [entries EXCEPT ![t] = [ZeroTable EXCEPT ![i] = Entry(f, who)]]

\* mapPage has to create a page table and there is no frame for it.
NoTable(page, left) == ~ HasTable(page[1]) /\ left = {}

\* Mutant: a fresh frame keeps what it held before.
Cleared_Not(f) == bytes

Cleared(f) == [bytes EXCEPT ![f] = Zero]

\* allocateFreeFrame, memset, mapPage: a page gets a frame of its own.
MapFresh(page, next) ==
  LET f == Lowest(free)
      left == Without(free, f)
  IN  IF free = {} \/ NoTable(page, left)
      THEN Panic /\ free' = {}
      ELSE /\ MapPage(page, f, "user", left)
           /\ bytes' = Cleared(f)
           /\ phase' = next

\* initializePaging up to mapUserPages: the directory, the low slot whose pages
\* are the frames of the same number, and the kernel's regions once more in the
\* higher half.  mapMemoryRegion is called with SUPERVISOR_ONLY, which is 0, for
\* isKernel: those pages come out open to user code.
InitializePaging ==
  LET t == Lowest(free)
      left == Without(free, t)
      h == Lowest(left)
  IN  /\ phase = "paging"
      /\ IF free = {} \/ left = {}
         THEN Panic /\ free' = {}
         ELSE /\ free' = Without(left, h) \ {PAGING_STRUCT}
              /\ pde' = [pde EXCEPT ![Low] = Entry(t, "kernel"), ![High] = Entry(h, "user")]
              /\ entries' = [entries EXCEPT
                               ![t] = [i \in Entries |-> Entry(i, "kernel")],
                               ![h] = [i \in Entries |-> IF i \in Regions THEN Entry(i, "user")
                                                                          ELSE Absent]]
              /\ todo' = CodePages
              /\ phase' = "mapping"
              /\ UNCHANGED <<bytes, tlb, written>>

\* mapUserPages: one page after the other, the stack last.
MapUserPages ==
  /\ phase = "mapping"
  /\ IF todo = << >>
     THEN /\ phase' = "header"                \* enablePagingNow
          /\ UNCHANGED <<todo, free, pde, entries, bytes, tlb, written>>
     ELSE /\ MapFresh(Head(todo), "mapping")
          /\ phase' = "mapping" => todo' = Tail(todo) /\ UNCHANGED <<tlb, written>>

-----------------------------------------------------------------------------
(* Paging is on.                                                           *)

\* What the processor finds in directory and table; user code needs the
\* permission of both.
Walk(page) ==
  LET d == pde[page[1]]
      e == entries[d.frame][page[2]]
  IN  IF d.frame = ERROR \/ e.frame = ERROR
      THEN Absent
      ELSE Entry(e.frame, IF d.user = "user" THEN e.user ELSE "kernel")

Translate(page) == IF tlb[page] # Absent THEN tlb[page] ELSE Walk(page)

Allowed(translation, who) == who = "kernel" \/ translation.user = "user"

\* An instruction reads or writes a page it may use; a write leaves something
\* that only this page's owner wrote.
Use(page, who, writes) ==
  LET e == Translate(page)
  IN  /\ e.frame # ERROR /\ Allowed(e, who)
      /\ tlb' = [tlb EXCEPT ![page] = e]
      /\ bytes' = IF writes THEN [bytes EXCEPT ![e.frame] = page] ELSE bytes
      /\ written' = IF writes THEN written \cup {page} ELSE written
      /\ UNCHANGED <<todo, free, pde, entries>>

\* pageFaultHandler: a page of user space that is not present gets a frame, and
\* the instruction starts again; anything else stops the machine.
Fault(page, next) ==
  /\ Translate(page).frame = ERROR
  /\ page \in UserPages
  /\ MapFresh(page, next)
  /\ phase' = next => UNCHANGED <<todo, tlb, written>>

ProtectionFault(page, who) ==
  /\ phase = "run"
  /\ LET e == Translate(page)
     IN  IF e.frame = ERROR THEN page \notin UserPages ELSE ~ Allowed(e, who)
  /\ phase' = "halted"
  /\ UNCHANGED <<todo, free, pde, entries, bytes, tlb, written>>

Access(page, who, writes) == phase = "run" /\ Use(page, who, writes) /\ phase' = "run"

DemandPage(page) == phase = "run" /\ Fault(page, "run")

\* initUserHeap writes the first header through demand paging ...
UserHeapHeader ==
  /\ phase = "header"
  /\ IF Translate(HeapPage).frame = ERROR
     THEN Fault(HeapPage, "header")
     ELSE Use(HeapPage, "kernel", TRUE) /\ phase' = "remap"

\* ... and then maps a frame of its own for the same page.
UserHeapPage ==
  /\ phase = "remap"
  /\ MapFresh(HeapPage, "run")
  /\ phase' = "run" => UNCHANGED <<todo, tlb, written>>

\* The processor forgets a translation.
Forget(page) ==
  /\ phase \in {"remap", "run"}
  /\ tlb[page] # Absent
  /\ tlb' = [tlb EXCEPT ![page] = Absent]
  /\ UNCHANGED <<phase, todo, free, pde, entries, bytes, written>>

Next ==
  \/ InitializeMemoryManager
  \/ InitializePaging
  \/ MapUserPages
  \/ UserHeapHeader
  \/ UserHeapPage
  \/ \E page \in Touched :
       \/ DemandPage(page)
       \/ Forget(page)
       \/ \E who \in Modes :
            \/ ProtectionFault(page, who)
            \/ \E writes \in BOOLEAN : Access(page, who, writes)

Spec == Init /\ [][Next]_vars

-----------------------------------------------------------------------------
EntrySet == [frame : Frames \cup {ERROR}, user : Modes]

\* Type invariant.
TypeOK ==
  /\ phase \in {"frames", "paging", "mapping", "header", "remap", "run", "panic", "halted"}
  /\ todo \in Seq(UserPages)
  /\ free \subseteq Frames
  /\ pde \in [Slots -> EntrySet]
  /\ entries \in [Frames -> [Entries -> EntrySet]]
  /\ bytes \in [Frames -> Pages \cup {Junk, Zero}]
  /\ tlb \in [Pages -> EntrySet]
  /\ written \subseteq Pages

\* The frame that the tables give a page of user space.
FrameOf(page) == Walk(page).frame
Tables == {pde[s].frame : s \in {s \in Slots : HasTable(s)}}

Mapped == {p \in UserPages : FrameOf(p) # ERROR}

\* Every frame has one use: two pages of user space never share one, no page
\* table belongs to two slots or is a page, nothing in use is free, and user
\* space never gets a frame of the kernel's regions.
FramesHaveOneUse ==
  /\ \A p, q \in Mapped : FrameOf(p) = FrameOf(q) => p = q
  /\ \A s, r \in Slots : HasTable(s) /\ pde[s].frame = pde[r].frame => s = r
  /\ \A p \in Mapped : FrameOf(p) \notin Tables \cup Regions \cup free
  /\ Tables \cap (free \cup Regions) = {}

\* A page of user space reads as zeroes until it is written, and then as what
\* was written, also through a translation that the processor remembers.  The
\* first page of the user heap is excepted: see the hazard at heap.c.
PagesKeepTheirBytes ==
  phase = "run" =>
    \A p \in Mapped \ {HeapPage} :
      /\ bytes[FrameOf(p)] = (IF p \in written THEN p ELSE Zero)
      /\ tlb[p] # Absent => tlb[p].frame = FrameOf(p)
=============================================================================

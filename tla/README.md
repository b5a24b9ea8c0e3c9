# Verification of OBOS in TLA+

OBOS is a 32-bit hobby operating system in C and assembly: boot loader, paging,
a heap, a round-robin scheduler, a disk file system, a network stack with TCP,
and a desktop with file manager, editor, browser and mail. This directory holds
TLA+ models of its parts, the TLC configurations that check them on small
instances, and theorems proved with TLAPS. Paths are relative to `src/Kernel/`.

Run from this directory:

    tlc -workers 2 -config MCTcp.cfg Tcp      # one run of the table below
    tlapm KernelHeapProofs.tla                # the proofs
    tlapm SchedulerProofs.tla
    tlapm PagingProofs.tla
    tlapm OnlineProofs.tla                    # ten minutes
    tlapm NetStackProofs.tla
    tlapm TcpProofs.tla
    tlapm GuiProofs.tla
    tlapm FileSystemProofs.tla                # the longest, a quarter of an hour

`PROJECT.json` lists components, runs, the mutants that show each property has
teeth, the source lines each definition stands for, the hazards and the findings.

## 1. The system

There is one CPU. Kernel code runs with interrupts enabled nearly everywhere, so
what is concurrent is: an interrupt (timer, keyboard, mouse, network card) between
any two instructions of the main loop, and, once processes exist, the timer's
switch to another process. The disk outlives a power failure; the network loses,
repeats and reorders.

| Component | State | Operations | Talks to | Hard part | Correct when |
|---|---|---|---|---|---|
| Heap (`Memory/heap.c`) | linked list of block headers inside the heap | `kmalloc`, `kfree`, `umalloc`, `ufree` | everyone | split and merge boundaries, long histories | no byte has two owners, nothing is lost to fragmentation |
| Frames and paging (`Memory/memoryMap.c`, `paging.c`, `pageFault.c`) | frame table, page tables, TLB | `allocateFreeFrame`, `freeFrame`, `mapPage`, page fault | user heap, programs | order of mapping and first use, stale translations | a frame backs one page, a page keeps its bytes |
| Processes (`Processes/`) | PCBs, ready and terminated queue, interrupt flag | `createProcess`, `exitProcess`, `tick`, `yield` | timer interrupt, heap | a tick between two statements | no process lost, round robin, everybody runs |
| File system (`Fs/`) | inode table and bitmap in memory and on disk, directory blocks, current directory | create, write, delete, rename, move, `cd` | ATA driver; shell, file manager, editor, paint, mail, system calls | power failure, write errors, full disk, multi-block updates | one owner per block, directories are a tree, no bystander is touched |
| ATA (`Drivers/ata.c`) | the drive | read or write a block | file system | time-outs, masking of interrupts | a reported success happened |
| TCP (`Network/tcp.c`) | one control block | `tcpConnect`, `tcpSend`, `tcpClose`, `tcpTick`, `tcpAbort`, `tcpReceive` | HTTP, browser, mail; IP; the card's interrupt | interrupt against main loop, network faults | an ordered byte stream, an end that is reported |
| ARP, IP, UDP, DHCP, DNS | caches, configuration, DNS table | receive handlers, lookups | card's interrupt, TCP, browser, mail | full or stale tables, answers nobody waits for | packets go to the right host once it is known |
| Card (`Network/rtl.c`) | receive ring, four transmit descriptors | send, interrupt | ethernet | ring wrap, descriptor reuse | a frame is passed on once |
| Browser, mail (`Desktop/browser.c`, `mail.c`), HTTP (`Network/http.c`) | dialogue state, receive rings, time-outs | poll, callbacks from the interrupt | TCP, DNS, TLS | one shared connection, ring overflow, time-out against late answer | a dialogue ends, and with its own data |
| TLS (`Crypto/tls.c`) | handshake state, record buffer | feed, send | browser, mail | records split anywhere | handshake in order, no data before it |
| Window manager, desktop, task bar (`Desktop/`) | window stack, focus, drag | mouse and key events | every window | indices that move while in use | one focus, no reference to a closed window |
| File manager, editor, paint (`Desktop/`) | cached listing, pending move, open document | keys, clicks | file system, sharing `currentDirINode` | caches against the file system | what is shown and saved is what is meant |
| Keyboard, mouse | one scan code, packet phase, key ring | interrupt and reader | window manager | read-and-clear | no event lost or invented while there is room |
| Console, sound, graphics, small programs, boot loader, shell, tables | screen contents, constants | output, straight-line code | | none of state | |

The hazards of each, at the line where they bite, are in `PROJECT.json`.

## 2. What is modelled

### KernelHeap, Allocator, KernelHeapProofs

`KernelHeap` is `heap.c`: `hdr` maps the address of every block of the list to its
header (`size`, `free`, `next`), `live` remembers what callers hold. `Malloc` is
`kmalloc` with `alignUpBlock`, `findFreeBlock` and `splitBlock`; `Free` is `kfree`
with `mergeBlocks`; `umalloc` and `ufree` are the same code over a second heap
without clearing. The calls use the loops of `findFreeBlock` and `mergeBlocks` in closed form (the first block that
fits; every run of free blocks becomes one block). `findFreeBlockLoop` and `mergeBlocksLoop` are the same
loops turn by turn, and `WalksAgree` says, and `LoopsAgree` proves, that they end and compute the same. Addresses count from the heap's start. `alignUpBlock`
does not wrap because no caller asks for a size near 2^32, and `kfree` is given
only what `kmalloc` returned (its code trusts that).

`Allocator` is the contract: a call fails or returns bytes nobody holds.
`Implements` says that `KernelHeap` implements it.

### Scheduler, SchedulerProofs

The variables are those of `Processes/`: `currentProcess`, the two queues, and
`state` and `timeSlice` of every PCB. `context` records how a process left the CPU, because
`switch_to` swaps stacks only: a process that was preempted returns through
`isr32`'s `iret` and gets its interrupt flag back, one that called `yield` or was never run does
not. `iflag` is the CPU's flag.

`tick` is two actions (count, expire), `yield` two: it refills the slice, and then `scheduler()` switches;
interrupts are as they were, so ticks can come in between and use up part of the new slice. `YIELD_TICKS` bounds how many;
since twice that is less than a slice, none of them finds a slice at its end. `exitProcess` is four
steps, because a tick can come between them: mark, queue, pop, switch. `CallersMask` says whether
the callers of `exitProcess` have disabled interrupts: the repository has no caller yet, so the
model takes both conventions. `push` and `pop` are single steps,
which is a limitation when interrupts are on.

Fairness: the timer ticks; `obos_main` and a process inside `yield` or `exitProcess` go on. A process may run with interrupts
off for ever: `sleep` executes `sti` and every disk access ends in `enableInterrupts`, but nothing makes a process do
either (switch.asm:22). So that interrupts are enabled again and again is the hypothesis of `EveryReadyRuns`, not an
assumption of the model.

### FileSystem, MCFileSystem, FileSystemProofs

Memory (`ino`, `bm`, `cwd`) and the disk (`disk`: magic number, inode table, bitmap, blocks)
are separate variables. An operation of `superblock.c` is an operator on a machine
record that holds both; every block it writes adds the disk image of that moment
to a trail. A call (`CreateFile`, `WriteFile`, `MoveFile`, ...) takes the record's end; `PowerFails`
takes any image of the trail of any call, clears memory, and `Boot` (`loadSuperBlock`)
goes on from there. A directory is a sequence of entries packed into blocks, `..` and
`.` are entries as on the disk, and a removed entry's hole is filled with the last
one, in the order of block writes of `removeDirEntry`.
Two history variables name what the properties leave out: `clean` (no write has failed, no call was interrupted) and
`intact` (`moveFile` has not overwritten an entry: a finding below, at "the models also show").

Abstractions: a file's bytes are blocks (`Sizes` counts blocks, and a file longer
than `MAX_BLOCKS_PER_FILE` is among them); a block of a file holds one value. `kmalloc` and disk reads succeed. A
write fails on a block of `bad`, chosen at the start; the superblock, inode table and bitmap are
writable (if the inode table is not, the kernel panics). The inode table is written inode by inode,
where the code writes blocks that may tear an inode. `freeBlocksCount` is left out: after the
format it is counted in memory only, never written to the disk, and nothing reads it but a printer. Destinations of `moveFile` are directories below the
root, as the file manager's are.

### Tcp, ByteStream, TcpProofs

The variables are `conn`'s fields, one each. `tcpReceive` is the interrupt and comes between
any two steps of the main loop; `pc` says where the main loop is: inside `tcpSend` between two
chunks, inside `tcpClose` between the test of the state, its second reading, and the
write, inside `tcpTick` before the retry or before it gives up. The peers and the network are
external: the peer is a server that follows TCP, may repeat any part of its stream, and resets
at any time; a segment in flight is received any number of times until it is lost.

Sequence numbers count from each side's initial one; each connection has a local port of its own
(`isnCounter` brings a port back after 32 connections). Since every connection starts from the same numbers here,
only the test of the ports keeps old segments out: the model is stricter than the code's
random-looking initial numbers. `sndUna` is left out: it is read only to repeat the SYN.
A segment with a wrong checksum counts as lost. The peer of an older connection is quiet; its segments are not.

`ByteStream` is what the reader is promised: bytes of this connection's peer, in order, each
once, and the end only behind the last. `ImplementsStream` says that `Tcp` implements it.

Fairness (`FairSpec`): a loop that drives a connection calls `tcpTick` again and again and
finishes what it has begun: `httpGet`'s loops, `browserPoll` and `mailPoll` while a dialogue is open. Nothing is assumed of network or peer.

### Paging, MCPaging, PagingProofs

The variables are what the hardware and `memoryMap.c` keep: `free` (the frame table), `pde`
and `entries` (directory and tables, which live in frames), `bytes` (what a frame holds, as the page it was
written through) and `tlb`. The boot sequence is followed call by call (`InitializeMemoryManager`,
`InitializePaging`, `MapUserPages`, `UserHeapHeader`, `UserHeapPage`); then user and kernel code touch
pages in any order, and `DemandPage` is `pageFaultHandler`. Nothing in the code ever drops a translation, so the processor may
keep one for ever (`Access` uses `tlb` first) or lose it at any time (`Forget`). A frame can run out in the
middle of a fault: the handler then panics with the first frame already taken. `settingReservedFrames` also marks the frame
buffer, beyond the end of the frame table; the model leaves that out.

### Link, Tls, Browser, Mail, Online, MCOnline, OnlineProofs

`Link` is the one connection of `tcp.c` as its two users see it: state, callback owner, the server behind it, and
`deaf` once a segment of ours is lost (nothing is sent again). That bytes arrive in order and once is what `Tcp` shows.
`Browser` is `browser.c` from the address bar to the finished page, `Mail` the SMTP dialogue of `mail.c`, `Tls` the
client of `tls.c` as a value that `tlsFeed` maps to the next one. `Online` is `desktopUpdate`: both are
polled in turns. A poll is broken where the code reads something the interrupt may change: `seen` is the
poll's local copy of the state, `PumpFeeds` and `ParseLine` take from a ring that `BrowserReceives` and
`MailReceives` fill. A digest in `Tls` is the sequence of messages it is of, so two sides agree on their keys exactly when they
have seen the same messages; a record reaches `tlsFeed` in two halves, and servers cut handshake
messages between records. The messages of a record are handled one after the other (`Handled`), each by the client that
the one before has left, because a message may end the handshake and with it the loop of `processHandshake`.

Abstractions: a page is the sequence of its pieces, so HTML, style sheets, chunked bodies and layout are left
out; keys and ciphers are what they promise; mail is built with or without a login (`SMTP_USER`) and without TLS (`SMTP_TLS` is 0); the mail server is given by its address.

### Desktop, Files, Gui, MCGui, GuiProofs

`Desktop` has the mouse, `wm.c`, the icons and `appLaunch`. A frame is four steps (`wmUpdate` on a press and
on a drag, `desktopUpdate` likewise), because the mouse interrupt can come between any two of them and both functions look for a
press of their own. Positions are real pixels and the windows' sizes those of `apps.c`, but the mouse stops
only at the spots of its user, who has launched up to two programs before. `Files` is `filemgr.c` and `editor.c` over the directory tree of
`FileSystem` without its blocks; the callbacks by which each tells the other of a change are the code's
(`editorRenamed`, `editorMoved`, `filemgrRefresh`, `Forgotten`), and so are the places where it does not. `Gui` puts them together.

Abstractions: time (two clicks in a row are a double click or not, as the model likes), cursor and scrolling, drawing;
reads succeed; a write, or an entry for which its directory needs another block, fails only because the disk is full, and then a rename loses
the entry (`RenameLoses`), as superblock.c:815 does; a folder whose own `.` and `..` found no block is left out (`FileSystem` has it);
`ENTRIES_PER_BLOCK` and `MAX_ENTRIES`, what is listed of a directory, are parameters; paths are not truncated.
History variables say what the program does not know: `stale` (a rename has lost an entry since the listing was read), `behind` (folders
the editor has created a file in since then), and for the document `stored` (the inode it was opened from or last saved in) and
`ours` (whether the folder and name the editor has for it should lead there).

### Nic, NetStack, MCNetStack, NetStackProofs

`Nic` is `rtlSendPacket` against the card: four steps, because the interrupt that answers a frame sends one of its own
in the middle. `NetStack` is ARP cache, `ipRoute`, the DHCP exchange and the DNS table, from the start of the machine
on. The program's locals are `main`: its place in the cache (a pointer, in the code), the entry of the DNS
table it has matched, the configuration it compared with (and, as history, whether that was still so when
the cache was asked: `steady`; whether the entry was replaced before its address was read: `moved`).

DHCP servers are external. One that is asked by name for what it offers acknowledges or refuses; a request that names another server or
none is met with silence, as the protocol says, or with a refusal, or by a server that does not look at the name (`Verdicts`). The
server's name is taken from `siaddr` (dhcp.c:122), which need not be its address and may be zero. The shell's `dhcp` command goes through the exchange again
(`dhcpCommand`).

Abstractions: a frame that comes in is handled as a whole, except for what it sends; the comparison of the subnet in
`ipRoute` is one step; hosts are honest and keep their MAC address; an answer of a name server has one record; the card takes a frame when the
length is written (the code's buffer is on a stack that is left before a slow card has read it); offsets in the receive ring are left out.

## 3. The runs

| Run | Bounds | What it shows |
|---|---|---|
| `heap` | 112 bytes: seven minimal blocks; requests of 0, 1, 4, 5 and 21 bytes, so one, two and three blocks | every list that calls of one, two and three blocks can make; splits with exactly and not quite enough left; runs of free blocks on both sides of a freed one |
| `sched` | three processes, slices of three ticks, one tick at most inside a `yield`, `CallersMask` true | one runs, one waits, one exits, in any order; a yielder that is queued with its slice begun; liveness under the fairness above, if interrupts are enabled again and again |
| `schedExitRace` | the same, `CallersMask` false | **violated**: a finding, below |
| `fsFaults` | 3 inodes, 6 blocks of which one is metadata, 3 entries per block, 2 blocks per file, sizes 0, 1 and 3 blocks, sector 5 good or bad, two calls after the first fault | directories that need a second block, full disk, no inode left, too long a file, a failing write at every kind of block, power failure at any write of create, write, rename and move; `moveFile`'s walk to the root ends (two levels here; at any depth by `WalksEnd`) |
| `fsFreeBlock` | a bitmap of two blocks | **violated**: a finding, below |
| `tcp` | two connections, one byte each, two segments in flight to us, none of our data | old segments meet a new connection; repetition, loss, reordering |
| `tcpTicks` | one connection, one byte each way, two ticks to a retry, one retry | sending against receiving, retries against late answers, both sides closing; liveness |
| `paging` | 12 frames, of which two are the kernel's, one is withheld by the BIOS or not, two become kernel tables; three slots of user space, five pages touched | after the boot one frame is left or none: a table and a page, a page without a table, no frame at all in the middle of a fault |
| `online` | four users: `Both` reads a page of one piece while a message goes out, `Writer` sends two messages to a server that wants a login, `Reader` opens two of three addresses with links, redirects, pictures and junk, `Shopper` reads a page over TLS; rings of 4 half records and 2 reply lines, responses of 2 pieces, one tick to every time-out | both rings fill, the handshake is cut off the borders of records, every state is left by reset, close, time-out, cancel and answer |
| `gui` | seven users: three work windows and icons with a mouse that is slower than a frame, one with a faster mouse; three work with files: on a tree with an empty folder behind a free inode and a file that has lost its entry, on a folder with a file, and on a directory as full as is listed and as its block is; two windows at a time, three altogether; four inodes, three entries to a block, four listed; two, two and one changes of the tree | a window is closed behind its program's back, launching fails for want of room; rename, move, delete and Save As meet an open document; an entry needs a block on a full disk; the listing is cut off |
| `guiDeleteFolder` | the first of the three users of files | **violated**: two findings, below |
| `net` | three neighbours and a cache of one; two DHCP servers, one of which leaves `siaddr` zero; two names in a table of two; three descriptors; `Traffic`: name servers and two neighbours send, or one neighbour asks and DHCP messages are lost, or both servers are there and the `dhcp` command is given once | a full cache, a table that wraps, a late acknowledgement in the middle of a send, an answer of the interrupt in the middle of a send, a request that names the server of the offer, another one or none, and servers that keep silent, refuse or acknowledge |

One byte per connection is enough for `tcp` because the peer may repeat its stream from any byte and end
it in a segment of its own, so a FIN can overtake data and data can come again after it.
Six blocks are enough for `fsFaults` because the root takes one, so a second block of a directory, a file and the full disk are all reached within it.
Twelve frames are enough for `paging` because every kind of fault (table and page, page only, nothing) is met with one
frame left and with none. In `net` three descriptors instead of four only shorten the ring: two
frames still wait behind each other, and the index still wraps; a cache of one is full after one neighbour, as the code's is after
sixteen (`ARP_CACHE_SIZE`). One tick to a time-out lets it fall due at
every point where a longer one could, since ticks are chosen freely; the rings in `online` are smaller than a handshake or an EHLO answer.
People instead of one free user keep `online` and `gui` small: who the user is is chosen in the first state, and within it everything is free.

Deadlock is not checked where the system may stop: all processes exited, a full bound on connections, calls,
changes or windows, a machine that has panicked, a program that waits for the card for ever (`net`, after a race: the hazard at rtl.c:47).

What the properties say, beyond the type invariants:

* heap: `WellFormed` (the list tiles the heap, is coalesced, backs every pointer),
  `AllFreedIsWhole`, `Implements`, `WalksAgree`.
* scheduler: `NoProcessLost`, `QueuesAgree`, `WaitersKeepTheirSlice` (a waiting process has a whole slice, but for ticks inside its
  own `yield`), `NoOvertaking`, `EveryReadyRuns` (if interrupts are enabled again and again).
* file system: `BlocksOwnedOnce` also after power failed in any call but
  `deleteFile`; `DiskAgrees`, `TreeOK` as long as no write failed; `WalkEnds`, so `moveFile`'s loop ends;
  `BystandersStay`: a call is about one entry of the current directory, and all else stays in the tree and keeps its bytes. What becomes of that entry and of what is below it
  it does not promise: `deleteFile` takes a directory's content along, and `renameFile` on a full disk loses the file.
* TCP: `ImplementsStream`, `AcksWhatWasRead`, `EndIsReported`, `CloseWaitIsHandled`, `HalfOpenEnds`.
* paging: `FramesHaveOneUse`; `PagesKeepTheirBytes`: a page reads as zeroes and then as what was written, also through
  a translation the processor remembers.
* browser and mail: `NoLeakedConnection`, `PageIsWhole`, `TlsAgrees`, `SentIsAccepted`; `OneAtATimeIsSafe`: as long as mail is not sent while a
  page loads (mail.c:766 asks for that), neither aborts or writes to the other's connection; `EverythingEnds`.
* desktop: `ClickHasOneOwner`, `DragKeepsItsWindow` (both for a mouse that is slower than a frame), `WindowOfItsApp`.
* files: `ListingIsCurrent`: what is shown is what the directory has, but for the size of a folder in `behind`, of a file whose write failed, and a
  `stale` listing. `CleanMeansSaved`: a document without a star, opened, saved or stored by Save As, is in its file as shown, and the editor's name for it leads
  there while `ours`. `DeletesWhatWasConfirmed`. `OnlyEmptyFoldersGo`, which the code does not keep (`guiDeleteFolder`).
* network: `RingHasNoGap`, `FrameGoesToItsHost`; `HostGetsAddress`: once a request has named the server of an offer, the machine has an address in the end. A request that names
  nobody is left out (`named`), and so are a lost message and a stuck ring (`raced`).

Fairness of the last four modules. `online`: both polls run on every round of the main loop and the tick count keeps
moving, so a poll that sees a tick is strongly fair (it is disabled while the other one is inside its
steps); the steps inside a poll are weakly fair. `net`: frames that come in do not keep the processor
for ever (strong fairness of the program's steps and of `receiveDhcp`, weak fairness of the interrupt's steps and of the
card). `HostGetsAddress` needs one thing of others: a DHCP server that is asked by name for what it offers answers, with yes or no; and it speaks only of runs in which such a
request is the last one, no message is lost and the ring is not stuck. Otherwise nothing is assumed to come from servers, users or the network. `gui` and `paging` have no liveness properties: nothing there waits for anything.

### Findings

* `schedExitRace`: `exitProcess` (processManager.c:63-75) runs with interrupts on. A tick after
  `scheduler()` has popped the next process switches away from a terminated process for
  ever, and the popped process is in no queue. PCB.h:10 says of `Ready`: "Sitting in the queue waiting for a turn."
* `fsFreeBlock`: `freeBlock` (superblock.c:437-440) clears the bit of `blockNum % 4096` in the
  first block of the bitmap and writes another block of it. Freeing block 5000 frees block 904, which
  `allocateBlock` hands out although a file owns it. superblock.h:143: "Frees a previously allocated block." The disk has 204800 blocks, so 50 bitmap blocks.
* `guiDeleteFolder`: a folder that holds a file is deleted, and the file with it. `deleteSelected` (filemgr.c:281) goes by the size in its listing, which Save As does not
  refresh when it creates a file in a folder that is not shown any more (editor.c:180). filemgr.c:280: "deleteFile doesnt recurse, so only empty folders are allowed".
  And `deleteFile` (superblock.c:722) deletes a directory whatever it contains; superblock.h:184 says it returns "-1  -> file not found or directory not empty".

The models also show the following, of which no comment or document known to us promises otherwise. Where a property leaves such a case out, its comment says so.

* Disk: `deleteFile` and the format are not safe against power failure; `removeDirEntry` can lose a bystander's entry in one.
* `createDir` on a disk with no block left for `.` and `..` reports an error and leaves the directory in place without them. Once
  blocks are free again files can be put in it, and when it is then moved, `moveFile` (superblock.c:911) writes the
  new parent into slot 1 of its first block, where the second file's inode number is: that name now means the destination, and the file is lost
  (`Overwrites`, the exception `intact`).
* TCP: a reset that arrives inside `tcpClose` is overwritten; a FIN of ours that is lost is never repeated, so a connection
  that the server closes before the poll has seen it open waits in `LAST_ACK` (the second exception of `EverythingEnds`).
* `initUserHeap` writes the first header through demand paging and then maps another frame over that page: the header is lost when
  the processor forgets the old translation (the exception of `PagesKeepTheirBytes`).
* A rename on a full disk removes the entry and adds none (superblock.c:815): the file is lost, and the file manager goes on showing it (`RenameLoses`, `stale`).
* The file manager lists 64 entries of a directory at most (filemgr.c:66); what is behind them cannot be chosen.
* Save As into a folder that the file manager has deleted reports success and loses the text (`ours` in `CleanMeansSaved`). A document that only Save As has
  given a name is not followed when it is renamed or moved (editor.c:170 sets `fileName` but not `named`), so that it is later saved elsewhere.
* A process that a call has switched to runs with the interrupt flag it finds (switch.asm:22); if that is off and it neither sleeps nor uses the disk, nobody else runs again.
* A press between `wmUpdate` and `desktopUpdate` reaches the icon under a window, and a drag can jump to another window (`late`).
* An answer sent by the interrupt inside the program's `rtlSendPacket` leaves a gap in the transmit ring, after which the wait for descriptor 0 never ends (`raced`).
* A DHCP request that leaves before an offer has come, or after one with a `siaddr` of zero, names no server; if nobody answers it the machine keeps 0.0.0.0, as nothing repeats it (`named`).
* `dnsResolve` can read the address of another name when the entry is replaced between its two reads (`main.moved`); a frame can go to
  the wrong gateway when the configuration changes inside `ipRoute` (`main.steady`); a host whose address
  reads as zero is resolved for ever; a full ARP cache takes no new host; an echo request is answered to our own address.

## 4. What is proved

`KernelHeapProofs` proves, for every heap size that is a multiple of 16 and every set of request
sizes (`HeapAssumption`, `RequestAssumption`):

* `Invariance`: `Spec => []IInv`, where `IInv` is `TypeOK` and `WellFormed` together. Neither is inductive
  alone: the tiling needs the types of the headers, and the step for `kfree` needs more than the tiling, because
  `mergeBlocks` speaks of runs of free blocks. Since the list was coalesced before the call, two free
  neighbours after it always involve the freed block, so a run has at most three blocks and
  has a last one (`FreeInv`); `TiledOrder` turns the tiling into the order of the list. `MallocInv` treats the split and the
  whole block, `InitInv` the first list.
* `TypeCorrect`, `ListWellFormed`: its consequences, checked by `heap` as well.
* `LoopsAgree`: `Spec => []WalksAgree`. Each turn of a loop is at a block at least 16 bytes further on, so `MAX_BLOCKS` turns are enough. `FindLoopFinds`: what the
  loop has passed does not fit. `MergeLoopMerges`: `Merging` says that the list before the block the loop is at is merged, that this block is the run from
  there to some `z`, and that all behind `z` is as it was; a turn either takes in the next block (`z` moves) or goes on to it (`MergeGoesOn`).
* `NoLeakByFragmentation`: with no pointer out every block is free; a coalesced list of free blocks that tiles the heap has one block.
* `Implementation`: `Init` maps to `Init`; `Malloc` to the contract's `Malloc`, because the block found was free and
  the blocks tile the heap, so no live range meets it; `Free` to `Free`; failed calls to stutters.

`SchedulerProofs` proves, for every set of processes, every time slice (`TimeSliceAssumption`) and a `NULL` that is no process
(`NullAssumption`):

* `Invariance`: `Spec => []IInv`, with interrupts masked in `exitProcess` or not. `QueuesAgree` is not inductive: a process that
  `exitProcess` has popped must be neither queued nor popped by another call when `SwitchTo` makes it run, and one that is marked must not
  be on `terminatedQueue` yet. `Exiting` says so for every call, also for one that a tick has interrupted for good. The
  queues enter the proof as sets: `QueueOfAppend` and `QueueOfTail` say who is queued after `push` and `pop`; there is one
  lemma per action, and `SwitchInv` serves `tick` and `yield` alike. The bound on ticks inside `yield` is part of `TimeSliceAssumption`.
* `TypeCorrect`, `QueuesAlwaysAgree`, `SlicesKept`: its consequences. For the last one, `Yielding` says that the process inside `yield` is on the CPU and has lost no
  more of its slice than `YIELD_TICKS`; it is the one `scheduler()` then queues (`RefillsInv`, `YieldInv`).
* `RoundRobin`: `Spec => NoOvertaking`. Here the order counts: `OrderIsKept` says that every step's new `readyQueue` is the old one
  without at most its head, with at most one newcomer behind it, so whoever stays queued has nobody new before him.
* `NoneLostWhenMasked`: `ASSUME CallersMask PROVE Spec => []NoProcessLost`. The strengthening is `Masked`: whoever is inside
  `exitProcess` is on the CPU with interrupts off. So `tick` and `yield` run only when nobody is (`Undisturbed`), and every
  Ready process is then in the queue. Without the assumption the statement is false: `schedExitRace`.

`PagingProofs` proves, for every number of frames, every set of firmware frames, any slots and any pages that are mapped or touched
(`FramesAssumption`, `SlotsAssumption`):

* `Invariance`: `Spec => []IInv`, and `OneUse`: `Spec => []FramesHaveOneUse`. The property speaks of pages that the directory reaches; a new
  table must not make stale entries reachable, and a frame that a table page takes must be no leaf of any other. So the strengthening is over all
  entries of all tables of user slots at once: `TablesApart` (one slot per table, none free or the kernel's),
  `LeavesApart` (an entry of a user table points to a frame no other such entry points to, which is not a table, not free, not the
  kernel's), and `NoTablesYet` before paging is set up. `LowestIsIn` (the least element of a set of naturals is in it) is where the order of
  the frames enters; `FreshFrame`, `MapPageKeepsApart` and `MapFreshKeepsApart` serve the boot's mappings, demand paging and the user heap alike.
* `BytesStay`: `ASSUME KernelPagesAreRegions PROVE Spec => []PagesKeepTheirBytes`: what the kernel touches below 4 MB lies in its reserved regions, as its
  image, stack and heap do. `Faithful` says of every page which frame is behind it and what that frame holds, and that a translation the processor remembers
  is the table's. Since no two entries have a frame in common, a write changes no other page. The page of the user heap's first header is the one whose frame is
  replaced: until the processor forgets the old one, reads go there, and `OldFrameIsNobodys` says that no other page has got it
  (`mapPage` never returns the frame it replaces to the free ones).

`OnlineProofs` proves, for every user, every server and all sizes, limits and timeouts (`LinkAssumption`, `MailAssumption`,
`BrowserAssumption`: the response's buffer holds a header, and a server's handshake records hold at least half a message each):

* `Invariance`: `Spec => []IInv`, `NothingLeaks`: `Spec => []NoLeakedConnection` and `OnlyTogether`: `Spec => OneAtATimeIsSafe`. What a poll has
  read is used several steps later, so `NoLeakedConnection` is not inductive: `Polled` says in which states of the two programs
  each step inside a poll is taken, and that a connection the poll has seen closed stays closed until the poll ends
  (only the other program's poll could open it, and that is not running).
* `SentWasAccepted`: `Spec => []SentIsAccepted`. That a 250 to the text means that *this* message was taken needs that a reply
  answers what was said last. `Turns` says so: nothing is queued for sending before the last reply is read to its last line, and then the
  server has nothing more to say. `Commands` says that no part of the text is out before the server asks for it, and `Text` that what the
  server has heard and what is still queued are together the message (`MessageGoesOn`), unless something was lost; then the server never says yes.
  The steps of the browser and of the interrupt keep all of it as long as they only lose what the mail program says, or close the
  connection (`Kept`, `OthersKeepPost`).
* `PagesAreWhole`: `Spec => []PageIsWhole` and `BothSidesAgree`: `Spec => []TlsAgrees`, both from `WebInvariance`: `Spec => []Web`. Neither says
  anything of the steps in between, so `Web` relates the client and the server throughout:
  * `Agreement`: what is in the ring and what the server has still to send are one queue, the rest of the halves of the
    records of the server's flight (`Reading`). Of these the client has read some number k, and k tells where it is: which messages it has met and what of the
    next one it holds (`KeysAt`), whether the cipher has changed (`RequestAt`), how many pieces of the page it has decrypted (`ReplyAt`). The response is
    these pieces, cut at `RESP_MAX`. `FeedAgrees` is the heart of it: reading one half more keeps all this, for every way a server may cut its messages.
    `Answered` says the same of a server without TLS.
  * `Unforged`: no Finished message, in a record on its way or half read, has another digest than the server's. This
    still holds after a refusal or a lost byte, when `Agreement` does not; so whoever is `ready` has the server's digest, whatever was lost.
  * `Inside`: what the interrupt puts into the ring behind the pump's back resets `quiet`, so a poll never finishes a page with something unread, and
    a `state` read before the server's FIN is not taken for a closed connection.
  * `Excused`: TLS fails only after a refusal or an overflow; otherwise the client is where `Agreement` says, and no such place is a failure.

  The recursive functions (`Handled`, `Handshakes`) are unfolded one message at a time; what holds for any number of them follows by
  induction on an interval, stated for sets.

`NetStackProofs` proves, for every number of descriptors, every size of the tables, all leases, zones, neighbours and traffic
(`NicAssumption`, `NetAssumption`):

* `NicInvariance`: `Spec => []NicInv`, and `NoGap`: `Spec => []RingHasNoGap`. The property compares neighbouring descriptors; filling one keeps it only if
  it is the one behind the filled ones. So `Consecutive` says that the filled descriptors are the next `n` from the card on, and that
  where a send is in its four steps fits to that: the frame goes where `txIndex` points, or `txIndex` is about to follow. It holds as long as no interrupt
  has sent in the middle of a send (`InTurns`); that every other step leaves the ring alone is `StepsOfTheRing`.
* `ReachesItsHost`: `Spec => []FrameGoesToItsHost`. What the program carries from step to step must stay true while the interrupt changes the tables:
  `TablesTrue` says that they hold only what neighbours and name servers have said, `OnItsWay` what is known of the entry, the address and
  the place in the cache at each step. The place stays the address's because the cache only grows (`CacheGrows`), the entry of
  the DNS table because `moved` is set where it does not.

`TcpProofs` proves, for any number of connections and retries, streams of any length and any bounds on what is in flight
(`ConnsAssumption`, `WriteAssumption`, `RetryAssumption`, `InFlightAssumption`):

* `Implementation`: `Spec => ImplementsStream`. A segment that comes in may be of any age, so the strengthening speaks of all that are in flight:
  `FromPeer` says that a segment carries a part of its peer's stream and a FIN only its end, `FromUs` that ours acknowledge
  no more than was read; `Reading` that `rcvNxt` counts what `onData` got, which is a prefix of the stream, and that after the end nothing is left
  to read. So a segment in order holds exactly the next bytes, and no second FIN can be accepted (`SegmentReads`). `tcpConnect` maps to
  `Open`, a peer's writing to `Write`, `ReceiveSegment` to `Read` or a stutter, everything else to stutters.
* `Invariance`, `TypeCorrect`, `AcksOnlyWhatWasRead`, `EndReported`, `CloseWaitHandled`: `Control` says which connection there is at
  each place of the main loop, whatever the interrupt has done in between: inside `tcpClose` it was open before, and while the SYN is repeated nothing was read.

`GuiProofs` proves the three properties of the windows, for any programs and sizes, any number of windows and any users
(`AppsAssumption`, `WindowsAssumption`, `UsersAssumption`; what the file manager and the editor do leaves the windows alone):

* `WindowsOfApps`: `Spec => []WindowOfItsApp`. `AllOwned` adds that every number in use or remembered was given out (`nextId` is above it): so a program that
  `IndexOfId` finds no window for has none, and its new window takes a number nobody remembers (`LaunchIsFine`).
* `OneOwner`: `Spec => []ClickHasOneOwner`, and `DragStays`: `Spec => DragKeepsItsWindow`. Both hang on the two `prevLeft` and `clickConsumed`, which are
  written at different places of the frame. `Pressed` says what they are at each: until a packet comes inside a frame, both functions see the same press,
  and whoever drags has seen it, so nothing is raised, closed or launched then.

It proves those of the files too, for any number of inodes, any names and texts and any tree the users begin with
(`InodesAssumption`, `EntriesAssumption`, `NamesAssumption`, `TextsAssumption`, `TreesAssumption`: each inode has at most one entry, in its parent, and names are unique):

* `ListingCurrent`: `Spec => []ListingIsCurrent`, `CleanSaved`: `Spec => []CleanMeansSaved`, `DeletesConfirmed`: `Spec => DeletesWhatWasConfirmed`. They
  need one invariant, `FInv`. That the editor's file survives what is done to others needs that names and inodes identify each other: `IsTree`. That a move keeps
  `IsTree` and the directory shown in place needs that the directory shown is reached from the root by inodes that are directories (`Reached`), so that
  `moveFile`'s loop (`Above`) sees all of them and what is moved is not among them; a way is shorter than `MAX_FILES` since it meets no inode twice.
  `Backed` adds to `CleanMeansSaved` that, while `ours`, the folder is in use and has the editor's entry for the stored file: else a new file could take the folder's inode. `Seen` is the
  listing, `Asked` the row that awaits its second Del. `Right` says of a `stale` listing, of which `Seen` says nothing, that a row whose name leads to a file still tells its length: so what the
  editor reads from it is the file.
* An operation on the tree is stated once, as what becomes of the relation "directory, name, inode" (`Holds`) and of each inode (`Kept`): `RenameIs`, `DeleteIs`, `WriteIs`,
  `CreateIs`, `MoveIs`, and `NewFileIs` for Save As, with its three cases: the folder is there, is gone, or its inode is the one the new file takes.
* `ListingsAgree`: the listings of two trees in which a directory has the same entries and the same of them are folders agree line by line. So the file manager's copy stays
  true through a save elsewhere (`ListingKeeps`), and a row tells the editor how much there is to read (`RowsFile`, `ShownIsRight`).
* The document's file and its entry are followed apart: `KeptStays` and `StillBacked` say that the file stays stored while names change, `UnfollowedIs` what is left when the entry has gone.

`FileSystemProofs` proves, for every geometry of the disk, any names and content, any write errors and any order of calls
(`GeometryAssumption`: the format's two blocks fit and are writable, a block holds two entries; `NamesAssumption`: nobody types a dot as a new name):

* `TypeCorrect`: `Spec => []TypeOK`, with power failures in every call, `deleteFile` and the format included.
* `DiskAgreement`, `BlocksStayApart`, `TreeStands`, `WalksEnd`, `BystandersAreKept`: `Spec /\ []InFirstBitmapBlock` implies `[]DiskAgrees`,
  `[]BlocksOwnedOnce`, `[]TreeOK`, `[]WalkEnds` and `BystandersStay`. The hypothesis says that no block in use has its bit behind the first block of the
  bitmap, because `freeBlock` does not work there (`fsFreeBlock`): the code's disk has 204800 blocks and the first block of the bitmap is for 4096 of them.
  `OneBitmapBlock` proves that it holds of every run when the bitmap is one block. `BlocksStayApart` assumes
  `CrashDuring \subseteq {"other"}` as well; with the other two TLC finds it violated.

An operation is a function on machines, so each has lemmas about what it makes of any machine, and the steps of the specification only put those together.

* Blocks. After a crash the table is a mixture of two, and memory starts from what the disk had at some write. So `Steady` (one owner per block,
  every owned block marked) is kept for memory, for the disk and for every image of the trail, among them the tables that are
  written up to some inode (`Keeps`, `Sound`). That bits are set on the disk before a table that points to them is written is what this rests on.
  `InStep` adds that table and bitmap agree between calls.
* The tree. `TreeOK` speaks of what is reached from the root through entries, and is not inductive: what a deleted directory
  contained stays in use, with a parent that may be given out again. `Shape(m, T)` names the set T of inodes that belong to the tree: each has one entry, in
  its parent's list, no entry leads out of T, and there is no cycle of parents, in T or among what deleted directories have left behind. `Grown` says that there is such a T with the current directory in it,
  and there is one lemma per kind of change: calls that leave T as it is, that take something out (delete; rename on a full disk), that
  put something in, and the move, after which everything that hung below the moved directory still does. `TreeIs` shows that T is what `Tree` computes level by level, and
  `WayUp`'s bound of `MAX_FILES` steps is enough because a walk that long would meet an inode twice.
* `BystandersAreKept`: `Kept` says for each call which inodes leave T and whose blocks or bytes change; since blocks have one owner, writing one file
  changes no other. `Outcome` collects it, and `ChildrenAre` brings it back to the children and ancestors the property names.

The recursive functions over blocks and levels (`Written`, `Freed`, `WayUp`, `Levels`) are unfolded once, by `Recursion` over an interval; their properties follow by `Induction` on
the interval, stated for sets, so that no induction rule with an operator as parameter is needed.

Only model-checked: liveness (`EveryReadyRuns`,
`HalfOpenEnds`, `EverythingEnds`, `HostGetsAddress`), which the prover cannot treat under fairness. `OnlyEmptyFoldersGo` is refuted.

## 5. Plan

Modelled since the plan was first written: paging, the programs on the connection, the desktop, the network below TCP. What is left, in the order of importance:

1. Paint, which saves like the editor and keeps a directory like it; the keyboard's queue.
2. The receive ring of the card, and answers with several records.

Not modelled, and why:

* boot loader, table set-up, PCI: straight-line code that runs once before there is any state;
* console, sound, drawing, HTML and style sheets: output, or data of which only a picture depends;
* cryptographic primitives: arithmetic on long numbers, out of TLC's reach; `Tls` takes what they promise;
* keyboard: a lost or repeated key is its whole effect, and the programs that read it take any key at any time;
* paint: one level of undo over a canvas; shell, system calls, program registry: dispatch to operations that are modelled;
* small programs: no shared state;
* `kmalloc` interrupted half-way: no code in the repository lets two processes allocate at once yet.

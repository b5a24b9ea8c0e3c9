------------------------------ MODULE Scheduler ------------------------------
(***************************************************************************)
(* Processes/: the process control blocks, the ready and terminated        *)
(* queues, the round-robin scheduler() and its callers: tick() from the    *)
(* timer interrupt, yield() and exitProcess() from the process on the CPU, *)
(* createProcess() and loadFirstProcess() from obos_main.                  *)
(*                                                                         *)
(* The CPU's interrupt flag is part of the state: switch_to swaps stacks   *)
(* and nothing else, so the flag a process resumes with depends on who     *)
(* switched to it and on how its own context was saved.                    *)
(*                                                                         *)
(* push() and pop() are atomic here.  exitProcess() is split where a tick  *)
(* may reschedule.  yield() refills the slice before it calls scheduler(), *)
(* so a tick that comes in between takes a part of the slice of whoever is *)
(* currentProcess and no more, as long as fewer ticks come than the slice  *)
(* has: YIELD_TICKS, against a slice of 20 ticks in the code.  One that    *)
(* comes after currentProcess was changed is one that comes after the      *)
(* switch: both find the same process and the same flag.                   *)
(***************************************************************************)
EXTENDS Integers, Sequences

CONSTANTS Procs,          \* the PCBs that kmalloc can provide
          TIME_SLICE,     \* ticks a process gets
          YIELD_TICKS,    \* most ticks that come in while yield() is executed
          CallersMask,    \* do callers of exitProcess disable interrupts first
          NULL            \* no process

\* Neither the slice that yield() refilled nor that of the next process is used
\* up before the switch: a few instructions last less than half a slice.
ASSUME TimeSliceAssumption ==
  TIME_SLICE \in Nat /\ YIELD_TICKS \in Nat /\ 2 * YIELD_TICKS < TIME_SLICE
ASSUME MaskAssumption == CallersMask \in BOOLEAN
ASSUME NullAssumption == NULL \notin Procs

VARIABLES
  current,      \* currentProcess
  readyQueue,   \* PCBs from head to tail
  terminated,   \* terminatedQueue
  state,        \* PCB.state, "None" before createProcess
  timeSlice,    \* PCB.timeSlice
  context,      \* what PCB.esp points to: how the process left the CPU
  iflag,        \* EFLAGS.IF of the CPU
  exiting,      \* how far the exitProcess call of each process has come
  held,         \* the local variable next of that call's scheduler()
  yielding      \* the process on the CPU is inside yield(), slice refilled

vars == <<current, readyQueue, terminated, state, timeSlice, context, iflag,
          exiting, held, yielding>>

States == {"None", "Ready", "Running", "Terminated"}
Contexts == {"none", "fresh", "cpu", "isr", "call"}
ExitPoints == {"no", "marked", "queued", "popped", "spin"}

Init ==
  /\ current = NULL
  /\ readyQueue = << >>
  /\ terminated = << >>
  /\ state = [p \in Procs |-> "None"]
  /\ timeSlice = [p \in Procs |-> 0]
  /\ context = [p \in Procs |-> "none"]
  /\ iflag = TRUE                       \* obos_main calls enableInterrupts()
  /\ exiting = [p \in Procs |-> "no"]
  /\ held = [p \in Procs |-> NULL]
  /\ yielding = FALSE

\* The CPU is executing code of process p that is outside the kernel calls below.
InOwnCode(p) == current = p /\ exiting[p] = "no" /\ ~ yielding

\* createProcess: both kmalloc calls succeed (if one fails nothing changes).
\* Called by obos_main before the first process runs, or by a process.
CreateProcess(p) ==
  /\ state[p] = "None"
  /\ current # NULL => InOwnCode(current)
  /\ state' = [state EXCEPT ![p] = "Ready"]
  /\ timeSlice' = [timeSlice EXCEPT ![p] = TIME_SLICE]
  /\ context' = [context EXCEPT ![p] = "fresh"]
  /\ readyQueue' = Append(readyQueue, p)
  /\ UNCHANGED <<current, terminated, iflag, exiting, held, yielding>>

\* loadFirstProcess: start_first_process jumps to the entry point.
LoadFirstProcess ==
  /\ current = NULL
  /\ readyQueue # << >>
  /\ current' = Head(readyQueue)
  /\ readyQueue' = Tail(readyQueue)
  /\ state' = [state EXCEPT ![Head(readyQueue)] = "Running"]
  /\ context' = [context EXCEPT ![Head(readyQueue)] = "cpu"]
  /\ UNCHANGED <<terminated, timeSlice, iflag, exiting, held, yielding>>

\* switch_to: leave the CPU from an interrupt or from a call, and resume next.
\* A context saved inside the timer interrupt ends in its iret, which restores
\* the flag; a fresh process or one that left by a call runs on with the flag
\* as it is.
SwitchTo(old, next, from) ==
  /\ context' = [context EXCEPT ![old] = from, ![next] = "cpu"]
  /\ iflag' = (context[next] = "isr" \/ (from = "call" /\ iflag))

\* Mutant: the preempted process goes to the front of the queue.
Requeue_Front(q, old) == <<old>> \o q

\* Mutant: a preempted process is not queued again.
Requeue_Dropped(q, old) == q

Requeue(q, old) == Append(q, old)

\* scheduler(), called by the process on the CPU: requeue it if it still runs.
SwitchToNext(from) ==
  LET next == Head(readyQueue)
      keep == state[current] = "Running"
  IN  /\ readyQueue' = IF keep THEN Requeue(Tail(readyQueue), current)
                               ELSE Tail(readyQueue)
      /\ state' = IF keep
                  THEN [state EXCEPT ![current] = "Ready", ![next] = "Running"]
                  ELSE [state EXCEPT ![next] = "Running"]
      /\ current' = next
      /\ SwitchTo(current, next, from)

\* Mutant: the expired slice is not refilled.
Refill_Missing == 0

\* Mutant: one tick too many.
Refill_TooLong == TIME_SLICE + 1

Refill == TIME_SLICE

\* timerISR -> tick: one tick of the slice is used up.
TickCounts ==
  /\ iflag
  /\ current # NULL
  /\ timeSlice[current] > 1
  /\ yielding => timeSlice[current] > TIME_SLICE - YIELD_TICKS
  /\ timeSlice' = [timeSlice EXCEPT ![current] = @ - 1]
  /\ UNCHANGED <<current, readyQueue, terminated, state, context, iflag, exiting,
                 held, yielding>>

\* timerISR -> tick -> scheduler: the slice is used up.
TickExpires ==
  /\ iflag
  /\ current # NULL
  /\ timeSlice[current] <= 1
  /\ ~ yielding
  /\ timeSlice' = [timeSlice EXCEPT ![current] = Refill]
  /\ IF readyQueue = << >>
     THEN UNCHANGED <<current, readyQueue, state, context, iflag>>
     ELSE SwitchToNext("isr")
  /\ UNCHANGED <<terminated, exiting, held, yielding>>

\* yield(): the slice is refilled ...
YieldRefills(p) ==
  /\ InOwnCode(p)
  /\ timeSlice' = [timeSlice EXCEPT ![p] = Refill]
  /\ yielding' = TRUE
  /\ UNCHANGED <<current, readyQueue, terminated, state, context, iflag, exiting, held>>

\* ... and scheduler() lets the next process run, if there is one.
YieldSwitches(p) ==
  /\ current = p /\ yielding
  /\ yielding' = FALSE
  /\ IF readyQueue = << >>
     THEN UNCHANGED <<current, readyQueue, state, context, iflag>>
     ELSE SwitchToNext("call")
  /\ UNCHANGED <<terminated, timeSlice, exiting, held>>

\* A process runs sti (sleep) or enableInterrupts (ata.c).
EnableInterrupts(p) ==
  /\ InOwnCode(p)
  /\ ~ iflag
  /\ iflag' = TRUE
  /\ UNCHANGED <<current, readyQueue, terminated, state, timeSlice, context, exiting,
                 held, yielding>>

\* Mutant: the state of the process that exits stays Running.
ExitMarks_NoState(p) ==
  /\ InOwnCode(p)
  /\ exiting' = [exiting EXCEPT ![p] = "marked"]
  /\ iflag' = (iflag /\ ~ CallersMask)
  /\ UNCHANGED <<current, readyQueue, terminated, state, timeSlice, context, held, yielding>>

\* exitProcess: the state is set ...
ExitMarks(p) ==
  /\ InOwnCode(p)
  /\ state' = [state EXCEPT ![p] = "Terminated"]
  /\ exiting' = [exiting EXCEPT ![p] = "marked"]
  /\ iflag' = (iflag /\ ~ CallersMask)
  /\ UNCHANGED <<current, readyQueue, terminated, timeSlice, context, held, yielding>>

\* ... the PCB is pushed on terminatedQueue ...
ExitQueues(p) ==
  /\ current = p /\ exiting[p] = "marked"
  /\ terminated' = Append(terminated, p)
  /\ exiting' = [exiting EXCEPT ![p] = "queued"]
  /\ UNCHANGED <<current, readyQueue, state, timeSlice, context, iflag, held, yielding>>

\* ... scheduler() pops the next process, or returns to the final for(;;) ...
ExitPops(p) ==
  /\ current = p /\ exiting[p] = "queued"
  /\ IF readyQueue = << >>
     THEN /\ exiting' = [exiting EXCEPT ![p] = "spin"]
          /\ UNCHANGED <<readyQueue, held>>
     ELSE /\ exiting' = [exiting EXCEPT ![p] = "popped"]
          /\ held' = [held EXCEPT ![p] = Head(readyQueue)]
          /\ readyQueue' = Tail(readyQueue)
  /\ UNCHANGED <<current, terminated, state, timeSlice, context, iflag, yielding>>

\* ... and switches to it without requeueing the terminated one.
ExitSwitches(p) ==
  /\ current = p /\ exiting[p] = "popped"
  /\ current' = held[p]
  /\ held' = [held EXCEPT ![p] = NULL]
  /\ state' = [state EXCEPT ![held[p]] = "Running"]
  /\ exiting' = [exiting EXCEPT ![p] = "spin"]
  /\ SwitchTo(p, held[p], "call")
  /\ UNCHANGED <<readyQueue, terminated, timeSlice, yielding>>

ExitStep(p) == ExitQueues(p) \/ ExitPops(p) \/ ExitSwitches(p)

Next ==
  \/ \E p \in Procs :
       \/ CreateProcess(p)
       \/ YieldRefills(p)
       \/ YieldSwitches(p)
       \/ EnableInterrupts(p)
       \/ ExitMarks(p)
       \/ ExitQueues(p)
       \/ ExitPops(p)
       \/ ExitSwitches(p)
  \/ LoadFirstProcess
  \/ TickCounts
  \/ TickExpires

Spec == Init /\ [][Next]_vars

\* The timer keeps ticking, obos_main goes on to loadFirstProcess, and whoever
\* is inside yield or exitProcess goes on.  Nothing makes a process that runs
\* with interrupts off enable them.
Fairness ==
  /\ WF_vars(TickCounts)
  /\ WF_vars(TickExpires)
  /\ WF_vars(LoadFirstProcess)
  /\ \A p \in Procs : WF_vars(ExitStep(p)) /\ WF_vars(YieldSwitches(p))

FairSpec == Spec /\ Fairness

-----------------------------------------------------------------------------
\* Where a process is in a queue.
Positions(q, p) == {i \in 1 .. Len(q) : q[i] = p}
Queued(q, p) == Positions(q, p) # {}
Distinct(q) == \A i, j \in 1 .. Len(q) : q[i] = q[j] => i = j

\* Type invariant.
TypeOK ==
  /\ current \in Procs \cup {NULL}
  /\ readyQueue \in Seq(Procs)
  /\ terminated \in Seq(Procs)
  /\ state \in [Procs -> States]
  /\ timeSlice \in [Procs -> 0 .. TIME_SLICE]
  /\ context \in [Procs -> Contexts]
  /\ iflag \in BOOLEAN
  /\ exiting \in [Procs -> ExitPoints]
  /\ held \in [Procs -> Procs \cup {NULL}]
  /\ yielding \in BOOLEAN

\* Every Ready process is in exactly one place: once in readyQueue, or popped
\* by the exitProcess call that the CPU is executing (PCB.h: "Ready - Sitting
\* in the queue waiting for a turn").
HeldByExit(p) == current # NULL /\ held[current] = p

NoProcessLost ==
  \A p \in Procs :
    state[p] = "Ready" => (Queued(readyQueue, p) # HeldByExit(p))

\* Queue and state agree: only Ready processes wait, each at most once, the
\* only Running process is the current one, and a terminated one is queued at
\* most once, for good.
QueuesAgree ==
  /\ Distinct(readyQueue) /\ Distinct(terminated)
  /\ \A p \in Procs : /\ Queued(readyQueue, p) => state[p] = "Ready"
                      /\ Queued(terminated, p) => state[p] = "Terminated"
                      /\ state[p] = "Running" => current = p
                      /\ held[p] # NULL => /\ state[held[p]] = "Ready"
                                           /\ exiting[p] = "popped"
  /\ current # NULL => state[current] \in {"Running", "Terminated"}

\* A process that waits has its slice before it, whatever expired, yielded and
\* was switched to meanwhile: a new one and one that the timer took the CPU from
\* the whole of it, one that gave the CPU up the whole but for the ticks that
\* came in between the refill and the switch inside yield().
WaitersKeepTheirSlice ==
  \A p \in Procs :
    state[p] = "Ready" =>
      timeSlice[p] >= IF context[p] = "call" THEN TIME_SLICE - YIELD_TICKS ELSE TIME_SLICE

\* Round robin: whoever is ahead of a waiting process after a step was ahead of
\* it before, and a process that has terminated never leaves that state.
Ahead(q, i) == {q[k] : k \in 1 .. i - 1}

NoOvertaking ==
  [][\A p \in Procs :
       /\ \A i \in Positions(readyQueue, p), j \in Positions(readyQueue', p) :
            Ahead(readyQueue', j) \subseteq Ahead(readyQueue, i)
       /\ state[p] = "Terminated" => state'[p] = "Terminated"]_vars

\* As long as interrupts are enabled again and again, a process that waits gets
\* its turn on the CPU.  The hypothesis is one the code does not discharge: a
\* process switched to by a call runs with the flag it finds, and one that
\* neither sleeps nor uses the disk never sets it (switch.asm).
EveryReadyRuns ==
  []<>iflag => \A p \in Procs : (state[p] = "Ready" ~> state[p] = "Running")
=============================================================================

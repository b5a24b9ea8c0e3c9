-------------------------- MODULE SchedulerProofs --------------------------
(***************************************************************************)
(* For every set of processes and every time slice: the queues agree with  *)
(* the states and waiting processes keep their slice, whatever ticks come  *)
(* in while one of them yields or exits; and if exitProcess runs with      *)
(* interrupts off, no process is lost.  The proofs take the queues as      *)
(* sets: QueueOfAppend and QueueOfTail say what push and pop do to who is  *)
(* queued.                                                                 *)
(***************************************************************************)
EXTENDS Scheduler, TLAPS

\* QueuesAgree, and what it rests on: a process that exits is in one of the
\* steps of exitProcess, each queues it once, and what two of them have
\* popped is different and no longer queued.
Exiting ==
  /\ \A p \in Procs : /\ exiting[p] # "no" <=> state[p] = "Terminated"
                      /\ exiting[p] = "marked" => ~ Queued(terminated, p)
                      /\ exiting[p] = "popped" => held[p] # NULL
                      /\ held[p] # NULL => ~ Queued(readyQueue, held[p])
  /\ \A p, q \in Procs : held[p] # NULL /\ held[p] = held[q] => p = q

\* With the mask, whoever is inside exitProcess is on the CPU, undisturbed.
Masked ==
  \A p \in Procs : exiting[p] \in {"marked", "queued", "popped"} => current = p /\ ~ iflag

\* Inside yield() the process on the CPU does not exit, and has lost no more of
\* its slice than the ticks that may come in take.
Yielding ==
  yielding => /\ current \in Procs /\ exiting[current] = "no"
              /\ timeSlice[current] >= TIME_SLICE - YIELD_TICKS

Slices == WaitersKeepTheirSlice /\ Yielding

IInv == TypeOK /\ QueuesAgree /\ Exiting /\ Slices

-----------------------------------------------------------------------------
\* push: the new element is queued, behind the others.
LEMMA QueueOfAppend ==
  ASSUME NEW q \in Seq(Procs), NEW x \in Procs
  PROVE  /\ Append(q, x) \in Seq(Procs)
         /\ \A p : Queued(Append(q, x), p) <=> Queued(q, p) \/ p = x
         /\ Distinct(q) /\ ~ Queued(q, x) => Distinct(Append(q, x))
  <1> DEFINE r == Append(q, x)
  <1>1. /\ r \in Seq(Procs) /\ Len(q) \in Nat /\ Len(r) = Len(q) + 1
        /\ r[Len(q) + 1] = x
        /\ \A i \in 1 .. Len(q) : r[i] = q[i]
    OBVIOUS
  <1> HIDE DEF r
  <1>2. \A i : i \in 1 .. Len(r) <=> i \in 1 .. Len(q) \/ i = Len(q) + 1
    BY <1>1
  <1>3. ASSUME NEW p PROVE Queued(r, p) <=> Queued(q, p) \/ p = x
    <2>1. Queued(r, p) <=> \E i \in 1 .. Len(r) : r[i] = p
      BY DEF Queued, Positions
    <2>2. Queued(q, p) <=> \E i \in 1 .. Len(q) : q[i] = p
      BY DEF Queued, Positions
    <2> QED
      BY <1>1, <1>2, <2>1, <2>2
  <1>4. ASSUME Distinct(q), ~ Queued(q, x) PROVE Distinct(r)
    <2>1. \A i \in 1 .. Len(q) : q[i] # x
      BY <1>4 DEF Queued, Positions
    <2>2. ASSUME NEW i \in 1 .. Len(r), NEW j \in 1 .. Len(r), r[i] = r[j]
          PROVE  i = j
      BY <1>1, <1>2, <1>4, <2>1, <2>2 DEF Distinct
    <2> QED
      BY <2>2 DEF Distinct
  <1> QED
    BY <1>1, <1>3, <1>4 DEF r

\* pop: the head leaves, the others stay.
LEMMA QueueOfTail ==
  ASSUME NEW q \in Seq(Procs), q # << >>
  PROVE  /\ Head(q) \in Procs /\ Tail(q) \in Seq(Procs)
         /\ Queued(q, Head(q))
         /\ \A p : Queued(q, p) <=> p = Head(q) \/ Queued(Tail(q), p)
         /\ Distinct(q) => Distinct(Tail(q)) /\ ~ Queued(Tail(q), Head(q))
  <1> DEFINE r == Tail(q)
  <1>1. /\ r \in Seq(Procs) /\ Head(q) \in Procs
        /\ Len(q) \in Nat /\ Len(q) > 0 /\ Len(r) = Len(q) - 1
        /\ Head(q) = q[1]
        /\ \A i \in 1 .. Len(r) : r[i] = q[i + 1]
    OBVIOUS
  <1> HIDE DEF r
  <1>2. /\ \A i \in 1 .. Len(r) : i + 1 \in 1 .. Len(q)
        /\ \A i \in 1 .. Len(q) : i = 1 \/ (i - 1 \in 1 .. Len(r) /\ q[i] = r[i - 1])
        /\ 1 \in 1 .. Len(q)
    BY <1>1
  <1>3. ASSUME NEW p PROVE Queued(q, p) <=> p = Head(q) \/ Queued(r, p)
    <2>1. Queued(r, p) <=> \E i \in 1 .. Len(r) : r[i] = p
      BY DEF Queued, Positions
    <2>2. Queued(q, p) <=> \E i \in 1 .. Len(q) : q[i] = p
      BY DEF Queued, Positions
    <2> QED
      BY <1>1, <1>2, <2>1, <2>2
  <1>4. ASSUME Distinct(q) PROVE Distinct(r) /\ ~ Queued(r, Head(q))
    <2>1. ASSUME NEW i \in 1 .. Len(r), NEW j \in 1 .. Len(r), r[i] = r[j]
          PROVE  i = j
      BY <1>1, <1>2, <1>4, <2>1 DEF Distinct
    <2>2. ASSUME NEW i \in 1 .. Len(r), r[i] = Head(q) PROVE FALSE
      BY <1>1, <1>2, <1>4, <2>2 DEF Distinct
    <2> QED
      BY <2>1, <2>2 DEF Distinct, Queued, Positions
  <1> QED
    BY <1>1, <1>3, <1>4 DEF r

\* Facts about the current state that every step uses.
LEMMA Now ==
  ASSUME IInv
  PROVE  /\ readyQueue \in Seq(Procs) /\ terminated \in Seq(Procs)
         /\ Distinct(readyQueue) /\ Distinct(terminated)
         /\ TIME_SLICE \in Nat /\ TIME_SLICE > 0 /\ NULL \notin Procs
         /\ YIELD_TICKS \in Nat /\ 2 * YIELD_TICKS < TIME_SLICE
         /\ current \in Procs => state[current] \in {"Running", "Terminated"}
  BY TimeSliceAssumption, NullAssumption
     DEF IInv, TypeOK, QueuesAgree

-----------------------------------------------------------------------------
(* One lemma for every action.                                             *)

\* At the start nobody is queued or inside exitProcess.
LEMMA InitInv == Init => IInv
  <1> SUFFICES ASSUME Init PROVE IInv
    OBVIOUS
  <1>1. \A p : ~ Queued(<< >>, p)
    BY DEF Queued, Positions
  <1>2. Distinct(<< >>)
    BY DEF Distinct
  <1>3. TypeOK
    <2>1. yielding \in BOOLEAN /\ iflag \in BOOLEAN
      BY DEF Init
    <2>2. timeSlice \in [Procs -> 0 .. TIME_SLICE]
      BY TimeSliceAssumption DEF Init
    <2>3. readyQueue \in Seq(Procs) /\ terminated \in Seq(Procs)
      BY DEF Init
    <2> QED
      BY <2>1, <2>2, <2>3 DEF Init, TypeOK, States, Contexts, ExitPoints
  <1>4. QueuesAgree
    BY <1>1, <1>2 DEF Init, QueuesAgree
  <1>5. Exiting
    BY <1>1 DEF Init, Exiting
  <1>6. Slices
    BY DEF Init, Slices, WaitersKeepTheirSlice, Yielding
  <1> QED
    BY <1>3, <1>4, <1>5, <1>6 DEF IInv

\* createProcess puts a new process behind the queue.
LEMMA CreateInv ==
  ASSUME IInv, NEW p \in Procs, CreateProcess(p)
  PROVE  IInv'
  <1>1. /\ readyQueue' \in Seq(Procs)
        /\ \A r : Queued(readyQueue', r) <=> Queued(readyQueue, r) \/ r = p
        /\ Distinct(readyQueue')
    <2>1. ~ Queued(readyQueue, p)
      BY DEF CreateProcess, IInv, QueuesAgree
    <2> QED
      BY <2>1, Now, QueueOfAppend DEF CreateProcess
  <1>2. TypeOK'
    BY <1>1, Now DEF CreateProcess, IInv, TypeOK, States, Contexts
  <1>3. QueuesAgree'
    BY <1>1, Now DEF CreateProcess, IInv, TypeOK, QueuesAgree
  <1>4. Exiting'
    BY <1>1, Now DEF CreateProcess, IInv, TypeOK, QueuesAgree, Exiting
  <1>5. Slices'
    <2>1. yielding' => FALSE
      BY Now DEF CreateProcess, InOwnCode, IInv, Slices, Yielding
    <2>2. TIME_SLICE >= TIME_SLICE - YIELD_TICKS /\ TIME_SLICE >= TIME_SLICE
      BY Now
    <2>3. WaitersKeepTheirSlice'
      BY <2>2 DEF CreateProcess, IInv, TypeOK, Slices, WaitersKeepTheirSlice
    <2> QED
      BY <2>1, <2>3 DEF Slices, Yielding
  <1> QED
    BY <1>2, <1>3, <1>4, <1>5 DEF IInv

\* The first process leaves the queue for the CPU.
LEMMA LoadInv ==
  ASSUME IInv, LoadFirstProcess
  PROVE  IInv'
  <1> DEFINE next == Head(readyQueue)
  <1>1. /\ next \in Procs /\ readyQueue' \in Seq(Procs)
        /\ Queued(readyQueue, next)
        /\ \A r : Queued(readyQueue, r) <=> r = next \/ Queued(readyQueue', r)
        /\ Distinct(readyQueue') /\ ~ Queued(readyQueue', next)
    BY Now, QueueOfTail DEF LoadFirstProcess
  <1>2. TypeOK'
    BY <1>1, Now DEF LoadFirstProcess, IInv, TypeOK, States, Contexts
  <1>3. QueuesAgree'
    BY <1>1, Now DEF LoadFirstProcess, IInv, TypeOK, QueuesAgree, Exiting
  <1>4. Exiting'
    BY <1>1, Now DEF LoadFirstProcess, IInv, TypeOK, QueuesAgree, Exiting
  <1>5. Slices'
    <2>1. yielding' => FALSE
      BY Now DEF LoadFirstProcess, IInv, Slices, Yielding
    <2>2. WaitersKeepTheirSlice'
      BY <1>1 DEF LoadFirstProcess, IInv, TypeOK, Slices, WaitersKeepTheirSlice
    <2> QED
      BY <2>1, <2>2 DEF Slices, Yielding
  <1> QED
    BY <1>2, <1>3, <1>4, <1>5 DEF IInv

\* scheduler(): the head of the queue runs, and the process that was running
\* goes to the end with what it has of its slice.
LEMMA SwitchInv ==
  ASSUME IInv, NEW from \in {"isr", "call"}, NEW n \in 0 .. TIME_SLICE,
         n >= IF from = "call" THEN TIME_SLICE - YIELD_TICKS ELSE TIME_SLICE,
         current \in Procs, readyQueue # << >>,
         timeSlice' = [timeSlice EXCEPT ![current] = n],
         SwitchToNext(from), yielding' = FALSE,
         UNCHANGED <<terminated, exiting, held>>
  PROVE  IInv'
  <1> DEFINE next == Head(readyQueue)
             rest == Tail(readyQueue)
  <1>1. /\ next \in Procs /\ rest \in Seq(Procs)
        /\ Queued(readyQueue, next)
        /\ \A r : Queued(readyQueue, r) <=> r = next \/ Queued(rest, r)
        /\ Distinct(rest) /\ ~ Queued(rest, next)
    BY Now, QueueOfTail
  <1>2. current # next /\ ~ Queued(rest, current) /\ state[next] = "Ready"
    BY <1>1, Now DEF IInv, QueuesAgree
  <1>3. /\ current' = next
        /\ context' = [context EXCEPT ![current] = from, ![next] = "cpu"]
        /\ iflag' = (context[next] = "isr" \/ (from = "call" /\ iflag))
    BY DEF SwitchToNext, SwitchTo
  <1>4. /\ context' \in [Procs -> Contexts] /\ iflag' \in BOOLEAN /\ yielding' \in BOOLEAN
        /\ timeSlice' \in [Procs -> 0 .. TIME_SLICE]
    <2>1. context' \in [Procs -> Contexts]
      BY <1>1, <1>3 DEF IInv, TypeOK, Contexts
    <2>2. iflag' \in BOOLEAN
      BY <1>3
    <2>3. timeSlice' \in [Procs -> 0 .. TIME_SLICE]
      BY Now DEF IInv, TypeOK
    <2>4. yielding' \in BOOLEAN
      OBVIOUS
    <2> QED
      BY <2>1, <2>2, <2>3, <2>4
  <1>5. CASE state[current] = "Running"
    <2>1. /\ readyQueue' = Append(rest, current)
          /\ state' = [state EXCEPT ![current] = "Ready", ![next] = "Running"]
      BY <1>5 DEF SwitchToNext, Requeue
    <2> HIDE DEF next, rest
    <2>2. /\ readyQueue' \in Seq(Procs) /\ Distinct(readyQueue')
          /\ \A r : Queued(readyQueue', r) <=> Queued(rest, r) \/ r = current
      BY <1>1, <1>2, <2>1, QueueOfAppend
    <2>3. /\ state' \in [Procs -> States]
          /\ state'[current] = "Ready" /\ state'[next] = "Running"
          /\ \A r \in Procs \ {current, next} : state'[r] = state[r]
      BY <1>1, <1>2, <2>1 DEF IInv, TypeOK, States
    <2>4. TypeOK'
      BY <1>1, <1>3, <1>4, <2>2, <2>3 DEF IInv, TypeOK
    <2>5. ASSUME NEW r \in Procs
          PROVE  /\ Queued(readyQueue', r) => state'[r] = "Ready"
                 /\ Queued(terminated, r) => state'[r] = "Terminated"
                 /\ state'[r] = "Running" => r = next
                 /\ state'[r] = "Terminated" <=> state[r] = "Terminated"
      BY <1>1, <1>2, <1>5, <2>2, <2>3, Now DEF IInv, QueuesAgree
    <2>6. ASSUME NEW r \in Procs, held[r] # NULL
          PROVE  /\ held[r] \in Procs
                 /\ held[r] # next /\ held[r] # current
                 /\ state'[held[r]] = "Ready" /\ exiting[r] = "popped"
                 /\ ~ Queued(readyQueue', held[r])
      <3>1. /\ held[r] \in Procs /\ state[held[r]] = "Ready" /\ exiting[r] = "popped"
            /\ ~ Queued(readyQueue, held[r])
        BY <2>6 DEF IInv, TypeOK, QueuesAgree, Exiting
      <3> QED
        BY <3>1, <1>1, <1>5, <2>2, <2>3
    <2>7. QueuesAgree'
      BY <1>1, <1>3, <2>2, <2>3, <2>5, <2>6, Now DEF QueuesAgree
    <2>8. Exiting'
      BY <2>5, <2>6 DEF IInv, Exiting
    <2>9. Slices'
      <3>1. ASSUME NEW r \in Procs, state'[r] = "Ready"
            PROVE  timeSlice'[r] >= IF context'[r] = "call" THEN TIME_SLICE - YIELD_TICKS
                                    ELSE TIME_SLICE
        <4>1. r # next
          BY <2>3, <3>1
        <4>2. CASE r = current
          <5>1. context'[r] = from /\ timeSlice'[r] = n
            BY <1>1, <1>2, <1>3, <4>2 DEF IInv, TypeOK
          <5> QED
            BY <5>1
        <4>3. CASE r # current
          <5>1. context'[r] = context[r] /\ timeSlice'[r] = timeSlice[r] /\ state[r] = "Ready"
            BY <1>1, <1>3, <2>3, <3>1, <4>1, <4>3 DEF IInv, TypeOK
          <5> QED
            BY <5>1 DEF IInv, Slices, WaitersKeepTheirSlice
        <4> QED
          BY <4>2, <4>3
      <3> QED
        BY <3>1 DEF Slices, WaitersKeepTheirSlice, Yielding
    <2> QED
      BY <2>4, <2>7, <2>8, <2>9 DEF IInv
  <1>6. CASE state[current] = "Terminated"
    <2>1. /\ readyQueue' = rest
          /\ state' = [state EXCEPT ![next] = "Running"]
      BY <1>6 DEF SwitchToNext
    <2> HIDE DEF next, rest
    <2>3. /\ state' \in [Procs -> States]
          /\ state'[next] = "Running"
          /\ \A r \in Procs \ {next} : state'[r] = state[r]
      BY <1>1, <1>2, <2>1 DEF IInv, TypeOK, States
    <2>4. TypeOK'
      BY <1>1, <1>3, <1>4, <2>1, <2>3 DEF IInv, TypeOK
    <2>5. QueuesAgree'
      BY <1>1, <1>2, <1>3, <1>6, <2>1, <2>3, Now DEF IInv, TypeOK, QueuesAgree, Exiting
    <2>6. Exiting'
      BY <1>1, <1>2, <1>3, <1>6, <2>1, <2>3, Now DEF IInv, TypeOK, QueuesAgree, Exiting
    <2>7. Slices'
      <3>1. ASSUME NEW r \in Procs, state'[r] = "Ready"
            PROVE  timeSlice'[r] >= IF context'[r] = "call" THEN TIME_SLICE - YIELD_TICKS
                                    ELSE TIME_SLICE
        <4>1. r # next /\ r # current /\ state[r] = "Ready"
          BY <1>6, <2>3, <3>1
        <4>2. context'[r] = context[r] /\ timeSlice'[r] = timeSlice[r]
          BY <1>1, <1>3, <4>1 DEF IInv, TypeOK
        <4> QED
          BY <4>1, <4>2 DEF IInv, Slices, WaitersKeepTheirSlice
      <3> QED
        BY <3>1 DEF Slices, WaitersKeepTheirSlice, Yielding
    <2> QED
      BY <2>4, <2>5, <2>6, <2>7 DEF IInv
  <1> QED
    BY <1>5, <1>6, Now

\* Only the slice of a process that does not wait changes, and whether it yields.
LEMMA SliceInv ==
  ASSUME IInv, NEW p \in Procs, NEW n \in 0 .. TIME_SLICE,
         timeSlice' = [timeSlice EXCEPT ![p] = n],
         state[p] # "Ready", p = current, yielding' \in BOOLEAN,
         yielding' => exiting[p] = "no" /\ n >= TIME_SLICE - YIELD_TICKS,
         UNCHANGED <<current, readyQueue, terminated, state, context, iflag, exiting, held>>
  PROVE  IInv'
  <1>1. TypeOK'
    BY DEF IInv, TypeOK
  <1>2. QueuesAgree' /\ Exiting'
    BY DEF IInv, QueuesAgree, Exiting
  <1>3. Slices'
    BY DEF IInv, TypeOK, Slices, WaitersKeepTheirSlice, Yielding
  <1> QED
    BY <1>1, <1>2, <1>3 DEF IInv

\* A tick counts the slice down, or switches.
LEMMA TickInv ==
  ASSUME IInv, TickCounts \/ TickExpires
  PROVE  IInv'
  <1>1. current \in Procs /\ state[current] # "Ready" /\ yielding \in BOOLEAN
    BY Now DEF TickCounts, TickExpires, IInv, TypeOK
  <1>2. CASE TickCounts
    <2>1. timeSlice[current] \in 0 .. TIME_SLICE /\ timeSlice[current] > 1
      BY <1>1, <1>2 DEF TickCounts, IInv, TypeOK
    <2>2. timeSlice' = [timeSlice EXCEPT ![current] = timeSlice[current] - 1]
      BY <1>2 DEF TickCounts
    <2>3. timeSlice[current] - 1 \in 0 .. TIME_SLICE
      BY <2>1, Now
    <2>4. yielding' = yielding /\ (yielding => timeSlice[current] > TIME_SLICE - YIELD_TICKS)
      BY <1>2 DEF TickCounts
    <2>5. yielding => exiting[current] = "no" /\ timeSlice[current] - 1 >= TIME_SLICE - YIELD_TICKS
      BY <2>1, <2>4, Now DEF IInv, Slices, Yielding
    <2>6. UNCHANGED <<current, readyQueue, terminated, state, context, iflag, exiting, held>>
      BY <1>2 DEF TickCounts
    <2> QED
      BY <1>1, <2>2, <2>3, <2>4, <2>5, <2>6, SliceInv
  <1>3. CASE TickExpires /\ readyQueue = << >>
    <2>1. TIME_SLICE \in 0 .. TIME_SLICE
      BY Now
    <2>2. /\ timeSlice' = [timeSlice EXCEPT ![current] = TIME_SLICE]
          /\ ~ yielding /\ yielding' = yielding
          /\ UNCHANGED <<current, readyQueue, terminated, state, context, iflag, exiting, held>>
      BY <1>3 DEF TickExpires, Refill
    <2> QED
      BY <1>1, <2>1, <2>2, SliceInv
  <1>4. CASE TickExpires /\ readyQueue # << >>
    <2>1. TIME_SLICE \in 0 .. TIME_SLICE
      BY Now
    <2>2. /\ timeSlice' = [timeSlice EXCEPT ![current] = TIME_SLICE]
          /\ yielding' = FALSE /\ SwitchToNext("isr")
          /\ UNCHANGED <<terminated, exiting, held>>
      BY <1>1, <1>4 DEF TickExpires, Refill
    <2>3. TIME_SLICE >= IF "isr" = "call" THEN TIME_SLICE - YIELD_TICKS ELSE TIME_SLICE
      BY Now
    <2> QED
      BY <1>1, <1>4, <2>1, <2>2, <2>3, SwitchInv
  <1> QED
    BY <1>2, <1>3, <1>4

\* A process refills its slice ...
LEMMA RefillsInv ==
  ASSUME IInv, NEW p \in Procs, YieldRefills(p)
  PROVE  IInv'
  <1>1. p = current /\ state[current] # "Ready" /\ exiting[p] = "no"
    BY Now DEF YieldRefills, InOwnCode, IInv, TypeOK
  <1>2. TIME_SLICE \in 0 .. TIME_SLICE /\ TIME_SLICE >= TIME_SLICE - YIELD_TICKS
    BY Now
  <1>3. /\ timeSlice' = [timeSlice EXCEPT ![p] = TIME_SLICE]
        /\ yielding' = TRUE
        /\ UNCHANGED <<current, readyQueue, terminated, state, context, iflag, exiting, held>>
    BY DEF YieldRefills, Refill
  <1> QED
    BY <1>1, <1>2, <1>3, SliceInv

\* ... and gives the CPU up with what the ticks since have left of it.
LEMMA YieldInv ==
  ASSUME IInv, NEW p \in Procs, YieldSwitches(p)
  PROVE  IInv'
  <1>1. /\ p = current /\ state[p] # "Ready"
        /\ timeSlice[p] \in 0 .. TIME_SLICE
        /\ timeSlice[p] >= TIME_SLICE - YIELD_TICKS
    BY Now DEF YieldSwitches, IInv, TypeOK, Slices, Yielding
  <1>2. /\ timeSlice' = [timeSlice EXCEPT ![p] = timeSlice[p]]
        /\ yielding' = FALSE
        /\ UNCHANGED <<terminated, exiting, held>>
    BY DEF YieldSwitches, IInv, TypeOK
  <1>3. CASE readyQueue = << >>
    <2>1. UNCHANGED <<current, readyQueue, state, context, iflag>>
      BY <1>3 DEF YieldSwitches
    <2> QED
      BY <1>1, <1>2, <2>1, SliceInv
  <1>4. CASE readyQueue # << >>
    <2>1. SwitchToNext("call")
      BY <1>4 DEF YieldSwitches
    <2> QED
      BY <1>1, <1>2, <1>4, <2>1, SwitchInv
  <1> QED
    BY <1>3, <1>4

\* A process enables interrupts again (sti in sleep, enableInterrupts in ata.c).
LEMMA EnableInv ==
  ASSUME IInv, NEW p \in Procs, EnableInterrupts(p)
  PROVE  IInv'
  BY DEF EnableInterrupts, IInv, TypeOK, QueuesAgree, Exiting, Slices, WaitersKeepTheirSlice, Yielding

\* exitProcess marks the process ...
LEMMA MarksInv ==
  ASSUME IInv, NEW p \in Procs, ExitMarks(p)
  PROVE  IInv'
  <1>1. /\ current = p /\ exiting[p] = "no" /\ state[p] = "Running"
        /\ ~ Queued(readyQueue, p) /\ ~ Queued(terminated, p)
    BY Now DEF ExitMarks, InOwnCode, IInv, QueuesAgree, Exiting
  <1>2. /\ state' \in [Procs -> States] /\ exiting' \in [Procs -> ExitPoints]
        /\ state'[p] = "Terminated" /\ exiting'[p] = "marked"
        /\ \A r \in Procs \ {p} : state'[r] = state[r] /\ exiting'[r] = exiting[r]
    BY DEF ExitMarks, IInv, TypeOK, States, ExitPoints
  <1>3. iflag' \in BOOLEAN
    BY DEF ExitMarks
  <1>4. TypeOK'
    BY <1>2, <1>3 DEF ExitMarks, IInv, TypeOK
  <1>5. QueuesAgree'
    BY <1>1, <1>2, Now DEF ExitMarks, IInv, TypeOK, QueuesAgree
  <1>6. Exiting'
    BY <1>1, <1>2 DEF ExitMarks, IInv, QueuesAgree, Exiting
  <1>7. Slices'
    <2>1. ~ yielding'
      BY DEF ExitMarks, InOwnCode
    <2> QED
      BY <1>1, <1>2, <2>1 DEF ExitMarks, IInv, Slices, WaitersKeepTheirSlice, Yielding
  <1> QED
    BY <1>4, <1>5, <1>6, <1>7 DEF IInv

\* ... queues it as terminated ...
LEMMA QueuesInv ==
  ASSUME IInv, NEW p \in Procs, ExitQueues(p)
  PROVE  IInv'
  <1>1. /\ exiting[p] = "marked" /\ state[p] = "Terminated"
        /\ ~ Queued(terminated, p)
    BY DEF ExitQueues, IInv, Exiting
  <1>2. /\ terminated' \in Seq(Procs) /\ Distinct(terminated')
        /\ \A r : Queued(terminated', r) <=> Queued(terminated, r) \/ r = p
    BY <1>1, Now, QueueOfAppend DEF ExitQueues
  <1>3. /\ exiting' \in [Procs -> ExitPoints] /\ exiting'[p] = "queued"
        /\ \A r \in Procs \ {p} : exiting'[r] = exiting[r]
    BY DEF ExitQueues, IInv, TypeOK, ExitPoints
  <1>4. TypeOK'
    BY <1>2, <1>3 DEF ExitQueues, IInv, TypeOK
  <1>5. QueuesAgree'
    BY <1>1, <1>2, <1>3 DEF ExitQueues, IInv, QueuesAgree
  <1>6. Exiting'
    BY <1>1, <1>2, <1>3 DEF ExitQueues, IInv, QueuesAgree, Exiting
  <1>7. Slices'
    BY DEF ExitQueues, IInv, Slices, WaitersKeepTheirSlice, Yielding
  <1> QED
    BY <1>4, <1>5, <1>6, <1>7 DEF IInv

\* ... pops the next one, which is then Ready, in no queue, and held only here ...
LEMMA PopsInv ==
  ASSUME IInv, NEW p \in Procs, ExitPops(p)
  PROVE  IInv'
  <1>1. exiting[p] = "queued" /\ held[p] = NULL /\ state[p] = "Terminated"
    BY DEF ExitPops, IInv, QueuesAgree, Exiting
  <1>2. CASE readyQueue = << >>
    <2>1. /\ exiting' \in [Procs -> ExitPoints] /\ exiting'[p] = "spin"
          /\ \A r \in Procs \ {p} : exiting'[r] = exiting[r]
          /\ UNCHANGED <<current, readyQueue, terminated, state, timeSlice, context, iflag,
                         held, yielding>>
      BY <1>2 DEF ExitPops, IInv, TypeOK, ExitPoints
    <2> QED
      BY <1>1, <2>1 DEF IInv, TypeOK, QueuesAgree, Exiting, Slices, WaitersKeepTheirSlice, Yielding
  <1>3. CASE readyQueue # << >>
    <2> DEFINE next == Head(readyQueue)
    <2>1. /\ next \in Procs /\ readyQueue' \in Seq(Procs)
          /\ Queued(readyQueue, next)
          /\ \A r : Queued(readyQueue, r) <=> r = next \/ Queued(readyQueue', r)
          /\ Distinct(readyQueue') /\ ~ Queued(readyQueue', next)
      BY <1>3, Now, QueueOfTail DEF ExitPops
    <2>2. /\ exiting' \in [Procs -> ExitPoints] /\ exiting'[p] = "popped"
          /\ \A r \in Procs \ {p} : exiting'[r] = exiting[r]
      BY <1>3 DEF ExitPops, IInv, TypeOK, ExitPoints
    <2>3. /\ held' \in [Procs -> Procs \cup {NULL}] /\ held'[p] = next
          /\ \A r \in Procs \ {p} : held'[r] = held[r]
      BY <1>3, <2>1 DEF ExitPops, IInv, TypeOK
    <2>4. UNCHANGED <<current, terminated, state, timeSlice, context, iflag, yielding>>
      BY DEF ExitPops
    <2>5. state[next] = "Ready" /\ \A r \in Procs : held[r] # next
      BY <2>1, Now DEF IInv, QueuesAgree, Exiting
    <2> HIDE DEF next
    <2>6. TypeOK'
      BY <2>1, <2>2, <2>3, <2>4 DEF IInv, TypeOK
    <2>7. QueuesAgree'
      BY <1>1, <2>1, <2>2, <2>3, <2>4, <2>5 DEF IInv, QueuesAgree
    <2>8. ASSUME NEW r \in Procs
          PROVE  /\ exiting'[r] # "no" <=> state'[r] = "Terminated"
                 /\ exiting'[r] = "marked" => ~ Queued(terminated', r)
                 /\ exiting'[r] = "popped" => held'[r] # NULL
      <3>1. CASE r = p
        BY <3>1, <1>1, <2>1, <2>2, <2>3, <2>4, Now
      <3>2. CASE r # p
        BY <3>2, <2>2, <2>3, <2>4 DEF IInv, Exiting
      <3> QED
        BY <3>1, <3>2
    <2>9. ASSUME NEW r \in Procs, held'[r] # NULL
          PROVE  ~ Queued(readyQueue', held'[r])
      <3>1. CASE r = p
        BY <3>1, <2>1, <2>3
      <3>2. CASE r # p
        BY <3>2, <2>1, <2>3, <2>9 DEF IInv, Exiting
      <3> QED
        BY <3>1, <3>2
    <2>10. ASSUME NEW r \in Procs, NEW t \in Procs, held'[r] # NULL, held'[r] = held'[t]
           PROVE  r = t
      BY <2>3, <2>5, <2>10 DEF IInv, Exiting
    <2>11. Exiting'
      BY <2>8, <2>9, <2>10 DEF Exiting
    <2> QED
      <3>1. Slices'
        BY <1>1, <2>2, <2>4 DEF IInv, Slices, WaitersKeepTheirSlice, Yielding
      <3> QED
        BY <2>6, <2>7, <2>11, <3>1 DEF IInv
  <1> QED
    BY <1>2, <1>3

\* ... and switches to it.
LEMMA SwitchesInv ==
  ASSUME IInv, NEW p \in Procs, ExitSwitches(p)
  PROVE  IInv'
  <1> DEFINE next == held[p]
  <1>1. /\ next \in Procs /\ state[next] = "Ready" /\ state[p] = "Terminated"
        /\ ~ Queued(readyQueue, next) /\ ~ Queued(terminated, next)
        /\ \A r \in Procs \ {p} : held[r] # next
    BY Now DEF ExitSwitches, IInv, TypeOK, QueuesAgree, Exiting
  <1>2. /\ exiting' \in [Procs -> ExitPoints] /\ exiting'[p] = "spin"
        /\ \A r \in Procs \ {p} : exiting'[r] = exiting[r]
    BY DEF ExitSwitches, IInv, TypeOK, ExitPoints
  <1>3. /\ held' \in [Procs -> Procs \cup {NULL}] /\ held'[p] = NULL
        /\ \A r \in Procs \ {p} : held'[r] = held[r]
    BY DEF ExitSwitches, IInv, TypeOK
  <1>4. /\ state' \in [Procs -> States] /\ state'[next] = "Running"
        /\ \A r \in Procs \ {next} : state'[r] = state[r]
    BY <1>1 DEF ExitSwitches, IInv, TypeOK, States
  <1>5. /\ current' = next
        /\ UNCHANGED <<readyQueue, terminated, timeSlice, yielding>>
        /\ context' \in [Procs -> Contexts]
    BY <1>1 DEF ExitSwitches, SwitchTo, IInv, TypeOK, Contexts
  <1>6. iflag' \in BOOLEAN
    BY DEF ExitSwitches, SwitchTo
  <1>7. state[current] = "Terminated" /\ current = p
    BY <1>1 DEF ExitSwitches
  <1> HIDE DEF next
  <1>8. TypeOK'
    BY <1>1, <1>2, <1>3, <1>4, <1>5, <1>6 DEF IInv, TypeOK
  <1>9. ASSUME NEW r \in Procs
        PROVE  /\ Queued(readyQueue', r) => state'[r] = "Ready"
               /\ Queued(terminated', r) => state'[r] = "Terminated"
               /\ state'[r] = "Running" => r = next
               /\ state'[r] = "Terminated" <=> state[r] = "Terminated"
               /\ exiting'[r] # "no" <=> exiting[r] # "no"
    <2>1. state[r] = "Running" => r = p
      BY <1>7 DEF IInv, QueuesAgree
    <2>2. state'[r] = "Running" => r = next
      BY <1>1, <1>4, <2>1
    <2>3. state'[r] = "Terminated" <=> state[r] = "Terminated"
      BY <1>1, <1>4
    <2>4. /\ Queued(readyQueue', r) => state'[r] = "Ready"
          /\ Queued(terminated', r) => state'[r] = "Terminated"
      BY <1>1, <1>4, <1>5 DEF IInv, QueuesAgree
    <2>5. exiting'[r] # "no" <=> exiting[r] # "no"
      <3>1. exiting[p] # "no"
        BY <1>1 DEF IInv, Exiting
      <3> QED
        BY <3>1, <1>2
    <2> QED
      BY <2>2, <2>3, <2>4, <2>5
  <1>10. ASSUME NEW r \in Procs, held'[r] # NULL
         PROVE  /\ r # p /\ held'[r] = held[r]
                /\ state'[held'[r]] = "Ready" /\ exiting'[r] = "popped"
                /\ ~ Queued(readyQueue', held'[r])
    <2>1. r # p /\ held'[r] = held[r] /\ held[r] # next
      BY <1>1, <1>3, <1>10
    <2>2. /\ held[r] \in Procs /\ state[held[r]] = "Ready" /\ exiting[r] = "popped"
          /\ ~ Queued(readyQueue, held[r])
      BY <1>10, <2>1 DEF IInv, TypeOK, QueuesAgree, Exiting
    <2> QED
      BY <1>2, <1>4, <1>5, <2>1, <2>2
  <1>11. QueuesAgree'
    BY <1>1, <1>4, <1>5, <1>9, <1>10, Now DEF QueuesAgree
  <1>12. Exiting'
    <2>1. ASSUME NEW r \in Procs
          PROVE  /\ exiting'[r] # "no" <=> state'[r] = "Terminated"
                 /\ exiting'[r] = "marked" => ~ Queued(terminated', r)
                 /\ exiting'[r] = "popped" => held'[r] # NULL
      <3>1. exiting'[r] # "no" <=> state'[r] = "Terminated"
        BY <1>9 DEF IInv, Exiting
      <3>2. CASE r = p
        BY <3>1, <3>2, <1>2
      <3>3. CASE r # p
        BY <3>1, <3>3, <1>2, <1>3, <1>5 DEF IInv, Exiting
      <3> QED
        BY <3>2, <3>3
    <2>2. ASSUME NEW r \in Procs, NEW t \in Procs, held'[r] # NULL, held'[r] = held'[t]
          PROVE  r = t
      BY <2>2, <1>10 DEF IInv, Exiting
    <2> QED
      BY <1>10, <2>1, <2>2 DEF Exiting
  <1>13. Slices'
    <2>1. ~ yielding'
      BY <1>5, <1>7 DEF IInv, Slices, Yielding, ExitSwitches
    <2>2. ASSUME NEW r \in Procs, state'[r] = "Ready"
          PROVE  timeSlice'[r] >= IF context'[r] = "call" THEN TIME_SLICE - YIELD_TICKS
                                  ELSE TIME_SLICE
      <3>1. r # next /\ r # p /\ state[r] = "Ready"
        BY <1>1, <1>4, <2>2
      <3>2. context'[r] = context[r]
        BY <1>1, <3>1 DEF ExitSwitches, SwitchTo, IInv, TypeOK, next
      <3> QED
        BY <1>5, <3>1, <3>2 DEF IInv, Slices, WaitersKeepTheirSlice
    <2> QED
      BY <2>1, <2>2 DEF Slices, WaitersKeepTheirSlice, Yielding
  <1> QED
    BY <1>8, <1>11, <1>12, <1>13 DEF IInv

\* Every step preserves IInv.
LEMMA StepInv == IInv /\ [Next]_vars => IInv'
  <1> SUFFICES ASSUME IInv, [Next]_vars PROVE IInv'
    OBVIOUS
  <1>1. CASE UNCHANGED vars
    BY <1>1 DEF vars, IInv, TypeOK, QueuesAgree, Exiting, Slices, WaitersKeepTheirSlice, Yielding
  <1>2. CASE \E p \in Procs : CreateProcess(p)
    BY <1>2, CreateInv
  <1>3. CASE \E p \in Procs : YieldRefills(p) \/ YieldSwitches(p)
    BY <1>3, RefillsInv, YieldInv
  <1>4. CASE \E p \in Procs : EnableInterrupts(p)
    BY <1>4, EnableInv
  <1>5. CASE \E p \in Procs : ExitMarks(p)
    BY <1>5, MarksInv
  <1>6. CASE \E p \in Procs : ExitQueues(p)
    BY <1>6, QueuesInv
  <1>7. CASE \E p \in Procs : ExitPops(p)
    BY <1>7, PopsInv
  <1>8. CASE \E p \in Procs : ExitSwitches(p)
    BY <1>8, SwitchesInv
  <1>9. CASE LoadFirstProcess
    BY <1>9, LoadInv
  <1>10. CASE TickCounts \/ TickExpires
    BY <1>10, TickInv
  <1> QED
    BY <1>1, <1>2, <1>3, <1>4, <1>5, <1>6, <1>7, <1>8, <1>9, <1>10 DEF Next

\* The inductive invariant of the scheduler, masked callers or not.
THEOREM Invariance == Spec => []IInv
  BY InitInv, StepInv, PTL DEF Spec

\* Type correctness.
THEOREM TypeCorrect == Spec => []TypeOK
  <1>1. IInv => TypeOK
    BY DEF IInv
  <1> QED
    BY <1>1, Invariance, PTL

\* Whatever ticks interrupt exitProcess, a process is never queued twice, never
\* queued while it runs, and only one runs.
THEOREM QueuesAlwaysAgree == Spec => []QueuesAgree
  <1>1. IInv => QueuesAgree
    BY DEF IInv
  <1> QED
    BY <1>1, Invariance, PTL

\* A waiting process has its slice before it, but for the ticks that came in
\* while it was giving the CPU up.
THEOREM SlicesKept == Spec => []WaitersKeepTheirSlice
  <1>1. IInv => WaitersKeepTheirSlice
    BY DEF IInv, Slices
  <1> QED
    BY <1>1, Invariance, PTL

-----------------------------------------------------------------------------
(* Round robin.                                                            *)

\* A queue whose elements, from position j, are those of the old queue from
\* position j + d, and then ones that were not in it: nobody who was in both
\* has anybody new before him.
LEMMA OrderIsKept ==
  ASSUME NEW q \in Seq(Procs), NEW r \in Seq(Procs), Distinct(q),
         NEW d \in {0, 1},
         \A j \in 1 .. Len(r) :
           IF j + d <= Len(q) THEN r[j] = q[j + d] ELSE ~ Queued(q, r[j]),
         NEW p \in Procs, NEW i \in Positions(q, p), NEW j \in Positions(r, p)
  PROVE  Ahead(r, j) \subseteq Ahead(q, i)
  <1>1. i \in 1 .. Len(q) /\ q[i] = p /\ j \in 1 .. Len(r) /\ r[j] = p
        /\ Len(q) \in Nat /\ Len(r) \in Nat
    BY DEF Positions
  <1>2. j + d \in 1 .. Len(q)
    <2>1. i \in Positions(q, p)
      OBVIOUS
    <2>2. Queued(q, r[j])
      BY <1>1, <2>1 DEF Queued
    <2>3. IF j + d <= Len(q) THEN r[j] = q[j + d] ELSE ~ Queued(q, r[j])
      BY <1>1
    <2> QED
      BY <1>1, <2>2, <2>3
  <1>3. j + d = i
    <2>1. q[j + d] = q[i]
      BY <1>1, <1>2
    <2> QED
      BY <1>1, <1>2, <2>1 DEF Distinct
  <1> SUFFICES ASSUME NEW k \in 1 .. j - 1 PROVE r[k] \in Ahead(q, i)
    BY DEF Ahead
  <1>4. k + d \in 1 .. i - 1 /\ r[k] = q[k + d]
    <2>1. k \in 1 .. Len(r) /\ k + d <= Len(q) /\ k + d \in 1 .. i - 1
      BY <1>1, <1>3
    <2>2. IF k + d <= Len(q) THEN r[k] = q[k + d] ELSE ~ Queued(q, r[k])
      BY <2>1
    <2> QED
      BY <2>1, <2>2
  <1> QED
    BY <1>4 DEF Ahead

\* What the queue can look like after a step.
LEMMA QueueStep ==
  ASSUME IInv, Next
  PROVE  \/ readyQueue' = readyQueue
         \/ \E x \in Procs : ~ Queued(readyQueue, x) /\ readyQueue' = Append(readyQueue, x)
         \/ readyQueue # << >> /\ readyQueue' = Tail(readyQueue)
         \/ \E x \in Procs : /\ ~ Queued(readyQueue, x) /\ readyQueue # << >>
                             /\ readyQueue' = Append(Tail(readyQueue), x)
  <1>1. \A p \in Procs : CreateProcess(p) => ~ Queued(readyQueue, p)
    BY DEF CreateProcess, IInv, QueuesAgree
  <1>2. ASSUME NEW from \in {"isr", "call"}, SwitchToNext(from), readyQueue # << >>,
               current \in Procs
        PROVE  \/ readyQueue' = Tail(readyQueue)
               \/ readyQueue' = Append(Tail(readyQueue), current)
                  /\ ~ Queued(readyQueue, current)
    BY <1>2 DEF SwitchToNext, Requeue, IInv, QueuesAgree
  <1>3. CASE \E p \in Procs : CreateProcess(p)
    BY <1>1, <1>3 DEF CreateProcess
  <1>4. CASE \E p \in Procs : YieldRefills(p) \/ YieldSwitches(p)
    BY <1>2, <1>4, Now DEF YieldRefills, YieldSwitches
  <1>5. CASE \E p \in Procs : EnableInterrupts(p) \/ ExitMarks(p) \/ ExitQueues(p) \/ ExitSwitches(p)
    BY <1>5 DEF EnableInterrupts, ExitMarks, ExitQueues, ExitSwitches
  <1>6. CASE \E p \in Procs : ExitPops(p)
    BY <1>6 DEF ExitPops
  <1>7. CASE LoadFirstProcess
    BY <1>7 DEF LoadFirstProcess
  <1>8. CASE TickCounts
    BY <1>8 DEF TickCounts
  <1>9. CASE TickExpires
    BY <1>2, <1>9, Now DEF TickExpires, IInv, TypeOK
  <1> QED
    BY <1>3, <1>4, <1>5, <1>6, <1>7, <1>8, <1>9 DEF Next

\* Nobody overtakes.
LEMMA NobodyOvertakes ==
  ASSUME IInv, Next, NEW p \in Procs,
         NEW i \in Positions(readyQueue, p), NEW j \in Positions(readyQueue', p)
  PROVE  Ahead(readyQueue', j) \subseteq Ahead(readyQueue, i)
  <1> DEFINE q == readyQueue
             r == readyQueue'
  <1>1. q \in Seq(Procs) /\ Distinct(q)
    BY Now
  <1>2. CASE r = q
    <2>1. \A k \in 1 .. Len(q) : IF k + 0 <= Len(q) THEN q[k] = q[k + 0] ELSE ~ Queued(q, q[k])
      BY <1>1
    <2> QED
      BY <1>1, <1>2, <2>1, OrderIsKept, Zenon
  <1>3. ASSUME NEW x \in Procs, ~ Queued(q, x), r = Append(q, x)
        PROVE  Ahead(r, j) \subseteq Ahead(q, i)
    <2>1. r \in Seq(Procs)
      BY <1>1, <1>3
    <2>2. \A k \in 1 .. Len(r) : IF k + 0 <= Len(q) THEN r[k] = q[k + 0] ELSE ~ Queued(q, r[k])
      BY <1>1, <1>3
    <2> QED
      BY <1>1, <2>1, <2>2, OrderIsKept
  <1>4. CASE q # << >> /\ r = Tail(q)
    <2>1. r \in Seq(Procs)
      BY <1>1, <1>4
    <2>2. \A k \in 1 .. Len(r) : IF k + 1 <= Len(q) THEN r[k] = q[k + 1] ELSE ~ Queued(q, r[k])
      BY <1>1, <1>4
    <2> QED
      BY <1>1, <2>1, <2>2, OrderIsKept
  <1>5. ASSUME NEW x \in Procs, ~ Queued(q, x), q # << >>, r = Append(Tail(q), x)
        PROVE  Ahead(r, j) \subseteq Ahead(q, i)
    <2>1. r \in Seq(Procs)
      BY <1>1, <1>5
    <2>2. \A k \in 1 .. Len(r) : IF k + 1 <= Len(q) THEN r[k] = q[k + 1] ELSE ~ Queued(q, r[k])
      BY <1>1, <1>5
    <2> QED
      BY <1>1, <2>1, <2>2, OrderIsKept
  <1> QED
    BY <1>2, <1>3, <1>4, <1>5, QueueStep

\* A terminated process stays that way: whatever is made to run was Ready.
LEMMA TerminatedStays ==
  ASSUME IInv, Next, NEW p \in Procs, state[p] = "Terminated"
  PROVE  state'[p] = "Terminated"
  <1>1. readyQueue # << >> => Head(readyQueue) \in Procs /\ state[Head(readyQueue)] = "Ready"
    BY Now, QueueOfTail DEF IInv, QueuesAgree
  <1>2. ASSUME NEW from \in {"isr", "call"}, SwitchToNext(from), readyQueue # << >>,
               current \in Procs
        PROVE  state'[p] = "Terminated"
    BY <1>1, <1>2 DEF SwitchToNext, IInv, TypeOK
  <1>3. CASE \E x \in Procs : CreateProcess(x)
    BY <1>3 DEF CreateProcess, IInv, TypeOK
  <1>4. CASE \E x \in Procs : YieldRefills(x) \/ YieldSwitches(x)
    BY <1>2, <1>4, Now DEF YieldRefills, YieldSwitches
  <1>5. CASE \E x \in Procs : EnableInterrupts(x) \/ ExitQueues(x) \/ ExitPops(x)
    BY <1>5 DEF EnableInterrupts, ExitQueues, ExitPops
  <1>6. CASE \E x \in Procs : ExitMarks(x)
    BY <1>6 DEF ExitMarks, IInv, TypeOK
  <1>7. CASE \E x \in Procs : ExitSwitches(x)
    BY <1>7 DEF ExitSwitches, IInv, TypeOK, QueuesAgree, Exiting
  <1>8. CASE LoadFirstProcess
    BY <1>1, <1>8 DEF LoadFirstProcess, IInv, TypeOK
  <1>9. CASE TickCounts
    BY <1>9 DEF TickCounts
  <1>10. CASE TickExpires
    BY <1>2, <1>10, Now DEF TickExpires, IInv, TypeOK
  <1> QED
    BY <1>3, <1>4, <1>5, <1>6, <1>7, <1>8, <1>9, <1>10 DEF Next

\* Round robin for any number of processes and whatever interrupts exitProcess:
\* nobody gets ahead of a process that waits, and nobody comes back from the dead.
THEOREM RoundRobin == Spec => NoOvertaking
  <1> DEFINE Fair == \A p \in Procs :
               /\ \A i \in Positions(readyQueue, p), j \in Positions(readyQueue', p) :
                    Ahead(readyQueue', j) \subseteq Ahead(readyQueue, i)
               /\ state[p] = "Terminated" => state'[p] = "Terminated"
  <1>1. IInv /\ [Next]_vars => [Fair]_vars
    BY NobodyOvertakes, TerminatedStays
  <1>2. [Fair]_vars => [\A p \in Procs :
               /\ \A i \in Positions(readyQueue, p), j \in Positions(readyQueue', p) :
                    Ahead(readyQueue', j) \subseteq Ahead(readyQueue, i)
               /\ state[p] = "Terminated" => state'[p] = "Terminated"]_vars
    OBVIOUS
  <1> HIDE DEF Fair
  <1> QED
    BY <1>1, <1>2, Invariance, PTL DEF Spec, NoOvertaking

-----------------------------------------------------------------------------
(* With interrupts off in exitProcess, no process is lost.                 *)

MaskedInv == IInv /\ Masked /\ NoProcessLost

\* No process is in the masked part of exitProcess.
NobodyExits ==
  \A p \in Procs : exiting[p] \notin {"marked", "queued", "popped"} /\ held[p] = NULL

EveryReadyQueued == \A p \in Procs : state[p] = "Ready" => Queued(readyQueue, p)

\* Whoever runs with interrupts on, or outside exitProcess, runs while nobody
\* exits; so what is Ready is in the queue.
LEMMA Undisturbed ==
  ASSUME MaskedInv, iflag \/ current = NULL \/ exiting[current] = "no"
  PROVE  NobodyExits /\ EveryReadyQueued
  <1>1. \A p \in Procs : held[p] # NULL => exiting[p] = "popped"
    BY DEF MaskedInv, IInv, QueuesAgree
  <1>2. \A p \in Procs : exiting[p] \notin {"marked", "queued", "popped"}
    BY Now DEF MaskedInv, Masked
  <1>3. NobodyExits
    BY <1>1, <1>2 DEF NobodyExits
  <1>4. \A p \in Procs : ~ HeldByExit(p)
    BY <1>3, Now DEF NobodyExits, HeldByExit, MaskedInv, IInv, TypeOK
  <1>5. EveryReadyQueued
    BY <1>4 DEF EveryReadyQueued, MaskedInv, NoProcessLost, HeldByExit, Queued
  <1> QED
    BY <1>3, <1>5

\* A step after which nobody exits and every Ready process is queued is fine.
LEMMA QuietStep ==
  ASSUME IInv', NobodyExits', EveryReadyQueued'
  PROVE  MaskedInv'
  <1>1. Masked'
    BY DEF NobodyExits, Masked
  <1>2. \A p \in Procs : ~ HeldByExit(p)'
    BY NullAssumption DEF NobodyExits, HeldByExit, IInv, TypeOK
  <1>3. NoProcessLost'
    BY <1>2, Zenon DEF EveryReadyQueued, NoProcessLost
  <1> QED
    BY <1>1, <1>3 DEF MaskedInv

\* The steps outside exitProcess.
LEMMA QuietSteps ==
  ASSUME MaskedInv, IInv',
         \/ \E p \in Procs : \/ CreateProcess(p) \/ EnableInterrupts(p)
                              \/ YieldRefills(p) \/ YieldSwitches(p)
         \/ LoadFirstProcess \/ TickCounts \/ TickExpires
  PROVE  MaskedInv'
  <1>1. NobodyExits /\ EveryReadyQueued
    <2>1. yielding => exiting[current] = "no"
      BY DEF MaskedInv, IInv, Slices, Yielding
    <2> QED
      BY <2>1, Undisturbed DEF CreateProcess, YieldRefills, YieldSwitches, EnableInterrupts,
                               InOwnCode, LoadFirstProcess, TickCounts, TickExpires
  <1>2. UNCHANGED <<exiting, held>>
    BY DEF CreateProcess, YieldRefills, YieldSwitches, EnableInterrupts, LoadFirstProcess,
           TickCounts, TickExpires
  <1>3. NobodyExits'
    BY <1>1, <1>2 DEF NobodyExits
  <1>4. IInv
    BY DEF MaskedInv
  <1>5. ASSUME NEW p \in Procs, CreateProcess(p) PROVE EveryReadyQueued'
    <2>1. \A r : Queued(readyQueue', r) <=> Queued(readyQueue, r) \/ r = p
      BY <1>4, <1>5, Now, QueueOfAppend DEF CreateProcess
    <2>2. \A r \in Procs \ {p} : state'[r] = state[r]
      BY <1>4, <1>5 DEF CreateProcess, IInv, TypeOK
    <2> QED
      BY <1>1, <2>1, <2>2 DEF EveryReadyQueued
  <1>6. ASSUME LoadFirstProcess PROVE EveryReadyQueued'
    <2> DEFINE next == Head(readyQueue)
    <2>1. \A r : Queued(readyQueue, r) <=> r = next \/ Queued(readyQueue', r)
      BY <1>4, <1>6, Now, QueueOfTail DEF LoadFirstProcess
    <2>2. next \in Procs
      BY <1>4, <1>6, Now, QueueOfTail DEF LoadFirstProcess
    <2>3. state'[next] = "Running" /\ \A r \in Procs \ {next} : state'[r] = state[r]
      BY <1>4, <1>6, <2>2 DEF LoadFirstProcess, IInv, TypeOK
    <2> HIDE DEF next
    <2> QED
      BY <1>1, <2>1, <2>2, <2>3 DEF EveryReadyQueued
  <1>7. ASSUME NEW from, SwitchToNext(from), current \in Procs, readyQueue # << >>
        PROVE  EveryReadyQueued'
    <2> DEFINE next == Head(readyQueue)
               rest == Tail(readyQueue)
    <2>1. /\ next \in Procs /\ rest \in Seq(Procs)
          /\ \A r : Queued(readyQueue, r) <=> r = next \/ Queued(rest, r)
          /\ Distinct(readyQueue) /\ ~ Queued(rest, next)
      BY <1>4, <1>7, Now, QueueOfTail
    <2>2. CASE state[current] = "Running"
      <3>1. /\ readyQueue' = Append(rest, current)
            /\ state' = [state EXCEPT ![current] = "Ready", ![next] = "Running"]
        BY <1>7, <2>2 DEF SwitchToNext, Requeue
      <3> HIDE DEF next, rest
      <3>2. \A r : Queued(readyQueue', r) <=> Queued(rest, r) \/ r = current
        BY <1>7, <2>1, <3>1, QueueOfAppend
      <3>3. /\ state'[next] = "Running"
            /\ \A r \in Procs \ {current, next} : state'[r] = state[r]
        BY <1>4, <1>7, <2>1, <3>1 DEF IInv, TypeOK
      <3> QED
        BY <1>1, <2>1, <3>2, <3>3 DEF EveryReadyQueued
    <2>3. CASE state[current] # "Running"
      <3>1. /\ readyQueue' = rest
            /\ state' = [state EXCEPT ![next] = "Running"]
        BY <1>7, <2>3 DEF SwitchToNext
      <3> HIDE DEF next, rest
      <3>2. /\ state'[next] = "Running"
            /\ \A r \in Procs \ {next} : state'[r] = state[r]
        BY <1>4, <2>1, <3>1 DEF IInv, TypeOK
      <3> QED
        BY <1>1, <2>1, <3>1, <3>2 DEF EveryReadyQueued
    <2> QED
      BY <2>2, <2>3
  <1>8. ASSUME readyQueue' = readyQueue, state' = state PROVE EveryReadyQueued'
    BY <1>1, <1>8 DEF EveryReadyQueued
  <1>9. ASSUME NEW p \in Procs, YieldRefills(p) \/ YieldSwitches(p) PROVE EveryReadyQueued'
    BY <1>7, <1>8, <1>9 DEF YieldRefills, YieldSwitches
  <1>10. ASSUME TickExpires PROVE EveryReadyQueued'
    <2>1. current \in Procs
      BY <1>4, <1>10 DEF TickExpires, IInv, TypeOK
    <2>2. CASE readyQueue = << >>
      BY <1>8, <1>10, <2>2 DEF TickExpires
    <2>3. CASE readyQueue # << >>
      BY <1>7, <1>10, <2>1, <2>3 DEF TickExpires
    <2> QED
      BY <2>2, <2>3
  <1>11. ASSUME NEW p \in Procs, EnableInterrupts(p) PROVE EveryReadyQueued'
    BY <1>8, <1>11 DEF EnableInterrupts
  <1>12. ASSUME TickCounts PROVE EveryReadyQueued'
    BY <1>8, <1>12 DEF TickCounts
  <1>13. EveryReadyQueued'
    BY <1>5, <1>6, <1>9, <1>10, <1>11, <1>12
  <1> QED
    BY <1>3, <1>13, QuietStep

\* The steps of exitProcess: interrupts go off at the first, the process that
\* the third one pops is held by the process on the CPU until the fourth.
LEMMA ExitSteps ==
  ASSUME CallersMask, MaskedInv, IInv', NEW p \in Procs,
         ExitMarks(p) \/ ExitQueues(p) \/ ExitPops(p) \/ ExitSwitches(p)
  PROVE  MaskedInv'
  <1>1. IInv /\ current = p /\ current \in Procs /\ current # NULL
    BY NullAssumption DEF MaskedInv, ExitMarks, ExitQueues, ExitPops, ExitSwitches, InOwnCode
  <1>2. ASSUME NEW r \in Procs, state[r] = "Ready"
        PROVE  Queued(readyQueue, r) <=> held[p] # r
    BY <1>1, <1>2 DEF MaskedInv, NoProcessLost, HeldByExit, Queued
  <1>3. ASSUME current' = p,
               \A r \in Procs : state'[r] = "Ready" => (Queued(readyQueue', r) <=> held'[p] # r)
        PROVE  NoProcessLost'
    BY <1>1, <1>3, Zenon DEF NoProcessLost, HeldByExit
  <1>4. ASSUME NEW r \in Procs \ {p} PROVE exiting[r] \notin {"marked", "queued", "popped"}
    BY <1>1 DEF MaskedInv, Masked
  <1>5. CASE ExitMarks(p)
    <2>1. /\ iflag' = FALSE /\ current' = p /\ UNCHANGED <<readyQueue, held>>
          /\ \A r \in Procs \ {p} : exiting'[r] = exiting[r] /\ state'[r] = state[r]
          /\ state'[p] # "Ready"
      BY <1>1, <1>5 DEF ExitMarks, IInv, TypeOK
    <2>2. Masked'
      BY <1>4, <2>1 DEF Masked
    <2>3. NoProcessLost'
      BY <1>2, <1>3, <2>1
    <2> QED
      BY <2>2, <2>3 DEF MaskedInv
  <1>6. CASE ExitQueues(p)
    <2>1. /\ UNCHANGED <<iflag, current, readyQueue, held, state>>
          /\ \A r \in Procs \ {p} : exiting'[r] = exiting[r]
          /\ exiting[p] = "marked"
      BY <1>1, <1>6 DEF ExitQueues, IInv, TypeOK
    <2>2. Masked'
      BY <1>1, <1>4, <2>1 DEF Masked, MaskedInv
    <2>3. NoProcessLost'
      BY <1>1, <1>2, <1>3, <2>1
    <2> QED
      BY <2>2, <2>3 DEF MaskedInv
  <1>7. CASE ExitPops(p)
    <2>1. /\ UNCHANGED <<iflag, current, state>>
          /\ \A r \in Procs \ {p} : exiting'[r] = exiting[r]
          /\ exiting[p] = "queued"
      BY <1>1, <1>7 DEF ExitPops, IInv, TypeOK
    <2>2. Masked'
      BY <1>1, <1>4, <2>1 DEF Masked, MaskedInv
    <2>3. held[p] = NULL
      BY <2>1 DEF IInv, QueuesAgree, MaskedInv
    <2>4. CASE readyQueue = << >>
      <3>1. UNCHANGED <<readyQueue, held>>
        BY <1>7, <2>4 DEF ExitPops
      <3> QED
        BY <1>1, <1>2, <1>3, <2>1, <2>2, <3>1 DEF MaskedInv
    <2>5. CASE readyQueue # << >>
      <3> DEFINE next == Head(readyQueue)
      <3>1. /\ next \in Procs /\ ~ Queued(readyQueue', next)
            /\ \A r : Queued(readyQueue, r) <=> r = next \/ Queued(readyQueue', r)
        BY <1>1, <1>7, <2>5, Now, QueueOfTail DEF ExitPops
      <3>2. held'[p] = next
        BY <1>1, <1>7, <2>5 DEF ExitPops, IInv, TypeOK
      <3> HIDE DEF next
      <3>3. ASSUME NEW r \in Procs, state[r] = "Ready"
            PROVE  Queued(readyQueue', r) <=> next # r
        BY <1>2, <2>3, <3>1, <3>3, NullAssumption
      <3>4. NoProcessLost'
        BY <1>1, <1>3, <2>1, <3>2, <3>3
      <3> QED
        BY <2>2, <3>4 DEF MaskedInv
    <2> QED
      BY <2>4, <2>5
  <1>8. CASE ExitSwitches(p)
    <2> DEFINE next == held[p]
    <2>1. next \in Procs
      BY <1>1, <1>8 DEF ExitSwitches, IInv, TypeOK, Exiting
    <2>2. /\ exiting'[p] = "spin" /\ held'[p] = NULL /\ state'[next] = "Running"
          /\ \A r \in Procs \ {p} : exiting'[r] = exiting[r] /\ held'[r] = held[r]
          /\ \A r \in Procs \ {next} : state'[r] = state[r]
          /\ readyQueue' = readyQueue
      BY <1>1, <1>8, <2>1 DEF ExitSwitches, IInv, TypeOK
    <2>3. NobodyExits'
      <3>1. \A r \in Procs \ {p} : held[r] = NULL
        BY <1>1, <1>4 DEF IInv, QueuesAgree
      <3> QED
        BY <1>4, <2>2, <3>1 DEF NobodyExits
    <2>4. EveryReadyQueued'
      BY <1>2, <2>2 DEF EveryReadyQueued
    <2> QED
      BY <2>3, <2>4, QuietStep
  <1> QED
    BY <1>5, <1>6, <1>7, <1>8

\* If whoever calls exitProcess has interrupts off, then no Ready process ever
\* drops out of both places it can wait in: the queue, or the scheduler() call
\* that exitProcess makes.
THEOREM NoneLostWhenMasked ==
  ASSUME CallersMask
  PROVE  Spec => []NoProcessLost
  <1>1. Init => MaskedInv
    <2> SUFFICES ASSUME Init PROVE MaskedInv
      OBVIOUS
    <2>1. IInv
      BY InitInv
    <2>2. Masked /\ NoProcessLost
      BY DEF Init, Masked, NoProcessLost
    <2> QED
      BY <2>1, <2>2 DEF MaskedInv
  <1>2. MaskedInv /\ [Next]_vars => MaskedInv'
    <2> SUFFICES ASSUME MaskedInv, [Next]_vars PROVE MaskedInv'
      OBVIOUS
    <2>1. IInv'
      BY StepInv DEF MaskedInv
    <2>2. CASE UNCHANGED vars
      BY <2>1, <2>2 DEF vars, MaskedInv, Masked, NoProcessLost, HeldByExit
    <2>3. CASE \E p \in Procs : \/ ExitMarks(p) \/ ExitQueues(p)
                                \/ ExitPops(p) \/ ExitSwitches(p)
      BY <2>1, <2>3, ExitSteps
    <2> QED
      BY <2>1, <2>2, <2>3, QuietSteps DEF Next
  <1>3. MaskedInv => NoProcessLost
    BY DEF MaskedInv
  <1> QED
    BY <1>1, <1>2, <1>3, PTL DEF Spec
=============================================================================

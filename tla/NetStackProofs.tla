--------------------------- MODULE NetStackProofs ---------------------------
(***************************************************************************)
(* For any number of descriptors, any cache and table sizes, leases, zones *)
(* and neighbours: the card's ring has no gap, and what a program sends to *)
(* a name goes to its host.                                                *)
(***************************************************************************)
EXTENDS NetStack, SequenceTheorems, WellFoundedInduction, TLAPS

(* The ring of descriptors.                                                *)

Stages == {"idle", "wait", "write", "sent", "advance"}
Fields == {"at", "entry", "next", "frame"}

\* What every step leaves as it is.
NicTyped ==
  /\ txIndex \in Slots /\ card \in Slots
  /\ slots = [d \in Slots |-> slots[d]]
  /\ send = [c \in Contexts |-> send[c]]
  /\ \A c \in Contexts :
       /\ DOMAIN send[c] = Fields
       /\ send[c].at \in Stages /\ send[c].entry \in Slots /\ send[c].next \in Slots
       /\ Sending(c) => send[c].frame.kind # "free"

\* How many turns of the card a descriptor is away, and the one n turns away.
Away(d) == IF d >= card THEN d - card ELSE d - card + DESCRIPTORS
Ahead(n) == IF card + n < DESCRIPTORS THEN card + n ELSE card + n - DESCRIPTORS

\* The next n descriptors hold frames and the others none, and the one behind
\* them is where the next frame goes: where it goes, or what becomes of txIndex.
Consecutive(n) ==
  /\ \A d \in Slots : slots[d] # Free <=> Away(d) < n
  /\ (\A c \in Contexts : ~ Sending(c)) => txIndex = Ahead(n)
  /\ \A c \in Contexts :
       /\ send[c].at \in {"wait", "write"} => send[c].entry = txIndex /\ txIndex = Ahead(n)
       /\ send[c].at = "write" => slots[send[c].entry] = Free
       /\ send[c].at = "sent" => (txIndex + 1) % DESCRIPTORS = Ahead(n)
       /\ send[c].at = "advance" => send[c].next = Ahead(n)

\* As long as nobody has sent in the middle of a send.
InTurns ==
  ~ raced =>
    /\ ~ Sending("program") \/ ~ Sending("interrupt")
    /\ \E n \in 0 .. DESCRIPTORS : Consecutive(n)

NicInv == NicTyped /\ InTurns

-----------------------------------------------------------------------------
\* Going round the ring.
LEMMA Round ==
  ASSUME NEW x \in Slots, NEW k \in 0 .. DESCRIPTORS
  PROVE  /\ (x + k) % DESCRIPTORS = IF x + k < DESCRIPTORS THEN x + k ELSE x + k - DESCRIPTORS
         /\ (x + k) % DESCRIPTORS \in Slots
  BY NicAssumption DEF Slots

\* ... by one.
LEMMA OneOn ==
  ASSUME NEW x \in Slots
  PROVE  /\ (x + 1) % DESCRIPTORS = IF x + 1 < DESCRIPTORS THEN x + 1 ELSE 0
         /\ (x + 1) % DESCRIPTORS \in Slots
  <1>1. 1 \in 0 .. DESCRIPTORS
    BY NicAssumption
  <1>2. (x + 1) % DESCRIPTORS = IF x + 1 < DESCRIPTORS THEN x + 1 ELSE x + 1 - DESCRIPTORS
    BY <1>1, Round
  <1> QED
    BY <1>2, NicAssumption DEF Slots

\* At the start the ring is empty.
LEMMA InitNic == NicInit => NicInv
  <1> SUFFICES ASSUME NicInit PROVE NicInv
    OBVIOUS
  <1>1. 0 \in Slots /\ DESCRIPTORS \in Nat
    BY NicAssumption DEF Slots
  <1>2. NicTyped
    BY <1>1 DEF NicInit, NicTyped, Fields, Idle, Stages, Sending
  <1>3. Consecutive(0)
    BY <1>1 DEF NicInit, Consecutive, Idle, Away, Ahead, Slots
  <1>4. ~ Sending("program")
    BY DEF NicInit, Idle, Sending, Contexts
  <1> QED
    BY <1>1, <1>2, <1>3, <1>4 DEF NicInv, InTurns

\* A send begins: the program's when nobody is sending, or the interrupt's.
Begins(c, frame) ==
  /\ c \in Contexts /\ frame.kind # "free"
  /\ ~ Sending("interrupt") /\ (c = "program" => ~ Sending("program"))
  /\ SendBegins(c, frame)

\* It waits for the descriptor behind those that are filled.
LEMMA BeginKeepsNic ==
  ASSUME NicInv, NEW c, NEW frame, Begins(c, frame)
  PROVE  NicInv'
  <1> USE DEF NicInv, Contexts
  <1>1. /\ c \in Contexts /\ UNCHANGED <<txIndex, slots, card, tok>>
        /\ send' = [send EXCEPT ![c] =
                      [at |-> "wait", entry |-> txIndex, next |-> 0, frame |-> frame]]
    BY DEF Begins, SendBegins
  <1>2. 0 \in Slots
    BY NicAssumption DEF Slots
  <1>3. NicTyped'
    BY <1>1, <1>2 DEF NicTyped, Begins, Fields, Stages, Sending
  <1>4. InTurns'
    <2> SUFFICES ASSUME ~ raced' PROVE InTurns'
      BY DEF InTurns
    <2>1. ~ raced /\ ~ Sending("program") /\ ~ Sending("interrupt")
      BY DEF Begins, SendBegins
    <2>2. PICK n \in 0 .. DESCRIPTORS : Consecutive(n)
      BY <2>1 DEF InTurns
    <2>3. txIndex = Ahead(n)
      BY <2>1, <2>2 DEF Consecutive
    <2>4. Consecutive(n)'
      BY <1>1, <2>1, <2>2, <2>3 DEF Consecutive, NicTyped, Sending, Away, Ahead
    <2>5. ~ Sending("program")' \/ ~ Sending("interrupt")'
      BY <1>1, <2>1 DEF NicTyped, Sending
    <2> QED
      BY <2>4, <2>5 DEF InTurns
  <1> QED
    BY <1>3, <1>4

\* Filling that descriptor makes them one more; txIndex follows.
LEMMA SendingKeepsNic ==
  ASSUME NicInv, NEW c \in Contexts, rtlSendPacket(c)
  PROVE  NicInv'
  <1> USE DEF NicInv, Contexts
  <1>1. /\ card' = card /\ raced' = raced
        /\ send' = [send EXCEPT ![c] = send'[c]]
        /\ Sending(c)
    BY DEF rtlSendPacket, SlotIsFree, SlotIsFilled, SentIsSeen, IndexAdvances, Sending, NicTyped
  <1>2. (txIndex + 1) % DESCRIPTORS \in Slots
    BY OneOn DEF NicTyped
  <1>3. NicTyped'
    <2>1. CASE SlotIsFree(c)
      BY <2>1 DEF SlotIsFree, NicTyped, Fields, Stages, Sending
    <2>2. CASE SlotIsFilled(c)
      BY <2>2 DEF SlotIsFilled, NicTyped, Fields, Stages, Sending
    <2>3. CASE SentIsSeen(c)
      BY <1>2, <2>3 DEF SentIsSeen, NicTyped, Fields, Stages, Sending
    <2>4. CASE IndexAdvances(c)
      <3>1. 0 \in Slots
        BY NicAssumption DEF Slots
      <3> QED
        BY <2>4, <3>1 DEF IndexAdvances, NicTyped, Fields, Stages, Sending, Idle
    <2> QED
      BY <2>1, <2>2, <2>3, <2>4 DEF rtlSendPacket
  <1>4. InTurns'
    <2> SUFFICES ASSUME ~ raced' PROVE InTurns'
      BY DEF InTurns
    <2>1. ~ raced /\ \A o \in Contexts \ {c} : ~ Sending(o) /\ send'[o] = send[o]
      BY <1>1 DEF InTurns, NicTyped
    <2>2. PICK n \in 0 .. DESCRIPTORS : Consecutive(n)
      BY <2>1 DEF InTurns
    <2>3. ~ Sending("program")' \/ ~ Sending("interrupt")'
      BY <2>1 DEF Sending
    <2>4. CASE SlotIsFree(c)
      <3>1. /\ send'[c].at = "write" /\ send'[c].entry = send[c].entry
            /\ UNCHANGED <<txIndex, slots, card>> /\ slots[send[c].entry] = Free
        BY <2>4 DEF SlotIsFree, NicTyped
      <3>2. Consecutive(n)'
        BY <2>1, <2>2, <2>4, <3>1 DEF Consecutive, SlotIsFree, Sending, Away, Ahead
      <3> QED
        BY <2>3, <3>2 DEF InTurns
    <2>5. CASE SlotIsFilled(c)
      <3> DEFINE at == send[c].entry
      <3>1. /\ send'[c].at = "sent" /\ UNCHANGED <<txIndex, card>>
            /\ at = txIndex /\ at \in Slots /\ at = Ahead(n) /\ slots[at] = Free
            /\ slots' = [slots EXCEPT ![at] = OnWire(send[c].frame)]
        BY <2>2, <2>5 DEF SlotIsFilled, NicTyped, Consecutive
      <3>2. OnWire(send[c].frame) # Free
        BY <1>1 DEF OnWire, Free, NicTyped
      <3>3. n < DESCRIPTORS /\ Away(at) = n /\ \A d \in Slots : Away(d) = n => d = at
        <4>1. /\ card \in Nat /\ card < DESCRIPTORS /\ DESCRIPTORS \in Nat /\ n \in Nat
              /\ n <= DESCRIPTORS /\ \A d \in Slots : d \in Nat /\ d < DESCRIPTORS
          BY NicAssumption DEF NicTyped, Slots
        <4>2. ~ Away(at) < n
          BY <2>2, <3>1 DEF Consecutive
        <4>3. n < DESCRIPTORS /\ Away(at) = n
          BY <3>1, <4>1, <4>2 DEF Away, Ahead
        <4> QED
          BY <3>1, <4>1, <4>3 DEF Away
      <3>4. n + 1 \in 0 .. DESCRIPTORS /\ (txIndex + 1) % DESCRIPTORS = Ahead(n + 1)
        <4>1. (txIndex + 1) % DESCRIPTORS = IF txIndex + 1 < DESCRIPTORS THEN txIndex + 1 ELSE 0
          BY OneOn DEF NicTyped
        <4> QED
          <5>1. /\ card \in Nat /\ card < DESCRIPTORS /\ DESCRIPTORS \in Nat /\ n \in Nat
                /\ txIndex = Ahead(n)
            BY <3>1, NicAssumption DEF NicTyped, Slots
          <5> QED
            BY <3>3, <4>1, <5>1 DEF Ahead
      <3>5. \A d \in Slots : slots'[d] # Free <=> Away(d) < n + 1
        BY <2>2, <3>1, <3>2, <3>3, NicAssumption DEF Consecutive, NicTyped, Away, Slots
      <3>6. Ahead(n + 1)' = Ahead(n + 1) /\ \A d \in Slots : Away(d)' = Away(d)
        BY <1>1 DEF Ahead, Away
      <3>7. Consecutive(n + 1)'
        BY <2>1, <3>1, <3>4, <3>5, <3>6 DEF Consecutive, Sending
      <3> QED
        BY <2>3, <3>4, <3>7 DEF InTurns
    <2>6. CASE SentIsSeen(c)
      <3>1. /\ send'[c].at = "advance" /\ send'[c].next = (txIndex + 1) % DESCRIPTORS
            /\ UNCHANGED <<txIndex, slots, card>>
        BY <2>6 DEF SentIsSeen, NicTyped
      <3>2. Consecutive(n)'
        BY <2>1, <2>2, <2>6, <3>1 DEF Consecutive, SentIsSeen, Sending, Away, Ahead
      <3> QED
        BY <2>3, <3>2 DEF InTurns
    <2>7. CASE IndexAdvances(c)
      <3>1. send'[c].at = "idle" /\ txIndex' = Ahead(n) /\ UNCHANGED <<slots, card>>
        BY <2>2, <2>7 DEF IndexAdvances, NicTyped, Consecutive, Idle
      <3>2. Consecutive(n)'
        BY <2>1, <2>2, <3>1 DEF Consecutive, Sending, Away, Ahead
      <3> QED
        BY <2>3, <3>2 DEF InTurns
    <2> QED
      BY <2>4, <2>5, <2>6, <2>7 DEF rtlSendPacket
  <1> QED
    BY <1>3, <1>4

\* The card's turn makes them one less, from the front.
LEMMA CardKeepsNic ==
  ASSUME NicInv, CardSends
  PROVE  NicInv'
  <1> USE DEF NicInv, Contexts
  <1>1. /\ slots[card] # Free /\ slots' = [slots EXCEPT ![card] = Free]
        /\ card' = (card + 1) % DESCRIPTORS /\ UNCHANGED <<txIndex, send, raced>>
    BY DEF CardSends
  <1>2. card' \in Slots /\ card' = IF card + 1 < DESCRIPTORS THEN card + 1 ELSE 0
    BY <1>1, OneOn DEF NicTyped
  <1>3. NicTyped'
    BY <1>1, <1>2 DEF NicTyped, Sending, Fields
  <1>4. InTurns'
    <2> SUFFICES ASSUME ~ raced' PROVE InTurns'
      BY DEF InTurns
    <2>1. PICK n \in 0 .. DESCRIPTORS : Consecutive(n)
      BY <1>1 DEF InTurns
    <2>2. n >= 1 /\ n - 1 \in 0 .. DESCRIPTORS
      BY <1>1, <2>1, NicAssumption DEF Consecutive, Away, NicTyped, Slots
    <2>3. Ahead(n - 1)' = Ahead(n)
      <3>1. card \in Nat /\ card < DESCRIPTORS /\ DESCRIPTORS \in Nat /\ n \in Nat
        BY <2>2, NicAssumption DEF NicTyped, Slots
      <3>2. CASE card + 1 < DESCRIPTORS
        BY <1>2, <3>1, <3>2 DEF Ahead
      <3>3. CASE ~ (card + 1 < DESCRIPTORS)
        BY <1>2, <2>2, <3>1, <3>3 DEF Ahead
      <3> QED
        BY <3>2, <3>3
    <2>4. \A d \in Slots : slots'[d] # Free <=> Away(d)' < n - 1
      <3> SUFFICES ASSUME NEW d \in Slots PROVE slots'[d] # Free <=> Away(d)' < n - 1
        OBVIOUS
      <3>1. CASE d = card
        BY <1>1, <1>2, <2>2, <3>1, NicAssumption DEF Away, NicTyped, Slots
      <3>2. CASE d # card
        <4>1. Away(d)' = Away(d) - 1
          <5>1. /\ card \in Nat /\ card < DESCRIPTORS /\ DESCRIPTORS \in Nat
                /\ d \in Nat /\ d < DESCRIPTORS
            BY NicAssumption DEF NicTyped, Slots
          <5> QED
            BY <1>2, <3>2, <5>1 DEF Away
        <4>2. slots'[d] = slots[d] /\ Away(d) \in Int
          BY <1>1, <3>2, NicAssumption DEF NicTyped, Away, Slots
        <4> QED
          BY <2>1, <2>2, <4>1, <4>2 DEF Consecutive
      <3> QED
        BY <3>1, <3>2
    <2>5. \A c \in Contexts : send[c].at = "write" => slots'[send[c].entry] = Free
      BY <1>1, <2>1 DEF Consecutive, NicTyped
    <2>6. Consecutive(n - 1)'
      BY <1>1, <2>1, <2>3, <2>4, <2>5 DEF Consecutive, Sending
    <2> QED
      BY <1>1, <2>2, <2>6 DEF InTurns, Sending
  <1> QED
    BY <1>3, <1>4

-----------------------------------------------------------------------------
(* Nobody else touches the ring.                                           *)

NicStep ==
  \/ UNCHANGED nic
  \/ \E c, frame : Begins(c, frame)
  \/ \E c \in Contexts : rtlSendPacket(c)
  \/ CardSends

\* Frames have a kind, and the program begins to send only between its sends.
LEMMA StepsOfTheRing ==
  ASSUME [Next]_vars
  PROVE  NicStep
  <1> USE DEF NicStep
  <1>1. ASSUME UNCHANGED vars PROVE NicStep
    BY <1>1 DEF vars
  <1>2. ASSUME NEW frame, frame.kind # "free", SendBegins("interrupt", frame), Runs
        PROVE  NicStep
    BY <1>2 DEF Begins, Runs, Contexts
  <1>3. ASSUME NEW frame, frame.kind # "free", SendBegins("program", frame), Runs,
               ~ Sending("program")
        PROVE  NicStep
    BY <1>3 DEF Begins, Runs, Contexts
  <1>4. Answer.kind # "free"
    BY DEF Answer, Frame
  <1>5. CASE MainStep
    <2>1. CASE Build
      <3>1. \A ip, server, mac : /\ Request(ip, server, mac).kind # "free"
                                 /\ Frame("discover", ip, mac).kind # "free"
                                 /\ Frame("frame", ip, mac).kind # "free"
        BY DEF Request, Frame
      <3> QED
        BY <1>3, <2>1, <3>1 DEF Build, Step
    <2>2. CASE Program
      <3>1. Frame("frame", Zero, Broadcast).kind # "free"
        BY DEF Frame
      <3> QED
        BY <1>3, <2>2, <3>1 DEF Program, arpRequest, Step
    <2>3. CASE \/ ipRoute \/ Lookup \/ SendReturns \/ discoverDhcp \/ requestDhcp
               \/ ReadOfferIp \/ ReadOfferServer \/ dnsResolve \/ ReadAddress \/ dhcpCommand
      BY <2>3 DEF ipRoute, Lookup, SendReturns, discoverDhcp, requestDhcp, ReadOfferIp,
                  ReadOfferServer, dnsResolve, ReadAddress, dhcpCommand
    <2>4. CASE rtlSendPacket("program")
      BY <2>4 DEF Contexts
    <2> QED
      BY <1>5, <2>1, <2>2, <2>3, <2>4 DEF MainStep
  <1>6. CASE InterruptStep
    BY <1>6 DEF InterruptStep, Contexts
  <1>7. CASE Arrives
    BY <1>2, <1>4, <1>7 DEF Arrives, arpReceive, ipReceive, dnsReceive, AnswerTo
  <1>8. CASE receiveDhcp
    BY <1>8 DEF receiveDhcp
  <1>9. CASE Transmit
    BY <1>9 DEF Transmit
  <1> QED
    BY <1>1, <1>5, <1>6, <1>7, <1>8, <1>9 DEF Next

\* No step of the system makes a gap.
LEMMA StepKeepsNic == NicInv /\ [Next]_vars => NicInv'
  <1> SUFFICES ASSUME NicInv, NicStep PROVE NicInv'
    BY StepsOfTheRing
  <1>1. CASE UNCHANGED nic
    BY <1>1 DEF nic, NicInv, NicTyped, InTurns, Consecutive, Sending, Away, Ahead
  <1> QED
    BY <1>1, BeginKeepsNic, SendingKeepsNic, CardKeepsNic DEF NicStep

\* The invariant of the ring, for any number of descriptors and any traffic.
THEOREM NicInvariance == Spec => []NicInv
  <1>1. Init => NicInv
    BY InitNic DEF Init
  <1> QED
    BY <1>1, StepKeepsNic, PTL DEF Spec

\* For any number of descriptors: the card never waits at an empty one while a later
\* one is filled, unless an interrupt has sent in the middle of a send.
THEOREM NoGap == Spec => []RingHasNoGap
  <1>1. NicInv => RingHasNoGap
    <2> SUFFICES ASSUME NicInv, ~ raced, NEW k \in 1 .. DESCRIPTORS - 1,
                        slots[(card + k) % DESCRIPTORS] # Free
                 PROVE  slots[(card + k - 1) % DESCRIPTORS] # Free
      BY DEF RingHasNoGap
    <2>1. PICK n \in 0 .. DESCRIPTORS : Consecutive(n)
      BY DEF NicInv, InTurns
    <2>2. card \in Slots /\ k \in 0 .. DESCRIPTORS /\ k - 1 \in 0 .. DESCRIPTORS
      BY NicAssumption DEF NicInv, NicTyped
    <2>3. \A m \in {k, k - 1} :
            (card + m) % DESCRIPTORS \in Slots /\ Away((card + m) % DESCRIPTORS) = m
      <3> SUFFICES ASSUME NEW m \in {k, k - 1}
                   PROVE  (card + m) % DESCRIPTORS \in Slots
                          /\ Away((card + m) % DESCRIPTORS) = m
        OBVIOUS
      <3>1. m \in 0 .. DESCRIPTORS - 1 /\ m \in 0 .. DESCRIPTORS
        BY NicAssumption
      <3>2. /\ (card + m) % DESCRIPTORS \in Slots
            /\ (card + m) % DESCRIPTORS =
                 IF card + m < DESCRIPTORS THEN card + m ELSE card + m - DESCRIPTORS
        BY <2>2, <3>1, Round
      <3>3. card \in Nat /\ card < DESCRIPTORS /\ DESCRIPTORS \in Nat
        BY <2>2, NicAssumption DEF Slots
      <3> QED
        BY <3>1, <3>2, <3>3 DEF Away
    <2>4. card + k - 1 = card + (k - 1)
      BY <2>2, NicAssumption DEF Slots
    <2>5. Away((card + k) % DESCRIPTORS) < n
      BY <2>1, <2>3 DEF Consecutive
    <2>6. Away((card + k - 1) % DESCRIPTORS) < n
      BY <2>2, <2>3, <2>4, <2>5
    <2> QED
      BY <2>1, <2>3, <2>4, <2>6 DEF Consecutive
  <1> QED
    BY <1>1, NicInvariance, PTL

-----------------------------------------------------------------------------
(* What a program sends to a name.                                         *)

Entries == {[ip |-> h, mac |-> h] : h \in Hosts}
Places == 0 .. DNS_TABLE_SIZE - 1
MainFields == {"pc", "then", "name", "slot", "ip", "server", "kind", "cfg", "steady", "moved"}
Resumes == {"discover", "request", "askGateway", "run"}

\* The tables hold only what is so.
TablesTrue ==
  /\ traffic \in Traffic
  /\ arpCache \in Seq(Entries)
  /\ dnsTablePos \in Places
  /\ dnsTable = [i \in Places |-> dnsTable[i]]
  /\ \A i \in Places : dnsTable[i] = NoEntry \/ <<dnsTable[i].domain, dnsTable[i].ip>> \in Zone

\* Where the program is when it has looked a name up, and what it carries.
OnItsWay ==
  /\ DOMAIN main = MainFields
  /\ main.then \in Resumes
  /\ main.pc \in Resumes => main.slot = 0
  /\ main.pc = "resolve" => main.slot \in Places \cup {DNS_TABLE_SIZE} /\ main.name # ""
  /\ main.pc = "found" =>
       main.slot \in Places /\ (main.moved \/ <<main.name, dnsTable[main.slot].ip>> \in Zone)
  /\ (main.kind = "data" /\ main.pc \in {"route", "near", "far", "build"}) =>
       main.moved \/ <<main.name, main.ip>> \in Zone
  /\ (main.kind = "data" /\ main.pc = "near") => main.ip \in main.cfg.net
  /\ (main.kind = "data" /\ main.pc = "far") => main.ip \notin main.cfg.net
  /\ main.pc = "build" => main.slot \in 0 .. Len(arpCache)
  /\ (main.kind = "data" /\ main.pc = "build" /\ main.slot # 0 /\ main.steady) =>
       arpCache[main.slot].ip = Hop(main.cfg, main.ip)
  /\ Sending("program") => main.pc = "sending"

FrameInv == NicInv /\ TablesTrue /\ OnItsWay /\ FrameGoesToItsHost

\* The first of some places is one of them.
LEMMA FirstIsIn ==
  ASSUME NEW S \in SUBSET Nat, S # {}
  PROVE  (CHOOSE x \in S : \A y \in S : x <= y) \in S
  <1> DEFINE less == OpToRel(<, Nat)
  <1>1. IsWellFoundedOn(less, Nat)
    BY NatLessThanWellFounded
  <1>2. \A x \in Nat, y \in Nat : x < y => <<x, y>> \in less
    BY DEF OpToRel
  <1> HIDE DEF less
  <1>3. PICK x \in S : \A y \in S : <<y, x>> \notin less
    BY <1>1, WFMin
  <1>4. ASSUME NEW y \in S PROVE x <= y
    <2>1. x \in Nat /\ y \in Nat
      OBVIOUS
    <2>2. ~ y < x
      BY <1>2, <1>3, <2>1
    <2> QED
      BY <2>1, <2>2
  <1> QED
    BY <1>4

\* What the cache answers is a place of the address.
LEMMA LookupIsTrue ==
  ASSUME arpCache \in Seq(Entries), NEW ip
  PROVE  /\ arpLookup(ip) \in 0 .. Len(arpCache)
         /\ arpLookup(ip) # 0 => arpCache[arpLookup(ip)].ip = ip
  <1> DEFINE I == {i \in 1 .. Len(arpCache) : arpCache[i].ip = ip}
  <1>1. Len(arpCache) \in Nat /\ I \in SUBSET Nat /\ I \subseteq 1 .. Len(arpCache)
    BY LenProperties
  <1>2. arpLookup(ip) = IF I # {} THEN CHOOSE x \in I : \A y \in I : x <= y ELSE 0
    BY DEF arpLookup, SelectInSeq, Min
  <1>3. CASE I = {}
    BY <1>1, <1>2, <1>3
  <1>4. CASE I # {}
    <2>1. arpLookup(ip) \in I
      BY <1>1, <1>2, <1>4, FirstIsIn
    <2> QED
      BY <1>1, <2>1
  <1> QED
    BY <1>3, <1>4

\* The cache only grows.
LEMMA CacheGrows ==
  ASSUME arpCache \in Seq(Entries), NEW h \in Hosts, arpCacheInsert(h, h)
  PROVE  /\ arpCache' \in Seq(Entries) /\ Len(arpCache') >= Len(arpCache)
         /\ \A i \in 1 .. Len(arpCache) : arpCache'[i] = arpCache[i]
  <1>1. [ip |-> h, mac |-> h] \in Entries
    BY DEF Entries
  <1>2. CASE arpLookup(h) # 0
    <2> DEFINE i == arpLookup(h)
    <2>1. i \in 1 .. Len(arpCache) /\ arpCache[i].ip = h /\ arpCache[i] \in Entries
      BY <1>2, LookupIsTrue, LenProperties, ElementOfSeq
    <2>2. arpCache[i].mac = h /\ DOMAIN arpCache[i] = {"ip", "mac"}
          /\ [arpCache[i] EXCEPT !.mac = h] = arpCache[i]
      BY <2>1 DEF Entries
    <2>3. arpCache' = [arpCache EXCEPT ![i] = [arpCache[i] EXCEPT !.mac = h]]
      BY <1>2 DEF arpCacheInsert
    <2>4. arpCache' = arpCache
      BY <2>1, <2>2, <2>3, LenProperties
    <2> QED
      BY <2>4, LenProperties
  <1>3. CASE arpLookup(h) = 0 /\ Len(arpCache) = ARP_CACHE_SIZE
    BY <1>3, LenProperties DEF arpCacheInsert
  <1>4. CASE arpLookup(h) = 0 /\ Len(arpCache) # ARP_CACHE_SIZE
    BY <1>1, <1>4, AppendProperties DEF arpCacheInsert
  <1> QED
    BY <1>2, <1>3, <1>4

\* The table of names has a place.
LEMMA TableSize == DNS_TABLE_SIZE \in Nat \ {0}
  <1>1. {ARP_CACHE_SIZE, DNS_TABLE_SIZE} \subseteq Nat \ {0}
    BY NetAssumption, Zenon
  <1> QED
    BY <1>1

\* At the start the tables are empty and nothing is sent.
LEMMA InitFrame == Init => FrameInv
  <1> SUFFICES ASSUME Init PROVE FrameInv
    OBVIOUS
  <1>1. NicInv /\ ~ Sending("program")
    BY InitNic DEF Init, NicInit, Sending, Idle, Contexts
  <1>2. TablesTrue
    <2>1. 0 \in Places /\ << >> \in Seq(Entries)
      BY TableSize DEF Places
    <2>2. dnsTable = [i \in Places |-> NoEntry]
      BY DEF Init, Places
    <2> HIDE DEF Places
    <2> QED
      BY <2>1, <2>2 DEF Init, TablesTrue
  <1>3. OnItsWay
    BY <1>1 DEF Init, OnItsWay, At, MainFields, Resumes
  <1> QED
    BY <1>1, <1>2, <1>3 DEF FrameInv, FrameGoesToItsHost

-----------------------------------------------------------------------------
(* Steps that leave the program where it is.                               *)

CacheOnlyGrows ==
  /\ Len(arpCache') >= Len(arpCache)
  /\ \A i \in 1 .. Len(arpCache) : arpCache'[i] = arpCache[i]

\* The program's frame stays as it is until it is sent.
SameFrame ==
  Sending("program")' =>
    Sending("program") /\ send'["program"].frame = send["program"].frame

\* A cache that stays as it is has grown by nothing.
LEMMA CacheStays == arpCache \in Seq(Entries) /\ arpCache' = arpCache => CacheOnlyGrows
  BY LenProperties DEF CacheOnlyGrows

\* Then what is known of where the program is stays true.
LEMMA ProgramStays ==
  ASSUME FrameInv, UNCHANGED <<main, dnsTable>>, CacheOnlyGrows, SameFrame,
         Len(arpCache') \in Nat
  PROVE  OnItsWay' /\ FrameGoesToItsHost'
  <1>1. Len(arpCache) \in Nat
    BY LenProperties DEF FrameInv, TablesTrue
  <1>2. main.pc = "build" =>
          /\ main.slot \in 0 .. Len(arpCache')
          /\ main.slot # 0 => arpCache'[main.slot].ip = arpCache[main.slot].ip
    BY <1>1 DEF FrameInv, OnItsWay, CacheOnlyGrows
  <1>4. OnItsWay'
    BY <1>2 DEF FrameInv, OnItsWay, SameFrame
  <1>3. FrameGoesToItsHost'
    BY DEF FrameInv, FrameGoesToItsHost, SameFrame
  <1> QED
    BY <1>3, <1>4

\* rtlSendPacket does not change the frame it was given.
LEMMA SendingKeepsFrame ==
  ASSUME FrameInv, NEW c \in Contexts, rtlSendPacket(c)
  PROVE  SameFrame
  BY DEF rtlSendPacket, SlotIsFree, SlotIsFilled, SentIsSeen, IndexAdvances, Sending, SameFrame,
         FrameInv, NicInv, NicTyped, Contexts, Fields, Idle

\* An answer of the interrupt is no frame of the program.
LEMMA InterruptKeepsFrame ==
  ASSUME FrameInv, NEW frame, SendBegins("interrupt", frame) \/ UNCHANGED nic
  PROVE  SameFrame
  BY DEF SendBegins, Sending, SameFrame, FrameInv, NicInv, NicTyped, Contexts, nic

\* The tables, in steps that do not write to them.
LEMMA TablesStay ==
  ASSUME FrameInv, UNCHANGED <<traffic, arpCache, dnsTable, dnsTablePos>>
  PROVE  TablesTrue' /\ CacheOnlyGrows /\ Len(arpCache') \in Nat
  <1>1. TablesTrue'
    BY DEF FrameInv, TablesTrue
  <1> QED
    BY <1>1, CacheStays, LenProperties DEF FrameInv, TablesTrue

\* A frame that comes in writes only truth to the tables; if it takes the place the
\* program is about to read, main.moved says so.
LEMMA ReceivingIsFine ==
  ASSUME FrameInv, Arrives
  PROVE  TablesTrue' /\ OnItsWay' /\ FrameGoesToItsHost'
  <1>1. CASE arpReceive
    <2>1. PICK from \in traffic.senders : arpCacheInsert(from, from)
      BY <1>1 DEF arpReceive
    <2>2. from \in Hosts /\ arpCache \in Seq(Entries)
      BY <2>1, NetAssumption DEF FrameInv, TablesTrue
    <2>3. CacheOnlyGrows /\ arpCache' \in Seq(Entries)
      BY <2>1, <2>2, CacheGrows DEF CacheOnlyGrows
    <2>4. SameFrame
      BY <1>1, InterruptKeepsFrame DEF arpReceive
    <2>5. TablesTrue'
      BY <1>1, <2>3 DEF arpReceive, FrameInv, TablesTrue
    <2>6. Len(arpCache') \in Nat
      BY <2>3, LenProperties
    <2> QED
      BY <1>1, <2>3, <2>4, <2>5, <2>6, ProgramStays DEF arpReceive
  <1>2. CASE ipReceive
    <2>1. SameFrame
      BY <1>2, InterruptKeepsFrame DEF ipReceive, AnswerTo
    <2> QED
      BY <1>2, <2>1, TablesStay, ProgramStays DEF ipReceive, tables
  <1>3. CASE dnsReceive
    <2>1. PICK r \in Zone :
            dnsTable' = [dnsTable EXCEPT ![dnsTablePos] = [domain |-> r[1], ip |-> r[2]]]
      BY <1>3 DEF dnsReceive
    <2>2. <<r[1], r[2]>> \in Zone
      BY NetAssumption
    <2>3. /\ UNCHANGED <<nic, arpCache, traffic>>
          /\ dnsTablePos' = (dnsTablePos + 1) % DNS_TABLE_SIZE
          /\ main' = [main EXCEPT !.moved =
                        main.moved \/ (main.pc = "found" /\ main.slot = dnsTablePos)]
      BY <1>3 DEF dnsReceive
    <2>4. dnsTablePos' \in Places
      <3>1. DNS_TABLE_SIZE \in Nat \ {0} /\ dnsTablePos \in Nat
        BY TableSize DEF FrameInv, TablesTrue, Places
      <3> QED
        BY <2>3, <3>1 DEF Places
    <2>5. /\ dnsTable' = [i \in Places |-> dnsTable'[i]]
          /\ \A i \in Places : dnsTable'[i] =
               IF i = dnsTablePos THEN [domain |-> r[1], ip |-> r[2]] ELSE dnsTable[i]
      BY <2>1 DEF FrameInv, TablesTrue
    <2>6. TablesTrue'
      BY <2>2, <2>3, <2>4, <2>5 DEF FrameInv, TablesTrue
    <2>7. /\ DOMAIN main' = MainFields
          /\ main'.moved = (main.moved \/ (main.pc = "found" /\ main.slot = dnsTablePos))
          /\ \A f \in MainFields \ {"moved"} : main'[f] = main[f]
      BY <2>3 DEF FrameInv, OnItsWay, MainFields
    <2>8. /\ main'.pc = main.pc /\ main'.then = main.then /\ main'.name = main.name
          /\ main'.slot = main.slot /\ main'.ip = main.ip /\ main'.kind = main.kind
          /\ main'.cfg = main.cfg /\ main'.steady = main.steady
      BY <2>7 DEF MainFields
    <2>9. Sending("program")' = Sending("program")
      BY <2>3 DEF Sending, nic
    <2>10. main.pc = "found" /\ ~ main'.moved => dnsTable'[main.slot] = dnsTable[main.slot]
      BY <2>5, <2>7 DEF FrameInv, OnItsWay
    <2>11. OnItsWay'
      BY <2>3, <2>7, <2>8, <2>9, <2>10 DEF FrameInv, OnItsWay
    <2>12. FrameGoesToItsHost'
      BY <2>3, <2>7, <2>8, <2>9 DEF FrameInv, FrameGoesToItsHost, nic
    <2> QED
      BY <2>6, <2>11, <2>12
  <1> QED
    BY <1>1, <1>2, <1>3 DEF Arrives

-----------------------------------------------------------------------------
(* Steps of the program.                                                   *)

\* Between its sends nothing of a frame is said.
LEMMA NotSending ==
  ASSUME FrameInv, UNCHANGED nic, ~ Sending("program")
  PROVE  ~ Sending("program")' /\ FrameGoesToItsHost'
  BY DEF nic, Sending, FrameGoesToItsHost

\* The route: the place of the host or of the gateway, as the subnet says.
LEMMA RoutingIsFine ==
  ASSUME FrameInv, ipRoute \/ Lookup
  PROVE  OnItsWay' /\ FrameGoesToItsHost'
  <1>1. UNCHANGED <<nic, tables>> /\ ~ Sending("program")
    BY DEF ipRoute, Lookup, Step
  <1>2. ~ Sending("program")' /\ FrameGoesToItsHost'
    BY <1>1, NotSending
  <1>3. CASE ipRoute
    <2>1. /\ main.pc = "route" /\ DOMAIN main = MainFields
          /\ \E p \in {"near", "far"} : main' = [main EXCEPT !.pc = p, !.cfg = config]
          /\ main'.pc \in {"near", "far"}
          /\ main.kind = "data" => (main'.pc = "near" <=> main.ip \in config.net)
      BY <1>3 DEF ipRoute, Step, FrameInv, OnItsWay, MainFields
    <2>2. /\ DOMAIN main' = MainFields /\ main'.cfg = config /\ main'.then = main.then
          /\ main'.kind = main.kind /\ main'.ip = main.ip /\ main'.name = main.name
          /\ main'.moved = main.moved
      BY <2>1 DEF MainFields
    <2>3. OnItsWay'
      BY <1>2, <2>1, <2>2 DEF FrameInv, OnItsWay, Resumes
    <2> QED
      BY <1>2, <2>3
  <1>4. CASE Lookup
    <2>1. PICK to \in {main.ip, config.gateway} :
                    /\ \/ main.pc = "near" /\ to = main.ip
                       \/ main.pc = "far" /\ to = config.gateway
                    /\ main' = [main EXCEPT !.pc = "build", !.slot = arpLookup(to),
                                            !.steady = (config = main.cfg)]
      BY <1>4 DEF Lookup, Step
    <2>2. /\ DOMAIN main' = MainFields /\ main'.pc = "build" /\ main'.slot = arpLookup(to)
          /\ main'.steady = (config = main.cfg) /\ main'.cfg = main.cfg
          /\ main'.then = main.then /\ main'.kind = main.kind /\ main'.ip = main.ip
          /\ main'.name = main.name /\ main'.moved = main.moved
      BY <2>1 DEF FrameInv, OnItsWay, MainFields
    <2>3. /\ arpLookup(to) \in 0 .. Len(arpCache) /\ arpCache' = arpCache
          /\ arpLookup(to) # 0 => arpCache[arpLookup(to)].ip = to
      BY <1>1, LookupIsTrue DEF FrameInv, TablesTrue, tables
    <2>4. (main.kind = "data" /\ config = main.cfg) => to = Hop(main.cfg, main.ip)
      BY <2>1 DEF FrameInv, OnItsWay, Hop
    <2>5. Hop(main.cfg, main.ip)' = Hop(main.cfg, main.ip)
      BY <2>2 DEF Hop
    <2>6. main'.moved \/ <<main'.name, main'.ip>> \in Zone \/ main'.kind # "data"
      BY <2>1, <2>2 DEF FrameInv, OnItsWay
    <2>7. OnItsWay'
      BY <1>2, <2>2, <2>3, <2>4, <2>5, <2>6 DEF FrameInv, OnItsWay, Resumes
    <2> QED
      BY <1>2, <2>7
  <1> QED
    BY <1>3, <1>4

\* The DHCP exchange sends nothing to a name.
LEMMA DhcpIsFine ==
  ASSUME FrameInv,
         \/ discoverDhcp \/ requestDhcp \/ ReadOfferIp \/ ReadOfferServer
         \/ SendReturns \/ dhcpCommand
  PROVE  OnItsWay' /\ FrameGoesToItsHost'
  <1>1. UNCHANGED nic /\ ~ Sending("program")
    BY DEF discoverDhcp, requestDhcp, ReadOfferIp, ReadOfferServer, SendReturns, dhcpCommand,
           Step
  <1>2. ~ Sending("program")' /\ FrameGoesToItsHost'
    BY <1>1, NotSending
  <1>3. DOMAIN main = MainFields /\ main.then \in Resumes
    BY DEF FrameInv, OnItsWay
  <1>4. CASE SendReturns
    BY <1>2, <1>3, <1>4 DEF SendReturns, OnItsWay, At, MainFields, Resumes
  <1>7. CASE dhcpCommand
    BY <1>2, <1>3, <1>7 DEF dhcpCommand, OnItsWay, At, MainFields, Resumes
  <1>5. CASE discoverDhcp \/ ReadOfferServer
    BY <1>2, <1>3, <1>5 DEF discoverDhcp, ReadOfferServer, IpSend, OnItsWay, MainFields, Resumes
  <1>6. CASE requestDhcp \/ ReadOfferIp
    BY <1>2, <1>3, <1>6 DEF requestDhcp, ReadOfferIp, OnItsWay, MainFields, Resumes
  <1> QED
    BY <1>4, <1>5, <1>6, <1>7

\* The address is read from the place where the name was found.
LEMMA NameIsFine ==
  ASSUME FrameInv, dnsResolve \/ ReadAddress
  PROVE  OnItsWay' /\ FrameGoesToItsHost'
  <1>1. UNCHANGED <<nic, tables>> /\ ~ Sending("program")
    BY DEF dnsResolve, ReadAddress, Step
  <1>2. ~ Sending("program")' /\ FrameGoesToItsHost'
    BY <1>1, NotSending
  <1>3. /\ DOMAIN main = MainFields /\ main.then \in Resumes
        /\ dnsTable' = dnsTable
    BY <1>1 DEF FrameInv, OnItsWay, tables
  <1>4. CASE dnsResolve /\ main.slot = DNS_TABLE_SIZE
    <2>1. main' = [main EXCEPT !.pc = "route", !.kind = "query", !.ip = DNS_SERVER,
                               !.server = Zero, !.then = "run"]
      BY <1>4, TableSize DEF dnsResolve, IpSend
    <2> QED
      BY <1>2, <1>3, <2>1 DEF OnItsWay, MainFields, Resumes
  <1>5. CASE dnsResolve /\ main.slot # DNS_TABLE_SIZE
    <2>1. /\ main.pc = "resolve" /\ main.slot \in Places /\ main.name # ""
          /\ main' = IF dnsTable[main.slot].domain = main.name
                     THEN [main EXCEPT !.pc = "found"] ELSE [main EXCEPT !.slot = @ + 1]
      BY <1>5 DEF dnsResolve, Step, FrameInv, OnItsWay
    <2>2. CASE dnsTable[main.slot].domain = main.name
      <3>1. <<main.name, dnsTable[main.slot].ip>> \in Zone
        <4>1. \/ dnsTable[main.slot] = NoEntry
              \/ <<dnsTable[main.slot].domain, dnsTable[main.slot].ip>> \in Zone
          BY <2>1 DEF FrameInv, TablesTrue
        <4>2. NoEntry.domain = ""
          BY DEF NoEntry
        <4> QED
          BY <2>1, <2>2, <4>1, <4>2
      <3>2. /\ DOMAIN main' = MainFields /\ main'.pc = "found" /\ main'.then = main.then
            /\ main'.slot = main.slot /\ main'.name = main.name
        BY <1>3, <2>1, <2>2 DEF MainFields
      <3> QED
        BY <1>2, <1>3, <2>1, <3>1, <3>2 DEF OnItsWay, Resumes
    <2>3. CASE dnsTable[main.slot].domain # main.name
      <3>1. main.slot + 1 \in Places \cup {DNS_TABLE_SIZE}
        <4>1. main.slot \in Places
          BY <2>1
        <4> QED
          BY <4>1, TableSize DEF Places
      <3>2. /\ DOMAIN main' = MainFields /\ main'.pc = "resolve" /\ main'.then = main.then
            /\ main'.slot = main.slot + 1 /\ main'.name = main.name
        BY <1>3, <2>1, <2>3 DEF MainFields
      <3> QED
        BY <1>2, <1>3, <2>1, <3>1, <3>2 DEF OnItsWay, Resumes
    <2> QED
      BY <2>2, <2>3
  <1>6. CASE ReadAddress
    <2>1. /\ main.pc = "found" /\ main.slot \in Places
          /\ main.moved \/ <<main.name, dnsTable[main.slot].ip>> \in Zone
      BY <1>6 DEF ReadAddress, Step, FrameInv, OnItsWay
    <2>2. /\ DOMAIN main' = MainFields /\ main'.pc = "route" /\ main'.then = "run"
          /\ main'.ip = dnsTable[main.slot].ip /\ main'.name = main.name
          /\ main'.moved = main.moved
      BY <1>3, <1>6 DEF ReadAddress, IpSend, MainFields
    <2> QED
      BY <1>2, <2>1, <2>2 DEF OnItsWay, Resumes
  <1> QED
    BY <1>4, <1>5, <1>6

\* The other things a program does carry nothing yet.
LEMMA ProgramIsFine ==
  ASSUME FrameInv, Program
  PROVE  OnItsWay' /\ FrameGoesToItsHost'
  <1>1. ASSUME NEW ip, NEW who \in {"start", "shell"}, arpRequest(ip, who)
        PROVE  OnItsWay' /\ FrameGoesToItsHost'
    <2>1. /\ DOMAIN main' = MainFields /\ main'.pc = "sending" /\ main'.then = "run"
          /\ main'.kind # "data"
      BY <1>1 DEF arpRequest, At, MainFields
    <2> QED
      BY <2>1 DEF OnItsWay, FrameGoesToItsHost, Resumes
  <1>2. ASSUME NEW n \in traffic.names, main' = [main EXCEPT !.pc = "resolve", !.name = n],
               UNCHANGED <<nic, tables>>, Step("run")
        PROVE  OnItsWay' /\ FrameGoesToItsHost'
    <2>1. ~ Sending("program")' /\ FrameGoesToItsHost'
      BY <1>2, NotSending DEF Step
    <2>2. n # ""
      <3>1. traffic \in Traffic
        BY DEF FrameInv, TablesTrue
      <3>2. n \in Names
        BY <3>1, NetAssumption
      <3> QED
        BY <3>2, NetAssumption DEF Names
    <2>3. /\ DOMAIN main' = MainFields /\ main'.pc = "resolve" /\ main'.then \in Resumes
          /\ main'.slot = 0 /\ main'.name = n
      BY <1>2 DEF FrameInv, OnItsWay, MainFields, Step, Resumes
    <2>4. 0 \in Places
      BY TableSize DEF Places
    <2> QED
      BY <2>1, <2>2, <2>3, <2>4 DEF OnItsWay, Resumes
  <1> QED
    BY <1>1, <1>2 DEF Program

\* The frame gets the address of the place in the cache, which is still the same.
LEMMA BuildIsFine ==
  ASSUME FrameInv, Build
  PROVE  OnItsWay' /\ FrameGoesToItsHost'
  <1>1. /\ main.pc = "build" /\ ~ Sending("program")
        /\ main' = [main EXCEPT !.pc = "sending"] /\ DOMAIN main = MainFields
        /\ main.then \in Resumes
    BY DEF Build, Step, FrameInv, OnItsWay
  <1>2. /\ DOMAIN main' = MainFields /\ main'.pc = "sending" /\ main'.then = main.then
        /\ main'.kind = main.kind /\ main'.ip = main.ip /\ main'.name = main.name
        /\ main'.moved = main.moved /\ main'.steady = main.steady /\ main'.cfg = main.cfg
    BY <1>1 DEF MainFields
  <1>3. OnItsWay'
    BY <1>1, <1>2 DEF OnItsWay, Resumes
  <1>4. FrameGoesToItsHost'
    <2> SUFFICES ASSUME main.kind = "data", Sending("program")'
                 PROVE  LET frame == send'["program"].frame
                        IN  /\ main.moved \/ <<main.name, frame.ip>> \in Zone
                            /\ main.steady => frame.mac = Hop(main.cfg, frame.ip)
      BY <1>2 DEF FrameGoesToItsHost, Hop
    <2>1. main.slot # 0
          /\ SendBegins("program", Frame("frame", main.ip, arpCache[main.slot].mac))
      BY <1>1, <1>2 DEF Build, IsUdp, nic, Sending
    <2>2. send'["program"].frame = Frame("frame", main.ip, arpCache[main.slot].mac)
      BY <2>1 DEF SendBegins, FrameInv, NicInv, NicTyped, Contexts
    <2>3. arpCache[main.slot].mac = arpCache[main.slot].ip
      <3>1. main.slot \in 1 .. Len(arpCache)
        BY <1>1, <2>1, LenProperties DEF FrameInv, OnItsWay, TablesTrue
      <3>2. arpCache[main.slot] \in Entries
        BY <3>1, ElementOfSeq DEF FrameInv, TablesTrue
      <3>3. \A e \in Entries : e.mac = e.ip
        BY DEF Entries
      <3> QED
        BY <3>2, <3>3
    <2>4. /\ send'["program"].frame.ip = main.ip
          /\ send'["program"].frame.mac = arpCache[main.slot].ip
      BY <2>2, <2>3 DEF Frame
    <2> QED
      BY <1>1, <2>1, <2>4 DEF FrameInv, OnItsWay
  <1> QED
    BY <1>3, <1>4

\* No step of the system sends a frame astray.
LEMMA StepKeepsFrame == FrameInv /\ [Next]_vars => FrameInv'
  <1> SUFFICES ASSUME FrameInv, [Next]_vars
               PROVE  TablesTrue' /\ OnItsWay' /\ FrameGoesToItsHost'
    BY StepKeepsNic DEF FrameInv
  <1>1. ASSUME UNCHANGED <<main, traffic, arpCache, dnsTable, dnsTablePos>>, SameFrame
        PROVE  TablesTrue' /\ OnItsWay' /\ FrameGoesToItsHost'
    BY <1>1, TablesStay, ProgramStays
  <1>2. CASE UNCHANGED vars
    <2>1. SameFrame
      BY <1>2 DEF vars, nic, SameFrame, Sending
    <2> QED
      BY <1>1, <1>2, <2>1 DEF vars, tables
  <1>3. CASE MainStep
    <2>1. UNCHANGED <<traffic, arpCache, dnsTable, dnsTablePos>>
      BY <1>3 DEF MainStep, ipRoute, Lookup, Build, SendReturns, discoverDhcp, requestDhcp,
                  ReadOfferIp, ReadOfferServer, Program, arpRequest, dnsResolve, ReadAddress,
                  dhcpCommand, tables
    <2>2. TablesTrue'
      BY <2>1, TablesStay
    <2>3. CASE rtlSendPacket("program") /\ UNCHANGED <<tables, main>>
      BY <1>1, <2>1, <2>3, SendingKeepsFrame DEF Contexts
    <2> QED
      BY <1>3, <2>2, <2>3, RoutingIsFine, DhcpIsFine, NameIsFine, ProgramIsFine, BuildIsFine
         DEF MainStep
  <1>4. CASE InterruptStep
    BY <1>1, <1>4, SendingKeepsFrame DEF InterruptStep, Contexts, tables
  <1>5. CASE Arrives
    BY <1>5, ReceivingIsFine
  <1>6. CASE receiveDhcp
    BY <1>1, <1>6, InterruptKeepsFrame DEF receiveDhcp
  <1>7. CASE Transmit
    <2>1. SameFrame
      BY <1>7 DEF Transmit, CardSends, SameFrame, Sending
    <2> QED
      BY <1>1, <1>7, <2>1 DEF Transmit, tables
  <1> QED
    BY <1>2, <1>3, <1>4, <1>5, <1>6, <1>7 DEF Next

\* For any caches, tables, leases and neighbours: what a program sends to a name
\* goes to an address that a name server gave for it, by the host that the
\* configuration it was routed under says, whatever frames come in meanwhile.
THEOREM ReachesItsHost == Spec => []FrameGoesToItsHost
  <1>1. FrameInv => FrameGoesToItsHost
    BY DEF FrameInv
  <1> QED
    BY <1>1, InitFrame, StepKeepsFrame, PTL DEF Spec
=============================================================================

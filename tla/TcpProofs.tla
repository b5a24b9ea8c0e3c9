------------------------------ MODULE TcpProofs ------------------------------
(***************************************************************************)
(* For any number of connections, any streams, retries and bounds on what  *)
(* is in flight: a reader gets its peer's stream, whatever the network     *)
(* repeats, loses and reorders and wherever the interrupt comes.           *)
(***************************************************************************)
EXTENDS Tcp, SequenceTheorems, TLAPS

Wires(kinds) ==
  [kind : kinds, port : Conns, seq : Nat, len : Nat, fin : BOOLEAN, ack : Nat]

Peers ==
  [st : {"listen", "rcvd", "open", "gone"}, sent : 0 .. MAX_WRITE, fin : BOOLEAN, next : Nat]

One(b) == IF b THEN 1 ELSE 0

\* A segment to us carries a part of its peer's stream, and a FIN only its end.
FromPeer(m) ==
  /\ m \in Wires({"SYNACK", "ACK", "RST"}) /\ m.port <= port
  /\ m.kind = "SYNACK" => m.seq = 0
  /\ (m.kind = "ACK" /\ m.len > 0) => m.seq + m.len <= 1 + peer[m.port].sent
  /\ (m.kind = "ACK" /\ m.fin) => peer[m.port].fin /\ m.seq + m.len = 1 + peer[m.port].sent

\* What AcksWhatWasRead says of one segment of ours.
FromUs(m) ==
  /\ m \in Wires({"SYN", "ACK"}) /\ m.port <= port
  /\ (m.kind = "ACK" /\ m.port = port) => m.ack <= 1 + Len(got) + One(eof)
  /\ m.ack <= 1 + peer[m.port].sent + One(peer[m.port].fin)

Wire ==
  /\ peer \in [Conns -> Peers]
  /\ \A m \in toUs : FromPeer(m)
  /\ \A m \in toPeer : FromUs(m)

\* rcvNxt counts what was handed on, and that is a prefix of the stream.
Reading ==
  /\ got \in Seq(Conns \X Nat)
  /\ \A i \in 1 .. Len(got) : got[i] = <<port, i>>
  /\ rcvNxt = 0 => got = << >> /\ ~ eof
  /\ rcvNxt # 0 => port # 0 /\ rcvNxt = 1 + Len(got) + One(eof)
  /\ port # 0 => Len(got) <= peer[port].sent
  /\ eof => peer[port].fin /\ Len(got) = peer[port].sent

\* Which connection there is where the main loop is.
Control ==
  /\ (state # "CLOSED" \/ pc # "idle" \/ ackPending \/ closePending) => port # 0 /\ sndNxt >= 1
  /\ (state \notin {"CLOSED", "SYN_SENT"} \/ pc \in {"close", "store"}) => rcvNxt # 0
  /\ state = "SYN_SENT" => rcvNxt = 0 /\ (retries <= MAX_RETRIES \/ pc = "giveUp")
  /\ pc = "store" => newState \in {"FIN_WAIT_1", "LAST_ACK"}

\* The fields of the connection and the locals.
Typed ==
  /\ state \in TcpState /\ newState \in TcpState
  /\ port \in 0 .. MAX_CONNS
  /\ sndNxt \in Nat /\ rcvNxt \in Nat
  /\ ticks \in 0 .. SYN_RETRY_TICKS - 1 /\ retries \in 0 .. MAX_RETRIES + 1
  /\ ackPending \in BOOLEAN /\ closePending \in BOOLEAN
  /\ pc \in {"idle", "send", "close", "store", "resend", "giveUp"}
  /\ left \in 0 .. MAX_SEND
  /\ eof \in BOOLEAN /\ told \in BOOLEAN /\ quit \in BOOLEAN

Loop == Typed /\ Control /\ EndIsReported /\ CloseWaitIsHandled

IInv == Loop /\ Wire /\ Reading

-----------------------------------------------------------------------------
\* At the start nothing is open and nothing in flight.
LEMMA InitInv == Init => IInv
  <1> SUFFICES ASSUME Init PROVE IInv
    OBVIOUS
  <1>1. Loop
    <2>1. /\ state = "CLOSED" /\ newState = "CLOSED" /\ port = 0 /\ sndNxt = 0 /\ rcvNxt = 0
          /\ ticks = 0 /\ retries = 0 /\ ackPending = FALSE /\ closePending = FALSE
          /\ pc = "idle" /\ left = 0 /\ eof = FALSE /\ told = FALSE /\ quit = FALSE
      BY DEF Init
    <2>2. Typed
      <3>1. /\ port \in 0 .. MAX_CONNS /\ left \in 0 .. MAX_SEND
            /\ ticks \in 0 .. SYN_RETRY_TICKS - 1 /\ retries \in 0 .. MAX_RETRIES + 1
        BY <2>1, RetryAssumption, WriteAssumption, ConnsAssumption
      <3> QED
        BY <2>1, <3>1 DEF Typed, TcpState
    <2> QED
      BY <2>1, <2>2 DEF Loop, Control, EndIsReported, CloseWaitIsHandled
  <1>2. Wire
    <2>1. NewPeer \in Peers
      BY WriteAssumption DEF NewPeer, Peers
    <2> QED
      BY <2>1 DEF Init, Wire
  <1>3. Reading
    BY DEF Init, Reading
  <1> QED
    BY <1>1, <1>2, <1>3 DEF IInv

\* Send adds its segment or nothing; so does Answer.
LEMMA InFlight ==
  ASSUME NEW m
  PROVE  /\ Send(m) => toPeer' \subseteq toPeer \cup {m}
         /\ Answer(m) => toUs' \subseteq toUs \cup {m}
  BY DEF Send, Answer

\* What we send acknowledges no more than was read.
LEMMA OursIsFine ==
  ASSUME IInv, port # 0, NEW kind \in {"SYN", "ACK"}, NEW seq \in Nat, NEW len \in Nat,
         NEW fin \in BOOLEAN, NEW ack \in {0, rcvNxt}
  PROVE  FromUs(Segment(kind, port, seq, len, fin, ack))
  <1> DEFINE m == Segment(kind, port, seq, len, fin, ack)
  <1>1. port \in Conns /\ port <= port /\ ack \in Nat /\ rcvNxt \in Nat
    BY ConnsAssumption DEF IInv, Loop, Typed, Conns
  <1>2. /\ m \in Wires({"SYN", "ACK"})
        /\ m.port = port /\ m.ack = ack /\ m.kind = kind
    BY <1>1 DEF Segment, Wires
  <1>3. Len(got) \in Nat /\ peer[port].sent \in Nat /\ peer[port].fin \in BOOLEAN /\ eof \in BOOLEAN
    BY <1>1, WriteAssumption DEF IInv, Wire, Reading, Peers, Loop, Typed
  <1>4. ack <= 1 + Len(got) + One(eof)
    BY <1>1, <1>3 DEF IInv, Reading, One
  <1>5. ack <= 1 + peer[port].sent + One(peer[port].fin)
    BY <1>1, <1>3 DEF IInv, Reading, One
  <1> HIDE DEF m
  <1>6. FromUs(m)
    BY <1>1, <1>2, <1>4, <1>5 DEF FromUs
  <1> QED
    BY <1>6 DEF m

\* Then the streams are as they were.
LEMMA SendingIsFine ==
  ASSUME IInv, NEW m, FromUs(m), toPeer' \subseteq toPeer \cup {m},
         UNCHANGED <<port, rcvNxt, got, eof, peer, toUs>>
  PROVE  Wire' /\ Reading'
  <1>1. \A s : FromUs(s)' <=> FromUs(s)
    BY DEF FromUs
  <1>2. \A s : FromPeer(s)' <=> FromPeer(s)
    BY DEF FromPeer
  <1>3. Wire'
    BY <1>1, <1>2 DEF IInv, Wire
  <1>4. Reading'
    BY DEF IInv, Reading
  <1> QED
    BY <1>3, <1>4

\* ... and so they are when nothing is sent.
LEMMA QuietIsFine ==
  ASSUME IInv, toPeer' \subseteq toPeer, toUs' \subseteq toUs, UNCHANGED <<port, rcvNxt, got, eof, peer>>
  PROVE  Wire' /\ Reading'
  <1>1. \A s : FromUs(s)' <=> FromUs(s)
    BY DEF FromUs
  <1>2. \A s : FromPeer(s)' <=> FromPeer(s)
    BY DEF FromPeer
  <1>3. Wire'
    BY <1>1, <1>2 DEF IInv, Wire
  <1>4. Reading'
    BY DEF IInv, Reading
  <1> QED
    BY <1>3, <1>4

-----------------------------------------------------------------------------
(* The main loop.                                                          *)

\* A new connection begins a new stream.
LEMMA ConnectIsFine == IInv /\ tcpConnect => IInv'
  <1> SUFFICES ASSUME IInv, tcpConnect PROVE IInv'
    OBVIOUS
  <1>1. /\ port < MAX_CONNS /\ port' = port + 1 /\ port \in Nat /\ port' \in Conns
        /\ sndNxt' = 1 /\ rcvNxt' = 0 /\ ticks' = 0 /\ retries' = 0
        /\ ackPending' = FALSE /\ closePending' = FALSE /\ state' = "SYN_SENT"
        /\ got' = << >> /\ eof' = FALSE /\ told' = FALSE /\ quit' = FALSE
        /\ pc = "idle" /\ UNCHANGED <<pc, left, newState, toUs, peer>>
    BY ConnsAssumption DEF tcpConnect, local, IInv, Loop, Typed, Conns
  <1>2. Loop'
    <2>1. Typed'
      <3>1. ticks' \in 0 .. SYN_RETRY_TICKS - 1 /\ retries' \in 0 .. MAX_RETRIES + 1
        BY <1>1, RetryAssumption
      <3>2. port' \in 0 .. MAX_CONNS
        BY <1>1, ConnsAssumption DEF Conns
      <3> QED
        BY <1>1, <3>1, <3>2 DEF IInv, Loop, Typed, TcpState
    <2> QED
      BY <1>1, <2>1, RetryAssumption DEF Loop, Control, EndIsReported, CloseWaitIsHandled
  <1>3. peer[port'] \in Peers /\ peer[port'].sent \in Nat /\ peer[port'].fin \in BOOLEAN
    BY <1>1, WriteAssumption DEF IInv, Wire, Peers
  <1>4. Reading'
    BY <1>1, <1>3 DEF Reading
  <1>5. Wire'
    <2>1. \A m \in toUs' : FromPeer(m)'
      BY <1>1, ConnsAssumption DEF IInv, Wire, FromPeer, Wires, Conns
    <2>2. \A m \in toPeer : FromUs(m)'
      <3> SUFFICES ASSUME NEW m \in toPeer PROVE FromUs(m)'
        OBVIOUS
      <3>1. FromUs(m)
        BY DEF IInv, Wire
      <3>2. m.port <= port' /\ m.port # port'
        BY <1>1, <3>1, ConnsAssumption DEF FromUs, Wires, Conns
      <3> QED
        BY <1>1, <3>1, <3>2 DEF FromUs
    <2>3. PICK m : m = Segment("SYN", port', 0, 0, FALSE, 0) /\ toPeer' \subseteq toPeer \cup {m}
      <3>1. Send(Segment("SYN", port', 0, 0, FALSE, 0))
        BY DEF tcpConnect
      <3> QED
        BY <3>1, InFlight
    <2>4. FromUs(m)'
      <3>1. /\ m \in Wires({"SYN", "ACK"}) /\ m.port = port' /\ m.ack = 0 /\ m.kind = "SYN"
        BY <1>1, <2>3 DEF Wires, Segment
      <3> QED
        BY <1>1, <1>3, <3>1 DEF FromUs, One
    <2> QED
      BY <1>1, <2>1, <2>2, <2>3, <2>4 DEF IInv, Wire
  <1> QED
    BY <1>2, <1>4, <1>5 DEF IInv

\* Steps that send nothing.
LEMMA SilentIsFine ==
  ASSUME IInv,
         tcpSend \/ tcpClose \/ CloseReads \/ TickCloses \/ TickCounts \/ TickGivesUp \/ tcpAbort
  PROVE  IInv'
  <1>1. Loop'
    <2> USE DEF IInv, Loop, Typed, Control, EndIsReported, CloseWaitIsHandled, TcpState
    <2>1. CASE tcpSend
      BY <2>1, WriteAssumption DEF tcpSend, tcb, history
    <2>2. CASE tcpClose
      BY <2>2 DEF tcpClose, CloseTests, history
    <2>3. CASE CloseReads
      BY <2>3 DEF CloseReads, tcb, history
    <2>4. CASE TickCloses
      <3>1. CASE state \in {"ESTABLISHED", "CLOSE_WAIT"}
        <4>1. /\ pc = "idle" /\ pc' = "close" /\ sndNxt' = sndNxt + 1
              /\ closePending' = FALSE /\ ackPending' = FALSE
              /\ UNCHANGED <<state, rcvNxt, ticks, retries, port, left, newState, eof, told, quit>>
          BY <2>4, <3>1 DEF TickCloses, CloseTests, history
        <4>2. sndNxt' \in Nat
          BY <4>1
        <4>3. closePending' \in BOOLEAN
          BY <4>1
        <4>4. ackPending' \in BOOLEAN
          BY <4>1
        <4>5. Typed'
          BY <4>1, <4>2, <4>3, <4>4
        <4> QED
          BY <3>1, <4>1, <4>5
      <3>2. CASE state \notin {"ESTABLISHED", "CLOSE_WAIT"}
        BY <2>4, <3>2 DEF TickCloses, CloseTests, history
      <3> QED
        BY <3>1, <3>2
    <2>5. CASE TickCounts
      BY <2>5, RetryAssumption DEF TickCounts, history
    <2>6. CASE TickGivesUp
      BY <2>6 DEF TickGivesUp
    <2>7. CASE tcpAbort
      BY <2>7 DEF tcpAbort, local
    <2> QED
      BY <2>1, <2>2, <2>3, <2>4, <2>5, <2>6, <2>7
  <1>2. UNCHANGED <<port, rcvNxt, got, eof, peer, toUs, toPeer>>
    BY DEF tcpSend, tcpClose, CloseReads, TickCloses, TickCounts, TickGivesUp, tcpAbort, tcb, history
  <1> QED
    BY <1>1, <1>2, QuietIsFine DEF IInv

\* Steps that send a segment.
LEMMA SpeakingIsFine ==
  ASSUME IInv, SendChunk \/ CloseStores \/ TickAcks \/ TickResends
  PROVE  IInv'
  <1>1. Loop'
    <2> USE DEF IInv, Loop, Typed, Control, EndIsReported, CloseWaitIsHandled, TcpState
    <2>1. CASE SendChunk
      BY <2>1, WriteAssumption DEF SendChunk, history
    <2>2. CASE CloseStores
      BY <2>2 DEF CloseStores, history
    <2>3. CASE TickAcks
      BY <2>3 DEF TickAcks, local, history
    <2>4. CASE TickResends
      BY <2>4 DEF TickResends, tcb, history
    <2> QED
      BY <2>1, <2>2, <2>3, <2>4
  <1>2. UNCHANGED <<port, rcvNxt, got, eof, peer, toUs>>
    BY DEF SendChunk, CloseStores, TickAcks, TickResends, tcb, history
  <1>3. PICK kind \in {"SYN", "ACK"}, seq \in Nat, len \in Nat, fin \in BOOLEAN, ack \in {0, rcvNxt} :
          Send(Segment(kind, port, seq, len, fin, ack)) /\ port # 0
    <2> USE DEF IInv, Loop, Typed, Control
    <2>1. CASE SendChunk
      <3>1. PICK chunk \in 1 .. left : Send(Segment("ACK", port, sndNxt, chunk, FALSE, rcvNxt))
        BY <2>1 DEF SendChunk
      <3>2. sndNxt \in Nat /\ chunk \in Nat /\ rcvNxt \in {0, rcvNxt} /\ port # 0
        BY <2>1, WriteAssumption DEF SendChunk
      <3> QED
        BY <3>1, <3>2
    <2>2. CASE CloseStores
      <3>1. Send(Segment("ACK", port, sndNxt - 1, 0, TRUE, rcvNxt))
        BY <2>2 DEF CloseStores
      <3>2. sndNxt - 1 \in Nat /\ rcvNxt \in {0, rcvNxt} /\ port # 0
        BY <2>2 DEF CloseStores
      <3> QED
        BY <3>1, <3>2
    <2>3. CASE TickAcks
      BY <2>3 DEF TickAcks
    <2>4. CASE TickResends
      BY <2>4 DEF TickResends
    <2> QED
      BY <2>1, <2>2, <2>3, <2>4
  <1>4. FromUs(Segment(kind, port, seq, len, fin, ack))
    BY <1>3, OursIsFine
  <1>5. toPeer' \subseteq toPeer \cup {Segment(kind, port, seq, len, fin, ack)}
    BY <1>3, InFlight
  <1> QED
    BY <1>1, <1>2, <1>4, <1>5, SendingIsFine DEF IInv

-----------------------------------------------------------------------------
(* The interrupt, the peers and the network.                               *)

\* The next bytes, and what becomes of what is read with them.
LEMMA BytesAdded ==
  ASSUME got \in Seq(Conns \X Nat), NEW c \in Conns, NEW n \in Nat,
         \A i \in 1 .. Len(got) : got[i] = <<c, i>>,
         NEW new, new = [i \in 1 .. n |-> <<c, 1 + Len(got) + i - 1>>]
  PROVE  /\ got \o new \in Seq(Conns \X Nat)
         /\ Len(got \o new) = Len(got) + n
         /\ \A i \in 1 .. Len(got) + n : (got \o new)[i] = <<c, i>>
         /\ new = [i \in 1 .. n |-> <<c, Len(got) + i>>]
  <1>1. Len(got) \in Nat
    OBVIOUS
  <1>2. new \in Seq(Conns \X Nat) /\ Len(new) = n
    BY <1>1
  <1>3. /\ got \o new \in Seq(Conns \X Nat)
        /\ Len(got \o new) = Len(got) + n
        /\ \A i \in 1 .. Len(got) + n :
             (got \o new)[i] = IF i <= Len(got) THEN got[i] ELSE new[i - Len(got)]
    BY <1>2, ConcatProperties
  <1>4. ASSUME NEW i \in 1 .. Len(got) + n PROVE (got \o new)[i] = <<c, i>>
    <2>1. CASE i <= Len(got)
      BY <1>1, <1>3, <2>1
    <2>2. CASE ~ (i <= Len(got))
      <3>1. i - Len(got) \in 1 .. n /\ 1 + Len(got) + (i - Len(got)) - 1 = i
        BY <1>1, <2>2
      <3>2. new[i - Len(got)] = <<c, 1 + Len(got) + (i - Len(got)) - 1>>
        BY <3>1
      <3> QED
        BY <1>1, <1>3, <2>2, <3>1, <3>2
    <2> QED
      BY <1>1, <2>1, <2>2
  <1>5. \A i \in 1 .. n : 1 + Len(got) + i - 1 = Len(got) + i
    BY <1>1
  <1> QED
    BY <1>2, <1>3, <1>4, <1>5

\* What a segment of the peer's stream does: nothing, the next bytes, or the end.
Reads(n, last) ==
  /\ n \in Nat /\ last \in BOOLEAN
  /\ got' = got \o [i \in 1 .. n |-> <<port, Len(got) + i>>]
  /\ Len(got') = Len(got) + n /\ Len(got') <= peer[port].sent
  /\ rcvNxt' = rcvNxt + n + One(last)
  /\ n > 0 \/ last => ~ eof
  /\ last => peer[port].fin /\ Len(got') = peer[port].sent
  /\ eof' = (eof \/ last)

\* ReceiveSegment does one of these, and keeps what is known of the reading.
LEMMA SegmentReads ==
  ASSUME IInv, NEW m \in toUs, ReceiveSegment(m)
  PROVE  /\ port \in Conns /\ rcvNxt # 0 /\ Reading'
         /\ \E n \in Nat : Reads(n, FinAccepted(m))
  <1>1. /\ m.kind = "ACK" /\ m.port = port /\ FromPeer(m)
        /\ m.len \in Nat /\ m.seq \in Nat /\ m.fin \in BOOLEAN
    BY DEF ReceiveSegment, Accepted, IInv, Wire, FromPeer, Wires
  <1>2. port \in Conns /\ rcvNxt # 0 /\ rcvNxt \in Nat /\ port # 0
    BY <1>1, ConnsAssumption DEF ReceiveSegment, Accepted, StateAfterAck, IInv, Loop, Typed, Control,
      FromPeer, Wires, Conns
  <1>3. /\ got \in Seq(Conns \X Nat) /\ Len(got) \in Nat /\ rcvNxt = 1 + Len(got) + One(eof)
        /\ eof \in BOOLEAN /\ peer[port].sent \in Nat
        /\ (eof => peer[port].fin /\ Len(got) = peer[port].sent)
        /\ Len(got) <= peer[port].sent
        /\ \A i \in 1 .. Len(got) : got[i] = <<port, i>>
    BY <1>2, WriteAssumption DEF IInv, Reading, Loop, Typed, Wire, Peers
  <1>4. /\ m.len > 0 => m.seq + m.len <= 1 + peer[port].sent
        /\ m.fin => peer[port].fin /\ m.seq + m.len = 1 + peer[port].sent
    BY <1>1 DEF FromPeer
  <1>5. /\ got' = IF m.len > 0 /\ InOrder(m) THEN got \o Payload(m) ELSE got
        /\ rcvNxt' = rcvNxt + Taken(m) + One(FinAccepted(m))
        /\ eof' = (eof \/ FinAccepted(m)) /\ FinAccepted(m) \in BOOLEAN
        /\ UNCHANGED <<port, peer>>
    BY DEF ReceiveSegment, One, FinAccepted
  <1>6. /\ eof => rcvNxt = 2 + peer[port].sent
        /\ ~ eof => rcvNxt = 1 + Len(got)
    BY <1>3 DEF One
  <1>7. PICK n \in Nat :
          /\ got' = got \o [i \in 1 .. n |-> <<port, Len(got) + i>>]
          /\ got' \in Seq(Conns \X Nat) /\ Len(got') = Len(got) + n
          /\ \A i \in 1 .. Len(got') : got'[i] = <<port, i>>
          /\ n = Taken(m) /\ (n > 0 => InOrder(m) /\ n = m.len /\ ~ eof)
    <2>1. CASE m.len > 0 /\ InOrder(m)
      <3>1. ~ eof /\ Taken(m) = m.len /\ m.seq = 1 + Len(got)
        BY <1>1, <1>2, <1>3, <1>4, <1>6, <2>1 DEF InOrder, Taken
      <3>2. Payload(m) = [i \in 1 .. m.len |-> <<port, 1 + Len(got) + i - 1>>]
        BY <1>1, <3>1 DEF Payload
      <3>3. /\ got \o Payload(m) \in Seq(Conns \X Nat)
            /\ Len(got \o Payload(m)) = Len(got) + m.len
            /\ \A i \in 1 .. Len(got) + m.len : (got \o Payload(m))[i] = <<port, i>>
            /\ Payload(m) = [i \in 1 .. m.len |-> <<port, Len(got) + i>>]
        BY <1>1, <1>2, <1>3, <3>2, BytesAdded
      <3>4. got' = got \o Payload(m)
        BY <1>5, <2>1
      <3> QED
        BY <1>1, <2>1, <3>1, <3>3, <3>4
    <2>2. CASE ~ (m.len > 0 /\ InOrder(m))
      <3> DEFINE none == [i \in 1 .. 0 |-> <<port, Len(got) + i>>]
      <3>1. none = << >>
        BY <1>3
      <3>2. got = got \o none
        BY <1>3, <3>1, ConcatEmptySeq
      <3>3. Taken(m) = 0
        BY <1>1, <2>2 DEF Taken
      <3> QED
        BY <1>3, <1>5, <2>2, <3>2, <3>3
    <2> QED
      BY <2>1, <2>2
  <1>8. FinAccepted(m) => /\ ~ eof /\ peer[port].fin /\ Len(got) + n = peer[port].sent
    <2> SUFFICES ASSUME FinAccepted(m)
                 PROVE  ~ eof /\ peer[port].fin /\ Len(got) + n = peer[port].sent
      OBVIOUS
    <2>1. peer[port].fin /\ rcvNxt + n = 1 + peer[port].sent
      BY <1>4, <1>7 DEF FinAccepted
    <2>2. ~ eof
      BY <1>2, <1>3, <1>6, <2>1
    <2>3. Len(got) + n = peer[port].sent
      <3>1. rcvNxt = 1 + Len(got)
        BY <1>6, <2>2
      <3>2. Len(got) \in Nat /\ peer[port].sent \in Nat
        BY <1>3
      <3> QED
        BY <2>1, <3>1, <3>2
    <2> QED
      BY <2>1, <2>2, <2>3
  <1>9. Len(got') <= peer[port].sent
    <2>1. CASE n = 0
      BY <1>3, <1>7, <2>1
    <2>2. CASE n > 0
      BY <1>1, <1>2, <1>3, <1>4, <1>6, <1>7, <2>2 DEF InOrder
    <2> QED
      BY <2>1, <2>2
  <1>10. Reads(n, FinAccepted(m))
    BY <1>5, <1>7, <1>8, <1>9 DEF Reads
  <1>11. Reading'
    <2>1. rcvNxt' = 1 + Len(got') + One(eof') /\ rcvNxt' # 0
      <3>1. rcvNxt' = rcvNxt + n + One(FinAccepted(m))
        BY <1>5, <1>7
      <3>2. CASE FinAccepted(m)
        <4>1. ~ eof /\ eof'
          BY <1>5, <1>8, <3>2
        <4>2. rcvNxt' = 1 + Len(got) + n + 1
          BY <1>3, <1>6, <3>1, <3>2, <4>1 DEF One
        <4> QED
          BY <1>3, <1>7, <4>1, <4>2 DEF One
      <3>3. CASE ~ FinAccepted(m)
        <4>1. eof' = eof
          BY <1>3, <1>5, <3>3
        <4>2. rcvNxt' = 1 + Len(got) + One(eof) + n /\ One(eof) \in {0, 1}
          BY <1>3, <3>1, <3>3 DEF One
        <4>3. One(eof') = One(eof)
          BY <4>1
        <4>4. Len(got) \in Nat /\ Len(got') = Len(got) + n
          BY <1>3, <1>7
        <4> QED
          BY <4>2, <4>3, <4>4
      <3> QED
        BY <3>2, <3>3
    <2>2. eof' => peer[port].fin /\ Len(got') = peer[port].sent
      <3>1. CASE FinAccepted(m)
        BY <1>7, <1>8, <3>1
      <3>2. CASE ~ FinAccepted(m)
        BY <1>3, <1>5, <1>7, <3>2
      <3> QED
        BY <3>1, <3>2
    <2> QED
      BY <1>2, <1>5, <1>7, <1>9, <2>1, <2>2 DEF Reading
  <1> QED
    BY <1>2, <1>10, <1>11

\* Steps of the interrupt that read nothing.
LEMMA ReceivingIsFine ==
  ASSUME IInv, NEW m \in toUs, ReceiveReset(m) \/ ReceiveSynAck(m) \/ ReceiveLastAck(m)
  PROVE  IInv' /\ UNCHANGED <<port, got, eof, peer, toPeer, toUs>>
  <1>1. UNCHANGED <<port, got, eof, peer, toPeer, toUs>>
    BY DEF ReceiveReset, ReceiveSynAck, ReceiveLastAck, local, history
  <1>2. /\ Accepted(m) /\ FromPeer(m) /\ m.seq \in Nat
    BY DEF ReceiveReset, ReceiveSynAck, ReceiveLastAck, IInv, Wire, FromPeer, Wires
  <1>3. Loop'
    <2> USE DEF IInv, Loop, Typed, Control, EndIsReported, CloseWaitIsHandled, TcpState
    <2>1. CASE ReceiveReset(m)
      BY <2>1 DEF ReceiveReset, local
    <2>2. CASE ReceiveSynAck(m)
      <3>1. CASE state = "SYN_SENT"
        BY <1>2, <2>2, <3>1 DEF ReceiveSynAck, FromPeer, local, history
      <3>2. CASE state # "SYN_SENT"
        BY <1>2, <2>2, <3>2 DEF ReceiveSynAck, Accepted, local, history
      <3> QED
        BY <3>1, <3>2
    <2>3. CASE ReceiveLastAck(m)
      BY <2>3 DEF ReceiveLastAck, local
    <2> QED
      BY <2>1, <2>2, <2>3
  <1>4. Wire' /\ Reading'
    <2>1. CASE UNCHANGED rcvNxt
      BY <1>1, <2>1, QuietIsFine
    <2>2. CASE rcvNxt' # rcvNxt
      <3>1. state = "SYN_SENT" /\ m.kind = "SYNACK" /\ rcvNxt' = m.seq + 1
        BY <2>2 DEF ReceiveReset, ReceiveSynAck, ReceiveLastAck
      <3>2. rcvNxt = 0 /\ got = << >> /\ eof = FALSE /\ port # 0 /\ rcvNxt' = 1
        BY <1>2, <3>1 DEF IInv, Loop, Typed, Control, Reading, FromPeer
      <3>3. Reading'
        BY <1>1, <3>2 DEF IInv, Reading, One
      <3>4. (\A s : FromUs(s)' <=> FromUs(s)) /\ (\A s : FromPeer(s)' <=> FromPeer(s))
        BY <1>1 DEF FromUs, FromPeer
      <3> QED
        BY <1>1, <3>3, <3>4 DEF IInv, Wire
    <2> QED
      BY <2>1, <2>2
  <1> QED
    BY <1>1, <1>3, <1>4 DEF IInv

\* Reading on keeps what was acknowledged true.
LEMMA SegmentIsFine ==
  ASSUME IInv, NEW m \in toUs, ReceiveSegment(m)
  PROVE  IInv'
  <1>1. PICK n \in Nat : Reads(n, FinAccepted(m))
    BY SegmentReads
  <1>2. UNCHANGED <<port, peer, toPeer, toUs>>
    BY DEF ReceiveSegment
  <1>3. Reading' /\ rcvNxt # 0 /\ port \in Conns
    BY SegmentReads
  <1>4. Wire'
    <2>1. \A s : FromPeer(s)' <=> FromPeer(s)
      BY <1>2 DEF FromPeer
    <2>2. Len(got) \in Nat /\ Len(got') = Len(got) + n /\ eof \in BOOLEAN /\ (eof => eof')
      BY <1>1 DEF Reads, IInv, Reading, Loop, Typed
    <2>3. ASSUME NEW s \in toPeer PROVE FromUs(s)'
      <3>1. FromUs(s) /\ s.ack \in Nat
        BY DEF IInv, Wire, FromUs, Wires
      <3>2. s.ack <= 1 + Len(got) + One(eof) => s.ack <= 1 + Len(got') + One(eof')
        BY <2>2, <3>1 DEF One
      <3> QED
        BY <1>2, <3>1, <3>2 DEF FromUs
    <2> QED
      BY <1>2, <2>1, <2>3 DEF IInv, Wire
  <1>5. Loop'
    <2> DEFINE st == StateAfterAck(m)
    <2>1. /\ state \notin {"CLOSED", "SYN_SENT"} /\ st \notin {"CLOSED", "SYN_SENT"}
          /\ st \in TcpState /\ (st = "CLOSE_WAIT" => state = "CLOSE_WAIT")
      BY DEF ReceiveSegment, Accepted, StateAfterAck, IInv, Loop, Typed, TcpState
    <2>2. /\ state' = IF FinAccepted(m) THEN StateAfterFin(st) ELSE st
          /\ closePending' = (closePending \/ (FinAccepted(m) /\ st = "ESTABLISHED"))
          /\ ackPending' \in BOOLEAN /\ eof' \in BOOLEAN
          /\ told' = (told \/ (FinAccepted(m) /\ StateAfterFin(st) # st))
          /\ UNCHANGED <<sndNxt, ticks, retries, port, pc, left, newState, quit>>
      BY <1>1 DEF ReceiveSegment, local, Reads, IInv, Loop, Typed
    <2>3. rcvNxt' \in Nat /\ rcvNxt' # 0 /\ port # 0
      BY <1>1, <1>3, ConnsAssumption DEF Reads, One, Conns, IInv, Loop, Typed
    <2>4. /\ state' \in TcpState \ {"SYN_SENT"}
          /\ state' = "CLOSED" => told'
          /\ state' = "CLOSE_WAIT" => state = "CLOSE_WAIT" \/ closePending'
      <3> HIDE DEF st
      <3> QED
        BY <2>1, <2>2 DEF StateAfterFin, TcpState
    <2>5. Typed'
      BY <2>2, <2>3, <2>4 DEF IInv, Loop, Typed
    <2>6. Control'
      BY <2>1, <2>2, <2>3, <2>4 DEF IInv, Loop, Control
    <2>7. EndIsReported' /\ CloseWaitIsHandled'
      BY <2>2, <2>4 DEF IInv, Loop, EndIsReported, CloseWaitIsHandled
    <2> QED
      BY <2>5, <2>6, <2>7 DEF Loop
  <1> QED
    BY <1>3, <1>4, <1>5 DEF IInv

\* What a peer does: its stream grows until it ends, and it sends a part of it.
LEMMA PeerIsFine ==
  ASSUME IInv, NEW c \in Conns, c <= port, NEW p \in Peers, peer' = [peer EXCEPT ![c] = p],
         p.sent >= peer[c].sent, peer[c].fin => p.fin /\ p.sent = peer[c].sent,
         NEW m, toUs' \subseteq toUs \cup {m}, FromPeer(m)',
         UNCHANGED <<tcb, local, toPeer, history>>
  PROVE  IInv'
  <1>1. UNCHANGED <<state, sndNxt, rcvNxt, ticks, retries, ackPending, closePending, port,
                    pc, left, newState, got, eof, told, quit, toPeer>>
    BY DEF tcb, local, history
  <1>2. Loop'
    BY <1>1 DEF IInv, Loop, Typed, Control, EndIsReported, CloseWaitIsHandled
  <1>3. /\ peer' \in [Conns -> Peers]
        /\ \A d \in Conns : /\ peer[d].sent \in Nat /\ peer'[d].sent \in Nat
                            /\ peer[d].fin \in BOOLEAN /\ peer'[d].fin \in BOOLEAN
                            /\ peer'[d].sent >= peer[d].sent
                            /\ peer[d].fin => peer'[d].fin /\ peer'[d].sent = peer[d].sent
    BY WriteAssumption DEF IInv, Wire, Peers
  <1>4. Reading'
    <2>1. port # 0 => port \in Conns
      BY ConnsAssumption DEF IInv, Loop, Typed, Conns
    <2>2. Len(got) \in Nat /\ (eof => port # 0)
      BY DEF IInv, Reading
    <2> QED
      BY <1>1, <1>3, <2>1, <2>2 DEF IInv, Reading
  <1>5. ASSUME NEW s \in toUs PROVE FromPeer(s)'
    <2>1. FromPeer(s) /\ s.port \in Conns /\ s.seq \in Nat /\ s.len \in Nat
      BY DEF IInv, Wire, FromPeer, Wires
    <2> QED
      BY <1>1, <1>3, <2>1 DEF FromPeer
  <1>6. ASSUME NEW s \in toPeer PROVE FromUs(s)'
    <2>1. FromUs(s) /\ s.port \in Conns /\ s.ack \in Nat
      BY DEF IInv, Wire, FromUs, Wires
    <2>2. s.ack <= 1 + peer'[s.port].sent + One(peer'[s.port].fin)
      BY <1>3, <2>1 DEF FromUs, One
    <2> QED
      BY <1>1, <2>1, <2>2 DEF FromUs
  <1> QED
    BY <1>1, <1>2, <1>3, <1>4, <1>5, <1>6 DEF IInv, Wire

\* The peer's handshake, its writing, its repetitions and its reset.
LEMMA AnsweringIsFine ==
  ASSUME IInv,
         NEW m \in toPeer, PeerAnswersSyn(m) \/ PeerReceives(m)
  PROVE  IInv' /\ UNCHANGED <<port, got, eof>>
         /\ \A d \in Conns : peer'[d].sent = peer[d].sent /\ peer'[d].fin = peer[d].fin
  <1> DEFINE c == m.port
             p == peer'[c]
  <1>1. c \in Conns /\ c <= port /\ m.seq \in Nat /\ m.len \in Nat /\ peer[c] \in Peers
        /\ peer \in [Conns -> Peers]
    BY DEF IInv, Wire, FromUs, Wires
  <1>2. UNCHANGED <<tcb, local, toPeer, history>>
    BY DEF PeerAnswersSyn, PeerReceives
  <1>3. /\ peer' = [peer EXCEPT ![c] = p] /\ p \in Peers
        /\ p.sent = peer[c].sent /\ p.fin = peer[c].fin
    <2>1. CASE PeerAnswersSyn(m)
      <3>1. peer' = [peer EXCEPT ![c] = [[@ EXCEPT !.st = "rcvd"] EXCEPT !.next = 1]]
        BY <1>1, <2>1 DEF PeerAnswersSyn
      <3> QED
        BY <1>1, <3>1 DEF Peers
    <2>2. CASE PeerReceives(m)
      <3>1. PICK k \in Nat : peer' = [peer EXCEPT ![c] = [[@ EXCEPT !.st = "open"] EXCEPT !.next = k]]
        <4>1. /\ peer' = [peer EXCEPT ![c].st = "open",
                 ![c].next = IF m.seq = @ THEN @ + m.len + (IF m.fin THEN 1 ELSE 0) ELSE @]
              /\ peer[c].next \in Nat
          BY <1>1, <2>2 DEF PeerReceives, Peers
        <4>2. (IF m.seq = peer[c].next THEN peer[c].next + m.len + (IF m.fin THEN 1 ELSE 0)
               ELSE peer[c].next) \in Nat
          BY <1>1, <4>1
        <4> QED
          BY <1>1, <4>1, <4>2 DEF Peers
      <3> QED
        BY <1>1, <3>1 DEF Peers
    <2> QED
      BY <2>1, <2>2
  <1>4. PICK s : FromPeer(s)' /\ toUs' \subseteq toUs \cup {s}
    <2>1. port' = port /\ c \in Conns /\ c <= port'
      BY <1>1, <1>2 DEF tcb
    <2>2. CASE PeerAnswersSyn(m)
      <3> DEFINE s == Segment("SYNACK", c, 0, 0, FALSE, 1)
      <3>1. Answer(s)
        BY <2>2 DEF PeerAnswersSyn
      <3>2. toUs' \subseteq toUs \cup {s}
        BY <3>1, InFlight
      <3>3. FromPeer(s)'
        BY <2>1 DEF FromPeer, Wires, Segment
      <3> QED
        BY <3>2, <3>3
    <2>3. CASE PeerReceives(m)
      <3> DEFINE s == Segment("RST", c, 0, 0, FALSE, 0)
      <3>1. toUs' \subseteq toUs \cup {s}
        BY <2>3 DEF PeerReceives
      <3>2. FromPeer(s)'
        BY <2>1 DEF FromPeer, Wires, Segment
      <3> QED
        BY <3>1, <3>2
    <2> QED
      BY <2>2, <2>3
  <1> HIDE DEF c, p
  <1>5. p.sent >= peer[c].sent /\ (peer[c].fin => p.fin /\ p.sent = peer[c].sent)
    BY <1>1, <1>3, WriteAssumption DEF Peers
  <1>6. IInv'
    BY <1>1, <1>2, <1>3, <1>4, <1>5, PeerIsFine
  <1>7. \A d \in Conns : peer'[d].sent = peer[d].sent /\ peer'[d].fin = peer[d].fin
    BY <1>1, <1>3
  <1> QED
    BY <1>2, <1>6, <1>7 DEF tcb, history

\* What a peer's step makes of it, and of its stream.
Speaks(c, p, s) ==
  /\ p \in Peers /\ peer' = [peer EXCEPT ![c] = p]
  /\ toUs' \subseteq toUs \cup {s} /\ FromPeer(s)'
  /\ UNCHANGED <<tcb, local, toPeer, history>>

\* Each step of a peer speaks, and only writing makes its stream longer.
LEMMA PeerSpeaks ==
  ASSUME IInv, NEW c \in Conns \cap {port}, Peer(c)
  PROVE  \E p, s :
           /\ Speaks(c, p, s)
           /\ \/ p.sent = peer[c].sent /\ p.fin = peer[c].fin
              \/ /\ ~ peer[c].fin
                 /\ \E n \in 0 .. MAX_WRITE : p.sent = peer[c].sent + n
  <1>1. /\ c = port /\ c \in Conns /\ c <= port /\ peer \in [Conns -> Peers] /\ peer[c] \in Peers
        /\ peer[c].sent \in 0 .. MAX_WRITE /\ peer[c].fin \in BOOLEAN /\ peer[c].next \in Nat
    BY ConnsAssumption DEF IInv, Wire, Peers, Conns
  <1>2. ASSUME NEW p \in Peers, NEW seq \in Nat, NEW len \in Nat, NEW fin \in BOOLEAN,
               PeerSends(c, p, seq, len, fin),
               len > 0 => seq + len <= 1 + p.sent, fin => p.fin /\ seq + len = 1 + p.sent
        PROVE  Speaks(c, p, Segment("ACK", c, seq, len, fin, p.next))
    <2> DEFINE s == Segment("ACK", c, seq, len, fin, p.next)
    <2>1. peer' = [peer EXCEPT ![c] = p] /\ UNCHANGED <<tcb, local, toPeer, history>>
      BY <1>2 DEF PeerSends
    <2>2. peer'[c] = p /\ port' = port
      BY <1>1, <2>1 DEF tcb
    <2>3. s \in Wires({"SYNACK", "ACK", "RST"})
      BY <1>1 DEF Wires, Segment, Peers
    <2>4. FromPeer(s)'
      BY <1>1, <1>2, <2>2, <2>3 DEF FromPeer, Segment
    <2>5. toUs' \subseteq toUs \cup {s}
      BY <1>2, InFlight DEF PeerSends
    <2> QED
      BY <2>1, <2>4, <2>5 DEF Speaks
  <1>3. CASE PeerWrites(c)
    <2>1. PICK n \in 0 .. MAX_WRITE - peer[c].sent, fin \in BOOLEAN :
            PeerSends(c, [peer[c] EXCEPT !.sent = @ + n, !.fin = fin], 1 + peer[c].sent, n, fin)
      BY <1>3 DEF PeerWrites
    <2> DEFINE p == [peer[c] EXCEPT !.sent = @ + n, !.fin = fin]
    <2>2. ~ peer[c].fin
      BY <1>3 DEF PeerWrites
    <2>3. /\ n \in Nat /\ n \in 0 .. MAX_WRITE /\ 1 + peer[c].sent \in Nat
          /\ peer[c].sent + n \in 0 .. MAX_WRITE
      BY <1>1, <2>1, WriteAssumption
    <2>4. p \in Peers /\ p.sent = peer[c].sent + n /\ p.fin = fin
      BY <1>1, <2>1, <2>3 DEF Peers
    <2> HIDE DEF p
    <2>5. 1 + peer[c].sent + n = 1 + p.sent
      BY <1>1, <2>3, <2>4, WriteAssumption
    <2>6. PeerSends(c, p, 1 + peer[c].sent, n, fin)
      BY <2>1 DEF p
    <2>7. Speaks(c, p, Segment("ACK", c, 1 + peer[c].sent, n, fin, p.next))
      BY <1>2, <2>3, <2>4, <2>5, <2>6
    <2> QED
      BY <2>2, <2>3, <2>4, <2>7
  <1>4. CASE PeerRepeats(c)
    <2>1. PICK from \in 1 .. 1 + peer[c].sent :
            PeerSends(c, peer[c], from, 1 + peer[c].sent - from, peer[c].fin)
      BY <1>4 DEF PeerRepeats
    <2>2. from \in Nat /\ 1 + peer[c].sent - from \in Nat
          /\ from + (1 + peer[c].sent - from) = 1 + peer[c].sent
      BY <1>1, <2>1, WriteAssumption
    <2>3. Speaks(c, peer[c], Segment("ACK", c, from, 1 + peer[c].sent - from, peer[c].fin, peer[c].next))
      BY <1>1, <1>2, <2>1, <2>2
    <2> QED
      BY <2>3
  <1>5. CASE PeerAcks(c)
    <2>1. PICK seq \in Nat, len \in {0}, fin \in {FALSE} : PeerSends(c, peer[c], seq, len, fin)
      <3>1. 1 + peer[c].sent + (IF peer[c].fin THEN 1 ELSE 0) \in Nat
        BY <1>1, WriteAssumption
      <3> QED
        BY <1>5, <3>1 DEF PeerAcks
    <2>2. len \in Nat /\ ~ (len > 0) /\ fin \in BOOLEAN /\ ~ fin
      OBVIOUS
    <2>3. Speaks(c, peer[c], Segment("ACK", c, seq, len, fin, peer[c].next))
      BY <1>1, <1>2, <2>1, <2>2
    <2> QED
      BY <2>3
  <1>6. CASE PeerResets(c)
    <2> DEFINE p == [peer[c] EXCEPT !.st = "gone"]
               s == Segment("RST", c, 0, 0, FALSE, 0)
    <2>1. p \in Peers /\ p.sent = peer[c].sent /\ p.fin = peer[c].fin
      BY <1>1 DEF Peers
    <2>2. peer' = [peer EXCEPT ![c] = p] /\ Answer(s) /\ UNCHANGED <<tcb, local, toPeer, history>>
      BY <1>6 DEF PeerResets
    <2>3. FromPeer(s)'
      BY <1>1, <2>2 DEF tcb, FromPeer, Wires, Segment
    <2>4. toUs' \subseteq toUs \cup {s}
      BY <2>2, InFlight
    <2>5. Speaks(c, p, s)
      BY <2>1, <2>2, <2>3, <2>4 DEF Speaks
    <2> QED
      BY <2>1, <2>5
  <1> QED
    BY <1>3, <1>4, <1>5, <1>6 DEF Peer

\* No step of the system reads what the peer has not written.
LEMMA StepInv == IInv /\ [Next]_vars => IInv'
  <1> SUFFICES ASSUME IInv, [Next]_vars PROVE IInv'
    OBVIOUS
  <1>1. CASE MainLoop
    BY <1>1, ConnectIsFine, SilentIsFine, SpeakingIsFine DEF MainLoop
  <1>2. ASSUME NEW m \in toUs, Receive(m) PROVE IInv'
    BY <1>2, ReceivingIsFine, SegmentIsFine DEF Receive
  <1>3. ASSUME NEW m \in toPeer, PeerAnswersSyn(m) \/ PeerReceives(m) PROVE IInv'
    BY <1>3, AnsweringIsFine
  <1>4. ASSUME NEW c \in Conns \cap {port}, Peer(c) PROVE IInv'
    <2>1. PICK p, s : /\ Speaks(c, p, s)
                      /\ \/ p.sent = peer[c].sent /\ p.fin = peer[c].fin
                         \/ ~ peer[c].fin /\ \E n \in 0 .. MAX_WRITE : p.sent = peer[c].sent + n
      BY <1>4, PeerSpeaks
    <2>2. c \in Conns /\ c <= port /\ peer[c].sent \in Nat
      BY ConnsAssumption, WriteAssumption DEF IInv, Wire, Peers, Conns
    <2>3. p.sent >= peer[c].sent /\ (peer[c].fin => p.fin /\ p.sent = peer[c].sent)
      BY <2>1, <2>2, WriteAssumption
    <2> QED
      BY <2>1, <2>2, <2>3, PeerIsFine DEF Speaks
  <1>5. CASE Lose
    <2>1. toPeer' \subseteq toPeer /\ toUs' \subseteq toUs /\ UNCHANGED <<tcb, local, peer, history>>
      BY <1>5 DEF Lose
    <2>2. Loop'
      BY <2>1 DEF tcb, local, history, IInv, Loop, Typed, Control, EndIsReported, CloseWaitIsHandled
    <2> QED
      BY <2>1, <2>2, QuietIsFine DEF IInv, tcb, history
  <1>6. CASE UNCHANGED vars
    <2>1. Loop'
      BY <1>6 DEF vars, tcb, local, history, IInv, Loop, Typed, Control, EndIsReported, CloseWaitIsHandled
    <2> QED
      BY <1>6, <2>1, QuietIsFine DEF IInv, vars, tcb, history
  <1> QED
    BY <1>1, <1>2, <1>3, <1>4, <1>5, <1>6 DEF Next

\* The invariant, for any bounds: what rcvNxt counts, what is in flight, and where
\* the main loop is.
THEOREM Invariance == Spec => []IInv
  <1> QED
    BY InitInv, StepInv, PTL DEF Spec

\* Types of all fields, also where the interrupt comes in between.
THEOREM TypeCorrect == Spec => []TypeOK
  <1>1. IInv => TypeOK
    BY DEF IInv, Loop, Typed, Wire, Reading, FromPeer, FromUs, Wires, TypeOK
  <1> QED
    BY <1>1, Invariance, PTL

\* For any stream, loss and repetition: we acknowledge only what onData has been
\* given and the peer has sent.
THEOREM AcksOnlyWhatWasRead == Spec => []AcksWhatWasRead
  <1>1. IInv => AcksWhatWasRead
    BY DEF IInv, Wire, FromUs, AcksWhatWasRead, Fin, One
  <1> QED
    BY <1>1, Invariance, PTL

\* A connection that was set up and is over has been reported, unless the main
\* loop gave it up.
THEOREM EndReported == Spec => []EndIsReported
  <1>1. IInv => EndIsReported
    BY DEF IInv, Loop
  <1> QED
    BY <1>1, Invariance, PTL

\* That the peer has closed is noted until the main loop has dealt with it.
THEOREM CloseWaitHandled == Spec => []CloseWaitIsHandled
  <1>1. IInv => CloseWaitIsHandled
    BY DEF IInv, Loop
  <1> QED
    BY <1>1, Invariance, PTL

-----------------------------------------------------------------------------
(* The stream that ByteStream promises.                                    *)

\* Nothing is read, opened or written at the start.
LEMMA InitImplements == Init => Stream!Init
  <1> SUFFICES ASSUME Init PROVE Stream!Init
    OBVIOUS
  <1>1. port = 0 /\ got = << >> /\ eof = FALSE
    BY DEF Init
  <1>2. \A c \in Conns : peer[c].sent = 0 /\ peer[c].fin = FALSE
    BY DEF Init, NewPeer
  <1> QED
    BY <1>1, <1>2 DEF Stream!Init

\* The reader, and what the peers have written, stay as they are.
LEMMA Stutters ==
  ASSUME UNCHANGED <<port, got, eof>>,
         \A c \in Conns : peer'[c].sent = peer[c].sent /\ peer'[c].fin = peer[c].fin
  PROVE  UNCHANGED Stream!vars
  BY DEF Stream!vars

\* A segment hands on the next bytes and possibly the end, or nothing.
LEMMA SegmentImplements ==
  ASSUME IInv, NEW m \in toUs, ReceiveSegment(m)
  PROVE  Stream!Read \/ UNCHANGED Stream!vars
  <1>1. PICK n \in Nat : Reads(n, FinAccepted(m))
    BY SegmentReads
  <1>2. UNCHANGED <<port, peer>> /\ port \in Conns
    BY SegmentReads DEF ReceiveSegment
  <1>3. /\ got \in Seq(Conns \X Nat) /\ Len(got) \in Nat /\ eof \in BOOLEAN
        /\ peer[port].sent \in Nat
    BY <1>2, WriteAssumption DEF IInv, Reading, Loop, Typed, Wire, Peers
  <1>4. CASE eof
    <2>1. n = 0 /\ ~ FinAccepted(m)
      BY <1>1, <1>4 DEF Reads
    <2>2. got' = got \o << >>
      BY <1>1, <1>3, <2>1 DEF Reads
    <2>3. got' = got /\ eof' = eof
      BY <1>1, <1>3, <2>1, <2>2, ConcatEmptySeq DEF Reads
    <2> QED
      BY <1>2, <2>3, Stutters
  <1>5. CASE ~ eof
    <2> DEFINE written == [c \in Conns |-> peer[c].sent]
    <2>1. n \in 0 .. written[port] - Len(got)
      BY <1>1, <1>2, <1>3 DEF Reads
    <2>2. eof' => port \in {c \in Conns : peer[c].fin} /\ Len(got') = written[port]
      BY <1>1, <1>2, <1>5 DEF Reads
    <2>3. got' = got \o [i \in 1 .. n |-> <<port, Len(got) + i>>] /\ eof' \in BOOLEAN
      BY <1>1, <1>3 DEF Reads
    <2>4. UNCHANGED <<port, written, {c \in Conns : peer[c].fin}>>
      BY <1>2
    <2> QED
      BY <1>5, <2>1, <2>2, <2>3, <2>4 DEF Stream!Read
  <1> QED
    BY <1>4, <1>5

\* Every step opens, writes, reads or is no step of the stream.
LEMMA StepImplements == IInv /\ [Next]_vars => [Stream!Next]_(Stream!vars)
  <1> SUFFICES ASSUME IInv, [Next]_vars PROVE Stream!Next \/ UNCHANGED Stream!vars
    OBVIOUS
  <1>1. CASE tcpConnect
    <2>1. /\ port' \in Conns /\ port' > port /\ got' = << >> /\ eof' = FALSE /\ UNCHANGED peer
      BY <1>1, ConnsAssumption DEF tcpConnect, IInv, Loop, Typed, Conns
    <2> QED
      BY <2>1 DEF Stream!Next, Stream!Open
  <1>2. CASE MainLoop /\ ~ tcpConnect
    <2>1. UNCHANGED <<port, got, eof, peer>>
      BY <1>2 DEF MainLoop, tcpSend, SendChunk, tcpClose, tcpAbort, CloseReads, CloseStores,
        TickCloses, TickAcks, TickCounts, TickResends, TickGivesUp, tcb, history
    <2> QED
      BY <2>1, Stutters
  <1>3. ASSUME NEW m \in toUs, Receive(m) PROVE Stream!Next \/ UNCHANGED Stream!vars
    <2>1. CASE ReceiveSegment(m)
      BY <2>1, SegmentImplements DEF Stream!Next
    <2>2. CASE ~ ReceiveSegment(m)
      <3>1. UNCHANGED <<port, got, eof, peer>>
        BY <1>3, <2>2, ReceivingIsFine DEF Receive
      <3> QED
        BY <3>1, Stutters
    <2> QED
      BY <2>1, <2>2
  <1>4. ASSUME NEW m \in toPeer, PeerAnswersSyn(m) \/ PeerReceives(m)
        PROVE  Stream!Next \/ UNCHANGED Stream!vars
    BY <1>4, AnsweringIsFine, Stutters
  <1>5. ASSUME NEW c \in Conns \cap {port}, Peer(c) PROVE Stream!Next \/ UNCHANGED Stream!vars
    <2>1. PICK p, s : /\ Speaks(c, p, s)
                      /\ \/ p.sent = peer[c].sent /\ p.fin = peer[c].fin
                         \/ ~ peer[c].fin /\ \E n \in 0 .. MAX_WRITE : p.sent = peer[c].sent + n
      BY <1>5, PeerSpeaks
    <2>2. /\ peer' = [peer EXCEPT ![c] = p] /\ peer \in [Conns -> Peers]
          /\ p.fin \in BOOLEAN /\ c \in Conns /\ UNCHANGED <<port, got, eof>>
      BY <2>1 DEF Speaks, Peers, tcb, history, IInv, Wire
    <2>3. CASE p.sent = peer[c].sent /\ p.fin = peer[c].fin
      <3>1. \A d \in Conns : peer'[d].sent = peer[d].sent /\ peer'[d].fin = peer[d].fin
        BY <2>2, <2>3
      <3> QED
        BY <2>2, <3>1, Stutters
    <2>4. ASSUME ~ peer[c].fin, NEW n \in 0 .. MAX_WRITE, p.sent = peer[c].sent + n
          PROVE  Stream!Write(c)
      <3> DEFINE written == [d \in Conns |-> peer[d].sent]
                 ended == {d \in Conns : peer[d].fin}
      <3>1. written' = [written EXCEPT ![c] = @ + n]
        BY <2>2, <2>4
      <3>2. ended' \in {ended, ended \cup {c}}
        <4>1. \A d \in Conns : peer'[d].fin <=> IF d = c THEN p.fin ELSE peer[d].fin
          BY <2>2
        <4>2. CASE p.fin
          <5>1. ended' = ended \cup {c}
            BY <2>2, <4>1, <4>2
          <5> QED
            BY <5>1
        <4>3. CASE ~ p.fin
          <5>1. ended' = ended
            BY <2>4, <4>1, <4>3
          <5> QED
            BY <5>1
        <4> QED
          BY <4>2, <4>3
      <3> QED
        BY <2>2, <2>4, <3>1, <3>2 DEF Stream!Write
    <2> QED
      BY <2>1, <2>2, <2>3, <2>4 DEF Stream!Next
  <1>6. CASE Lose \/ UNCHANGED vars
    <2>1. UNCHANGED <<port, got, eof, peer>>
      BY <1>6 DEF Lose, vars, tcb, history
    <2> QED
      BY <2>1, Stutters
  <1> QED
    BY <1>1, <1>2, <1>3, <1>4, <1>5, <1>6 DEF Next

\* tcp.c keeps the promise of a byte stream: whatever the network loses, repeats
\* and reorders, onData gets the peer's bytes in order and once, and the end last.
THEOREM Implementation == Spec => ImplementsStream
  <1> QED
    BY InitImplements, StepImplements, Invariance, PTL DEF Spec, ImplementsStream, Stream!Spec
=============================================================================

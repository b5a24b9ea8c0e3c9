-------------------------------- MODULE Tcp ---------------------------------
(***************************************************************************)
(* Network/tcp.c: the one TCP connection of the system.  tcpReceive runs   *)
(* in the network card's interrupt; tcpConnect, tcpSend, tcpClose, tcpTick *)
(* and tcpAbort run in the main loop and can be interrupted between the    *)
(* steps that pc separates.  The peers are servers that follow TCP, one    *)
(* for every connection; the network may lose, repeat and reorder: a       *)
(* segment stays in flight, received any number of times, until it is lost.*)
(*                                                                         *)
(* Sequence numbers count from the initial one of each side, and every     *)
(* connection has its own local port (both come from isnCounter, and the   *)
(* port comes back after 32 connections).  A segment with a wrong checksum *)
(* or length counts as lost.  sndUna is left out: it is written with every *)
(* acknowledgement and read only when tcpTick repeats the SYN.             *)
(***************************************************************************)
EXTENDS Integers, Sequences, FiniteSets

CONSTANTS
  MAX_CONNS,        \* bound: connections that are opened
  MAX_WRITE,        \* bound: bytes the peer writes on a connection
  MAX_SEND,         \* bound: bytes we send on a connection
  SYN_RETRY_TICKS,  \* synRetryTicks
  MAX_RETRIES,      \* SYN retries (5)
  MAX_TO_PEER,      \* bounds: segments in flight in each direction
  MAX_TO_US

ASSUME ConnsAssumption == MAX_CONNS \in Nat \ {0}
ASSUME WriteAssumption == MAX_WRITE \in Nat /\ MAX_SEND \in Nat
ASSUME RetryAssumption == SYN_RETRY_TICKS \in Nat \ {0} /\ MAX_RETRIES \in Nat
ASSUME InFlightAssumption == MAX_TO_PEER \in Nat \ {0} /\ MAX_TO_US \in Nat \ {0}

Conns == 1 .. MAX_CONNS

VARIABLES
  state, sndNxt, rcvNxt, ticks, retries, ackPending, closePending,
             \* the fields of conn
  port,      \* conn.localPort: the number of the connection
  pc,        \* where the main loop is inside tcp.c
  left,      \* tcpSend: bytes still to send
  newState,  \* tcpClose: the state it is about to store
  toPeer,    \* segments in flight from us
  toUs,      \* segments in flight to us
  peer,      \* the peer of every connection
  got,       \* what onData was given on this connection
  eof,       \* a FIN was accepted on this connection
  told,      \* onClose was called on this connection
  quit       \* tcpAbort was called, or tcpTick gave up, on this connection

tcb == <<state, sndNxt, rcvNxt, ticks, retries, ackPending, closePending, port>>
local == <<pc, left, newState>>
history == <<got, eof, told, quit>>
vars == <<tcb, local, toPeer, toUs, peer, history>>

TcpState == {"CLOSED", "SYN_SENT", "ESTABLISHED", "FIN_WAIT_1", "FIN_WAIT_2",
             "CLOSE_WAIT", "LAST_ACK"}

\* sendSegment, and what a peer sends.
Segment(kind, p, seq, len, fin, ack) ==
  [kind |-> kind, port |-> p, seq |-> seq, len |-> len, fin |-> fin, ack |-> ack]

\* A segment goes on its way, or is dropped at once when there are too many.
Send(m) ==
  toPeer' = IF Cardinality(toPeer) < MAX_TO_PEER THEN toPeer \cup {m} ELSE toPeer
Answer(m) ==
  toUs' = IF Cardinality(toUs) < MAX_TO_US THEN toUs \cup {m} ELSE toUs

NewPeer == [st |-> "listen", sent |-> 0, fin |-> FALSE, next |-> 0]

Init ==
  /\ state = "CLOSED" /\ port = 0
  /\ sndNxt = 0 /\ rcvNxt = 0
  /\ ticks = 0 /\ retries = 0
  /\ ackPending = FALSE /\ closePending = FALSE
  /\ pc = "idle" /\ left = 0 /\ newState = "CLOSED"
  /\ toPeer = {} /\ toUs = {}
  /\ peer = [c \in Conns |-> NewPeer]
  /\ got = << >> /\ eof = FALSE /\ told = FALSE /\ quit = FALSE

-----------------------------------------------------------------------------
(* The main loop.                                                          *)

tcpConnect ==
  /\ pc = "idle" /\ state = "CLOSED"
  /\ port < MAX_CONNS
  /\ port' = port + 1
  /\ sndNxt' = 1 /\ rcvNxt' = 0
  /\ ticks' = 0 /\ retries' = 0
  /\ ackPending' = FALSE /\ closePending' = FALSE
  /\ state' = "SYN_SENT"
  /\ Send(Segment("SYN", port', 0, 0, FALSE, 0))
  /\ got' = << >> /\ eof' = FALSE /\ told' = FALSE /\ quit' = FALSE
  /\ UNCHANGED <<local, toUs, peer>>

\* tcpSend checks the state once ...
tcpSend ==
  /\ pc = "idle" /\ state = "ESTABLISHED"
  /\ \E n \in 1 .. MAX_SEND - (sndNxt - 1) : left' = n
  /\ pc' = "send"
  /\ UNCHANGED <<tcb, newState, toPeer, toUs, peer, history>>

\* ... and sends chunk by chunk.
SendChunk ==
  /\ pc = "send"
  /\ \E chunk \in 1 .. left :
       /\ sndNxt' = sndNxt + chunk
       /\ Send(Segment("ACK", port, sndNxt, chunk, FALSE, rcvNxt))
       /\ left' = left - chunk
       /\ pc' = IF chunk = left THEN "idle" ELSE "send"
  /\ UNCHANGED <<state, rcvNxt, ticks, retries, ackPending, closePending,
                 port, newState, toUs, peer, history>>

\* Mutant: a connection that the peer closed is not closed from this side.
CloseTests_OpenOnly ==
  /\ IF state = "ESTABLISHED"
     THEN pc' = "close" /\ sndNxt' = sndNxt + 1
     ELSE pc' = "idle" /\ UNCHANGED sndNxt

\* tcpClose: the state is tested, read again for the choice of the next one,
\* and written; the interrupt can come in between.
CloseTests ==
  /\ IF state \in {"ESTABLISHED", "CLOSE_WAIT"}
     THEN pc' = "close" /\ sndNxt' = sndNxt + 1
     ELSE pc' = "idle" /\ UNCHANGED sndNxt

tcpClose ==
  /\ pc = "idle" /\ state \in {"ESTABLISHED", "CLOSE_WAIT"}
  /\ CloseTests
  /\ UNCHANGED <<state, rcvNxt, ticks, retries, ackPending, closePending,
                 port, left, newState, toPeer, toUs, peer, history>>

CloseReads ==
  /\ pc = "close"
  /\ newState' = IF state = "ESTABLISHED" THEN "FIN_WAIT_1" ELSE "LAST_ACK"
  /\ pc' = "store"
  /\ UNCHANGED <<tcb, left, toPeer, toUs, peer, history>>

CloseStores ==
  /\ pc = "store"
  /\ state' = newState
  /\ Send(Segment("ACK", port, sndNxt - 1, 0, TRUE, rcvNxt))
  /\ pc' = "idle" /\ newState' = "CLOSED"
  /\ UNCHANGED <<sndNxt, rcvNxt, ticks, retries, ackPending, closePending,
                 port, left, toUs, peer, history>>

\* tcpTick: do what the interrupt left to be done ...
TickCloses ==
  /\ pc = "idle" /\ closePending
  /\ closePending' = FALSE /\ ackPending' = FALSE
  /\ CloseTests
  /\ UNCHANGED <<state, rcvNxt, ticks, retries, port, left, newState,
                 toPeer, toUs, peer, history>>

TickAcks ==
  /\ pc = "idle" /\ ~ closePending /\ ackPending
  /\ ackPending' = FALSE
  /\ Send(Segment("ACK", port, sndNxt, 0, FALSE, rcvNxt))
  /\ UNCHANGED <<state, sndNxt, rcvNxt, ticks, retries, closePending, port,
                 local, toUs, peer, history>>

\* Mutants: the test is off by one; retries are not counted.
TickCounts_Late ==
  /\ pc = "idle" /\ ~ closePending /\ ~ ackPending
  /\ state = "SYN_SENT"
  /\ IF ticks < SYN_RETRY_TICKS
     THEN ticks' = ticks + 1 /\ UNCHANGED <<retries, pc>>
     ELSE /\ ticks' = 0
          /\ retries' = retries + 1
          /\ pc' = IF retries' > MAX_RETRIES THEN "giveUp" ELSE "resend"
  /\ UNCHANGED <<state, sndNxt, rcvNxt, ackPending, closePending, port,
                 left, newState, toPeer, toUs, peer, history>>

TickCounts_Forever ==
  /\ pc = "idle" /\ ~ closePending /\ ~ ackPending
  /\ state = "SYN_SENT"
  /\ ticks' = (ticks + 1) % SYN_RETRY_TICKS
  /\ pc' = IF ticks' = 0 THEN "resend" ELSE pc
  /\ UNCHANGED <<retries, state, sndNxt, rcvNxt, ackPending, closePending, port,
                 left, newState, toPeer, toUs, peer, history>>

\* ... and count the ticks of a connection request.
TickCounts ==
  /\ pc = "idle" /\ ~ closePending /\ ~ ackPending
  /\ state = "SYN_SENT"
  /\ IF ticks + 1 < SYN_RETRY_TICKS
     THEN ticks' = ticks + 1 /\ UNCHANGED <<retries, pc>>
     ELSE /\ ticks' = 0
          /\ retries' = retries + 1
          /\ pc' = IF retries' > MAX_RETRIES THEN "giveUp" ELSE "resend"
  /\ UNCHANGED <<state, sndNxt, rcvNxt, ackPending, closePending, port,
                 left, newState, toPeer, toUs, peer, history>>

\* The sequence number is sndUna, which an answer that has just come in moved.
TickResends ==
  /\ pc = "resend"
  /\ Send(Segment("SYN", port, IF rcvNxt = 0 THEN 0 ELSE 1, 0, FALSE, 0))
  /\ pc' = "idle"
  /\ UNCHANGED <<tcb, left, newState, toUs, peer, history>>

TickGivesUp ==
  /\ pc = "giveUp"
  /\ state' = "CLOSED" /\ quit' = TRUE
  /\ pc' = "idle"
  /\ UNCHANGED <<sndNxt, rcvNxt, ticks, retries, ackPending, closePending,
                 port, left, newState, toPeer, toUs, peer, got, eof, told>>

tcpAbort ==
  /\ pc = "idle" /\ state # "CLOSED"
  /\ state' = "CLOSED" /\ quit' = TRUE
  /\ ackPending' = FALSE /\ closePending' = FALSE
  /\ UNCHANGED <<sndNxt, rcvNxt, ticks, retries, port, local, toPeer, toUs,
                 peer, got, eof, told>>

-----------------------------------------------------------------------------
(* tcpReceive, in the interrupt.                                           *)

\* Ports and state decide which segments are looked at.  Mutant: not the ports.
Accepted_AnyPort(m) == m \in toUs /\ state # "CLOSED"

Accepted(m) == m \in toUs /\ state # "CLOSED" /\ m.port = port

\* Mutant: onClose is not called.
ReceiveReset_Silent(m) ==
  /\ Accepted(m) /\ m.kind = "RST"
  /\ state' = "CLOSED"
  /\ UNCHANGED <<sndNxt, rcvNxt, ticks, retries, ackPending, closePending,
                 port, local, toPeer, toUs, peer, history>>

ReceiveReset(m) ==
  /\ Accepted(m) /\ m.kind = "RST"
  /\ state' = "CLOSED"
  /\ told' = TRUE
  /\ UNCHANGED <<sndNxt, rcvNxt, ticks, retries, ackPending, closePending,
                 port, local, toPeer, toUs, peer, got, eof, quit>>

ReceiveSynAck(m) ==
  /\ Accepted(m) /\ m.kind = "SYNACK"
  /\ IF state = "SYN_SENT"
     THEN /\ m.ack = sndNxt
          /\ rcvNxt' = m.seq + 1
          /\ state' = "ESTABLISHED"
     ELSE UNCHANGED <<rcvNxt, state>>
  /\ ackPending' = TRUE
  /\ UNCHANGED <<sndNxt, ticks, retries, closePending, port, local, toPeer, toUs,
                 peer, history>>

\* An acknowledgement of everything sent moves a closing connection on.
StateAfterAck(m) ==
  CASE state = "FIN_WAIT_1" /\ m.ack = sndNxt -> "FIN_WAIT_2"
    [] state = "LAST_ACK" /\ m.ack = sndNxt   -> "CLOSED"
    [] OTHER                                  -> state

InOrder(m) == m.seq = rcvNxt

\* Mutant: the bytes of a segment behind a gap are counted.
Taken_Always(m) == m.len

Taken(m) == IF InOrder(m) THEN m.len ELSE 0

\* Bytes of a segment, as onData gets them.
Payload(m) == [i \in 1 .. m.len |-> <<m.port, m.seq + i - 1>>]

FinAccepted(m) == m.fin /\ (m.len = 0 \/ InOrder(m)) /\ m.seq + m.len = rcvNxt + Taken(m)

StateAfterFin(st) ==
  CASE st = "ESTABLISHED"                  -> "CLOSE_WAIT"
    [] st \in {"FIN_WAIT_1", "FIN_WAIT_2"} -> "CLOSED"
    [] OTHER                               -> st

\* The acknowledgement of our FIN in LAST_ACK ends the call.
ReceiveLastAck(m) ==
  /\ Accepted(m) /\ m.kind = "ACK"
  /\ state = "LAST_ACK" /\ StateAfterAck(m) = "CLOSED"
  /\ state' = "CLOSED"
  /\ told' = TRUE
  /\ UNCHANGED <<sndNxt, rcvNxt, ticks, retries, ackPending, closePending, port,
                 local, toPeer, toUs, peer, got, eof, quit>>

ReceiveSegment(m) ==
  LET st == StateAfterAck(m)
      last == FinAccepted(m)
  IN  /\ Accepted(m) /\ m.kind = "ACK"
      /\ state # "SYN_SENT" /\ st # "CLOSED"
      /\ got' = IF m.len > 0 /\ InOrder(m) THEN got \o Payload(m) ELSE got
      /\ rcvNxt' = rcvNxt + Taken(m) + (IF last THEN 1 ELSE 0)
      /\ ackPending' = (ackPending \/ m.len > 0 \/ last)
      /\ state' = IF last THEN StateAfterFin(st) ELSE st
      /\ closePending' = (closePending \/ (last /\ st = "ESTABLISHED"))
      /\ eof' = (eof \/ last)
      /\ told' = (told \/ (last /\ StateAfterFin(st) # st))
      /\ UNCHANGED <<sndNxt, ticks, retries, port, local, toPeer, toUs, peer, quit>>

-----------------------------------------------------------------------------
(* The peers (external).                                                   *)

\* What a peer acknowledges: our SYN, the bytes it took in order, our FIN.
PeerSends(c, p, seq, len, fin) ==
  /\ peer' = [peer EXCEPT ![c] = p]
  /\ Answer(Segment("ACK", c, seq, len, fin, p.next))
  /\ UNCHANGED <<tcb, local, toPeer, history>>

PeerAnswersSyn(m) ==
  /\ m \in toPeer /\ m.kind = "SYN" /\ m.seq = 0
  /\ peer[m.port].st \in {"listen", "rcvd"}
  /\ peer' = [peer EXCEPT ![m.port].st = "rcvd", ![m.port].next = 1]
  /\ Answer(Segment("SYNACK", m.port, 0, 0, FALSE, 1))
  /\ UNCHANGED <<tcb, local, toPeer, history>>

\* Our segments, taken in order.
PeerReceives(m) ==
  /\ m \in toPeer /\ m.kind = "ACK"
  /\ peer[m.port].st \in {"rcvd", "open"}
  /\ peer' = [peer EXCEPT
       ![m.port].st = "open",
       ![m.port].next = IF m.seq = @ THEN @ + m.len + (IF m.fin THEN 1 ELSE 0) ELSE @]
  /\ UNCHANGED <<tcb, local, toPeer, toUs, history>>

\* New bytes and then the end of its stream, each in its own segment or together.
PeerWrites(c) ==
  LET p == peer[c]
  IN  /\ p.st = "open" /\ ~ p.fin
      /\ \E n \in 0 .. MAX_WRITE - p.sent, fin \in BOOLEAN :
           /\ n > 0 \/ fin
           /\ PeerSends(c, [p EXCEPT !.sent = @ + n, !.fin = fin], 1 + p.sent, n, fin)

\* Repeat the rest of the stream from any byte on, or just acknowledge.
PeerRepeats(c) ==
  LET p == peer[c]
  IN  /\ p.st = "open"
      /\ \E from \in 1 .. 1 + p.sent :
           PeerSends(c, p, from, 1 + p.sent - from, p.fin)

PeerAcks(c) ==
  LET p == peer[c]
  IN  p.st = "open" /\ PeerSends(c, p, 1 + p.sent + (IF p.fin THEN 1 ELSE 0), 0, FALSE)

PeerResets(c) ==
  /\ peer[c].st \in {"rcvd", "open"}
  /\ peer' = [peer EXCEPT ![c].st = "gone"]
  /\ Answer(Segment("RST", c, 0, 0, FALSE, 0))
  /\ UNCHANGED <<tcb, local, toPeer, history>>

Lose ==
  /\ \/ \E m \in toPeer : toPeer' = toPeer \ {m} /\ UNCHANGED toUs
     \/ \E m \in toUs : toUs' = toUs \ {m} /\ UNCHANGED toPeer
  /\ UNCHANGED <<tcb, local, peer, history>>

MainLoop ==
  \/ tcpConnect \/ tcpSend \/ SendChunk \/ tcpClose \/ tcpAbort
  \/ CloseReads \/ CloseStores
  \/ TickCloses \/ TickAcks \/ TickCounts \/ TickResends \/ TickGivesUp

Receive(m) ==
  ReceiveReset(m) \/ ReceiveSynAck(m) \/ ReceiveLastAck(m) \/ ReceiveSegment(m)

\* Bound: of an older connection only segments are left, its peer is quiet.
Peer(c) == PeerWrites(c) \/ PeerRepeats(c) \/ PeerAcks(c) \/ PeerResets(c)

Next ==
  \/ MainLoop
  \/ \E m \in toUs : Receive(m)
  \/ \E m \in toPeer : PeerAnswersSyn(m) \/ PeerReceives(m)
  \/ \E c \in Conns \cap {port} : Peer(c)
  \/ Lose

Spec == Init /\ [][Next]_vars

\* The loops that drive a connection (http.c, browserPoll, mailPoll) call
\* tcpTick on every round, and finish what they have begun.  Nothing is assumed
\* of the network or of the peer.
Tick == TickCloses \/ TickAcks \/ TickCounts
Finish == SendChunk \/ CloseReads \/ CloseStores \/ TickResends \/ TickGivesUp
FairSpec == Spec /\ WF_vars(Tick) /\ WF_vars(Finish)

-----------------------------------------------------------------------------
Fin(c) == IF peer[c].fin THEN 1 ELSE 0

\* Type invariant.
TypeOK ==
  /\ state \in TcpState /\ newState \in TcpState
  /\ port \in 0 .. MAX_CONNS
  /\ {sndNxt, rcvNxt} \subseteq Nat
  /\ ticks \in 0 .. SYN_RETRY_TICKS - 1 /\ retries \in 0 .. MAX_RETRIES + 1
  /\ ackPending \in BOOLEAN /\ closePending \in BOOLEAN
  /\ pc \in {"idle", "send", "close", "store", "resend", "giveUp"}
  /\ left \in 0 .. MAX_SEND
  /\ \A m \in toUs \cup toPeer : m.port \in Conns
  /\ got \in Seq(Conns \X Nat) /\ eof \in BOOLEAN /\ told \in BOOLEAN /\ quit \in BOOLEAN

\* Whatever the network repeats or reorders, from this connection or an older
\* one, and wherever the interrupt comes: onData gets the peer's stream, and a
\* FIN is accepted only behind its last byte.
Stream == INSTANCE ByteStream WITH
            conn    <- port,
            written <- [c \in Conns |-> peer[c].sent],
            ended   <- {c \in Conns : peer[c].fin}
ImplementsStream == Stream!Spec

\* We acknowledge nothing but what onData has been given (plus SYN and FIN), and
\* nothing the peer has not sent: what it may forget is never lost.
AcksWhatWasRead ==
  \A m \in toPeer :
    /\ (m.kind = "ACK" /\ m.port = port) => m.ack <= 1 + Len(got) + (IF eof THEN 1 ELSE 0)
    /\ m.ack <= 1 + peer[m.port].sent + Fin(m.port)

\* A connection that was set up and is over has been reported by onClose, unless
\* the main loop itself gave it up (tcpAbort, or tcpTick's last retry that
\* overwrites an answer which has just come in).
EndIsReported == (state = "CLOSED" /\ rcvNxt > 0 /\ ~ quit) => told

\* The interrupt only notes that the peer has closed; the note is never lost,
\* wherever in the main loop the interrupt came: it waits for the next tick, or
\* the answer is under way.
CloseWaitIsHandled ==
  state = "CLOSE_WAIT" => closePending \/ pc \in {"close", "store"}

\* Whatever the network and the peer do, a loop that keeps calling tcpTick sees
\* its connection request end, and answers a peer that has closed.
HalfOpenEnds ==
  \A st \in {"SYN_SENT", "CLOSE_WAIT"} : state = st ~> state # st
=============================================================================

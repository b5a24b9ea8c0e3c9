-------------------------------- MODULE Link --------------------------------
(***************************************************************************)
(* The one connection of Network/tcp.c as the browser and the mail program *)
(* see it: they share it, and neither knows whose it is.  Module Tcp shows *)
(* what is taken for granted here: bytes arrive in order and once, and the *)
(* end of the stream comes behind the last byte.                           *)
(*                                                                         *)
(* Nothing of ours is sent again (tcpSend keeps no copy), so once a segment*)
(* of ours is lost the server hears nothing more on this connection.       *)
(***************************************************************************)
EXTENDS Integers, Sequences

CONSTANTS
  SYN_TICKS,   \* ticks until tcpTick gives a connection request up
  People       \* bound: what a user does at most, and what the servers write:
               \* [urls, hrefs, opens, sends, edits, login, replies]; login is
               \* how the mail program was built (SMTP_USER)

ASSUME LinkAssumption ==
  /\ SYN_TICKS \in Nat \ {0}
  /\ \A p \in People :
       /\ {p.opens, p.sends, p.edits} \subseteq Nat /\ p.login \in BOOLEAN
       /\ \A r \in p.replies : r.pieces \in Nat

VARIABLES
  ts,        \* conn.state
  user,      \* whose conn.onData is called: "none", "browser", "mail"
  synTicks,  \* ticks of the connection request
  deaf,      \* something we sent was lost
  eof,       \* the server's FIN was accepted
  strayed,   \* a program used the other one's connection
  srv,       \* the server at the other end
  pc,        \* where the main loop is: "idle", or inside a poll
  seen,      \* the state the poll has read (its local ts), CLOSED between polls
  person     \* who sits at the machine: one of People, for good

link == <<ts, user, synTicks, deaf, eof, strayed, srv>>
loop == <<pc, seen>>

NoServer == [job |-> "none"]

LinkInit ==
  /\ ts = "CLOSED" /\ user = "none" /\ synTicks = 0
  /\ deaf = FALSE /\ eof = FALSE /\ strayed = FALSE
  /\ srv = NoServer
  /\ pc = "idle" /\ seen = "CLOSED"
  /\ person \in People

\* tcpConnect to a server of the given kind; it fails unless the one is closed.
tcpConnect(program, server) ==
  /\ ts = "CLOSED"
  /\ ts' = "SYN_SENT" /\ user' = program /\ synTicks' = 0
  /\ deaf' = FALSE /\ eof' = FALSE /\ strayed' = FALSE
  /\ srv' = server

\* tcpSend by a program; heard says what the server may be after it.
tcpSend(program, heard) ==
  /\ IF ts # "ESTABLISHED" THEN UNCHANGED <<deaf, strayed, srv>>
     ELSE IF user # program THEN deaf' = TRUE /\ strayed' = TRUE /\ UNCHANGED srv
     ELSE /\ \/ ~ deaf /\ srv' \in heard /\ UNCHANGED deaf
             \/ deaf' = TRUE /\ UNCHANGED srv
          /\ UNCHANGED strayed
  /\ UNCHANGED <<ts, user, synTicks, eof>>

tcpAbort(program) ==
  /\ ts' = "CLOSED"
  /\ strayed' = (strayed \/ (ts # "CLOSED" /\ user # program))
  /\ UNCHANGED <<user, synTicks, deaf, eof, srv>>

\* tcpTick answers a FIN with ours, and counts for a connection request.
Ticked ==
  CASE ts = "CLOSE_WAIT" -> "LAST_ACK"
    [] ts = "SYN_SENT" /\ synTicks + 1 >= SYN_TICKS -> "CLOSED"
    [] OTHER -> ts

tcpTick ==
  /\ ts' = Ticked
  /\ synTicks' = IF ts' = "SYN_SENT" THEN synTicks + 1 ELSE synTicks
  /\ UNCHANGED <<user, deaf, eof, strayed, srv>>

\* A poll calls tcpTick when the tick count has moved since the last one.
TickIf(tick) == IF tick THEN tcpTick ELSE UNCHANGED link

-----------------------------------------------------------------------------
(* The interrupt.                                                          *)

Connected ==
  /\ ts = "SYN_SENT"
  /\ ts' = "ESTABLISHED"
  /\ UNCHANGED <<user, synTicks, deaf, eof, strayed, srv>>

FinArrives ==
  /\ ts = "ESTABLISHED"
  /\ ts' = "CLOSE_WAIT" /\ eof' = TRUE
  /\ UNCHANGED <<user, synTicks, deaf, strayed, srv>>

LastAckArrives ==
  /\ ts = "LAST_ACK"
  /\ ts' = "CLOSED"
  /\ UNCHANGED <<user, synTicks, deaf, eof, strayed, srv>>

ResetArrives ==
  /\ ts # "CLOSED"
  /\ ts' = "CLOSED"
  /\ UNCHANGED <<user, synTicks, deaf, eof, strayed, srv>>

LinkInterrupt == Connected \/ FinArrives \/ LastAckArrives \/ ResetArrives
=============================================================================

----------------------------- MODULE ByteStream -----------------------------
(***************************************************************************)
(* What a connection promises its reader: the bytes of this connection's   *)
(* peer in order, each once, and the end of the stream only when the peer  *)
(* has ended it and everything before has been read.                       *)
(***************************************************************************)
EXTENDS Integers, Sequences

CONSTANTS
  Conns,      \* connections, opened one after the other
  MAX_WRITE   \* bound: bytes a peer writes at a time

VARIABLES
  conn,      \* the connection that is open, or was last
  written,   \* bytes its peer has written, per connection
  ended,     \* connections whose peer has ended its stream
  got,       \* bytes handed to the reader: <<connection, position>>
  eof        \* the reader has been told that the stream ended

vars == <<conn, written, ended, got, eof>>

Init ==
  /\ conn = 0
  /\ written = [c \in Conns |-> 0]
  /\ ended = {}
  /\ got = << >>
  /\ eof = FALSE

Open ==
  /\ conn' \in Conns /\ conn' > conn
  /\ got' = << >> /\ eof' = FALSE
  /\ UNCHANGED <<written, ended>>

\* The peer writes some bytes and may end its stream behind them.
Write(c) ==
  /\ c \notin ended
  /\ \E n \in 0 .. MAX_WRITE : written' = [written EXCEPT ![c] = @ + n]
  /\ ended' \in {ended, ended \cup {c}}
  /\ UNCHANGED <<conn, got, eof>>

\* The next bytes, and possibly the end right behind them.
Read ==
  /\ ~ eof
  /\ \E n \in 0 .. written[conn] - Len(got) :
       got' = got \o [i \in 1 .. n |-> <<conn, Len(got) + i>>]
  /\ eof' \in BOOLEAN
  /\ eof' => conn \in ended /\ Len(got') = written[conn]
  /\ UNCHANGED <<conn, written, ended>>

Next == Open \/ Read \/ \E c \in Conns : Write(c)

Spec == Init /\ [][Next]_vars
=============================================================================

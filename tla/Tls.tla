-------------------------------- MODULE Tls ---------------------------------
(***************************************************************************)
(* Crypto/tls.c: the client's end of a TLS 1.2 connection as a value, and  *)
(* what the calls make of it.  Key material is left out: two sides have    *)
(* the same keys, and a Finished message fits, when they have seen the same*)
(* handshake messages, so a digest is the sequence of messages it is of.   *)
(* A sealed record opens when its number is the one that is expected.      *)
(*                                                                         *)
(* Bytes keep the borders they have: a record reaches tlsFeed in two       *)
(* halves, and a handshake message may be cut between two records.         *)
(***************************************************************************)
EXTENDS Integers, Sequences, SequencesExt

Message(kind, digest) == [kind |-> kind, digest |-> digest]
Plain(kind) == Message(kind, << >>)

\* tlsInit: what the fields say before the first byte.  out and data are what
\* one call hands to send and onData.
tlsInit ==
  [state |-> "idle", gotHello |-> FALSE, gotKeyExchange |-> FALSE,
   certRequested |-> FALSE, sentFinished |-> FALSE, encIn |-> FALSE,
   hash |-> << >>, rdSeq |-> 0, rec |-> << >>, hs |-> << >>,
   out |-> << >>, data |-> << >>]

Fail(t) == [t EXCEPT !.state = "failed"]

sendRecord(t, m) == [t EXCEPT !.out = Append(@, m)]

\* A handshake message enters the digest, too.
sendHandshake(t, m) == [sendRecord(t, m) EXCEPT !.hash = Append(@, m)]

tlsStart(t) == sendHandshake([t EXCEPT !.state = "handshake"], Plain("ClientHello"))

-----------------------------------------------------------------------------
(* Handshake messages.                                                     *)

handleServerHello(t) ==
  IF t.gotHello THEN Fail(t) ELSE [t EXCEPT !.gotHello = TRUE]

handleKeyExchange(t) ==
  IF ~ t.gotHello THEN Fail(t) ELSE [t EXCEPT !.gotKeyExchange = TRUE]

\* What is said when the server is done; then both sides have the keys.
SaysKeys(t) == sendRecord(sendHandshake(t, Plain("ClientKeyExchange")), Plain("ChangeCipherSpec"))
SaysFinished(t) ==
  [sendHandshake(t, Message("Finished", t.hash)) EXCEPT !.sentFinished = TRUE]

\* Mutant: the answer to a certificate request is forgotten.
handleHelloDone_NoCertificate(t) ==
  IF ~ t.gotHello \/ ~ t.gotKeyExchange THEN Fail(t) ELSE SaysFinished(SaysKeys(t))

handleHelloDone(t) ==
  IF ~ t.gotHello \/ ~ t.gotKeyExchange THEN Fail(t)
  ELSE LET asked == IF t.certRequested THEN sendHandshake(t, Plain("Certificate")) ELSE t
       IN  SaysFinished(SaysKeys(asked))

handleFinished(t, m) ==
  IF t.sentFinished /\ t.encIn /\ m.digest = t.hash
  THEN [t EXCEPT !.state = "ready"]
  ELSE Fail(t)

\* Messages of any other kind only enter the digest.
HandleMessage(t0, m) ==
  LET t == IF m.kind = "Finished" THEN t0 ELSE [t0 EXCEPT !.hash = Append(@, m)]
  IN  IF t0.state # "handshake" THEN t0 ELSE
      CASE m.kind = "ServerHello"        -> handleServerHello(t)
        [] m.kind = "ServerKeyExchange"  -> handleKeyExchange(t)
        [] m.kind = "CertificateRequest" -> [t EXCEPT !.certRequested = TRUE]
        [] m.kind = "ServerHelloDone"    -> handleHelloDone(t)
        [] m.kind = "Finished"           -> handleFinished(t, m)
        [] OTHER                         -> t

\* One message after the other.
Handled(t, msgs) ==
  LET after[n \in 0 .. Len(msgs)] ==
        IF n = 0 THEN t ELSE HandleMessage(after[n - 1], msgs[n])
  IN  after[Len(msgs)]

\* The halves that are there make up whole messages and at most one half more.
processHandshake(t) ==
  LET whole == [i \in 1 .. Len(t.hs) \div 2 |-> t.hs[2 * i][1]]
  IN  [Handled(t, whole) EXCEPT !.hs = SubSeq(t.hs, 2 * Len(whole) + 1, Len(t.hs))]

-----------------------------------------------------------------------------
(* Records.                                                                *)

Record(type, sealed, seq, body) ==
  [type |-> type, sealed |-> sealed, seq |-> seq, body |-> body]

\* gcmOpen
Opens(t, r) == r.sealed /\ r.seq = t.rdSeq

ProcessPlain(t, r) ==
  CASE r.type = "changeCipherSpec" ->
         IF t.encIn \/ ~ t.sentFinished THEN Fail(t) ELSE [t EXCEPT !.encIn = TRUE]
    [] r.type = "alert" ->
         IF r.body = "close" THEN [t EXCEPT !.state = "closed"]
         ELSE IF r.body = "fatal" THEN Fail(t) ELSE t
    [] r.type = "handshake" ->
         IF t.state # "handshake" THEN Fail(t)
         ELSE processHandshake([t EXCEPT !.hs = @ \o r.body])
    [] r.type = "data" ->
         IF t.state # "ready" THEN Fail(t) ELSE [t EXCEPT !.data = Append(@, r.body)]

processRecord(t, r) ==
  IF ~ t.encIn THEN ProcessPlain(t, r)
  ELSE IF Opens(t, r) THEN ProcessPlain([t EXCEPT !.rdSeq = @ + 1], r)
  ELSE Fail(t)

\* Bytes that do not continue the record that was begun are no record.
tlsFeed(t, half) ==
  IF t.state \in {"failed", "closed"} THEN t
  ELSE IF half[2] = 1 THEN
    IF t.rec = << >> THEN [t EXCEPT !.rec = << half[1] >>] ELSE Fail(t)
  ELSE
    IF t.rec = << half[1] >>
    THEN processRecord([t EXCEPT !.rec = << >>], half[1])
    ELSE Fail(t)

\* tlsWrite: nothing is sent before the handshake is over.
tlsWrite(t, request) ==
  IF t.state = "ready" THEN [t EXCEPT !.out = Append(@, Plain(request))] ELSE t

\* The call is over: what it handed over is gone.
Returned(t) == [t EXCEPT !.out = << >>, !.data = << >>]

-----------------------------------------------------------------------------
(* The server (external): what it sends, record by record.                 *)

Halves(recs) == [i \in 1 .. 2 * Len(recs) |-> <<recs[(i + 1) \div 2], 2 - (i % 2)>>]

\* Handshake messages in records that hold `cut` half messages each.
Packed(msgs, cut) ==
  LET hs == Halves(msgs)
      n  == (Len(hs) + cut - 1) \div cut
      to(i) == IF i * cut < Len(hs) THEN i * cut ELSE Len(hs)
  IN  [i \in 1 .. n |-> Record("handshake", FALSE, 0, SubSeq(hs, (i - 1) * cut + 1, to(i)))]

\* The handshake messages of what we have sent.
Handshakes(msgs) ==
  LET some[n \in 0 .. Len(msgs)] ==
        IF n = 0 THEN << >>
        ELSE IF msgs[n].kind \in {"ChangeCipherSpec", "GET"} THEN some[n - 1]
        ELSE Append(some[n - 1], msgs[n])
  IN  some[Len(msgs)]

ServerMessages(cert) ==
  << Plain("ServerHello"), Plain("Certificate"), Plain("ServerKeyExchange") >>
    \o (IF cert THEN << Plain("CertificateRequest") >> ELSE << >>)
    \o << Plain("ServerHelloDone") >>

ServerFinishes(digest) ==
  << Record("changeCipherSpec", FALSE, 0, << >>),
     Record("handshake", TRUE, 0, Halves(<< Message("Finished", digest) >>)) >>

ServerData(body) ==
  [i \in 1 .. Len(body) |-> Record("data", TRUE, i, body[i])]
    \o << Record("alert", TRUE, Len(body) + 1, "close") >>
=============================================================================

------------------------------- MODULE Online -------------------------------
(***************************************************************************)
(* desktopUpdate drives the browser and the mail program in turns, over    *)
(* one connection.                                                         *)
(***************************************************************************)
EXTENDS Browser, Mail

vars == <<link, loop, person, browser, mail>>

Init == LinkInit /\ BrowserInit /\ MailInit

Next ==
  /\ \/ BrowserNext /\ UNCHANGED mail
     \/ MailNext /\ UNCHANGED browser
     \/ LinkInterrupt /\ UNCHANGED <<loop, browser, mail>>
  /\ UNCHANGED person

Spec == Init /\ [][Next]_vars /\ BrowserFairness /\ MailFairness

-----------------------------------------------------------------------------
\* The connection is open only while the program that opened it is using it.
\* Otherwise every later tcpConnect would fail until the machine is restarted:
\* nobody but the two programs closes it.
NoLeakedConnection ==
  ts # "CLOSED" =>
    \/ user = "browser" /\ state \in {"connecting", "loading"}
    \/ user = "mail" /\ OnLine

\* mail.c:766 asks not to send mail while the browser loads a page.  As long as
\* that is followed, neither program sends on or aborts the other one's
\* connection, whatever is reset, closed, cancelled or timed out.
OneAtATimeIsSafe == [][~ strayed /\ strayed' => Busy /\ smBusy]_vars

\* A page that is shown is the answer to the address in the bar (its links are
\* resolved against that), with nothing that was received left in the ring; and
\* it is whole when the server wrote it all before it closed.
PageIsWhole ==
  (state = "done" /\ user = "browser") =>
    /\ ring = << >>
    /\ page.url = url /\ srv.asked = url
    /\ (eof /\ srv.phase = "reply" /\ srv.left = << >>) =>
         page.body = Capped([i \in 1 .. srv.pieces |-> <<srv.reply, i>>])

\* However a server cuts its messages into records, and whether or not it asks
\* for a certificate, both sides agree on the handshake, and the browser gives a
\* connection up only when the server did, or when the ring ran over.
TlsAgrees ==
  (user = "browser" /\ srv.job = "https") =>
    /\ tls.state = "ready" => tls.hash = srv.digest
    /\ tls.state = "failed" => srv.refused \/ overflow

\* The Sent folder lists only messages that a server has taken, and no server has
\* taken anything but a message as it was when Send was pressed.
SentIsAccepted == Range(sent) \subseteq accepted /\ accepted \subseteq pressed

\* A load and a dialogue come to an end whatever the server, the network and the
\* user do, with two exceptions: a host whose address reads as zero is resolved
\* for good, and a connection that the server closes before the poll has seen it
\* open is waited for until the server acknowledges our FIN, which is never sent
\* again.
EverythingEnds ==
  /\ Busy ~> \/ ~ Busy
             \/ state = "resolving" /\ url.host = "zero"
             \/ state = "connecting" /\ ts = "LAST_ACK"
  /\ smBusy ~> ~ smBusy \/ (sm = "connecting" /\ ts = "LAST_ACK")
=============================================================================

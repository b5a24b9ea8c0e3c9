------------------------------ MODULE Browser -------------------------------
(***************************************************************************)
(* Desktop/browser.c: loading a page.  browserPoll runs in the main loop;  *)
(* onTcpData in the network card's interrupt, which may come between the   *)
(* steps that pc separates.  Over TLS it fills a ring that browserPoll     *)
(* empties; otherwise it writes the response itself.                       *)
(*                                                                         *)
(* Time is counted in ticks the polls see.  A host name stands for host    *)
(* and port; a path is the sequence of its parts, the last one the file.   *)
(* A response comes in pieces, the first HEADER of them its header.  How a *)
(* page is laid out is left out: a page is what it was made of.            *)
(***************************************************************************)
EXTENDS Link, Tls

CONSTANTS
  Layouts,        \* how a TLS server cuts its handshake into records
  HEADER,         \* pieces of a response header
  RESP_MAX,       \* pieces that fit into resp (respMax)
  RING,           \* halves of records that fit into tlsIn (tlsRingSize - 1)
  TIMEOUT,        \* timeoutTicks
  DNS_TICKS,      \* dnsRetryTicks
  DNS_TRIES,      \* dnsMaxTries
  MAX_REDIRECTS   \* redirects that are followed (5)

ASSUME BrowserAssumption ==
  /\ {HEADER, RING, TIMEOUT, DNS_TICKS, DNS_TRIES} \subseteq Nat \ {0}
  /\ Layouts \subseteq Nat \ {0}
  /\ MAX_REDIRECTS \in Nat /\ RESP_MAX \in Nat /\ HEADER <= RESP_MAX

VARIABLES
  state,       \* brIdle, brResolving, ...
  url,         \* useTls, host, path: the address that was parsed last
  resp,        \* the response so far
  ring,        \* tlsIn, from tlsTail to tlsHead
  overflow,    \* tlsOverflow
  tls,         \* conn
  requestSent, \* tlsRequestSent
  redirects, dnsTries,
  dnsWait,     \* ticks since dnsSent
  quiet,       \* ticks since lastActivity
  page,        \* what is shown, or NoPage
  resolved,    \* names that dns.c has an address for
  opens        \* pages the user has asked for

fetch == <<resp, ring, overflow, tls, requestSent>>
counters == <<redirects, dnsTries, dnsWait, quiet>>
browser == <<state, url, fetch, counters, page, resolved, opens>>

NoUrl == [tls |-> FALSE, host |-> "none", path |-> << >>]
NoPage == [url |-> NoUrl, body |-> << >>]

BrowserInit ==
  /\ state = "idle" /\ url = NoUrl
  /\ resp = << >> /\ ring = << >> /\ overflow = FALSE
  /\ tls = tlsInit /\ requestSent = FALSE
  /\ redirects = 0 /\ dnsTries = 0 /\ dnsWait = 0 /\ quiet = 0
  /\ page = NoPage /\ resolved = {} /\ opens = 0

Busy == state \in {"resolving", "connecting", "loading"}

-----------------------------------------------------------------------------
(* Addresses.                                                              *)

\* resolveLink: an address relative to the base, or NoUrl.
resolveLink(base, href) ==
  CASE href.kind = "absolute" -> href.url
    [] href.kind = "host"     -> [href.url EXCEPT !.tls = base.tls]
    [] href.kind = "root"     -> [base EXCEPT !.path = href.path]
    [] href.kind = "relative" -> [base EXCEPT !.path = Front(@) \o href.path]
    [] OTHER                  -> NoUrl   \* "", "#...", "mailto:..."

\* splitIP reads the address of some hosts as zero.
Numeric(h) == h \in {"address", "zero"}

-----------------------------------------------------------------------------
(* The main loop.                                                          *)

Forget ==
  /\ resp' = << >> /\ ring' = << >> /\ overflow' = FALSE
  /\ tls' = tlsInit /\ requestSent' = FALSE

\* startLoad; conn keeps its old value until tlsInit, which is never read.
\* Mutant: the response of the last load is kept.
startLoad_Stale(u) ==
  /\ url' = u
  /\ state' = IF u.host = "none" THEN "error" ELSE "resolving"
  /\ ring' = << >> /\ overflow' = FALSE /\ tls' = tlsInit /\ requestSent' = FALSE
  /\ dnsTries' = 0 /\ dnsWait' = 0 /\ quiet' = 0
  /\ UNCHANGED resp

startLoad(u) ==
  /\ url' = u
  /\ IF u.host = "none"
     THEN state' = "error" /\ UNCHANGED <<fetch, dnsTries, dnsWait, quiet>>
     ELSE /\ state' = "resolving"
          /\ Forget
          /\ dnsTries' = 0 /\ dnsWait' = 0 /\ quiet' = 0

\* browserOpen: by the enter key, or by a click on a link.
browserOpen(u) ==
  /\ pc = "idle" /\ ~ Busy
  /\ opens < person.opens /\ opens' = opens + 1
  /\ redirects' = 0
  /\ startLoad(u)
  /\ UNCHANGED <<link, loop, page, resolved>>

browserClick ==
  /\ page # NoPage
  /\ \E h \in person.hrefs :
       /\ resolveLink(url, h) # NoUrl
       /\ browserOpen(resolveLink(url, h))

\* Mutant: the key always aborts.
browserKeyEsc_Always ==
  /\ pc = "idle"
  /\ tcpAbort("browser")
  /\ state' = IF Busy THEN "error" ELSE state
  /\ UNCHANGED <<loop, url, fetch, counters, page, resolved, opens>>

browserKeyEsc ==
  /\ pc = "idle" /\ Busy
  /\ tcpAbort("browser")
  /\ state' = "error"
  /\ UNCHANGED <<loop, url, fetch, counters, page, resolved, opens>>

\* The servers a host may be (external): what they write, and in how many pieces.
Servers ==
  {IF url.tls
   THEN [job |-> "https", asked |-> url, phase |-> "hello", left |-> << >>, cut |-> cut,
         cert |-> cert, digest |-> << >>, refused |-> FALSE,
         reply |-> r.what, pieces |-> r.pieces]
   ELSE [job |-> "http", asked |-> url, phase |-> "hello", left |-> << >>,
         reply |-> r.what, pieces |-> r.pieces] :
   r \in person.replies, cut \in Layouts, cert \in BOOLEAN}

\* browserPoll in brResolving: resolveHost and tcpConnect.
PollConnects ==
  /\ pc = "idle" /\ state = "resolving"
  /\ url.host = "address" \/ url.host \in resolved
  /\ IF ts = "CLOSED"
     THEN /\ \E s \in Servers : tcpConnect("browser", s)
          /\ state' = "connecting" /\ quiet' = 0
     ELSE state' = "error" /\ UNCHANGED <<link, quiet>>
  /\ UNCHANGED <<loop, url, fetch, redirects, dnsTries, dnsWait, page, resolved, opens>>

\* ... or a query, or a wait for its answer.  An address that reads as zero is
\* waited for without an end.
PollResolves(tick) ==
  LET waited == IF tick /\ dnsWait < DNS_TICKS THEN dnsWait + 1 ELSE dnsWait
      due == dnsTries = 0 \/ waited >= DNS_TICKS
  IN  /\ pc = "idle" /\ state = "resolving"
      /\ url.host # "address" /\ url.host \notin resolved
      /\ CASE url.host = "zero" -> UNCHANGED <<state, dnsTries, dnsWait>>
           [] url.host # "zero" /\ ~ due -> dnsWait' = waited /\ UNCHANGED <<state, dnsTries>>
           [] url.host # "zero" /\ due /\ dnsTries < DNS_TRIES ->
                dnsTries' = dnsTries + 1 /\ dnsWait' = 0 /\ UNCHANGED state
           [] OTHER -> state' = "error" /\ UNCHANGED <<dnsTries, dnsWait>>
      /\ UNCHANGED <<link, loop, url, fetch, redirects, quiet, page, resolved, opens>>

\* What the server is when it has heard our handshake messages, or the request.
Hears(msgs) ==
  LET said == Handshakes(msgs)
      all  == srv.digest \o said
      ours == Last(msgs)
      body == [i \in 1 .. srv.pieces |-> <<srv.reply, i>>]
  IN  CASE srv.phase = "hello" ->
             [srv EXCEPT !.phase = "keys",
                         !.digest = all \o ServerMessages(srv.cert),
                         !.left = @ \o Halves(Packed(ServerMessages(srv.cert), srv.cut))]
        [] srv.phase = "keys" ->
             IF /\ ours.digest = Front(all)
                /\ srv.cert => Plain("Certificate") \in Range(said)
             THEN [srv EXCEPT !.phase = "request", !.digest = all,
                              !.left = @ \o Halves(ServerFinishes(all))]
             ELSE [srv EXCEPT !.phase = "over",
                              !.left = @ \o Halves(<< Record("alert", FALSE, 0, "fatal") >>)]
        [] srv.phase = "request" ->
             [srv EXCEPT !.phase = "reply", !.left = @ \o Halves(ServerData(body))]
        [] OTHER -> srv

\* An http server just answers.
HearsPlain ==
  [srv EXCEPT !.phase = "reply", !.left = [i \in 1 .. srv.pieces |-> <<srv.reply, i>>]]

sendRequest ==
  IF url.tls
  THEN LET t == tlsWrite(tls, "GET")
       IN  tls' = Returned(t) /\ tcpSend("browser", {Hears(t.out)})
  ELSE UNCHANGED tls /\ tcpSend("browser", {HearsPlain})

\* brConnecting, when the connection is there ...
PollStarts ==
  /\ pc = "idle" /\ state = "connecting" /\ ts = "ESTABLISHED"
  /\ IF url.tls
     THEN LET t == tlsStart(tlsInit)
          IN  tls' = Returned(t) /\ tcpSend("browser", {Hears(t.out)})
     ELSE sendRequest
  /\ state' = "loading" /\ quiet' = 0
  /\ UNCHANGED <<loop, url, resp, ring, overflow, requestSent, redirects, dnsTries,
                 dnsWait, page, resolved, opens>>

\* ... or not.
PollWaits(tick) ==
  /\ pc = "idle" /\ state = "connecting" /\ ts # "ESTABLISHED"
  /\ TickIf(tick)
  /\ state' = IF ts' = "CLOSED" THEN "error" ELSE state
  /\ UNCHANGED <<loop, url, fetch, counters, page, resolved, opens>>

\* brLoading.
PollLoads(tick) ==
  /\ pc = "idle" /\ state = "loading"
  /\ TickIf(tick)
  /\ pc' = (IF url.tls THEN "browser pumps" ELSE "browser decides")
  /\ seen' = ts'
  /\ quiet' = IF tick /\ quiet <= TIMEOUT THEN quiet + 1 ELSE quiet
  /\ UNCHANGED <<state, url, fetch, redirects, dnsTries, dnsWait, page, resolved, opens>>

Capped(s) == SubSeq(s, 1, IF Len(s) < RESP_MAX THEN Len(s) ELSE RESP_MAX)

\* pumpTls: tlsFeed gets what the ring holds, while more may come in ...
PumpFeeds ==
  LET t == tlsFeed(tls, Head(ring))
  IN  /\ pc = "browser pumps" /\ ring # << >> /\ tls.state # "failed"
      /\ ring' = Tail(ring)
      /\ tls' = Returned(t)
      /\ resp' = Capped(resp \o t.data)
      /\ quiet' = IF t.data = << >> THEN quiet ELSE 0
      /\ IF t.out = << >> THEN UNCHANGED link ELSE tcpSend("browser", {Hears(t.out)})
      /\ UNCHANGED <<loop, state, url, overflow, requestSent, redirects, dnsTries,
                     dnsWait, page, resolved, opens>>

\* ... and then the request goes out, or the load has failed.
PumpEnds ==
  /\ pc = "browser pumps" /\ (ring = << >> \/ tls.state = "failed")
  /\ IF overflow \/ tls.state = "failed"
     THEN /\ tcpAbort("browser")
          /\ state' = "error" /\ pc' = "idle"
          /\ UNCHANGED <<tls, requestSent, quiet>>
     ELSE /\ pc' = "browser decides"
          /\ UNCHANGED state
          /\ IF tls.state = "ready" /\ ~ requestSent
             THEN requestSent' = TRUE /\ quiet' = 0 /\ sendRequest
             ELSE UNCHANGED <<link, tls, requestSent, quiet>>
  /\ seen' = IF pc' = "idle" THEN "CLOSED" ELSE seen
  /\ UNCHANGED <<url, resp, ring, overflow, redirects, dnsTries, dnsWait, page,
                 resolved, opens>>

\* What finish makes of the response.
Reply == IF resp = << >> THEN "junk" ELSE resp[1][1]
Headed == Len(resp) >= HEADER

finish ==
  \/ /\ Reply = "junk" \/ ~ Headed \/ Reply = "picture"
     /\ state' = "error"
     /\ UNCHANGED <<url, fetch, counters, page>>
  \/ /\ Reply = "redirect" /\ Headed
     /\ \E h \in person.hrefs :
          IF redirects < MAX_REDIRECTS /\ resolveLink(url, h) # NoUrl
          THEN /\ redirects' = redirects + 1
               /\ startLoad(resolveLink(url, h))
          ELSE /\ state' = "error"
               /\ UNCHANGED <<url, fetch, counters>>
     /\ UNCHANGED page
  \/ /\ Reply = "page" /\ Headed
     /\ page' = [url |-> url, body |-> resp]
     /\ state' = "done"
     /\ UNCHANGED <<url, fetch, counters>>

failLoad == state' = "error" /\ UNCHANGED <<url, fetch, counters, page>>

\* Mutant: a server that has not answered at all is waited for.
GivesUp_OnlyWithData == quiet > TIMEOUT /\ resp # << >>

GivesUp == quiet > TIMEOUT

PollDecides ==
  /\ pc = "browser decides" /\ pc' = "idle" /\ seen' = "CLOSED"
  /\ CASE seen = "CLOSED" ->
            /\ UNCHANGED link
            /\ IF url.tls /\ resp = << >> THEN failLoad ELSE finish
       [] seen # "CLOSED" /\ GivesUp ->
            /\ tcpAbort("browser")
            /\ IF resp = << >> THEN failLoad ELSE finish
       [] OTHER -> UNCHANGED <<link, state, url, fetch, counters, page>>
  /\ UNCHANGED <<resolved, opens>>

-----------------------------------------------------------------------------
(* The interrupt.                                                          *)

\* onTcpData.  Mutant: the ring is not looked at when it is full.
onTcpData_Overwrites(piece) ==
  IF ~ url.tls
  THEN resp' = Capped(Append(resp, piece)) /\ quiet' = 0 /\ UNCHANGED <<ring, overflow>>
  ELSE /\ ring' = IF Len(ring) < RING THEN Append(ring, piece) ELSE << >>
       /\ quiet' = 0 /\ UNCHANGED <<resp, overflow>>

onTcpData(piece) ==
  IF ~ url.tls
  THEN resp' = Capped(Append(resp, piece)) /\ quiet' = 0 /\ UNCHANGED <<ring, overflow>>
  ELSE IF Len(ring) < RING
       THEN ring' = Append(ring, piece) /\ quiet' = 0 /\ UNCHANGED <<resp, overflow>>
       ELSE overflow' = TRUE /\ UNCHANGED <<resp, ring, quiet>>

BrowserReceives ==
  /\ user = "browser" /\ ts = "ESTABLISHED" /\ srv.left # << >>
  /\ onTcpData(Head(srv.left))
  /\ srv' = [srv EXCEPT !.left = Tail(@)]
  /\ UNCHANGED <<ts, user, synTicks, deaf, eof, strayed, loop, state, url, tls,
                 requestSent, redirects, dnsTries, dnsWait, page, resolved, opens>>

\* dnsReceive: the answer to a query of this load or an earlier one.
DnsAnswers ==
  /\ url.host = "name" /\ dnsTries > 0
  /\ resolved' = resolved \cup {url.host}
  /\ UNCHANGED <<link, loop, state, url, fetch, counters, page, opens>>

\* A TLS server may turn us down before its Finished (external).
ServerRefuses ==
  /\ srv.job = "https" /\ srv.phase = "keys" /\ ts = "ESTABLISHED"
  /\ srv' = [srv EXCEPT !.phase = "over", !.refused = TRUE,
                        !.left = @ \o Halves(<< Record("alert", FALSE, 0, "fatal") >>)]
  /\ UNCHANGED <<ts, user, synTicks, deaf, eof, strayed, loop, browser>>

BrowserUser == (\E u \in person.urls : browserOpen(u)) \/ browserClick \/ browserKeyEsc

browserPoll(tick) ==
  PollConnects \/ PollResolves(tick) \/ PollStarts \/ PollWaits(tick) \/ PollLoads(tick)

BrowserSteps == PumpFeeds \/ PumpEnds \/ PollDecides

BrowserNext ==
  \/ BrowserUser
  \/ \E tick \in BOOLEAN : browserPoll(tick)
  \/ BrowserSteps
  \/ BrowserReceives \/ DnsAnswers \/ ServerRefuses

\* Both polls run on every round of the main loop, and ticks keep coming.
BrowserFairness ==
  /\ SF_<<link, loop, browser>>(browserPoll(TRUE))
  /\ WF_<<link, loop, browser>>(BrowserSteps)
=============================================================================

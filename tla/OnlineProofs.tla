---------------------------- MODULE OnlineProofs ----------------------------
(***************************************************************************)
(* For every user, every server and all sizes and limits: the browser and  *)
(* the mail program never leave the connection open behind them, and they  *)
(* touch each other's only when both are at work.                          *)
(***************************************************************************)
EXTENDS Online, SequenceTheorems, WellFoundedInduction, TLAPS

TcpStates == {"CLOSED", "SYN_SENT", "ESTABLISHED", "CLOSE_WAIT", "LAST_ACK"}
Loading == {"browser pumps", "browser decides"}
Talking == {"mail reads", "mail flushes"}
Dialogues == {"greeting", "ehlo", "auth", "authUser", "authPass", "from", "rcpt",
              "data", "body"}

\* What the steps below leave as they are.
Typed ==
  /\ ts \in TcpStates
  /\ user \in {"none", "browser", "mail"}
  /\ pc \in {"idle"} \cup Loading \cup Talking
  /\ state \in {"idle", "resolving", "connecting", "loading", "done", "error"}
  /\ sm \in {"idle", "resolving", "connecting", "quit", "done", "error"} \cup Dialogues

\* Inside a poll: the program is still where the poll found it, but for a reply
\* that has ended the dialogue; and a connection that the poll has seen closed
\* is not opened again behind its back.
Polled ==
  /\ pc \in Loading => state = "loading"
  /\ pc = "mail reads" => sm \notin {"idle", "resolving", "connecting"}
  /\ pc = "mail flushes" => sm \in Dialogues \cup {"quit"}
  /\ (pc # "idle" /\ seen = "CLOSED") => ts = "CLOSED"

IInv == Typed /\ Polled /\ NoLeakedConnection

-----------------------------------------------------------------------------
\* At the start the connection is closed and both programs are idle.
LEMMA InitInv == Init => IInv
  BY DEF Init, LinkInit, BrowserInit, MailInit, IInv, Typed, Polled, NoLeakedConnection,
         TcpStates, Loading, Talking

\* A step that keeps the invariant and does not let a program touch the other
\* one's connection while only one of the two is at work.
Fine == IInv' /\ (~ strayed /\ strayed' => Busy /\ smBusy)

\* What the calls of the connection change.
LEMMA SendIsFine ==
  ASSUME NEW p, NEW heard, tcpSend(p, heard)
  PROVE  /\ ts' = ts /\ user' = user
         /\ ~ strayed /\ strayed' => ts = "ESTABLISHED" /\ user # p
  BY DEF tcpSend

\* tcpAbort closes it, whoever calls.
LEMMA AbortIsFine ==
  ASSUME NEW p, tcpAbort(p)
  PROVE  /\ ts' = "CLOSED" /\ user' = user
         /\ ~ strayed /\ strayed' => ts # "CLOSED" /\ user # p
  BY DEF tcpAbort

\* tcpTick opens nothing.
LEMMA TickIsFine ==
  ASSUME IInv, NEW tick \in BOOLEAN, TickIf(tick)
  PROVE  /\ ts' \in TcpStates /\ user' = user /\ strayed' = strayed
         /\ ts = "CLOSED" => ts' = "CLOSED"
  BY DEF TickIf, tcpTick, Ticked, link, IInv, Typed, TcpStates

-----------------------------------------------------------------------------
(* The browser.                                                            *)

\* One case for each step of the browser.
LEMMA BrowserIsFine ==
  ASSUME IInv, BrowserNext, UNCHANGED mail
  PROVE  Fine
  <1> USE DEF Fine, IInv, Typed, Polled, NoLeakedConnection, TcpStates, Loading, Talking,
              Dialogues, Busy, smBusy, OnLine
  <1>0. sm' = sm
    BY DEF mail
  <1>1. CASE \E u \in person.urls : browserOpen(u)
    BY <1>0, <1>1 DEF browserOpen, startLoad, link, loop
  <1>2. CASE browserClick
    BY <1>0, <1>2 DEF browserClick, browserOpen, startLoad, link, loop
  <1>3. CASE browserKeyEsc
    BY <1>0, <1>3, AbortIsFine DEF browserKeyEsc, loop
  <1>4. CASE PollConnects
    BY <1>0, <1>4 DEF PollConnects, tcpConnect, link, loop
  <1>5. CASE \E tick \in BOOLEAN : PollResolves(tick)
    BY <1>0, <1>5 DEF PollResolves, link, loop
  <1>6. CASE PollStarts
    <2>1. ts' = ts /\ user' = user /\ (~ strayed /\ strayed' => user # "browser")
      BY <1>6, SendIsFine DEF PollStarts, sendRequest
    <2> QED
      BY <1>0, <1>6, <2>1 DEF PollStarts, loop
  <1>7. CASE \E tick \in BOOLEAN : PollWaits(tick)
    BY <1>0, <1>7, TickIsFine DEF PollWaits, loop
  <1>8. CASE \E tick \in BOOLEAN : PollLoads(tick)
    BY <1>0, <1>8, TickIsFine DEF PollLoads
  <1>9. CASE PumpFeeds
    <2>1. ts' = ts /\ user' = user
          /\ (~ strayed /\ strayed' => ts = "ESTABLISHED" /\ user # "browser")
      BY <1>9, SendIsFine DEF PumpFeeds, link
    <2> QED
      BY <1>0, <1>9, <2>1 DEF PumpFeeds, loop
  <1>10. CASE PumpEnds
    <2>1. CASE overflow \/ tls.state = "failed"
      BY <1>0, <1>10, <2>1, AbortIsFine DEF PumpEnds
    <2>2. CASE ~ (overflow \/ tls.state = "failed")
      <3>1. ts' = ts /\ user' = user
            /\ (~ strayed /\ strayed' => ts = "ESTABLISHED" /\ user # "browser")
        BY <1>10, <2>2, SendIsFine DEF PumpEnds, sendRequest, link
      <3> QED
        BY <1>0, <1>10, <2>2, <3>1 DEF PumpEnds
    <2> QED
      BY <2>1, <2>2
  <1>11. CASE PollDecides
    <2>1. finish \/ failLoad =>
            state' \in {"idle", "resolving", "connecting", "loading", "done", "error"}
      BY DEF finish, failLoad, startLoad
    <2>2. CASE seen = "CLOSED"
      BY <1>0, <1>11, <2>1, <2>2 DEF PollDecides, link
    <2>3. CASE seen # "CLOSED" /\ GivesUp
      BY <1>0, <1>11, <2>1, <2>3, AbortIsFine DEF PollDecides
    <2>4. CASE seen # "CLOSED" /\ ~ GivesUp
      BY <1>0, <1>11, <2>4 DEF PollDecides, link
    <2> QED
      BY <2>2, <2>3, <2>4
  <1>12. CASE BrowserReceives
    BY <1>0, <1>12 DEF BrowserReceives, loop
  <1>13. CASE DnsAnswers
    <2>1. /\ ts' = ts /\ user' = user /\ strayed' = strayed /\ pc' = pc /\ seen' = seen
          /\ state' = state
      BY <1>13 DEF DnsAnswers, link, loop
    <2>2. ~ (~ strayed /\ strayed')
      BY <2>1
    <2>3. NoLeakedConnection'
      BY <1>0, <2>1
    <2>4. Polled'
      BY <1>0, <2>1
    <2>5. Typed'
      BY <1>0, <2>1
    <2> QED
      BY <2>2, <2>3, <2>4, <2>5
  <1>14. CASE ServerRefuses
    BY <1>0, <1>14 DEF ServerRefuses, loop, browser
  <1> QED
    BY <1>1, <1>2, <1>3, <1>4, <1>5, <1>6, <1>7, <1>8, <1>9, <1>10, <1>11, <1>12, <1>13,
       <1>14 DEF BrowserNext, BrowserUser, browserPoll, BrowserSteps

-----------------------------------------------------------------------------
(* The mail program.                                                       *)

\* The dialogue goes on until QUIT is said.
LEMMA DialogueGoesOn ==
  ASSUME NEW at \in Dialogues
  PROVE  Dialogue[at].next \in Dialogues \cup {"quit"}
  BY DEF Dialogue, Dialogues, Turn

\* smtpFail closes the connection if it was asked for.
LEMMA FailIsFine ==
  ASSUME IInv, smBusy, smtpFail
  PROVE  /\ sm' = "error" /\ user' = user
         /\ ts' = "CLOSED" \/ (sm = "resolving" /\ ts' = ts)
         /\ ~ strayed /\ strayed' => sm # "resolving" /\ ts # "CLOSED" /\ user # "mail"
  BY AbortIsFine DEF smtpFail, link

\* One case for each step of the mail program.
LEMMA MailIsFine ==
  ASSUME IInv, MailNext, UNCHANGED browser
  PROVE  Fine
  <1> USE DEF Fine, IInv, Typed, Polled, NoLeakedConnection, TcpStates, Loading, Talking,
              Dialogues, Busy, smBusy, OnLine
  <1>0. state' = state
    BY DEF browser
  <1>1. CASE mailKey
    BY <1>0, <1>1 DEF mailKey, link, loop
  <1>2. CASE startSend
    BY <1>0, <1>2 DEF startSend, link, loop
  <1>3. CASE cancelSend
    <2>1. CASE OnLine
      BY <1>0, <1>3, <2>1, AbortIsFine DEF cancelSend, loop
    <2>2. CASE ~ OnLine
      BY <1>0, <1>3, <2>2 DEF cancelSend, link, loop
    <2> QED
      BY <2>1, <2>2
  <1>4. CASE SmConnects
    <2>1. CASE ts = "CLOSED"
      BY <1>0, <1>4, <2>1 DEF SmConnects, tcpConnect, loop
    <2>2. CASE ts # "CLOSED"
      BY <1>0, <1>4, <2>2, FailIsFine DEF SmConnects, loop
    <2> QED
      BY <2>1, <2>2
  <1>5. CASE \E tick \in BOOLEAN : SmWaits(tick)
    BY <1>0, <1>5, TickIsFine DEF SmWaits, loop
  <1>6. CASE \E tick \in BOOLEAN : SmReads(tick)
    BY <1>0, <1>6, TickIsFine DEF SmReads
  <1>7. CASE ParseLine
    <2>1. CASE Head(rx)[2]
      <3> DEFINE code == Head(rx)[1]
      <3>1. handleReply(code) /\ pc' = pc /\ seen' = seen /\ sm \in Dialogues \cup {"quit"}
        BY <1>7, <2>1 DEF ParseLine, loop
      <3>2. CASE sm = "quit"
        BY <1>0, <1>7, <3>1, <3>2, AbortIsFine DEF handleReply, ParseLine
      <3>3. CASE sm # "quit" /\ code \notin Dialogue[sm].wants
        BY <1>0, <1>7, <3>1, <3>3, FailIsFine DEF handleReply, ParseLine
      <3>4. CASE sm # "quit" /\ code \in Dialogue[sm].wants
        <4>1. sm' \in Dialogues \cup {"quit"} /\ UNCHANGED link
          BY <3>1, <3>4, DialogueGoesOn DEF handleReply
        <4> QED
          BY <1>0, <1>7, <3>1, <3>4, <4>1 DEF ParseLine, link
      <3> QED
        BY <3>2, <3>3, <3>4
    <2>2. CASE ~ Head(rx)[2]
      BY <1>0, <1>7, <2>2 DEF ParseLine, link, loop
    <2> QED
      BY <2>1, <2>2
  <1>8. CASE ParseEnds
    <2>1. CASE smBusy /\ rxOverflow
      BY <1>0, <1>8, <2>1, FailIsFine DEF ParseEnds
    <2>2. CASE ~ (smBusy /\ rxOverflow)
      BY <1>0, <1>8, <2>2 DEF ParseEnds, link
    <2> QED
      BY <2>1, <2>2
  <1>9. CASE Flush
    <2> DEFINE sending == out # << >> /\ seen # "CLOSED"
               late == ~ sending /\ smQuiet > SMTP_TIMEOUT
    <2>1. CASE sending
      BY <1>0, <1>9, <2>1, SendIsFine DEF Flush
    <2>2. CASE ~ sending /\ seen # "CLOSED" /\ ~ late
      BY <1>0, <1>9, <2>2 DEF Flush, link
    <2>3. CASE ~ sending /\ seen = "CLOSED" /\ sm = "quit"
      BY <1>0, <1>9, <2>3 DEF Flush, link
    <2>4. CASE ~ sending /\ seen # "CLOSED" /\ late /\ sm = "quit"
      BY <1>0, <1>9, <2>4, AbortIsFine DEF Flush
    <2>5. CASE ~ sending /\ sm # "quit" /\ (seen = "CLOSED" \/ late)
      BY <1>0, <1>9, <2>5, FailIsFine DEF Flush
    <2> QED
      BY <2>1, <2>2, <2>3, <2>4, <2>5
  <1>10. CASE MailReceives
    BY <1>0, <1>10 DEF MailReceives, loop
  <1> QED
    BY <1>1, <1>2, <1>3, <1>4, <1>5, <1>6, <1>7, <1>8, <1>9, <1>10
       DEF MailNext, MailUser, mailPoll, MailSteps

-----------------------------------------------------------------------------
(* The interrupt, and the result.                                          *)

\* Segments from the server move the state, but open nothing that was closed.
LEMMA InterruptIsFine ==
  ASSUME IInv, LinkInterrupt, UNCHANGED <<loop, browser, mail>>
  PROVE  Fine
  <1>1. /\ user' = user /\ strayed' = strayed
        /\ ts' \in TcpStates
        /\ ts = "CLOSED" => ts' = "CLOSED"
    BY DEF LinkInterrupt, Connected, FinArrives, LastAckArrives, ResetArrives, TcpStates
  <1>2. pc' = pc /\ seen' = seen /\ state' = state /\ sm' = sm
    BY DEF loop, browser, mail
  <1>3. NoLeakedConnection' /\ Polled' /\ Typed'
    BY <1>1, <1>2 DEF IInv, Typed, Polled, NoLeakedConnection, OnLine, smBusy
  <1> QED
    BY <1>1, <1>3 DEF Fine, IInv

\* Hence every step of the system is fine.
LEMMA StepIsFine == IInv /\ [Next]_vars => Fine
  <1> SUFFICES ASSUME IInv, [Next]_vars PROVE Fine
    OBVIOUS
  <1>1. CASE UNCHANGED vars
    <2>1. /\ ts' = ts /\ user' = user /\ (strayed' <=> strayed) /\ pc' = pc /\ seen' = seen
          /\ state' = state /\ sm' = sm
      BY <1>1 DEF vars, link, loop, browser, mail
    <2> QED
      BY <2>1 DEF Fine, IInv, Typed, Polled, NoLeakedConnection, OnLine, smBusy
  <1> QED
    BY <1>1, BrowserIsFine, MailIsFine, InterruptIsFine DEF Next

\* The invariant, for all constants.
THEOREM Invariance == Spec => []IInv
  <1>1. IInv /\ [Next]_vars => IInv'
    BY StepIsFine DEF Fine
  <1> QED
    BY <1>1, InitInv, PTL DEF Spec

\* Neither program leaves the connection open behind it: whatever is reset, lost,
\* closed, cancelled or timed out, and at any limits.
THEOREM NothingLeaks == Spec => []NoLeakedConnection
  <1>1. IInv => NoLeakedConnection
    BY DEF IInv
  <1> QED
    BY <1>1, Invariance, PTL

\* Only while both are at work does one of them touch the other one's connection.
THEOREM OnlyTogether == Spec => OneAtATimeIsSafe
  <1>1. IInv /\ [Next]_vars => [~ strayed /\ strayed' => Busy /\ smBusy]_vars
    BY StepIsFine DEF Fine
  <1> QED
    BY <1>1, Invariance, PTL DEF Spec, OneAtATimeIsSafe

-----------------------------------------------------------------------------
(* What the Sent folder lists was accepted.                                *)

Lines == Nat \X BOOLEAN
Words == {"EHLO", "AUTH", "MAIL", "user", "password", "RCPT", "DATA", "QUIT", "message"}
Units == [what : Words, msg : Nat, part : Nat]
SmtpServers == [job : {"smtp"}, left : Seq(Lines), parts : Seq(Units), took : Nat]

\* The reply lines that are still with the server, if it is ours.
Left == IF user = "mail" THEN srv.left ELSE << >>

NoLastLine(r) == \A i \in 1 .. Len(r) : ~ r[i][2]
OneReply(r) == \A i \in 1 .. Len(r) - 1 : ~ r[i][2]
NoYes(r) == \A i \in 1 .. Len(r) : r[i][1] # 250

\* While a message is sent its text is one that Send was pressed for.
Drafts ==
  /\ draft \in Nat /\ edits \in Nat
  /\ pressed \subseteq Nat \ {0} /\ accepted \subseteq pressed
  /\ sent \in Seq(Nat) /\ \A i \in 1 .. Len(sent) : sent[i] \in accepted
  /\ sm \in Dialogues \cup {"resolving", "connecting"} => draft \in pressed

\* The server at the other end of the mail program's connection.
ServerOfUser ==
  /\ "job" \in DOMAIN srv
  /\ user # "mail" => srv.job # "smtp"
  /\ user = "mail" => srv \in SmtpServers /\ (srv.took = 0 \/ srv.took \in pressed)

\* What is queued at the program's end.
Queues ==
  /\ rx \in Seq(Lines) /\ out \in Seq(Units)
  /\ sm \in {"resolving", "connecting"} => out = << >>
  /\ sm = "resolving" => rx = << >>
  /\ sm \in Dialogues /\ user = "mail" => ts # "SYN_SENT"

\* Program and server take turns: nothing is said before the last reply has been
\* read to its end, so that a reply is the one to what was said last.
Turns ==
  sm \in Dialogues \cup {"connecting"} =>
    /\ OneReply(rx) /\ OneReply(Left)
    /\ Left # << >> => NoLastLine(rx)
    /\ out # << >> => rx = << >> /\ Left = << >>

\* No part of the message is sent before the server has asked for it ...
Commands ==
  sm \in (Dialogues \ {"body"}) \cup {"connecting"} =>
    /\ user = "mail" => srv.parts = << >>
    /\ out # << >> => Len(out) = 1 /\ out[1].what # "message"

\* ... and then the server hears it from its beginning, unless something was lost:
\* it says yes only to the whole of it.
Text ==
  sm = "body" =>
    /\ (NoYes(rx) /\ NoYes(Left)) \/ draft \in accepted
    /\ \A i \in 1 .. Len(out) : out[i].what = "message" /\ out[i].msg = draft
    /\ (user = "mail" /\ ts = "ESTABLISHED" /\ ~ deaf /\ out # << >>) =>
         srv.parts \o out = MessageUnits(draft)

\* When it is over no part of it is left.
Parting == sm = "quit" => \A i \in 1 .. Len(out) : out[i].what # "message"

Post == Drafts /\ ServerOfUser /\ Queues /\ Turns /\ Commands /\ Text /\ Parting

-----------------------------------------------------------------------------
\* At the start nothing was pressed, said or taken.
LEMMA InitPost == Init => Post
  <1> SUFFICES ASSUME Init PROVE Post
    OBVIOUS
  <1>1. << >> \in Seq(Lines) /\ << >> \in Seq(Units) /\ << >> \in Seq(Nat) /\ Len(<< >>) = 0
    OBVIOUS
  <1>2. Drafts
    BY <1>1 DEF Init, MailInit, Drafts, Dialogues
  <1>3. ServerOfUser
    BY DEF Init, LinkInit, NoServer, ServerOfUser
  <1>4. Queues /\ Turns /\ Commands /\ Text /\ Parting
    BY <1>1 DEF Init, MailInit, Queues, Turns, Commands, Text, Parting, Dialogues
  <1> QED
    BY <1>2, <1>3, <1>4 DEF Post

\* Taking the first line of a reply away.
LEMMA TailOfReply ==
  ASSUME NEW r \in Seq(Lines), r # << >>
  PROVE  /\ Tail(r) \in Seq(Lines) /\ Head(r) \in Lines
         /\ OneReply(r) => OneReply(Tail(r)) /\ (Tail(r) # << >> => ~ Head(r)[2])
         /\ NoLastLine(r) => NoLastLine(Tail(r)) /\ ~ Head(r)[2]
         /\ NoYes(r) => NoYes(Tail(r)) /\ Head(r)[1] # 250
  <1>1. /\ Tail(r) \in Seq(Lines) /\ Head(r) \in Lines /\ Head(r) = r[1]
        /\ Len(r) \in Nat /\ Len(r) > 0 /\ Len(Tail(r)) = Len(r) - 1
        /\ \A i \in 1 .. Len(r) - 1 : Tail(r)[i] = r[i + 1]
        /\ Tail(r) # << >> => Len(r) > 1
    OBVIOUS
  <1>2. OneReply(r) => OneReply(Tail(r)) /\ (Tail(r) # << >> => ~ Head(r)[2])
    BY <1>1 DEF OneReply
  <1>3. NoLastLine(r) => NoLastLine(Tail(r)) /\ ~ Head(r)[2]
    BY <1>1 DEF NoLastLine
  <1>4. NoYes(r) => NoYes(Tail(r)) /\ Head(r)[1] # 250
    BY <1>1 DEF NoYes
  <1> QED
    BY <1>1, <1>2, <1>3, <1>4

\* A reply of one line.
LEMMA OneLine ==
  ASSUME NEW x \in Lines
  PROVE  /\ << x >> \in Seq(Lines) /\ OneReply(<< x >>)
         /\ x[1] # 250 => NoYes(<< x >>)
  <1>1. << x >> \in Seq(Lines) /\ Len(<< x >>) = 1 /\ << x >>[1] = x
    OBVIOUS
  <1> QED
    BY <1>1 DEF OneReply, NoYes

\* Putting a line behind others.
LEMMA AppendToReply ==
  ASSUME NEW r \in Seq(Lines), NEW x \in Lines
  PROVE  /\ Append(r, x) \in Seq(Lines)
         /\ NoLastLine(r) => OneReply(Append(r, x))
         /\ NoLastLine(r) /\ ~ x[2] => NoLastLine(Append(r, x))
         /\ NoYes(r) /\ x[1] # 250 => NoYes(Append(r, x))
  <1>1. /\ Append(r, x) \in Seq(Lines) /\ Len(r) \in Nat
        /\ Len(Append(r, x)) = Len(r) + 1 /\ Append(r, x)[Len(r) + 1] = x
        /\ \A i \in 1 .. Len(r) : Append(r, x)[i] = r[i]
    OBVIOUS
  <1>2. NoLastLine(r) => OneReply(Append(r, x))
    BY <1>1 DEF OneReply, NoLastLine
  <1>3. NoLastLine(r) /\ ~ x[2] => NoLastLine(Append(r, x))
    BY <1>1 DEF NoLastLine
  <1>4. NoYes(r) /\ x[1] # 250 => NoYes(Append(r, x))
    BY <1>1 DEF NoYes
  <1> QED
    BY <1>1, <1>2, <1>3, <1>4

\* What the steps of the others do to the mail program's connection at most: they
\* lose what it says, or close it.
Kept ==
  /\ "job" \in DOMAIN srv'
  /\ user' # "mail" => srv'.job # "smtp"
  /\ user' = "mail" =>
       /\ user = "mail" /\ srv' = srv /\ (deaf => deaf')
       /\ ts' \in {"SYN_SENT", "ESTABLISHED"} => ts' = ts \/ ts = "SYN_SENT"

\* Nothing that holds of the dialogue is lost by that.
LEMMA OthersKeepPost ==
  ASSUME IInv, Post, Kept, UNCHANGED <<sm, out, rx, draft, pressed>>,
         accepted \subseteq accepted', Drafts'
  PROVE  Post'
  <1>1. UNCHANGED <<sm, out, rx, draft, pressed>>
    OBVIOUS
  <1>3. ServerOfUser'
    BY <1>1 DEF Kept, Post, ServerOfUser
  <1>4. Queues'
    BY <1>1 DEF Kept, Post, Queues
  <1>5. /\ user' = "mail" => Left' = Left
        /\ user' # "mail" => Left' = << >>
    BY DEF Left, Kept
  <1>6. OneReply(<< >>) /\ NoYes(<< >>)
    BY DEF OneReply, NoYes
  <1>7. Turns'
    <2>1. OneReply(rx)' = OneReply(rx) /\ NoLastLine(rx)' = NoLastLine(rx)
      BY <1>1 DEF OneReply, NoLastLine
    <2>2. OneReply(Left)' = OneReply(Left')
      BY DEF OneReply
    <2> QED
      BY <1>1, <1>5, <1>6, <2>1, <2>2 DEF Post, Turns
  <1>8. Commands'
    BY <1>1 DEF Kept, Post, Commands
  <1>9. Text'
    <2>1. NoYes(rx)' = NoYes(rx) /\ NoYes(Left)' = NoYes(Left')
      BY <1>1 DEF NoYes
    <2>2. MessageUnits(draft)' = MessageUnits(draft)
      BY <1>1 DEF MessageUnits, Unit
    <2> QED
      BY <1>1, <1>5, <1>6, <2>1, <2>2 DEF Post, Text, Queues, Dialogues, Kept
  <1>10. Parting'
    BY <1>1 DEF Post, Parting
  <1> QED
    BY <1>3, <1>4, <1>7, <1>8, <1>9, <1>10 DEF Post

\* A server goes on being what it is, whatever it hears from the browser.
LEMMA HearsKeepsJob ==
  ASSUME "job" \in DOMAIN srv
  PROVE  /\ \A msgs : "job" \in DOMAIN Hears(msgs) /\ Hears(msgs).job = srv.job
         /\ "job" \in DOMAIN HearsPlain /\ HearsPlain.job = srv.job
  <1>1. ASSUME NEW msgs PROVE "job" \in DOMAIN Hears(msgs) /\ Hears(msgs).job = srv.job
    BY DEF Hears
  <1> QED
    BY <1>1 DEF HearsPlain

\* The calls, as the browser makes them.
LEMMA BrowserCallsKeep ==
  ASSUME IInv, Post
  PROVE  /\ UNCHANGED link => Kept
         /\ \A s : tcpSend("browser", {s}) /\ "job" \in DOMAIN s /\ s.job = srv.job => Kept
         /\ tcpAbort("browser") => Kept
         /\ \A s : tcpConnect("browser", s) /\ "job" \in DOMAIN s /\ s.job # "smtp" => Kept
         /\ \A tick \in BOOLEAN : TickIf(tick) => Kept
         /\ LinkInterrupt => Kept
  <1> USE DEF Kept, Post, ServerOfUser, SmtpServers
  <1>1. UNCHANGED link => Kept
    BY DEF link
  <1>2. ASSUME NEW s, tcpSend("browser", {s}), "job" \in DOMAIN s, s.job = srv.job
        PROVE  Kept
    BY <1>2 DEF tcpSend
  <1>3. tcpAbort("browser") => Kept
    BY DEF tcpAbort
  <1>4. ASSUME NEW s, tcpConnect("browser", s), "job" \in DOMAIN s, s.job # "smtp"
        PROVE  Kept
    BY <1>4 DEF tcpConnect
  <1>5. ASSUME NEW tick \in BOOLEAN, TickIf(tick)
        PROVE  Kept
    BY <1>5 DEF TickIf, tcpTick, Ticked, link
  <1>6. LinkInterrupt => Kept
    BY DEF LinkInterrupt, Connected, FinArrives, LastAckArrives, ResetArrives
  <1> QED
    BY <1>1, <1>2, <1>3, <1>4, <1>5, <1>6

\* ... in particular by the steps that leave the mail program alone.
LEMMA MailStays ==
  ASSUME IInv, Post, UNCHANGED mail, Kept
  PROVE  Post'
  <1>1. Drafts'
    BY DEF Post, Drafts, mail
  <1> QED
    BY <1>1, OthersKeepPost DEF mail

\* That is so for each step of the browser.
LEMMA BrowserKeepsPost ==
  ASSUME IInv, Post, BrowserNext, UNCHANGED mail
  PROVE  Post'
  <1>0. "job" \in DOMAIN srv
    BY DEF Post, ServerOfUser
  <1>1. \A msgs : tcpSend("browser", {Hears(msgs)}) => Kept
    BY <1>0, HearsKeepsJob, BrowserCallsKeep
  <1>2. tcpSend("browser", {HearsPlain}) => Kept
    BY <1>0, HearsKeepsJob, BrowserCallsKeep
  <1>3. sendRequest => Kept
    BY <1>1, <1>2 DEF sendRequest
  <1>4. CASE BrowserUser
    BY <1>4, BrowserCallsKeep, MailStays
       DEF BrowserUser, browserOpen, browserClick, browserKeyEsc
  <1>5. CASE PollConnects
    <2>1. \A s \in Servers : "job" \in DOMAIN s /\ s.job # "smtp"
      BY DEF Servers
    <2> QED
      BY <1>5, <2>1, BrowserCallsKeep, MailStays DEF PollConnects
  <1>6. CASE \E tick \in BOOLEAN : PollResolves(tick)
    BY <1>6, BrowserCallsKeep, MailStays DEF PollResolves
  <1>7. CASE PollStarts
    BY <1>7, <1>1, <1>3, MailStays DEF PollStarts
  <1>8. CASE \E tick \in BOOLEAN : PollWaits(tick) \/ PollLoads(tick)
    BY <1>8, BrowserCallsKeep, MailStays DEF PollWaits, PollLoads
  <1>9. CASE PumpFeeds
    BY <1>9, <1>1, BrowserCallsKeep, MailStays DEF PumpFeeds
  <1>10. CASE PumpEnds
    BY <1>10, <1>3, BrowserCallsKeep, MailStays DEF PumpEnds
  <1>11. CASE PollDecides
    BY <1>11, BrowserCallsKeep, MailStays DEF PollDecides
  <1>12. CASE BrowserReceives
    BY <1>0, <1>12, MailStays DEF BrowserReceives, Kept, Post, ServerOfUser
  <1>13. CASE DnsAnswers
    BY <1>13, BrowserCallsKeep, MailStays DEF DnsAnswers
  <1>14. CASE ServerRefuses
    BY <1>0, <1>14, MailStays DEF ServerRefuses, Kept, Post, ServerOfUser, SmtpServers
  <1> QED
    BY <1>4, <1>5, <1>6, <1>7, <1>8, <1>9, <1>10, <1>11, <1>12, <1>13, <1>14
       DEF BrowserNext, browserPoll, BrowserSteps

-----------------------------------------------------------------------------
(* The mail program itself.                                                *)

\* When the dialogue is over not much is left to be kept.
LEMMA OverKeepsPost ==
  ASSUME Post, sm' \notin Dialogues \cup {"resolving", "connecting"},
         rx' \in Seq(Lines), out' \in Seq(Units), ServerOfUser', Drafts',
         sm' = "quit" => \A i \in 1 .. Len(out') : out'[i].what # "message"
  PROVE  Post'
  <1> USE DEF Dialogues
  <1>1. Queues'
    BY DEF Queues
  <1>2. Turns'
    BY DEF Turns
  <1>3. Commands'
    BY DEF Commands
  <1>4. Text'
    BY DEF Text
  <1>5. Parting'
    BY DEF Parting
  <1> QED
    BY <1>1, <1>2, <1>3, <1>4, <1>5 DEF Post

\* ... so that it may be given up at any time.
LEMMA FailKeepsPost ==
  ASSUME IInv, Post, user' = user, srv' = srv,
         sm' \notin Dialogues \cup {"resolving", "connecting"},
         rx' \in Seq(Lines), out' \in Seq(Units),
         draft' \in Nat, edits' \in Nat, pressed' = pressed,
         accepted \subseteq accepted', accepted' \subseteq pressed,
         sent' \in Seq(Nat), \A i \in 1 .. Len(sent') : sent'[i] \in accepted',
         sm' = "quit" => \A i \in 1 .. Len(out') : out'[i].what # "message"
  PROVE  Post'
  <1>1. ServerOfUser'
    BY DEF Post, ServerOfUser, Dialogues
  <1>2. Drafts'
    BY DEF Post, Drafts, Dialogues
  <1> QED
    BY <1>1, <1>2, OverKeepsPost

\* What a server has taken was sent.
LEMMA TookIsFine ==
  ASSUME Post
  PROVE  Took(srv) \subseteq pressed
  BY DEF Took, Post, ServerOfUser, SmtpServers

\* The keys: a draft cannot change while it is being sent.
LEMMA UserKeepsPost ==
  ASSUME IInv, Post, MailUser
  PROVE  Post'
  <1> USE DEF Post
  <1>1. CASE mailKey
    <2>1. sm \notin Dialogues \cup {"resolving", "connecting", "quit"}
      BY <1>1 DEF mailKey, smBusy, Dialogues
    <2> QED
      BY <1>1, <2>1, FailKeepsPost DEF mailKey, link, Drafts, Queues
  <1>2. CASE startSend
    <2>1. << >> \in Seq(Lines) /\ << >> \in Seq(Units)
      OBVIOUS
    <2>2. Drafts'
      BY <1>2 DEF startSend, Drafts
    <2>3. ServerOfUser'
      BY <1>2 DEF startSend, link, ServerOfUser, Dialogues
    <2>4. Queues' /\ Turns' /\ Commands' /\ Text' /\ Parting'
      BY <1>2, <2>1 DEF startSend, Queues, Turns, Commands, Text, Parting, Dialogues
    <2> QED
      BY <2>2, <2>3, <2>4
  <1>3. CASE cancelSend
    <2>1. user' = user /\ srv' = srv
      BY <1>3 DEF cancelSend, tcpAbort, link
    <2> QED
      BY <1>3, <2>1, FailKeepsPost DEF cancelSend, Drafts, Queues, Dialogues
  <1> QED
    BY <1>1, <1>2, <1>3 DEF MailUser

\* The start of a poll: the connection is asked for, waited for, and read.
LEMMA PollKeepsPost ==
  ASSUME IInv, Post, NEW tick \in BOOLEAN, mailPoll(tick)
  PROVE  Post'
  <1> USE DEF Post
  <1>1. CASE SmConnects /\ ts # "CLOSED"
    <2>1. user' = user /\ srv' = srv /\ sm' = "error"
      BY <1>1 DEF SmConnects, smtpFail, tcpAbort, link
    <2> QED
      BY <1>1, <2>1, FailKeepsPost DEF SmConnects, Drafts, Queues, Dialogues
  <1>2. CASE SmConnects /\ ts = "CLOSED"
    <2> DEFINE hello == << <<220, TRUE>> >>
    <2>1. /\ hello \in Seq(Lines) /\ << >> \in Seq(Units) /\ << >> \in Seq(Lines)
          /\ OneReply(hello) /\ OneReply(<< >>) /\ NoLastLine(<< >>)
      <3>1. <<220, TRUE>> \in Lines
        BY ZenonT(40) DEF Lines
      <3> QED
        BY <3>1, OneLine DEF OneReply, NoLastLine
    <2>2. user' = "mail" /\ srv' = SmtpServer /\ ts' = "SYN_SENT"
      BY <1>2 DEF SmConnects, tcpConnect
    <2>3. /\ sm' = "connecting" /\ rx' = << >> /\ out' = << >>
          /\ UNCHANGED <<draft, edits, sent, pressed, accepted>> /\ sm = "resolving"
      BY <1>2 DEF SmConnects, Queues
    <2>4. Drafts'
      BY <2>3 DEF Drafts, Dialogues
    <2>5. ServerOfUser'
      BY <2>1, <2>2, <2>3 DEF ServerOfUser, SmtpServers, SmtpServer
    <2>6. Left' = hello
      BY <2>2 DEF Left, SmtpServer
    <2>7. Queues' /\ Text' /\ Parting'
      BY <2>1, <2>3 DEF Queues, Text, Parting, Dialogues
    <2>8. Turns'
      BY <2>1, <2>3, <2>6 DEF Turns, OneReply, NoLastLine
    <2>9. Commands'
      BY <2>2, <2>3 DEF Commands, SmtpServer
    <2> QED
      BY <2>4, <2>5, <2>7, <2>8, <2>9
  <1>3. CASE SmWaits(tick)
    <2>1. Kept /\ user' = user /\ srv' = srv /\ (ts' = "SYN_SENT" => ts = "SYN_SENT")
      BY <1>3, BrowserCallsKeep DEF SmWaits, TickIf, tcpTick, Ticked, link
    <2>2. UNCHANGED <<out, rx, draft, edits, sent, pressed, accepted>> /\ sm = "connecting"
      BY <1>3 DEF SmWaits
    <2>3. CASE sm' = "connecting"
      <3>1. Drafts'
        BY <2>2, <2>3 DEF Drafts
      <3> QED
        BY <2>1, <2>2, <2>3, <3>1, OthersKeepPost
    <2>4. CASE sm' = "greeting" /\ ts' = "ESTABLISHED"
      <3>1. Drafts' /\ ServerOfUser' /\ Queues'
        BY <2>1, <2>2, <2>4 DEF Drafts, ServerOfUser, Queues, Dialogues
      <3>2. Left' = Left
        BY <2>1 DEF Left
      <3>3. Turns'
        BY <2>1, <2>2, <2>4, <3>2 DEF Turns, OneReply, NoLastLine
      <3>4. Commands' /\ Text' /\ Parting'
        BY <2>1, <2>2, <2>4 DEF Commands, Text, Parting, Dialogues
      <3> QED
        BY <3>1, <3>3, <3>4
    <2>5. CASE sm' = "error"
      BY <2>1, <2>2, <2>5, FailKeepsPost DEF Drafts, Queues, Dialogues
    <2> QED
      BY <1>3, <2>2, <2>3, <2>4, <2>5 DEF SmWaits
  <1>4. CASE SmReads(tick)
    <2>1. Kept
      BY <1>4, BrowserCallsKeep DEF SmReads
    <2>2. Drafts'
      BY <1>4 DEF SmReads, Drafts
    <2> QED
      BY <1>4, <2>1, <2>2, OthersKeepPost DEF SmReads
  <1> QED
    BY <1>1, <1>2, <1>3, <1>4 DEF mailPoll

\* A turn of the dialogue: what is said next, and that the text comes after DATA.
LEMMA WhatIsSaid ==
  ASSUME NEW at \in Dialogues, draft \in Nat
  PROVE  LET turn == Dialogue[at]
         IN  /\ turn.says \in Seq(Units)
             /\ at \notin {"data", "body"} =>
                  /\ turn.next \in Dialogues \ {"body"}
                  /\ Len(turn.says) = 1 /\ turn.says[1].what # "message"
             /\ at = "data" => turn.says = MessageUnits(draft) /\ turn.next = "body"
             /\ at = "body" =>
                  /\ turn.wants = {250} /\ turn.next = "quit"
                  /\ \A i \in 1 .. Len(turn.says) : turn.says[i].what # "message"
  <1> DEFINE turn == Dialogue[at]
  <1>1. ASSUME NEW c \in Words
        PROVE  /\ Command(c) \in Seq(Units) /\ Len(Command(c)) = 1
               /\ Command(c)[1].what = c
    <2>1. Unit(c, 0, 0) \in Units /\ Unit(c, 0, 0).what = c
      BY DEF Unit, Units
    <2> QED
      BY <2>1 DEF Command
  <1>2. MessageUnits(draft) \in Seq(Units)
    <2>1. MSG_UNITS \in Nat
      BY MailAssumption
    <2>2. ASSUME NEW i \in 1 .. MSG_UNITS
          PROVE  Unit("message", draft, i) \in Units
      BY <2>1 DEF Unit, Units, Words
    <2>3. MessageUnits(draft) \in [1 .. MSG_UNITS -> Units]
      BY <2>2 DEF MessageUnits
    <2> QED
      BY <2>1, <2>3
  <1>3. CASE at \notin {"data", "body"}
    <2> DEFINE said == {"EHLO", "AUTH", "MAIL", "user", "password", "RCPT", "DATA"}
    <2>1. /\ turn.next \in Dialogues \ {"body"}
          /\ \E c \in said : turn.says = Command(c)
      <3>1. at \in {"greeting", "ehlo", "auth", "authUser", "authPass", "from", "rcpt"}
        BY <1>3 DEF Dialogues
      <3> QED
        BY <3>1 DEF Dialogue, Dialogues, Turn
    <2>2. \A c \in said : /\ Command(c) \in Seq(Units) /\ Len(Command(c)) = 1
                          /\ Command(c)[1].what = c /\ c # "message"
      BY <1>1 DEF Words
    <2> QED
      BY <1>3, <2>1, <2>2
  <1>4. CASE at = "data"
    <2>1. turn.says = MessageUnits(draft) /\ turn.next = "body"
      BY <1>4 DEF Dialogue, Turn
    <2> QED
      BY <1>2, <1>4, <2>1
  <1>5. CASE at = "body"
    <2>1. turn.wants = {250} /\ turn.says = Command("QUIT") /\ turn.next = "quit"
      BY <1>5 DEF Dialogue, Turn
    <2>2. /\ Command("QUIT") \in Seq(Units) /\ Len(Command("QUIT")) = 1
          /\ Command("QUIT")[1].what # "message"
      BY <1>1 DEF Words
    <2>3. turn.says \in Seq(Units)
      BY <2>1, <2>2
    <2>4. \A i \in 1 .. Len(turn.says) : turn.says[i].what # "message"
      BY <2>1, <2>2
    <2> QED
      BY <1>5, <2>1, <2>3, <2>4
  <1> QED
    BY <1>3, <1>4, <1>5

\* A line that does not end its reply.
LEMMA LineKeepsPost ==
  ASSUME IInv, Post, ParseLine, ~ Head(rx)[2]
  PROVE  Post'
  <1>1. /\ UNCHANGED link /\ rx # << >> /\ rx \in Seq(Lines) /\ rx' = Tail(rx)
        /\ UNCHANGED <<sm, out, draft, edits, sent, pressed, accepted>>
    BY DEF ParseLine, Post, Queues
  <1>2. sm \in Dialogues \cup {"quit"}
    BY DEF ParseLine, smBusy, IInv, Typed, Polled
  <1>3. /\ rx' \in Seq(Lines)
        /\ OneReply(rx) => OneReply(rx')
        /\ NoLastLine(rx) => NoLastLine(rx')
        /\ NoYes(rx) => NoYes(rx')
    BY <1>1, TailOfReply
  <1>4. Drafts' /\ ServerOfUser' /\ Queues'
    BY <1>1, <1>3 DEF Post, Drafts, ServerOfUser, Queues, Dialogues, link
  <1>5. Left' = Left /\ (OneReply(Left)' <=> OneReply(Left)) /\ (NoYes(Left)' <=> NoYes(Left))
    BY <1>1 DEF Left, link, OneReply, NoYes
  <1>6. Turns' /\ Commands'
    BY <1>1, <1>3, <1>5 DEF Post, Turns, Commands, link
  <1>7. Text'
    BY <1>1, <1>2, <1>3, <1>5 DEF Post, Turns, Text, link, Dialogues
  <1>8. Parting'
    BY <1>1 DEF Post, Parting
  <1> QED
    BY <1>4, <1>6, <1>7, <1>8 DEF Post

\* The last line of a reply: whatever came with it has been read.
LEMMA ReplyKeepsPost ==
  ASSUME IInv, Post, ParseLine, Head(rx)[2]
  PROVE  Post'
  <1> DEFINE code == Head(rx)[1]
  <1>1. /\ handleReply(code) /\ rx # << >> /\ rx \in Seq(Lines) /\ rx' = Tail(rx)
        /\ UNCHANGED <<edits, pressed, accepted>>
    BY DEF ParseLine, Post, Queues
  <1>2. sm \in Dialogues \cup {"quit"}
    BY DEF ParseLine, smBusy, IInv, Typed, Polled
  <1>3. rx' \in Seq(Lines) /\ (NoYes(rx) => code # 250)
    BY <1>1, TailOfReply
  <1>4. CASE sm = "quit" \/ code \notin Dialogue[sm].wants
    <2>1. /\ user' = user /\ srv' = srv /\ sm' \in {"done", "error"}
          /\ UNCHANGED <<out, draft, sent>>
      BY <1>1, <1>4 DEF handleReply, smtpFail, tcpAbort, link
    <2> QED
      BY <1>1, <1>3, <2>1, FailKeepsPost DEF Post, Drafts, Queues, Dialogues
  <1>5. CASE sm # "quit" /\ code \in Dialogue[sm].wants
    <2> DEFINE turn == Dialogue[sm]
    <2>1. sm \in Dialogues /\ draft \in Nat /\ out \in Seq(Units)
      BY <1>2, <1>5 DEF Post, Drafts, Queues
    <2>2. /\ out' = out \o turn.says /\ sm' = turn.next /\ UNCHANGED link
      BY <1>1, <1>5 DEF handleReply
    <2>3. rx' = << >> /\ Left = << >> /\ out = << >>
      <3>1. OneReply(rx) /\ (Left # << >> => NoLastLine(rx)) /\ (out # << >> => rx = << >>)
        BY <2>1 DEF Post, Turns
      <3> QED
        BY <1>1, <3>1, TailOfReply
    <2>4. turn.says \in Seq(Units)
      BY <2>1, WhatIsSaid
    <2>5. out' = turn.says
      BY <2>2, <2>3, <2>4
    <2>6. /\ ServerOfUser' <=> ServerOfUser
          /\ Left' = << >>
      BY <1>1, <2>2, <2>3 DEF ServerOfUser, Left, link
    <2>7. CASE sm = "body"
      <3>1. draft \in accepted /\ sm' = "quit"
        <4>1. code = 250
          BY <1>5, <2>1, <2>7, WhatIsSaid
        <4>2. ~ NoYes(rx)
          BY <1>3, <4>1
        <4> QED
          BY <2>1, <2>2, <2>7, <4>2, WhatIsSaid DEF Post, Text
      <3>2. PICK n \in Nat : sent' = SubSeq(<< draft >> \o sent, 1, n) /\ n <= Len(sent) + 1
        <4>1. SENT_MAX \in Nat /\ sent \in Seq(Nat)
          BY MailAssumption DEF Post, Drafts
        <4>2. Len(<< draft >> \o sent) = Len(sent) + 1 /\ Len(sent) \in Nat
          BY <2>1, <4>1
        <4> DEFINE kept == IF Len(<< draft >> \o sent) < SENT_MAX
                           THEN Len(<< draft >> \o sent) ELSE SENT_MAX
        <4>3. sent' = SubSeq(<< draft >> \o sent, 1, kept)
          BY <1>1, <1>5, <2>7 DEF handleReply, Succeeds
        <4>4. kept \in Nat /\ kept <= Len(sent) + 1
          BY <4>1, <4>2
        <4> QED
          BY <4>3, <4>4
      <3>3. /\ sent' \in Seq(Nat)
            /\ \A i \in 1 .. Len(sent') : sent'[i] = draft \/ sent'[i] \in accepted
        <4>1. sent \in Seq(Nat) /\ \A i \in 1 .. Len(sent) : sent[i] \in accepted
          BY DEF Post, Drafts
        <4> DEFINE all == << draft >> \o sent
        <4>2. /\ all \in Seq(Nat) /\ Len(all) = Len(sent) + 1 /\ Len(sent) \in Nat
              /\ \A i \in 1 .. Len(all) : all[i] = draft \/ all[i] \in accepted
          BY <2>1, <4>1
        <4> HIDE DEF all
        <4>3. /\ SubSeq(all, 1, n) \in Seq(Nat) /\ Len(SubSeq(all, 1, n)) = n
              /\ \A i \in 1 .. n : SubSeq(all, 1, n)[i] = all[i]
          BY <3>2, <4>2, SMTT(30)
        <4> QED
          BY <3>2, <4>2, <4>3 DEF all
      <3>4. draft' = 0
        BY <1>1, <1>5, <2>7 DEF handleReply, Succeeds
      <3>5. \A i \in 1 .. Len(out') : out'[i].what # "message"
        BY <2>1, <2>5, <2>7, WhatIsSaid
      <3> QED
        BY <1>1, <1>3, <2>2, <2>4, <2>5, <3>1, <3>3, <3>4, <3>5, FailKeepsPost
           DEF Post, Drafts, Dialogues, link
    <2>8. CASE sm # "body"
      <3>1. UNCHANGED <<draft, sent>> /\ sm' \in Dialogues
        BY <1>1, <1>5, <2>1, <2>2, <2>8, WhatIsSaid DEF handleReply, Succeeds, Dialogues
      <3>2. Drafts'
        BY <1>1, <2>1, <3>1 DEF Post, Drafts
      <3>3. Queues'
        BY <1>3, <2>1, <2>2, <2>4, <2>5, <3>1 DEF Post, Queues, link, Dialogues
      <3>4. OneReply(rx)' /\ OneReply(Left)' /\ NoLastLine(rx)' /\ NoYes(rx)' /\ NoYes(Left)'
        BY <2>3, <2>6 DEF OneReply, NoLastLine, NoYes
      <3>5. Turns'
        BY <2>3, <2>6, <3>4 DEF Turns
      <3>6. Commands'
        <4>1. user' = user /\ srv' = srv /\ (user = "mail" => srv.parts = << >>)
          BY <2>1, <2>2, <2>8 DEF Post, Commands, link
        <4>2. sm # "data" => Len(out') = 1 /\ out'[1].what # "message"
          BY <2>1, <2>5, <2>8, WhatIsSaid
        <4>3. sm = "data" => sm' = "body"
          BY <2>1, <2>2, WhatIsSaid
        <4> QED
          BY <4>1, <4>2, <4>3 DEF Commands, Dialogues
      <3>7. Text'
        <4>1. CASE sm = "data"
          <5>1. out' = MessageUnits(draft) /\ draft' = draft
            BY <2>1, <2>5, <3>1, <4>1, WhatIsSaid
          <5>2. \A i \in 1 .. Len(out') : out'[i].what = "message" /\ out'[i].msg = draft
            BY <5>1, MailAssumption DEF MessageUnits, Unit
          <5>3. user' = "mail" => srv'.parts \o out' = out'
            <6>1. user' = "mail" => srv'.parts = << >>
              BY <2>1, <2>2, <4>1 DEF Post, Commands, link, Dialogues
            <6>2. << >> \o out' = out'
              BY <2>4, <2>5
            <6> QED
              BY <6>1, <6>2
          <5>4. MessageUnits(draft)' = MessageUnits(draft)
            BY <5>1 DEF MessageUnits, Unit
          <5> QED
            BY <3>4, <5>1, <5>2, <5>3, <5>4 DEF Text
        <4>2. CASE sm # "data"
          <5>1. sm' # "body"
            BY <2>1, <2>2, <2>8, <4>2, WhatIsSaid
          <5> QED
            BY <5>1 DEF Text
        <4> QED
          BY <4>1, <4>2
      <3>8. Parting'
        BY <3>1 DEF Parting, Dialogues
      <3> QED
        BY <2>6, <3>2, <3>3, <3>5, <3>6, <3>7, <3>8 DEF Post
    <2> QED
      BY <2>7, <2>8
  <1> QED
    BY <1>2, <1>4, <1>5

\* The replies have been read; a ring that ran over ends the dialogue.
LEMMA EndKeepsPost ==
  ASSUME IInv, Post, ParseEnds
  PROVE  Post'
  <1>1. CASE smBusy /\ rxOverflow
    <2>1. user' = user /\ srv' = srv /\ sm' = "error"
      BY <1>1 DEF ParseEnds, smtpFail, tcpAbort, link
    <2> QED
      BY <2>1, FailKeepsPost DEF ParseEnds, Post, Drafts, Queues, Dialogues
  <1>2. CASE ~ (smBusy /\ rxOverflow)
    <2>1. Kept
      BY <1>2, BrowserCallsKeep DEF ParseEnds
    <2>2. Drafts'
      BY <1>2 DEF ParseEnds, Post, Drafts
    <2> QED
      BY <1>2, <2>1, <2>2, OthersKeepPost DEF ParseEnds
  <1> QED
    BY <1>1, <1>2

\* A message that is being sent: the next unit is the one that is due, and the last
\* one when the server says that it is.
LEMMA MessageGoesOn ==
  ASSUME NEW p \in Seq(Units), NEW o \in Seq(Units), o # << >>, NEW n \in Nat,
         p \o o = MessageUnits(n)
  PROVE  /\ Append(p, Head(o)) \o Tail(o) = MessageUnits(n)
         /\ ~ Head(o).part < MSG_UNITS =>
              /\ Head(o).part = MSG_UNITS /\ Tail(o) = << >>
              /\ Append(p, Head(o)) = MessageUnits(n)
  <1>1. /\ Len(p) \in Nat /\ Len(o) \in Nat \ {0} /\ Len(p \o o) = Len(p) + Len(o)
        /\ Head(o) = o[1] /\ (p \o o)[Len(p) + 1] = o[1] /\ Head(o) \in Units
        /\ Tail(o) \in Seq(Units) /\ Len(Tail(o)) = Len(o) - 1
    BY ConcatProperties, HeadTailProperties, LenProperties, EmptySeq
  <1>2. /\ Len(p) + Len(o) = MSG_UNITS /\ MSG_UNITS \in Nat
        /\ Head(o).part = Len(p) + 1
    <2>1. MSG_UNITS \in Nat
      BY MailAssumption
    <2>2. Len(MessageUnits(n)) = MSG_UNITS
      BY <2>1 DEF MessageUnits
    <2>3. MessageUnits(n)[Len(p) + 1] = Unit("message", n, Len(p) + 1)
      BY <1>1, <2>1, <2>2 DEF MessageUnits
    <2>4. Len(p) + Len(o) = MSG_UNITS
      BY <1>1, <2>2
    <2>5. Head(o) = Unit("message", n, Len(p) + 1)
      BY <1>1, <2>3
    <2> QED
      BY <2>1, <2>4, <2>5 DEF Unit
  <1>3. Append(p, Head(o)) \o Tail(o) = p \o o
    <2>1. /\ << Head(o) >> \in Seq(Units) /\ Append(p, Head(o)) = p \o << Head(o) >>
          /\ o = << Head(o) >> \o Tail(o)
      BY <1>1, AppendIsConcat, HeadTailAppend
    <2> QED
      BY <1>1, <2>1, ConcatAssociative
  <1>4. ~ Head(o).part < MSG_UNITS => Tail(o) = << >> /\ Head(o).part = MSG_UNITS
    BY <1>1, <1>2, EmptySeq
  <1>5. Append(p, Head(o)) \in Seq(Units) /\ Append(p, Head(o)) \o << >> = Append(p, Head(o))
    BY <1>1
  <1> QED
    BY <1>3, <1>4, <1>5

\* A unit that is not heard.
LEMMA LostKeepsPost ==
  ASSUME IInv, Post, sm \in Dialogues, out # << >>, out' = Tail(out),
         UNCHANGED <<sm, rx, draft, edits, sent, pressed, ts, user, srv>>,
         accepted \subseteq accepted', accepted' \subseteq pressed,
         user = "mail" /\ ts = "ESTABLISHED" => deaf'
  PROVE  Post'
  <1>1. /\ out \in Seq(Units) /\ out' \in Seq(Units)
        /\ Len(out') = Len(out) - 1 /\ Len(out) \in Nat \ {0}
        /\ \A i \in 1 .. Len(out') : out'[i] = out[i + 1]
        /\ Len(out) = 1 => out' = << >>
    BY HeadTailProperties, EmptySeq DEF Post, Queues
  <1>2. Drafts' /\ ServerOfUser'
    BY DEF Post, Drafts, ServerOfUser
  <1>3. Queues'
    BY <1>1 DEF Post, Queues, Dialogues
  <1>4. Left' = Left /\ OneReply(rx)' = OneReply(rx) /\ OneReply(Left)' = OneReply(Left)
        /\ NoLastLine(rx)' = NoLastLine(rx)
        /\ NoYes(rx)' = NoYes(rx) /\ NoYes(Left)' = NoYes(Left)
    BY DEF Left, OneReply, NoLastLine, NoYes
  <1>5. Turns'
    BY <1>4 DEF Post, Turns
  <1>6. Commands'
    BY <1>1 DEF Post, Commands, Dialogues
  <1>7. Text' /\ Parting'
    BY <1>1, <1>4 DEF Post, Text, Parting, Dialogues
  <1> QED
    BY <1>2, <1>3, <1>5, <1>6, <1>7 DEF Post

\* The answer to a command is one reply.
LEMMA AnswerToCommand ==
  ASSUME NEW unit, unit.what # "message", NEW s \in Answers(unit)
  PROVE  \E answer \in Seq(Lines) :
           OneReply(answer) /\ s = [srv EXCEPT !.left = srv.left \o answer]
  <1> DEFINE what == unit.what
  <1>1. /\ << <<550, TRUE>> >> \in Seq(Lines) /\ OneReply(<< <<550, TRUE>> >>)
        /\ Yes(what) \in Seq(Lines) /\ OneReply(Yes(what))
    <2>1. /\ <<550, TRUE>> \in Lines /\ <<334, TRUE>> \in Lines /\ <<235, TRUE>> \in Lines
          /\ <<354, TRUE>> \in Lines /\ <<221, TRUE>> \in Lines /\ <<250, TRUE>> \in Lines
          /\ <<250, FALSE>> \in Lines
      <3>1. \A c \in Nat : <<c, TRUE>> \in Lines /\ <<c, FALSE>> \in Lines
        BY DEF Lines
      <3>2. /\ 550 \in Nat /\ 334 \in Nat /\ 235 \in Nat /\ 354 \in Nat /\ 221 \in Nat
            /\ 250 \in Nat
        OBVIOUS
      <3> QED
        BY <3>1, <3>2, ZenonT(40)
    <2>2. ASSUME NEW x \in Lines, NEW y \in Lines, ~ x[2]
          PROVE  << x, x, y >> \in Seq(Lines) /\ OneReply(<< x, x, y >>)
      <3>1. /\ << x, x, y >> \in Seq(Lines) /\ Len(<< x, x, y >>) = 3
            /\ << x, x, y >>[1] = x /\ << x, x, y >>[2] = x
        OBVIOUS
      <3> QED
        BY <2>2, <3>1 DEF OneReply
    <2>3. LET r == << <<250, FALSE>>, <<250, FALSE>>, <<250, TRUE>> >>
          IN  r \in Seq(Lines) /\ OneReply(r)
      <3>1. ~ <<250, FALSE>>[2]
        OBVIOUS
      <3> QED
        BY <2>1, <2>2, <3>1
    <2>4. << <<550, TRUE>> >> \in Seq(Lines) /\ OneReply(<< <<550, TRUE>> >>)
      BY <2>1, OneLine
    <2>5. CASE what = "EHLO"
      BY <2>3, <2>4, <2>5 DEF Yes
    <2>6. CASE what # "EHLO"
      <3>1. Yes(what) \in {<< <<334, TRUE>> >>, << <<235, TRUE>> >>, << <<354, TRUE>> >>,
                           << <<221, TRUE>> >>, << <<250, TRUE>> >>}
        BY <2>6 DEF Yes
      <3>2. \A x \in Lines : << x >> \in Seq(Lines) /\ OneReply(<< x >>)
        BY OneLine
      <3>3. \E x \in Lines : Yes(what) = << x >>
        <4> HIDE DEF what
        <4> QED
          BY <2>1, <3>1, ZenonT(40)
      <3> QED
        BY <2>4, <3>2, <3>3
    <2> QED
      BY <2>5, <2>6
  <1>2. \/ s = [srv EXCEPT !.left = srv.left \o << <<550, TRUE>> >>]
        \/ s = [srv EXCEPT !.left = srv.left \o Yes(what)]
    BY DEF Answers
  <1>3. CASE s = [srv EXCEPT !.left = srv.left \o << <<550, TRUE>> >>]
    BY <1>1, <1>3
  <1>4. CASE s = [srv EXCEPT !.left = srv.left \o Yes(what)]
    BY <1>1, <1>4
  <1> QED
    BY <1>2, <1>3, <1>4

\* A command that is heard.
LEMMA CommandKeepsPost ==
  ASSUME IInv, Post, sm \in Dialogues \ {"body"}, out # << >>, out' = Tail(out),
         UNCHANGED <<sm, rx, draft, edits, sent, pressed, ts, user>>,
         user = "mail", srv' \in Answers(Head(out)), accepted' = accepted \cup Took(srv')
  PROVE  Post'
  <1>1. /\ Head(out).what # "message" /\ out' = << >> /\ rx = << >> /\ srv.left = << >>
        /\ srv \in SmtpServers /\ srv.parts = << >>
    BY HeadTailProperties, EmptySeq DEF Post, Queues, Commands, Turns, Left, ServerOfUser
  <1>2. PICK answer \in Seq(Lines) :
          OneReply(answer) /\ srv' = [srv EXCEPT !.left = answer]
    <2>1. PICK answer \in Seq(Lines) :
            OneReply(answer) /\ srv' = [srv EXCEPT !.left = srv.left \o answer]
      BY <1>1, AnswerToCommand
    <2>2. srv.left \o answer = answer
      BY <1>1
    <2> QED
      BY <2>1, <2>2
  <1>3. /\ srv' \in SmtpServers /\ srv'.took = srv.took /\ srv'.parts = << >>
        /\ srv'.left = answer
    BY <1>1, <1>2 DEF SmtpServers
  <1>4. accepted \subseteq accepted' /\ accepted' \subseteq pressed
    BY <1>3 DEF Took, Post, ServerOfUser, Drafts
  <1>5. Drafts' /\ ServerOfUser'
    BY <1>3, <1>4 DEF Post, Drafts, ServerOfUser, SmtpServers
  <1>6. Queues'
    BY <1>1 DEF Post, Queues, Dialogues
  <1>7. Left' = answer
    BY <1>3 DEF Left
  <1>8. Turns'
    BY <1>1, <1>2, <1>7 DEF Turns, OneReply, NoLastLine
  <1>9. Commands' /\ Text' /\ Parting'
    BY <1>1, <1>3 DEF Commands, Text, Parting, Dialogues
  <1> QED
    BY <1>5, <1>6, <1>8, <1>9 DEF Post

\* A part of the message that is heard: with the last one the server has it whole,
\* and may say so.
LEMMA PartKeepsPost ==
  ASSUME IInv, Post, sm = "body", out # << >>, out' = Tail(out),
         UNCHANGED <<sm, rx, draft, edits, sent, pressed, ts, user, deaf>>,
         user = "mail", ts = "ESTABLISHED", ~ deaf, srv' \in Answers(Head(out)),
         accepted' = accepted \cup Took(srv')
  PROVE  Post'
  <1> DEFINE unit == Head(out)
             said == Append(srv.parts, unit)
  <1>1. /\ out \in Seq(Units) /\ unit \in Units /\ unit = out[1] /\ Tail(out) \in Seq(Units)
        /\ Len(Tail(out)) = Len(out) - 1 /\ Len(out) \in Nat \ {0}
        /\ \A i \in 1 .. Len(Tail(out)) : Tail(out)[i] = out[i + 1]
    BY HeadTailProperties, EmptySeq DEF Post, Queues
  <1>2. /\ rx = << >> /\ srv.left = << >> /\ srv \in SmtpServers
        /\ unit.what = "message" /\ unit.msg = draft /\ srv.parts \o out = MessageUnits(draft)
        /\ \A i \in 1 .. Len(out) : out[i].what = "message" /\ out[i].msg = draft
        /\ draft \in Nat \ {0} /\ draft \in pressed
    BY <1>1 DEF Post, Turns, Left, ServerOfUser, Text, Drafts, Dialogues
  <1>3. srv.parts \in Seq(Units) /\ said \in Seq(Units)
    BY <1>1, <1>2 DEF SmtpServers
  <1>4. /\ said \o Tail(out) = MessageUnits(draft)
        /\ ~ unit.part < MSG_UNITS =>
             unit.part = MSG_UNITS /\ Tail(out) = << >> /\ said = MessageUnits(draft)
    BY <1>1, <1>2, <1>3, MessageGoesOn, ZenonT(40)
  <1>5. /\ << <<550, TRUE>> >> \in Seq(Lines) /\ << <<250, TRUE>> >> \in Seq(Lines)
        /\ OneReply(<< <<550, TRUE>> >>) /\ OneReply(<< <<250, TRUE>> >>)
        /\ NoYes(<< <<550, TRUE>> >>) /\ OneReply(<< >>) /\ NoYes(<< >>)
    <2>1. <<550, TRUE>> \in Lines /\ <<250, TRUE>> \in Lines
      <3>1. \A c \in Nat : <<c, TRUE>> \in Lines
        BY DEF Lines
      <3>2. 550 \in Nat /\ 250 \in Nat
        OBVIOUS
      <3> QED
        BY <3>1, <3>2, Zenon
    <2>2. <<550, TRUE>>[1] # 250
      OBVIOUS
    <2>3. OneReply(<< >>) /\ NoYes(<< >>)
      BY DEF OneReply, NoYes
    <2>4. NoYes(<< <<550, TRUE>> >>)
      <3> DEFINE no == <<550, TRUE>>
      <3>1. no \in Lines /\ no[1] # 250
        BY <2>1, <2>2
      <3> HIDE DEF no
      <3>2. NoYes(<< no >>)
        BY <3>1, OneLine
      <3> QED
        BY <3>2 DEF no
    <2>5. \A x \in Lines : << x >> \in Seq(Lines) /\ OneReply(<< x >>)
      BY OneLine
    <2>6. /\ << <<550, TRUE>> >> \in Seq(Lines) /\ << <<250, TRUE>> >> \in Seq(Lines)
          /\ OneReply(<< <<550, TRUE>> >>) /\ OneReply(<< <<250, TRUE>> >>)
      BY <2>1, <2>5, ZenonT(40)
    <2> QED
      BY <2>3, <2>4, <2>6
  <1>6. \/ unit.part < MSG_UNITS /\ srv' = [srv EXCEPT !.parts = said]
        \/ Tail(out) = << >> /\ srv' = [srv EXCEPT !.left = << <<550, TRUE>> >>]
        \/ /\ Tail(out) = << >>
           /\ srv' = [srv EXCEPT !.parts = said, !.took = draft, !.left = << <<250, TRUE>> >>]
    <2>1. CASE unit.part < MSG_UNITS
      BY <1>2, <2>1 DEF Answers
    <2>2. CASE ~ unit.part < MSG_UNITS
      <3>1. \/ srv' = [srv EXCEPT !.left = srv.left \o << <<550, TRUE>> >>]
            \/ srv' = [srv EXCEPT !.parts = said, !.took = draft,
                                  !.left = srv.left \o << <<250, TRUE>> >>]
        BY <1>2, <1>4, <2>2, ZenonT(40) DEF Answers, Yes
      <3>2. /\ srv.left \o << <<550, TRUE>> >> = << <<550, TRUE>> >>
            /\ srv.left \o << <<250, TRUE>> >> = << <<250, TRUE>> >>
        BY <1>2, <1>5
      <3>3. CASE srv' = [srv EXCEPT !.left = srv.left \o << <<550, TRUE>> >>]
        BY <1>4, <2>2, <3>2, <3>3
      <3>4. CASE srv' = [srv EXCEPT !.parts = said, !.took = draft,
                                    !.left = srv.left \o << <<250, TRUE>> >>]
        BY <1>4, <2>2, <3>2, <3>4
      <3> QED
        BY <3>1, <3>3, <3>4
    <2> QED
      BY <2>1, <2>2
  <1>7. /\ srv' \in SmtpServers /\ (srv'.took = srv.took \/ srv'.took = draft)
        /\ OneReply(srv'.left)
        /\ Tail(out) # << >> => srv'.left = << >> /\ srv'.parts = said
        /\ NoYes(srv'.left) \/ srv'.took = draft
    <2>1. CASE srv' = [srv EXCEPT !.parts = said] /\ unit.part < MSG_UNITS
      BY <1>2, <1>3, <1>5, <2>1 DEF SmtpServers
    <2>2. CASE srv' = [srv EXCEPT !.left = << <<550, TRUE>> >>] /\ Tail(out) = << >>
      <3> DEFINE no == << <<550, TRUE>> >>
      <3>1. no \in Seq(Lines) /\ srv' = [srv EXCEPT !.left = no]
        BY <1>5, <2>2
      <3> HIDE DEF no
      <3>2. srv' \in SmtpServers /\ srv'.left = no /\ srv'.took = srv.took
        BY <1>2, <3>1 DEF SmtpServers
      <3>3. OneReply(srv'.left) /\ NoYes(srv'.left)
        BY <1>5, <3>2 DEF no
      <3> QED
        BY <2>2, <3>2, <3>3
    <2>3. CASE /\ srv' = [srv EXCEPT !.parts = said, !.took = draft,
                                     !.left = << <<250, TRUE>> >>]
               /\ Tail(out) = << >>
      BY <1>2, <1>3, <1>5, <2>3 DEF SmtpServers
    <2> QED
      BY <1>6, <2>1, <2>2, <2>3
  <1>8. /\ accepted \subseteq accepted' /\ accepted' \subseteq pressed
        /\ srv'.took = draft => draft \in accepted'
    BY <1>2, <1>7 DEF Took, Post, ServerOfUser, Drafts, SmtpServers
  <1>9. Drafts' /\ ServerOfUser' /\ Queues'
    <2>1. Drafts'
      BY <1>8 DEF Post, Drafts
    <2>2. ServerOfUser'
      BY <1>2, <1>7 DEF Post, ServerOfUser, SmtpServers
    <2>3. Queues'
      BY <1>1 DEF Post, Queues, Dialogues
    <2> QED
      BY <2>1, <2>2, <2>3
  <1>10. Left' = srv'.left /\ NoLastLine(<< >>)
    BY DEF Left, NoLastLine
  <1>11. Turns'
    BY <1>2, <1>5, <1>7, <1>10 DEF Turns, OneReply, NoLastLine
  <1>12. Commands' /\ Parting'
    BY DEF Commands, Parting
  <1>13. Text'
    <2>1. (NoYes(rx) /\ NoYes(Left))' \/ draft' \in accepted'
      BY <1>2, <1>5, <1>7, <1>8, <1>10 DEF NoYes
    <2>2. \A i \in 1 .. Len(out') : out'[i].what = "message" /\ out'[i].msg = draft'
      BY <1>1, <1>2
    <2>3. out' # << >> => srv'.parts \o out' = MessageUnits(draft)
      BY <1>4, <1>7
    <2>4. MessageUnits(draft)' = MessageUnits(draft)
      BY DEF MessageUnits, Unit
    <2> QED
      BY <2>1, <2>2, <2>3, <2>4 DEF Text
  <1> QED
    BY <1>9, <1>11, <1>12, <1>13 DEF Post

\* One unit is sent, or the dialogue ends.
LEMMA FlushKeepsPost ==
  ASSUME IInv, Post, Flush
  PROVE  Post'
  <1> DEFINE sending == out # << >> /\ seen # "CLOSED"
  <1>1. /\ UNCHANGED <<rx, draft, edits, sent, pressed>> /\ accepted' = accepted \cup Took(srv')
        /\ out' = IF sending THEN Tail(out) ELSE out
        /\ sm \in Dialogues \cup {"quit"}
        /\ accepted \subseteq pressed
    BY DEF Flush, IInv, Typed, Polled, Talking, Post, Drafts
  <1>2. out \in Seq(Units) /\ out' \in Seq(Units) /\ rx' \in Seq(Lines)
    BY <1>1, HeadTailProperties DEF Post, Queues
  <1>3. ASSUME user' = user, srv' = srv
        PROVE  accepted \subseteq accepted' /\ accepted' \subseteq pressed
    BY <1>1, <1>3, TookIsFine DEF Took
  <1>6. sm = "quit" =>
          /\ \A i \in 1 .. Len(out') : out'[i].what # "message"
          /\ out # << >> => Head(out).what # "message"
    <2>1. out # << >> => /\ Head(out) = out[1] /\ Len(out) \in Nat \ {0}
                         /\ Len(Tail(out)) = Len(out) - 1
                         /\ \A i \in 1 .. Len(Tail(out)) : Tail(out)[i] = out[i + 1]
      BY <1>2, HeadTailProperties, EmptySeq
    <2> QED
      BY <1>1, <2>1 DEF Post, Parting
  <1>4. CASE sending
    <2>1. tcpSend("mail", Answers(Head(out))) /\ sm' = sm /\ ts' = ts /\ user' = user
      BY <1>4 DEF Flush, tcpSend
    <2>2. CASE srv' = srv /\ (user = "mail" /\ ts = "ESTABLISHED" => deaf')
      <3>1. accepted \subseteq accepted' /\ accepted' \subseteq pressed
        BY <1>3, <2>1, <2>2
      <3>2. CASE sm = "quit"
        BY <1>1, <1>2, <1>6, <2>1, <2>2, <3>1, <3>2, FailKeepsPost DEF Post, Drafts, Dialogues
      <3>3. CASE sm \in Dialogues
        BY <1>1, <1>4, <2>1, <2>2, <3>1, <3>3, LostKeepsPost
      <3> QED
        BY <1>1, <3>2, <3>3
    <2>3. CASE /\ user = "mail" /\ ts = "ESTABLISHED" /\ ~ deaf /\ deaf' = deaf
               /\ srv' \in Answers(Head(out))
      <3>1. CASE sm \in Dialogues \ {"body"}
        BY <1>1, <1>4, <2>1, <2>3, <3>1, CommandKeepsPost
      <3>2. CASE sm = "body"
        BY <1>1, <1>4, <2>1, <2>3, <3>2, PartKeepsPost
      <3>3. CASE sm = "quit"
        <4>1. PICK answer \in Seq(Lines) : srv' = [srv EXCEPT !.left = srv.left \o answer]
          BY <1>4, <1>6, <2>3, <3>3, AnswerToCommand
        <4>2. /\ srv \in SmtpServers /\ srv.left \o answer \in Seq(Lines)
              /\ srv' \in SmtpServers /\ srv'.took = srv.took /\ srv'.job = srv.job
          <5>1. srv \in SmtpServers
            BY <2>3 DEF Post, ServerOfUser
          <5>2. srv.left \in Seq(Lines) /\ srv.left \o answer \in Seq(Lines)
            BY <5>1 DEF SmtpServers
          <5> QED
            BY <4>1, <5>1, <5>2 DEF SmtpServers
        <4>3. ServerOfUser'
          BY <1>1, <2>1, <2>3, <3>3, <4>2 DEF Post, ServerOfUser, SmtpServers, Dialogues
        <4>4. Drafts'
          BY <1>1, <2>1, <3>3, <4>2, TookIsFine DEF Post, Drafts, Took, Dialogues
        <4> QED
          BY <1>1, <1>2, <1>6, <2>1, <3>3, <4>3, <4>4, OverKeepsPost DEF Dialogues
      <3> QED
        BY <1>1, <3>1, <3>2, <3>3
    <2> QED
      BY <2>1, <2>2, <2>3 DEF tcpSend
  <1>5. CASE ~ sending
    <2>1. /\ user' = user /\ srv' = srv /\ out' = out
          /\ \/ UNCHANGED <<link, sm>>
             \/ sm' \in {"done", "error"}
      BY <1>1, <1>5 DEF Flush, smtpFail, tcpAbort, link
    <2>2. accepted \subseteq accepted' /\ accepted' \subseteq pressed
      BY <1>3, <2>1
    <2>3. CASE UNCHANGED <<link, sm>>
      <3>1. Kept
        BY <2>3, BrowserCallsKeep
      <3>2. Drafts'
        BY <1>1, <2>2, <2>3 DEF Post, Drafts
      <3> QED
        BY <1>1, <2>1, <2>2, <2>3, <3>1, <3>2, OthersKeepPost
    <2>4. CASE sm' \in {"done", "error"}
      BY <1>1, <1>2, <2>1, <2>2, <2>4, FailKeepsPost DEF Post, Drafts, Dialogues
    <2> QED
      BY <2>1, <2>3, <2>4
  <1> QED
    BY <1>4, <1>5

\* The interrupt moves a reply line from the server to the ring.
LEMMA ReceivingKeepsPost ==
  ASSUME IInv, Post, MailReceives
  PROVE  Post'
  <1>1. /\ user = "mail" /\ ts = "ESTABLISHED" /\ srv.left # << >>
        /\ srv' = [srv EXCEPT !.left = Tail(srv.left)]
        /\ rx' = Append(rx, Head(srv.left)) \/ rx' = rx
        /\ UNCHANGED <<ts, user, deaf, sm, out, draft, edits, sent, pressed, accepted>>
    BY DEF MailReceives
  <1>2. /\ srv \in SmtpServers /\ srv.left \in Seq(Lines) /\ rx \in Seq(Lines)
        /\ srv.parts \in Seq(Units)
    BY <1>1 DEF Post, ServerOfUser, Queues, SmtpServers
  <1>3. /\ Tail(srv.left) \in Seq(Lines) /\ Head(srv.left) \in Lines
        /\ OneReply(srv.left) => /\ OneReply(Tail(srv.left))
                                 /\ Tail(srv.left) # << >> => ~ Head(srv.left)[2]
        /\ NoYes(srv.left) => NoYes(Tail(srv.left)) /\ Head(srv.left)[1] # 250
    BY <1>1, <1>2, TailOfReply, SMTT(30)
  <1>4. /\ srv' \in SmtpServers /\ srv'.left = Tail(srv.left)
        /\ srv'.took = srv.took /\ srv'.parts = srv.parts
    BY <1>1, <1>2, <1>3 DEF SmtpServers
  <1>5. Left = srv.left /\ Left' = Tail(srv.left)
    BY <1>1, <1>4 DEF Left
  <1>6. /\ rx' \in Seq(Lines)
        /\ NoLastLine(rx) /\ OneReply(rx) => OneReply(rx')
        /\ NoLastLine(rx) /\ ~ Head(srv.left)[2] => NoLastLine(rx')
        /\ NoYes(rx) /\ Head(srv.left)[1] # 250 => NoYes(rx')
    BY <1>1, <1>2, <1>3, AppendToReply
  <1>7. sm # "resolving"
    BY <1>1 DEF IInv, NoLeakedConnection, OnLine
  <1>8. Drafts' /\ ServerOfUser'
    BY <1>1, <1>4 DEF Post, Drafts, ServerOfUser
  <1>9. Queues'
    BY <1>1, <1>6, <1>7 DEF Post, Queues
  <1>10. sm \in Dialogues \cup {"connecting"} =>
           OneReply(rx) /\ OneReply(srv.left) /\ NoLastLine(rx) /\ out = << >>
    BY <1>1, <1>5 DEF Post, Turns
  <1>11. Turns'
    <2>1. /\ OneReply(rx)' = OneReply(rx') /\ OneReply(Left)' = OneReply(Left')
          /\ NoLastLine(rx)' = NoLastLine(rx')
      BY DEF OneReply, NoLastLine
    <2> QED
      BY <1>1, <1>3, <1>5, <1>6, <1>10, <2>1 DEF Turns
  <1>12. Commands' /\ Parting'
    BY <1>1, <1>4 DEF Post, Commands, Parting
  <1>13. Text'
    <2>1. NoYes(rx)' = NoYes(rx') /\ NoYes(Left)' = NoYes(Left')
      BY DEF NoYes
    <2>2. sm = "body" => (NoYes(rx') /\ NoYes(Left')) \/ draft \in accepted
      BY <1>3, <1>5, <1>6 DEF Post, Text
    <2> QED
      BY <1>1, <1>10, <2>1, <2>2 DEF Post, Text, Dialogues
  <1> QED
    BY <1>8, <1>9, <1>11, <1>12, <1>13 DEF Post

\* Together, every step of the mail program.
LEMMA MailKeepsPost ==
  ASSUME IInv, Post, MailNext
  PROVE  Post'
  BY UserKeepsPost, PollKeepsPost, LineKeepsPost, ReplyKeepsPost, EndKeepsPost,
     FlushKeepsPost, ReceivingKeepsPost DEF MailNext, MailSteps, ParseLine

\* Hence every step of the system.
LEMMA StepKeepsPost == IInv /\ Post /\ [Next]_vars => Post'
  <1> SUFFICES ASSUME IInv, Post, [Next]_vars PROVE Post'
    OBVIOUS
  <1>1. CASE UNCHANGED vars
    BY <1>1, BrowserCallsKeep, MailStays DEF vars
  <1>2. CASE LinkInterrupt /\ UNCHANGED <<loop, browser, mail>>
    BY <1>2, BrowserCallsKeep, MailStays
  <1> QED
    BY <1>1, <1>2, BrowserKeepsPost, MailKeepsPost DEF Next

\* The Sent folder lists only what a server has taken, and that is only what Send
\* was pressed for: however replies are cut into lines and delayed, whatever is
\* lost on the way, whenever the user gives up and sends again, and for messages
\* and rings of any size.
THEOREM SentWasAccepted == Spec => []SentIsAccepted
  <1>1. IInv /\ Post => SentIsAccepted
    BY RangeOfSeq DEF Post, Drafts, SentIsAccepted, Range
  <1>2. IInv /\ Post /\ [Next]_vars => Post'
    BY StepKeepsPost
  <1> QED
    BY <1>1, <1>2, InitInv, InitPost, Invariance, PTL DEF Spec

-----------------------------------------------------------------------------
(* Sequences, and recursion along them.                                    *)

IsSeq(s) == \E S : s \in Seq(S)

\* What a sequence is made of, whatever its elements are.
LEMMA SeqFacts ==
  ASSUME NEW s, IsSeq(s)
  PROVE  /\ Len(s) \in Nat /\ DOMAIN s = 1 .. Len(s)
         /\ s = << >> <=> Len(s) = 0
         /\ \A m \in 1 .. Len(s) + 1 : \A n \in m - 1 .. Len(s) :
              /\ IsSeq(SubSeq(s, m, n)) /\ Len(SubSeq(s, m, n)) = n - m + 1
              /\ \A i \in 1 .. n - m + 1 : SubSeq(s, m, n)[i] = s[m + i - 1]
         /\ s # << >> => /\ IsSeq(Tail(s)) /\ Len(Tail(s)) = Len(s) - 1 /\ Head(s) = s[1]
                         /\ \A i \in 1 .. Len(s) - 1 : Tail(s)[i] = s[i + 1]
  <1>1. PICK S : s \in Seq(S)
    BY DEF IsSeq
  <1>2. ASSUME NEW m \in 1 .. Len(s) + 1, NEW n \in m - 1 .. Len(s)
        PROVE  /\ SubSeq(s, m, n) \in Seq(S) /\ Len(SubSeq(s, m, n)) = n - m + 1
               /\ \A i \in 1 .. n - m + 1 : SubSeq(s, m, n)[i] = s[m + i - 1]
    BY <1>1
  <1>3. s # << >> => /\ Tail(s) \in Seq(S) /\ Len(Tail(s)) = Len(s) - 1 /\ Head(s) = s[1]
                     /\ \A i \in 1 .. Len(s) - 1 : Tail(s)[i] = s[i + 1]
    BY <1>1
  <1>4. Len(s) \in Nat /\ DOMAIN s = 1 .. Len(s) /\ (s = << >> <=> Len(s) = 0)
    BY <1>1
  <1> QED
    BY <1>2, <1>3, <1>4 DEF IsSeq

\* One element more.
LEMMA AppendFacts ==
  ASSUME NEW s, IsSeq(s), NEW x
  PROVE  /\ IsSeq(Append(s, x)) /\ Len(Append(s, x)) = Len(s) + 1
         /\ Append(s, x)[Len(s) + 1] = x /\ Append(s, x) # << >>
         /\ \A i \in 1 .. Len(s) : Append(s, x)[i] = s[i]
  <1>1. PICK S : s \in Seq(S)
    BY DEF IsSeq
  <1>2. s \in Seq(S \cup {x}) /\ x \in S \cup {x}
    BY <1>1
  <1>3. /\ Append(s, x) \in Seq(S \cup {x}) /\ Len(Append(s, x)) = Len(s) + 1
        /\ Append(s, x)[Len(s) + 1] = x /\ Append(s, x) # << >>
        /\ \A i \in 1 .. Len(s) : Append(s, x)[i] = s[i]
    BY <1>2
  <1> QED
    BY <1>3 DEF IsSeq

\* One sequence behind another one.
LEMMA ConcatFacts ==
  ASSUME NEW s, IsSeq(s), NEW t, IsSeq(t)
  PROVE  /\ IsSeq(s \o t) /\ Len(s \o t) = Len(s) + Len(t)
         /\ \A i \in 1 .. Len(s) : (s \o t)[i] = s[i]
         /\ \A i \in 1 .. Len(t) : (s \o t)[Len(s) + i] = t[i]
         /\ s = << >> => s \o t = t
         /\ t = << >> => s \o t = s
  <1>1. PICK S : s \in Seq(S)
    BY DEF IsSeq
  <1>2. PICK T : t \in Seq(T)
    BY DEF IsSeq
  <1>3. s \in Seq(S \cup T) /\ t \in Seq(S \cup T)
    BY <1>1, <1>2
  <1>4. /\ s \o t \in Seq(S \cup T) /\ Len(s \o t) = Len(s) + Len(t)
        /\ \A i \in 1 .. Len(s) : (s \o t)[i] = s[i]
        /\ \A i \in 1 .. Len(t) : (s \o t)[Len(s) + i] = t[i]
    BY <1>3
  <1>5. /\ s = << >> => s \o t = t
        /\ t = << >> => s \o t = s
    BY <1>3
  <1> QED
    BY <1>4, <1>5 DEF IsSeq

\* Sequences are equal when their lengths and elements are.
LEMMA SameSeq ==
  ASSUME NEW s, IsSeq(s), NEW t, IsSeq(t), Len(s) = Len(t), \A i \in 1 .. Len(s) : s[i] = t[i]
  PROVE  s = t
  <1>1. PICK S : s \in Seq(S)
    BY DEF IsSeq
  <1>2. PICK T : t \in Seq(T)
    BY DEF IsSeq
  <1>3. s \in Seq(S \cup T) /\ t \in Seq(S \cup T)
    BY <1>1, <1>2
  <1> QED
    BY <1>3, SeqEqual

\* A function over 1 .. n is a sequence.
LEMMA ListFacts ==
  ASSUME NEW n \in Nat, NEW f, DOMAIN f = 1 .. n, f = [i \in 1 .. n |-> f[i]]
  PROVE  IsSeq(f) /\ Len(f) = n
  <1>1. f \in [1 .. n -> {f[i] : i \in 1 .. n}]
    OBVIOUS
  <1>2. f \in Seq({f[i] : i \in 1 .. n}) /\ Len(f) = n
    BY <1>1
  <1> QED
    BY <1>2 DEF IsSeq

\* The shortest sequences.
LEMMA SmallSeqs ==
  /\ IsSeq(<< >>) /\ Len(<< >>) = 0
  /\ \A x : IsSeq(<< x >>) /\ Len(<< x >>) = 1 /\ << x >>[1] = x
  <1>1. << >> \in Seq({}) /\ Len(<< >>) = 0
    OBVIOUS
  <1>2. ASSUME NEW x PROVE << x >> \in Seq({x}) /\ Len(<< x >>) = 1 /\ << x >>[1] = x
    OBVIOUS
  <1> QED
    BY <1>1, <1>2 DEF IsSeq

\* The first number in a set.
LEMMA FirstIsIn ==
  ASSUME NEW S \in SUBSET Nat, S # {}
  PROVE  \E x \in S : \A y \in S : x <= y
  <1> DEFINE less == OpToRel(<, Nat)
  <1>1. IsWellFoundedOn(less, Nat)
    BY NatLessThanWellFounded
  <1>2. \A x \in Nat, y \in Nat : x < y => <<x, y>> \in less
    BY DEF OpToRel
  <1> HIDE DEF less
  <1>3. PICK x \in S : \A y \in S : <<y, x>> \notin less
    BY <1>1, WFMin
  <1>4. ASSUME NEW y \in S PROVE x <= y
    <2>1. x \in Nat /\ y \in Nat
      OBVIOUS
    <2>2. ~ y < x
      BY <1>2, <1>3, <2>1
    <2> QED
      BY <2>1, <2>2
  <1> QED
    BY <1>4

\* Induction over an interval.
LEMMA Induction ==
  ASSUME NEW n \in Nat, NEW S, 0 \in S, \A k \in 1 .. n : k - 1 \in S => k \in S
  PROVE  0 .. n \subseteq S
  <1> SUFFICES ASSUME (0 .. n) \ S # {} PROVE FALSE
    OBVIOUS
  <1>1. PICK first \in (0 .. n) \ S : \A y \in (0 .. n) \ S : first <= y
    <2> DEFINE T == (0 .. n) \ S
    <2>1. T \in SUBSET Nat /\ T # {}
      OBVIOUS
    <2> HIDE DEF T
    <2>2. \E x \in T : \A y \in T : x <= y
      BY <2>1, FirstIsIn
    <2> QED
      BY <2>2 DEF T
  <1>2. first - 1 \in S /\ first \in 1 .. n
    BY <1>1
  <1> QED
    BY <1>1, <1>2

\* What the messages make of the client, one after the other.
LEMMA HandledIs ==
  ASSUME NEW t, NEW msgs, IsSeq(msgs)
  PROVE  \E f : /\ f[0] = t /\ Handled(t, msgs) = f[Len(msgs)]
               /\ \A k \in 1 .. Len(msgs) : f[k] = HandleMessage(f[k - 1], msgs[k])
  <1> DEFINE n == Len(msgs)
             Step(k, v) == HandleMessage(v, msgs[k])
             Is(f) == f = [k \in 0 .. n |-> IF k = 0 THEN t ELSE Step(k, f[k - 1])]
             after == CHOOSE f : Is(f)
             Upto(k, f) == /\ DOMAIN f = 0 .. k /\ f = [l \in 0 .. k |-> f[l]]
                           /\ \A l \in 0 .. k : f[l] = IF l = 0 THEN t ELSE Step(l, f[l - 1])
             S == {k \in 0 .. n : \E f : Upto(k, f)}
  <1>1. n \in Nat
    BY SeqFacts
  <1>s. Handled(t, msgs) = after[n]
    BY DEF Handled
  <1> HIDE DEF n, Step
  <1>2. 0 \in S
    <2>1. Upto(0, [l \in 0 .. 0 |-> t])
      OBVIOUS
    <2> HIDE DEF Upto
    <2> QED
      BY <1>1, <2>1
  <1>3. ASSUME NEW k \in 1 .. n, k - 1 \in S PROVE k \in S
    <2>1. PICK f : Upto(k - 1, f)
      BY <1>3
    <2> DEFINE g == [l \in 0 .. k |-> IF l = k THEN Step(k, f[k - 1]) ELSE f[l]]
    <2>2. DOMAIN g = 0 .. k /\ g = [l \in 0 .. k |-> g[l]]
      OBVIOUS
    <2>3. ASSUME NEW l \in 0 .. k PROVE g[l] = IF l = 0 THEN t ELSE Step(l, g[l - 1])
      <3>1. CASE l = k
        <4>1. k - 1 \in 0 .. k /\ k - 1 # k /\ g[k - 1] = f[k - 1]
          BY <1>1
        <4> QED
          BY <1>1, <3>1, <4>1
      <3>2. CASE l # k
        <4>1. l \in 0 .. k - 1 /\ g[l] = f[l]
          BY <1>1, <3>2
        <4>2. l # 0 => l - 1 \in 0 .. k - 1 /\ l - 1 # k /\ g[l - 1] = f[l - 1]
          BY <1>1, <4>1
        <4> QED
          BY <2>1, <4>1, <4>2
      <3> QED
        BY <3>1, <3>2
    <2> HIDE DEF g
    <2>4. Upto(k, g)
      BY <2>2, <2>3
    <2> HIDE DEF Upto
    <2> QED
      BY <2>4
  <1>4. n \in S
    <2> HIDE DEF S
    <2>1. 0 .. n \subseteq S
      BY <1>1, <1>2, <1>3, Induction
    <2> QED
      BY <1>1, <2>1
  <1>5. PICK f : Upto(n, f)
    BY <1>4
  <1>6. Is(f)
    BY <1>5
  <1>7. Is(after)
    <2> HIDE DEF Is
    <2> QED
      BY <1>6
  <1> HIDE DEF after
  <1>8. after[0] = t /\ \A k \in 1 .. n : after[k] = Step(k, after[k - 1])
    BY <1>1, <1>7
  <1> QED
    BY <1>s, <1>8 DEF n, Step

\* The handshake messages among others.
Picks(s, m) == IF m.kind \in {"ChangeCipherSpec", "GET"} THEN s ELSE Append(s, m)

\* The selection of the handshake messages, one message after the other.
LEMMA HandshakesIs ==
  ASSUME NEW msgs, IsSeq(msgs)
  PROVE  \E f : /\ f[0] = << >> /\ Handshakes(msgs) = f[Len(msgs)]
               /\ \A k \in 1 .. Len(msgs) : f[k] = Picks(f[k - 1], msgs[k])
  <1> DEFINE n == Len(msgs)
             Step(k, v) == Picks(v, msgs[k])
             Is(f) == f = [k \in 0 .. n |-> IF k = 0 THEN << >> ELSE Step(k, f[k - 1])]
             after == CHOOSE f : Is(f)
             Upto(k, f) == /\ DOMAIN f = 0 .. k /\ f = [l \in 0 .. k |-> f[l]]
                           /\ \A l \in 0 .. k : f[l] = IF l = 0 THEN << >> ELSE Step(l, f[l - 1])
             S == {k \in 0 .. n : \E f : Upto(k, f)}
  <1>1. n \in Nat
    BY SeqFacts
  <1>s. Handshakes(msgs) = after[n]
    BY DEF Handshakes, Picks
  <1> HIDE DEF n, Step
  <1>2. 0 \in S
    <2>1. Upto(0, [l \in 0 .. 0 |-> << >>])
      OBVIOUS
    <2> HIDE DEF Upto
    <2> QED
      BY <1>1, <2>1
  <1>3. ASSUME NEW k \in 1 .. n, k - 1 \in S PROVE k \in S
    <2>1. PICK f : Upto(k - 1, f)
      BY <1>3
    <2> DEFINE g == [l \in 0 .. k |-> IF l = k THEN Step(k, f[k - 1]) ELSE f[l]]
    <2>2. DOMAIN g = 0 .. k /\ g = [l \in 0 .. k |-> g[l]]
      OBVIOUS
    <2>3. ASSUME NEW l \in 0 .. k PROVE g[l] = IF l = 0 THEN << >> ELSE Step(l, g[l - 1])
      <3>1. CASE l = k
        <4>1. k - 1 \in 0 .. k /\ k - 1 # k /\ g[k - 1] = f[k - 1]
          BY <1>1
        <4> QED
          BY <1>1, <3>1, <4>1
      <3>2. CASE l # k
        <4>1. l \in 0 .. k - 1 /\ g[l] = f[l]
          BY <1>1, <3>2
        <4>2. l # 0 => l - 1 \in 0 .. k - 1 /\ l - 1 # k /\ g[l - 1] = f[l - 1]
          BY <1>1, <4>1
        <4> QED
          BY <2>1, <4>1, <4>2
      <3> QED
        BY <3>1, <3>2
    <2> HIDE DEF g
    <2>4. Upto(k, g)
      BY <2>2, <2>3
    <2> HIDE DEF Upto
    <2> QED
      BY <2>4
  <1>4. n \in S
    <2> HIDE DEF S
    <2>1. 0 .. n \subseteq S
      BY <1>1, <1>2, <1>3, Induction
    <2> QED
      BY <1>1, <2>1
  <1>5. PICK f : Upto(n, f)
    BY <1>4
  <1>6. Is(f)
    BY <1>5
  <1>7. Is(after)
    <2> HIDE DEF Is
    <2> QED
      BY <1>6
  <1> HIDE DEF after
  <1>8. after[0] = << >> /\ \A k \in 1 .. n : after[k] = Step(k, after[k - 1])
    BY <1>1, <1>7
  <1> QED
    BY <1>s, <1>8 DEF n, Step

\* Behind another message.
LEMMA HandshakesAppend ==
  ASSUME NEW s, IsSeq(s), NEW m
  PROVE  Handshakes(Append(s, m)) = Picks(Handshakes(s), m)
  <1> DEFINE n == Len(s)
             q == Append(s, m)
  <1>1. n \in Nat /\ IsSeq(q) /\ Len(q) = n + 1 /\ q[n + 1] = m /\ \A i \in 1 .. n : q[i] = s[i]
    BY SeqFacts, AppendFacts
  <1> HIDE DEF n, q
  <1>2. PICK f : /\ f[0] = << >> /\ Handshakes(s) = f[n]
                 /\ \A k \in 1 .. n : f[k] = Picks(f[k - 1], s[k])
    BY HandshakesIs DEF n
  <1>3. PICK g : /\ g[0] = << >> /\ Handshakes(q) = g[n + 1]
                 /\ \A k \in 1 .. n + 1 : g[k] = Picks(g[k - 1], q[k])
    <2>1. \E g : /\ g[0] = << >> /\ Handshakes(q) = g[Len(q)]
                 /\ \A k \in 1 .. Len(q) : g[k] = Picks(g[k - 1], q[k])
      BY ONLY <1>1, HandshakesIs
    <2> QED
      BY ONLY <1>1, <2>1
  <1> DEFINE S == {k \in 0 .. n : f[k] = g[k]}
  <1>4. 0 \in S
    BY <1>1, <1>2, <1>3
  <1>5. \A k \in 1 .. n : k - 1 \in S => k \in S
    BY <1>1, <1>2, <1>3
  <1>6. n \in S
    <2> HIDE DEF S
    <2>1. 0 .. n \subseteq S
      BY <1>1, <1>4, <1>5, Induction
    <2> QED
      BY <1>1, <2>1
  <1>7. g[n + 1] = Picks(g[n], m)
    BY <1>1, <1>3
  <1> QED
    BY <1>2, <1>3, <1>6, <1>7 DEF q

\* Of no messages there are none.
LEMMA HandshakesNone == Handshakes(<< >>) = << >>
  <1>1. IsSeq(<< >>) /\ Len(<< >>) = 0
    BY SmallSeqs
  <1>2. \E f : f[0] = << >> /\ Handshakes(<< >>) = f[Len(<< >>)]
    BY <1>1, HandshakesIs
  <1> QED
    BY <1>1, <1>2

\* The last element and the others.
LEMMA AppendParts ==
  ASSUME NEW s, IsSeq(s), NEW x
  PROVE  /\ Last(Append(s, x)) = x /\ Front(Append(s, x)) = s
         /\ \A y : y \in Range(Append(s, x)) <=> y \in Range(s) \/ y = x
         /\ \A q : IsSeq(q) => q \o Append(s, x) = Append(q \o s, x)
  <1> DEFINE t == Append(s, x)
             n == Len(s)
  <1>1. /\ n \in Nat /\ DOMAIN s = 1 .. n /\ IsSeq(t) /\ Len(t) = n + 1 /\ DOMAIN t = 1 .. n + 1
        /\ t[n + 1] = x /\ \A i \in 1 .. n : t[i] = s[i]
    BY SeqFacts, AppendFacts
  <1> HIDE DEF t
  <1>2. Last(t) = x
    BY <1>1 DEF Last
  <1>3. Front(t) = s
    <2>1. Front(t) = SubSeq(t, 1, n)
      BY <1>1 DEF Front
    <2>2. /\ IsSeq(SubSeq(t, 1, n)) /\ Len(SubSeq(t, 1, n)) = n
          /\ \A i \in 1 .. n : SubSeq(t, 1, n)[i] = t[i]
      <3>1. 1 \in 1 .. Len(t) + 1 /\ n \in 1 - 1 .. Len(t)
        BY <1>1
      <3>2. /\ IsSeq(SubSeq(t, 1, n)) /\ Len(SubSeq(t, 1, n)) = n - 1 + 1
            /\ \A i \in 1 .. n - 1 + 1 : SubSeq(t, 1, n)[i] = t[1 + i - 1]
        BY ONLY <1>1, <3>1, SeqFacts
      <3> QED
        BY <1>1, <3>2
    <2> QED
      BY <1>1, <2>1, <2>2, SameSeq
  <1>4. \A y : y \in Range(t) <=> y \in Range(s) \/ y = x
    <2>1. n + 1 \in 1 .. n + 1 /\ \A i \in 1 .. n + 1 : i = n + 1 \/ i \in 1 .. n
      BY <1>1
    <2> QED
      BY <1>1, <2>1 DEF Range
  <1>5. ASSUME NEW q, IsSeq(q) PROVE q \o Append(s, x) = Append(q \o s, x)
    <2>1. PICK S : s \in Seq(S)
      BY DEF IsSeq
    <2>2. PICK T : q \in Seq(T)
      BY <1>5 DEF IsSeq
    <2>3. s \in Seq(S \cup T \cup {x}) /\ q \in Seq(S \cup T \cup {x}) /\ x \in S \cup T \cup {x}
      BY <2>1, <2>2
    <2> QED
      BY <2>3
  <1> QED
    BY <1>2, <1>3, <1>4, <1>5 DEF t

-----------------------------------------------------------------------------
(* The client of module Tls.                                               *)

Fields == {"state", "gotHello", "gotKeyExchange", "certRequested", "sentFinished", "encIn",
           "hash", "rdSeq", "rec", "hs", "out", "data"}

Client(t) ==
  /\ DOMAIN t = Fields
  /\ IsSeq(t.hash) /\ IsSeq(t.rec) /\ IsSeq(t.hs) /\ IsSeq(t.out) /\ IsSeq(t.data)
  /\ t.rdSeq \in Nat

\* t and u differ in those fields at most.
But(X, t, u) == \A f \in Fields \ X : u[f] = t[f]

\* A client that has failed has changed in nothing else.
LEMMA FailIs ==
  ASSUME NEW t, Client(t)
  PROVE  Client(Fail(t)) /\ Fail(t).state = "failed" /\ But({"state"}, t, Fail(t))
  BY DEF Client, Fields, Fail, But

\* What is sent is handed over, and a handshake message enters the digest, too.
LEMMA SendIs ==
  ASSUME NEW t, Client(t), NEW m
  PROVE  /\ Client(sendRecord(t, m)) /\ sendRecord(t, m).out = Append(t.out, m)
         /\ But({"out"}, t, sendRecord(t, m))
         /\ Client(sendHandshake(t, m)) /\ sendHandshake(t, m).out = Append(t.out, m)
         /\ sendHandshake(t, m).hash = Append(t.hash, m)
         /\ But({"out", "hash"}, t, sendHandshake(t, m))
  <1>1. IsSeq(Append(t.out, m)) /\ IsSeq(Append(t.hash, m))
    BY AppendFacts DEF Client
  <1>2. /\ Client(sendRecord(t, m)) /\ sendRecord(t, m).out = Append(t.out, m)
        /\ But({"out"}, t, sendRecord(t, m))
    BY <1>1 DEF Client, Fields, sendRecord, But
  <1>3. /\ Client(sendHandshake(t, m)) /\ sendHandshake(t, m).out = Append(t.out, m)
        /\ sendHandshake(t, m).hash = Append(t.hash, m)
        /\ But({"out", "hash"}, t, sendHandshake(t, m))
    BY <1>1 DEF Client, Fields, sendRecord, sendHandshake, But
  <1> QED
    BY <1>2, <1>3

\* The answer to ServerHelloDone.
LEMMA HelloDoneIs ==
  ASSUME NEW t, Client(t), t.gotHello, t.gotKeyExchange
  PROVE  LET u == handleHelloDone(t)
             asked == IF t.certRequested THEN Append(t.hash, Plain("Certificate")) ELSE t.hash
             said  == IF t.certRequested THEN Append(t.out, Plain("Certificate")) ELSE t.out
             keys  == Append(asked, Plain("ClientKeyExchange"))
             fin   == Message("Finished", keys)
         IN  /\ Client(u) /\ u.sentFinished = TRUE
             /\ u.hash = Append(keys, fin)
             /\ u.out = Append(Append(Append(said, Plain("ClientKeyExchange")),
                                      Plain("ChangeCipherSpec")), fin)
             /\ But({"hash", "out", "sentFinished"}, t, u)
  <1> DEFINE asked == IF t.certRequested THEN sendHandshake(t, Plain("Certificate")) ELSE t
             told  == sendHandshake(asked, Plain("ClientKeyExchange"))
             keys  == sendRecord(told, Plain("ChangeCipherSpec"))
             fin   == Message("Finished", keys.hash)
             last  == sendHandshake(keys, fin)
  <1>1. /\ Client(asked) /\ But({"out", "hash"}, t, asked)
        /\ asked.hash = IF t.certRequested THEN Append(t.hash, Plain("Certificate")) ELSE t.hash
        /\ asked.out = IF t.certRequested THEN Append(t.out, Plain("Certificate")) ELSE t.out
    BY SendIs DEF But
  <1>2. handleHelloDone(t) = [last EXCEPT !.sentFinished = TRUE]
    BY DEF handleHelloDone, SaysFinished, SaysKeys
  <1> HIDE DEF asked
  <1>3. /\ Client(told) /\ But({"out", "hash"}, asked, told)
        /\ told.hash = Append(asked.hash, Plain("ClientKeyExchange"))
        /\ told.out = Append(asked.out, Plain("ClientKeyExchange"))
    BY <1>1, SendIs
  <1> HIDE DEF told
  <1>4. /\ Client(keys) /\ But({"out"}, told, keys)
        /\ keys.out = Append(told.out, Plain("ChangeCipherSpec"))
    BY <1>3, SendIs
  <1> HIDE DEF keys
  <1>5. /\ Client(last) /\ But({"out", "hash"}, keys, last)
        /\ last.hash = Append(keys.hash, fin) /\ last.out = Append(keys.out, fin)
    BY <1>4, SendIs
  <1>6. keys.hash = told.hash
    BY <1>4 DEF But, Fields
  <1> HIDE DEF last
  <1> DEFINE u == [last EXCEPT !.sentFinished = TRUE]
  <1>7. Client(u) /\ u.sentFinished = TRUE /\ But({"sentFinished"}, last, u)
    BY <1>5 DEF Client, Fields, But
  <1> HIDE DEF u
  <1>8. u.hash = last.hash /\ u.out = last.out
    BY <1>7 DEF But, Fields
  <1>9. But({"hash", "out", "sentFinished"}, t, u)
    BY <1>1, <1>3, <1>4, <1>5, <1>7 DEF But
  <1> QED
    BY <1>1, <1>2, <1>3, <1>4, <1>5, <1>6, <1>7, <1>8, <1>9 DEF u, fin

\* What a message leaves alone, and when the handshake is over.
Moved == {"state", "gotHello", "gotKeyExchange", "certRequested", "sentFinished", "hash", "out"}

Turned(t, u) ==
  /\ Client(u) /\ But(Moved, t, u)
  /\ t.state # "handshake" => u = t
  /\ u.state \in {t.state, "failed", "ready"}

\* Whatever the message: a handshake ends well only with a Finished message that fits.
LEMMA MessageTurns ==
  ASSUME NEW t, Client(t), NEW m
  PROVE  LET u == HandleMessage(t, m)
         IN  /\ Turned(t, u)
             /\ t.state = "handshake" /\ u.state = "ready" =>
                  m.kind = "Finished" /\ m.digest = u.hash
  <1> DEFINE u == HandleMessage(t, m)
             h == IF m.kind = "Finished" THEN t ELSE [t EXCEPT !.hash = Append(@, m)]
             Goal == /\ Turned(t, u)
                     /\ t.state = "handshake" /\ u.state = "ready" =>
                          m.kind = "Finished" /\ m.digest = u.hash
  <1> SUFFICES Goal
    OBVIOUS
  <1>1. Client(h) /\ But({"hash"}, t, h) /\ (m.kind = "Finished" => h = t)
    <2>1. IsSeq(Append(t.hash, m))
      BY AppendFacts DEF Client
    <2> QED
      BY <2>1 DEF Client, Fields, But
  <1>2. h.state = t.state
    BY <1>1 DEF But, Fields
  <1>3. CASE t.state # "handshake"
    <2>1. u = t
      BY <1>3 DEF HandleMessage
    <2> QED
      BY <1>3, <2>1 DEF Turned, But
  <1>u. t.state = "handshake" =>
          u = CASE m.kind = "ServerHello"        -> handleServerHello(h)
                [] m.kind = "ServerKeyExchange"  -> handleKeyExchange(h)
                [] m.kind = "CertificateRequest" -> [h EXCEPT !.certRequested = TRUE]
                [] m.kind = "ServerHelloDone"    -> handleHelloDone(h)
                [] m.kind = "Finished"           -> handleFinished(h, m)
                [] OTHER                         -> h
    BY DEF HandleMessage
  <1> HIDE DEF h, u
  <1>4. Client(Fail(h)) /\ Fail(h).state = "failed" /\ But({"state"}, h, Fail(h))
    BY <1>1, FailIs
  <1>5. ASSUME t.state = "handshake", u = Fail(h) PROVE Goal
    BY <1>1, <1>4, <1>5 DEF Turned, But, Moved
  <1>6. ASSUME t.state = "handshake", Client(u), But({"gotHello", "gotKeyExchange",
               "certRequested", "sentFinished", "hash", "out"}, h, u)
        PROVE Goal
    <2>1. u.state = "handshake"
      BY <1>2, <1>6 DEF But, Fields
    <2>2. But(Moved, t, u)
      BY <1>1, <1>6 DEF But, Moved
    <2> QED
      BY <1>6, <2>1, <2>2 DEF Turned
  <1>7. CASE t.state = "handshake" /\ m.kind = "ServerHello"
    <2> DEFINE v == [h EXCEPT !.gotHello = TRUE]
    <2>1. u = Fail(h) \/ u = v
      BY <1>u, <1>7 DEF handleServerHello
    <2>2. Client(v) /\ But({"gotHello"}, h, v)
      BY <1>1 DEF Client, Fields, But
    <2> HIDE DEF v
    <2>3. u = v => Goal
      BY <1>6, <1>7, <2>2 DEF But
    <2> QED
      BY <1>5, <1>7, <2>1, <2>3
  <1>8. CASE t.state = "handshake" /\ m.kind = "ServerKeyExchange"
    <2> DEFINE v == [h EXCEPT !.gotKeyExchange = TRUE]
    <2>1. u = Fail(h) \/ u = v
      BY <1>u, <1>8 DEF handleKeyExchange
    <2>2. Client(v) /\ But({"gotKeyExchange"}, h, v)
      BY <1>1 DEF Client, Fields, But
    <2> HIDE DEF v
    <2>3. u = v => Goal
      BY <1>6, <1>8, <2>2 DEF But
    <2> QED
      BY <1>5, <1>8, <2>1, <2>3
  <1>9. CASE t.state = "handshake" /\ m.kind = "CertificateRequest"
    <2> DEFINE v == [h EXCEPT !.certRequested = TRUE]
    <2>1. u = v
      BY <1>u, <1>9
    <2>2. Client(v) /\ But({"certRequested"}, h, v)
      BY <1>1 DEF Client, Fields, But
    <2> HIDE DEF v
    <2> QED
      BY <1>6, <1>9, <2>1, <2>2 DEF But
  <1>10. CASE t.state = "handshake" /\ m.kind = "ServerHelloDone"
    <2>1. u = handleHelloDone(h)
      BY <1>u, <1>10
    <2>2. CASE ~ h.gotHello \/ ~ h.gotKeyExchange
      BY <1>5, <1>10, <2>1, <2>2 DEF handleHelloDone
    <2>3. CASE h.gotHello /\ h.gotKeyExchange
      <3>1. Client(u) /\ But({"hash", "out", "sentFinished"}, h, u)
        BY <1>1, <2>1, <2>3, HelloDoneIs
      <3> QED
        BY <1>6, <1>10, <3>1 DEF But
    <2> QED
      BY <2>2, <2>3
  <1>11. CASE t.state = "handshake" /\ m.kind = "Finished"
    <2> DEFINE v == [t EXCEPT !.state = "ready"]
    <2>1. u = Fail(h) \/ (u = v /\ m.digest = t.hash)
      BY <1>u, <1>1, <1>11 DEF handleFinished
    <2>2. Client(v) /\ But({"state"}, t, v) /\ v.state = "ready"
      BY <1>1 DEF Client, Fields, But
    <2> HIDE DEF v
    <2>3. v.hash = t.hash /\ But(Moved, t, v)
      BY <2>2 DEF But, Fields, Moved
    <2>4. u = v /\ m.digest = t.hash => Goal
      BY <1>11, <2>2, <2>3 DEF Turned
    <2> QED
      BY <1>5, <1>11, <2>1, <2>4
  <1>12. CASE t.state = "handshake" /\ m.kind \notin {"ServerHello", "ServerKeyExchange",
                "CertificateRequest", "ServerHelloDone", "Finished"}
    <2>1. u = h
      BY <1>u, <1>12
    <2>2. But({}, h, u)
      BY <2>1 DEF But
    <2> QED
      BY <1>1, <1>6, <1>12, <2>1, <2>2 DEF But
  <1> QED
    BY <1>3, <1>7, <1>8, <1>9, <1>10, <1>11, <1>12 DEF u

\* Dividing by two.
LEMMA Halved ==
  ASSUME NEW l \in Nat
  PROVE  /\ l \div 2 \in Nat /\ 2 * (l \div 2) <= l /\ l <= 2 * (l \div 2) + 1
         /\ l % 2 = l - 2 * (l \div 2)
  OBVIOUS

\* Two messages in a row.
LEMMA TurnedTwice ==
  ASSUME NEW t, NEW v, NEW u, Turned(t, v), Turned(v, u)
  PROVE  Turned(t, u)
  <1>1. Client(u) /\ But(Moved, t, u)
    BY DEF Turned, But
  <1> QED
    BY <1>1 DEF Turned

\* The same of all the messages of a record.
LEMMA HandledTurns ==
  ASSUME NEW t, Client(t), NEW msgs, IsSeq(msgs)
  PROVE  LET u == Handled(t, msgs)
         IN  /\ Turned(t, u)
             /\ t.state = "handshake" /\ u.state = "ready" =>
                  \E k \in 1 .. Len(msgs) : msgs[k].kind = "Finished" /\ msgs[k].digest = u.hash
  <1> DEFINE n == Len(msgs)
             Over(z) == t.state = "handshake" /\ z.state = "ready" =>
                  \E k \in 1 .. n : msgs[k].kind = "Finished" /\ msgs[k].digest = z.hash
  <1>0. \E f : /\ f[0] = t /\ Handled(t, msgs) = f[Len(msgs)]
               /\ \A k \in 1 .. Len(msgs) : f[k] = HandleMessage(f[k - 1], msgs[k])
    BY ONLY IsSeq(msgs), HandledIs, SMTT(30)
  <1>1. n \in Nat
    BY SeqFacts
  <1>2. PICK f : /\ f[0] = t /\ Handled(t, msgs) = f[n]
                 /\ \A k \in 1 .. n : f[k] = HandleMessage(f[k - 1], msgs[k])
    BY ONLY <1>0
  <1> HIDE DEF n, Over
  <1> DEFINE S == {k \in 0 .. n : Turned(t, f[k]) /\ Over(f[k])}
  <1>3. 0 \in S
    BY <1>1, <1>2 DEF Turned, But, Over
  <1>4. ASSUME NEW k \in 1 .. n, k - 1 \in S PROVE k \in S
    <2>1. /\ k \in 0 .. n /\ f[k] = HandleMessage(f[k - 1], msgs[k])
          /\ Turned(t, f[k - 1]) /\ Over(f[k - 1]) /\ Client(f[k - 1])
      BY <1>1, <1>2, <1>4 DEF Turned
    <2>2. PICK v : v = f[k - 1]
      OBVIOUS
    <2>3. PICK u : u = f[k]
      OBVIOUS
    <2>4. /\ Turned(v, u)
          /\ v.state = "handshake" /\ u.state = "ready" =>
               msgs[k].kind = "Finished" /\ msgs[k].digest = u.hash
      BY <2>1, <2>2, <2>3, MessageTurns
    <2>5. Turned(t, u)
      BY <2>1, <2>2, <2>4, TurnedTwice
    <2>6. Over(u)
      <3>1. CASE v.state = "handshake"
        BY <2>4, <3>1 DEF Over
      <3>2. CASE v.state # "handshake"
        BY <2>1, <2>2, <2>4, <3>2 DEF Turned
      <3> QED
        BY <3>1, <3>2
    <2> QED
      BY <2>1, <2>3, <2>5, <2>6
  <1>5. n \in S
    <2> HIDE DEF S
    <2>1. 0 .. n \subseteq S
      BY <1>1, <1>3, <1>4, Induction
    <2> QED
      BY <1>1, <2>1
  <1> QED
    BY <1>2, <1>5 DEF n, Over

\* The bytes of the handshake that have come in.
LEMMA HandshakeTurns ==
  ASSUME NEW t, Client(t)
  PROVE  LET u == processHandshake(t)
         IN  /\ Client(u) /\ But(Moved \cup {"hs"}, t, u)
             /\ \A i \in 1 .. Len(u.hs) : \E j \in 1 .. Len(t.hs) : u.hs[i] = t.hs[j]
             /\ u.state \in {t.state, "failed", "ready"}
             /\ t.state = "ready" => u.hash = t.hash
             /\ t.state = "handshake" /\ u.state = "ready" =>
                  \E j \in 1 .. Len(t.hs) :
                    t.hs[j][1].kind = "Finished" /\ t.hs[j][1].digest = u.hash
  <1> DEFINE n == Len(t.hs) \div 2
             whole == [i \in 1 .. n |-> t.hs[2 * i][1]]
             v == Handled(t, whole)
             rest == SubSeq(t.hs, 2 * Len(whole) + 1, Len(t.hs))
             u == [v EXCEPT !.hs = rest]
  <1>1. Len(t.hs) \in Nat /\ n \in Nat /\ 2 * n <= Len(t.hs)
    <2>1. IsSeq(t.hs)
      BY DEF Client
    <2>2. Len(t.hs) \in Nat
      BY <2>1, SeqFacts
    <2> QED
      BY <2>2, Halved
  <1>2. IsSeq(whole) /\ Len(whole) = n
    <2>1. DOMAIN whole = 1 .. n /\ whole = [i \in 1 .. n |-> whole[i]]
      OBVIOUS
    <2> HIDE DEF whole
    <2> QED
      BY <1>1, <2>1, ListFacts
  <1>3. ASSUME NEW k \in 1 .. n PROVE 2 * k \in 1 .. Len(t.hs) /\ whole[k] = t.hs[2 * k][1]
    <2>1. whole[k] = t.hs[2 * k][1]
      OBVIOUS
    <2> HIDE DEF n
    <2>2. 2 * k \in 1 .. Len(t.hs)
      BY <1>1
    <2> QED
      BY <2>1, <2>2
  <1>4. IsSeq(rest) /\ \A i \in 1 .. Len(rest) : \E j \in 1 .. Len(t.hs) : rest[i] = t.hs[j]
    <2> HIDE DEF n
    <2>1. PICK m, l : m = 2 * n + 1 /\ l = Len(t.hs)
      OBVIOUS
    <2>2. l \in Nat /\ m \in 1 .. l + 1 /\ l \in m - 1 .. l
      BY <1>1, <2>1
    <2>3. /\ IsSeq(SubSeq(t.hs, m, l)) /\ Len(SubSeq(t.hs, m, l)) = l - m + 1
          /\ \A i \in 1 .. l - m + 1 : SubSeq(t.hs, m, l)[i] = t.hs[m + i - 1]
      <3>1. IsSeq(t.hs)
        BY DEF Client
      <3> QED
        BY ONLY <2>1, <2>2, <3>1, SeqFacts
    <2>4. rest = SubSeq(t.hs, m, l)
      BY <1>2, <2>1
    <2>5. \A i \in 1 .. l - m + 1 : m + i - 1 \in 1 .. l
      BY <2>2
    <2> QED
      BY <2>1, <2>3, <2>4, <2>5, ZenonT(40)
  <1>5. processHandshake(t) = u
    BY DEF processHandshake
  <1> HIDE DEF whole, rest
  <1>6. /\ Turned(t, v)
        /\ t.state = "handshake" /\ v.state = "ready" =>
             \E k \in 1 .. Len(whole) : whole[k].kind = "Finished" /\ whole[k].digest = v.hash
    BY <1>2, HandledTurns
  <1> HIDE DEF v
  <1>7. Client(u) /\ u.hs = rest /\ But({"hs"}, v, u)
    BY <1>4, <1>6 DEF Turned, Client, Fields, But
  <1> HIDE DEF u
  <1>8. u.state = v.state /\ u.hash = v.hash
    BY <1>7 DEF But, Fields
  <1>9. But(Moved \cup {"hs"}, t, u)
    BY <1>6, <1>7 DEF Turned, But, Moved
  <1>10. u.state \in {t.state, "failed", "ready"} /\ (t.state = "ready" => u.hash = t.hash)
    BY <1>6, <1>8 DEF Turned
  <1>11. t.state = "handshake" /\ u.state = "ready" =>
           \E j \in 1 .. Len(t.hs) :
             t.hs[j][1].kind = "Finished" /\ t.hs[j][1].digest = u.hash
    BY <1>2, <1>3, <1>6, <1>8
  <1> QED
    BY <1>4, <1>5, <1>7, <1>9, <1>10, <1>11

-----------------------------------------------------------------------------
(* Halves of records and of messages.                                      *)

\* The halves of a sequence, in their order.
LEMMA HalvesFacts ==
  ASSUME NEW F, IsSeq(F)
  PROVE  /\ IsSeq(Halves(F)) /\ Len(Halves(F)) = 2 * Len(F)
         /\ \A i \in 1 .. Len(F) : /\ Halves(F)[2 * i] = <<F[i], 2>>
                                   /\ Halves(F)[2 * i - 1] = <<F[i], 1>>
  <1> DEFINE n == Len(F)
             f == Halves(F)
  <1>1. n \in Nat /\ 2 * n \in Nat
    BY SeqFacts
  <1>2. f = [i \in 1 .. 2 * n |-> <<F[(i + 1) \div 2], 2 - (i % 2)>>]
    BY DEF Halves
  <1> HIDE DEF n, f
  <1>3. DOMAIN f = 1 .. 2 * n /\ f = [i \in 1 .. 2 * n |-> f[i]]
    BY <1>2
  <1>4. IsSeq(f) /\ Len(f) = 2 * n
    BY <1>1, <1>3, ListFacts
  <1>5. ASSUME NEW i \in 1 .. n PROVE f[2 * i] = <<F[i], 2>> /\ f[2 * i - 1] = <<F[i], 1>>
    <2>1. /\ 2 * i \in 1 .. 2 * n /\ (2 * i + 1) \div 2 = i /\ (2 * i) % 2 = 0
          /\ 2 * i - 1 \in 1 .. 2 * n /\ (2 * i - 1 + 1) \div 2 = i /\ (2 * i - 1) % 2 = 1
      BY <1>1
    <2> QED
      BY <1>2, <2>1
  <1> QED
    BY <1>4, <1>5 DEF f, n

\* s from place i on, up to place j.
LEMMA SliceFacts ==
  ASSUME NEW s, IsSeq(s), NEW i \in Nat, NEW j \in Nat, i <= j, j <= Len(s)
  PROVE  /\ IsSeq(SubSeq(s, i + 1, j)) /\ Len(SubSeq(s, i + 1, j)) = j - i
         /\ \A k \in 1 .. j - i : SubSeq(s, i + 1, j)[k] = s[i + k]
         /\ SubSeq(s, i + 1, j) = << >> <=> i = j
  <1>1. PICK m : m = i + 1
    OBVIOUS
  <1>2. Len(s) \in Nat
    BY SeqFacts
  <1>3. m \in 1 .. Len(s) + 1 /\ j \in m - 1 .. Len(s)
    BY <1>1, <1>2
  <1>4. /\ IsSeq(SubSeq(s, m, j)) /\ Len(SubSeq(s, m, j)) = j - m + 1
        /\ \A k \in 1 .. j - m + 1 : SubSeq(s, m, j)[k] = s[m + k - 1]
    BY ONLY <1>3, SeqFacts, IsSeq(s)
  <1>5. SubSeq(s, m, j) = << >> <=> Len(SubSeq(s, m, j)) = 0
    BY ONLY <1>4, SeqFacts
  <1>6. j - m + 1 = j - i /\ \A k \in 1 .. j - i : m + k - 1 = i + k
    BY <1>1
  <1> QED
    BY <1>1, <1>4, <1>5, <1>6

\* A slice without its first element.
LEMMA SliceTail ==
  ASSUME NEW s, IsSeq(s), NEW i \in Nat, NEW j \in Nat, i < j, j <= Len(s)
  PROVE  /\ Tail(SubSeq(s, i + 1, j)) = SubSeq(s, i + 2, j)
         /\ Head(SubSeq(s, i + 1, j)) = s[i + 1]
  <1>1. PICK S : s \in Seq(S)
    BY DEF IsSeq
  <1>2. PICK m : m = i + 1
    OBVIOUS
  <1>3. Len(s) \in Nat /\ m \in 1 .. Len(s) /\ j \in m .. Len(s)
    BY <1>1, <1>2
  <1>4. Head(SubSeq(s, m, j)) = s[m] /\ Tail(SubSeq(s, m, j)) = SubSeq(s, m + 1, j)
    BY ONLY <1>1, <1>3, HeadTailOfSubSeq
  <1>5. m + 1 = i + 2
    BY <1>2
  <1> QED
    BY <1>2, <1>4, <1>5

\* Two slices that meet.
LEMMA SlicesJoin ==
  ASSUME NEW s, IsSeq(s), NEW i \in Nat, NEW j \in Nat, NEW k \in Nat, i <= j, j <= k, k <= Len(s)
  PROVE  SubSeq(s, i + 1, j) \o SubSeq(s, j + 1, k) = SubSeq(s, i + 1, k)
  <1>1. PICK S : s \in Seq(S)
    BY DEF IsSeq
  <1>2. PICK m : m = i + 1
    OBVIOUS
  <1>3. m \in 1 .. Len(s) + 1 /\ j \in m - 1 .. Len(s) /\ k \in j .. Len(s)
    BY <1>1, <1>2
  <1>4. SubSeq(s, m, j) \o SubSeq(s, j + 1, k) = SubSeq(s, m, k)
    BY ONLY <1>1, <1>3, ConcatAdjacentSubSeq
  <1> QED
    BY <1>2, <1>4

\* The end of a slice.
LEMMA SliceOfSlice ==
  ASSUME NEW s, IsSeq(s), NEW i \in Nat, NEW j \in Nat, NEW m \in Nat, i <= j, j <= Len(s),
         m <= j - i
  PROVE  SubSeq(SubSeq(s, i + 1, j), m + 1, j - i) = SubSeq(s, i + m + 1, j)
  <1>1. PICK q : q = SubSeq(s, i + 1, j)
    OBVIOUS
  <1>2. IsSeq(q) /\ Len(q) = j - i /\ \A l \in 1 .. j - i : q[l] = s[i + l]
    <2>1. /\ IsSeq(SubSeq(s, i + 1, j)) /\ Len(SubSeq(s, i + 1, j)) = j - i
          /\ \A l \in 1 .. j - i : SubSeq(s, i + 1, j)[l] = s[i + l]
      BY SliceFacts
    <2> QED
      BY ONLY <1>1, <2>1
  <1>3. PICK n : n = j - i
    OBVIOUS
  <1>4. PICK r : r = SubSeq(q, m + 1, n)
    OBVIOUS
  <1>5. IsSeq(r) /\ Len(r) = n - m /\ \A l \in 1 .. n - m : r[l] = q[m + l]
    <2>1. m \in Nat /\ n \in Nat /\ m <= n /\ n <= Len(q) /\ IsSeq(q)
      BY <1>2, <1>3
    <2>2. /\ IsSeq(SubSeq(q, m + 1, n)) /\ Len(SubSeq(q, m + 1, n)) = n - m
          /\ \A l \in 1 .. n - m : SubSeq(q, m + 1, n)[l] = q[m + l]
      BY ONLY <2>1, SliceFacts
    <2> QED
      BY ONLY <1>4, <2>2
  <1>6. PICK i2 : i2 = i + m
    OBVIOUS
  <1>7. PICK u : u = SubSeq(s, i2 + 1, j)
    OBVIOUS
  <1>8. IsSeq(u) /\ Len(u) = j - i2 /\ \A l \in 1 .. j - i2 : u[l] = s[i2 + l]
    <2>1. i2 \in Nat /\ i2 <= j
      BY <1>6
    <2> QED
      BY <1>7, <2>1, SliceFacts
  <1>9. Len(r) = Len(u)
    BY <1>3, <1>5, <1>6, <1>8
  <1>10. ASSUME NEW l \in 1 .. Len(r) PROVE r[l] = u[l]
    <2>1. l \in 1 .. n - m /\ m + l \in 1 .. j - i /\ l \in 1 .. j - i2 /\ i + (m + l) = i2 + l
      BY <1>3, <1>5, <1>6
    <2> QED
      BY <1>2, <1>5, <1>8, <2>1
  <1>11. r = u
    BY <1>5, <1>8, <1>9, <1>10, SameSeq
  <1> QED
    BY <1>1, <1>3, <1>4, <1>6, <1>7, <1>11

\* The ring r and what the server has left, l, are one queue: it is read at its head, and
\* what goes from l to r does not change it.
LEMMA QueueFacts ==
  ASSUME NEW r, IsSeq(r), NEW l, IsSeq(l)
  PROVE  /\ r # << >> => Head(r \o l) = Head(r) /\ Tail(r) \o l = Tail(r \o l) /\ r \o l # << >>
         /\ l # << >> => Append(r, Head(l)) \o Tail(l) = r \o l
  <1>1. PICK S : r \in Seq(S)
    BY DEF IsSeq
  <1>2. PICK T : l \in Seq(T)
    BY DEF IsSeq
  <1>3. r \in Seq(S \cup T) /\ l \in Seq(S \cup T)
    BY <1>1, <1>2
  <1>4. r # << >> => Head(r \o l) = Head(r) /\ r \o l # << >>
    BY <1>3
  <1>5. r # << >> => Tail(r) \o l = Tail(r \o l)
    BY <1>3, ConcatProperties
  <1>6. l # << >> => Append(r, Head(l)) \o Tail(l) = r \o l
    BY <1>3
  <1> QED
    BY <1>4, <1>5, <1>6

-----------------------------------------------------------------------------
(* The records F of a flight on their way to the client: k are read, and of*)
(* the next one b halves; q is what still comes.                           *)

Reading(F, k, b, q, t) ==
  /\ k \in 0 .. Len(F) /\ b \in {0, 1} /\ (b = 1 => k < Len(F))
  /\ q = SubSeq(Halves(F), 2 * k + b + 1, 2 * Len(F))
  /\ t.rec = IF b = 1 THEN << F[k + 1] >> ELSE << >>

\* The first half of a record is kept, the second one ends it.
LEMMA FeedIs ==
  ASSUME NEW t, t.state \notin {"failed", "closed"}, NEW r
  PROVE  /\ t.rec = << >> => tlsFeed(t, <<r, 1>>) = [t EXCEPT !.rec = << r >>]
         /\ t.rec = << r >> => tlsFeed(t, <<r, 2>>) = processRecord([t EXCEPT !.rec = << >>], r)
  <1>1. <<r, 1>>[1] = r /\ <<r, 1>>[2] = 1 /\ <<r, 2>>[1] = r /\ <<r, 2>>[2] = 2
    OBVIOUS
  <1> QED
    BY <1>1 DEF tlsFeed

\* The next half begins a record or ends one.
GoesOn(F, k, b, q, t) ==
  /\ k < Len(F) /\ k \in Nat
  /\ b = 0 => /\ tlsFeed(t, Head(q)) = [t EXCEPT !.rec = << F[k + 1] >>]
              /\ Tail(q) = SubSeq(Halves(F), 2 * k + 1 + 1, 2 * Len(F))
  /\ b = 1 => /\ tlsFeed(t, Head(q)) = processRecord([t EXCEPT !.rec = << >>], F[k + 1])
              /\ Tail(q) = SubSeq(Halves(F), 2 * (k + 1) + 0 + 1, 2 * Len(F))

\* That is what comes next as long as the client is at work.
LEMMA ReadingGoesOn ==
  ASSUME NEW F, IsSeq(F), NEW k, NEW b, NEW q, NEW t, Client(t), Reading(F, k, b, q, t),
         q # << >>, t.state \notin {"failed", "closed"}
  PROVE  GoesOn(F, k, b, q, t)
  <1> DEFINE H == Halves(F)
             N == Len(F)
  <1>1. N \in Nat /\ IsSeq(H) /\ Len(H) = 2 * N
        /\ \A i \in 1 .. N : H[2 * i] = <<F[i], 2>> /\ H[2 * i - 1] = <<F[i], 1>>
    BY HalvesFacts, SeqFacts
  <1>2. /\ k \in 0 .. N /\ b \in {0, 1} /\ (b = 1 => k < N)
        /\ q = SubSeq(H, 2 * k + b + 1, 2 * N)
        /\ t.rec = IF b = 1 THEN << F[k + 1] >> ELSE << >>
    BY DEF Reading
  <1> HIDE DEF H, N
  <1>3. PICK i, j : i = 2 * k + b /\ j = 2 * N
    OBVIOUS
  <1>4. i \in Nat /\ j \in Nat /\ i <= j /\ j <= Len(H)
    BY <1>1, <1>2, <1>3
  <1>5. q = SubSeq(H, i + 1, j)
    BY <1>2, <1>3
  <1>6. i # j
    BY <1>1, <1>4, <1>5, SliceFacts
  <1>7. k < N /\ k \in Nat
    BY <1>1, <1>2, <1>3, <1>6
  <1>8. Tail(q) = SubSeq(H, i + 2, j) /\ Head(q) = H[i + 1]
    <2>1. i < j
      BY <1>4, <1>6
    <2> QED
      BY <1>1, <1>4, <1>5, <2>1, SliceTail
  <1>9. CASE b = 0
    <2>1. i + 1 = 2 * (k + 1) - 1 /\ k + 1 \in 1 .. N /\ i + 2 = 2 * k + 1 + 1
      BY <1>1, <1>3, <1>7, <1>9
    <2>2. Head(q) = <<F[k + 1], 1>>
      BY <1>1, <1>8, <2>1
    <2>3. tlsFeed(t, Head(q)) = [t EXCEPT !.rec = << F[k + 1] >>]
      <3>1. t.rec = << >>
        BY <1>2, <1>9
      <3>2. PICK r : r = F[k + 1]
        OBVIOUS
      <3> QED
        BY <2>2, <3>1, <3>2, FeedIs
    <2> QED
      BY <1>3, <1>7, <1>8, <1>9, <2>1, <2>3, SMTT(30) DEF H, N, GoesOn
  <1>10. CASE b = 1
    <2>1. i + 1 = 2 * (k + 1) /\ k + 1 \in 1 .. N /\ i + 2 = 2 * (k + 1) + 0 + 1
      BY <1>1, <1>3, <1>7, <1>10
    <2>2. Head(q) = <<F[k + 1], 2>>
      BY <1>1, <1>8, <2>1
    <2>3. tlsFeed(t, Head(q)) = processRecord([t EXCEPT !.rec = << >>], F[k + 1])
      BY <1>2, <1>10, <2>2, FeedIs
    <2>4. Tail(q) = SubSeq(H, 2 * (k + 1) + 0 + 1, 2 * N)
      BY <1>3, <1>8, <2>1
    <2> QED
      BY <1>7, <1>10, <2>3, <2>4, SMTT(30) DEF H, N, GoesOn
  <1> QED
    BY <1>2, <1>7, <1>9, <1>10 DEF GoesOn, H, N

-----------------------------------------------------------------------------
(* The handshake as both sides say it.                                     *)

Greeted(cert) == << Plain("ClientHello") >> \o ServerMessages(cert)
Asked(cert) == IF cert THEN Append(Greeted(cert), Plain("Certificate")) ELSE Greeted(cert)
Keyed(cert) == Append(Asked(cert), Plain("ClientKeyExchange"))
Finale(cert) == Message("Finished", Keyed(cert))
Closing(cert) == Append(Keyed(cert), Finale(cert))

\* What we answer.
Certified(cert) == IF cert THEN Append(<< >>, Plain("Certificate")) ELSE << >>
Answering(cert) ==
  Append(Append(Append(Certified(cert), Plain("ClientKeyExchange")), Plain("ChangeCipherSpec")),
         Finale(cert))

\* The messages of the server, one by one.
LEMMA ServerSays ==
  ASSUME NEW cert \in BOOLEAN
  PROVE  /\ IsSeq(ServerMessages(cert))
         /\ Len(ServerMessages(cert)) = IF cert THEN 5 ELSE 4
         /\ ServerMessages(cert)[1] = Plain("ServerHello")
         /\ ServerMessages(cert)[2] = Plain("Certificate")
         /\ ServerMessages(cert)[3] = Plain("ServerKeyExchange")
         /\ cert => ServerMessages(cert)[4] = Plain("CertificateRequest")
         /\ ServerMessages(cert)[Len(ServerMessages(cert))] = Plain("ServerHelloDone")
  <1> DEFINE a == << Plain("ServerHello"), Plain("Certificate"), Plain("ServerKeyExchange") >>
             b == << Plain("CertificateRequest") >>
             c == << Plain("ServerHelloDone") >>
  <1>1. PICK V : V = {Plain("ServerHello"), Plain("Certificate"), Plain("ServerKeyExchange"),
                      Plain("CertificateRequest"), Plain("ServerHelloDone")}
    OBVIOUS
  <1>2. a \in Seq(V) /\ b \in Seq(V) /\ c \in Seq(V) /\ << >> \in Seq(V)
    BY <1>1
  <1>3. /\ Len(a) = 3 /\ a[1] = Plain("ServerHello") /\ a[2] = Plain("Certificate")
        /\ a[3] = Plain("ServerKeyExchange") /\ Len(b) = 1 /\ b[1] = Plain("CertificateRequest")
        /\ Len(c) = 1 /\ c[1] = Plain("ServerHelloDone")
    OBVIOUS
  <1>4. ServerMessages(cert) = a \o (IF cert THEN b ELSE << >>) \o c
    BY DEF ServerMessages
  <1> HIDE DEF a, b, c
  <1>5. IsSeq(a) /\ IsSeq(b) /\ IsSeq(c)
    BY <1>2 DEF IsSeq
  <1>6. CASE cert
    <2>1. PICK d : d = a \o b
      OBVIOUS
    <2>2. PICK e : e = d \o c
      OBVIOUS
    <2>3. /\ IsSeq(d) /\ Len(d) = Len(a) + Len(b) /\ \A i \in 1 .. Len(a) : d[i] = a[i]
          /\ \A i \in 1 .. Len(b) : d[Len(a) + i] = b[i]
      BY ONLY <1>5, <2>1, ConcatFacts
    <2>4. /\ IsSeq(e) /\ Len(e) = Len(d) + Len(c) /\ \A i \in 1 .. Len(d) : e[i] = d[i]
          /\ \A i \in 1 .. Len(c) : e[Len(d) + i] = c[i]
      <3>1. IsSeq(d) /\ IsSeq(c)
        BY <1>5, <2>3
      <3> QED
        BY ONLY <2>2, <3>1, ConcatFacts
    <2>5. /\ Len(d) = 4 /\ Len(e) = 5 /\ d[1] = a[1] /\ d[2] = a[2] /\ d[3] = a[3] /\ d[4] = b[1]
      BY <1>3, <2>3, <2>4
    <2>6. e[1] = d[1] /\ e[2] = d[2] /\ e[3] = d[3] /\ e[4] = d[4] /\ e[5] = c[1]
      BY <1>3, <2>4, <2>5
    <2>7. ServerMessages(cert) = e
      BY <1>2, <1>4, <1>6, <2>1, <2>2
    <2> QED
      BY <1>3, <1>6, <2>4, <2>5, <2>6, <2>7
  <1>7. CASE ~ cert
    <2>1. PICK e : e = a \o c
      OBVIOUS
    <2>2. ServerMessages(cert) = (a \o << >>) \o c /\ a \o << >> = a
      BY <1>2, <1>4, <1>7
    <2>3. ServerMessages(cert) = e
      BY ONLY <2>1, <2>2
    <2>4. /\ IsSeq(e) /\ Len(e) = Len(a) + Len(c) /\ \A i \in 1 .. Len(a) : e[i] = a[i]
          /\ \A i \in 1 .. Len(c) : e[Len(a) + i] = c[i]
      BY ONLY <1>5, <2>1, ConcatFacts
    <2>5. Len(e) = 4 /\ e[1] = a[1] /\ e[2] = a[2] /\ e[3] = a[3] /\ e[4] = c[1]
      BY <1>3, <2>4
    <2> QED
      BY <1>3, <1>7, <2>3, <2>4, <2>5
  <1> QED
    BY <1>6, <1>7

\* The digest behind w messages of the server.
Heard(h, w, cert) ==
  /\ IsSeq(h) /\ Len(h) = w + 1 /\ h[1] = Plain("ClientHello")
  /\ \A i \in 1 .. w : h[i + 1] = ServerMessages(cert)[i]

\* The digest behind all of them ...
LEMMA HeardAll ==
  ASSUME NEW cert \in BOOLEAN, NEW h, Heard(h, Len(ServerMessages(cert)), cert)
  PROVE  h = Greeted(cert)
  <1> DEFINE a == << Plain("ClientHello") >>
             S == ServerMessages(cert)
  <1>1. IsSeq(a) /\ Len(a) = 1 /\ a[1] = Plain("ClientHello")
    BY SmallSeqs
  <1>2. IsSeq(S) /\ Len(S) \in Nat
    BY ServerSays, SeqFacts
  <1>3. Greeted(cert) = a \o S
    BY DEF Greeted
  <1>4. IsSeq(h) /\ Len(h) = Len(S) + 1 /\ h[1] = a[1] /\ \A i \in 1 .. Len(S) : h[i + 1] = S[i]
    BY <1>1 DEF Heard
  <1> HIDE DEF a, S
  <1>5. PICK g : g = a \o S
    OBVIOUS
  <1>6. /\ IsSeq(g) /\ Len(g) = Len(S) + 1 /\ g[1] = a[1]
        /\ \A i \in 1 .. Len(S) : g[1 + i] = S[i]
    <2>1. /\ IsSeq(g) /\ Len(g) = Len(a) + Len(S) /\ \A i \in 1 .. Len(a) : g[i] = a[i]
          /\ \A i \in 1 .. Len(S) : g[Len(a) + i] = S[i]
      <3>1. IsSeq(a) /\ IsSeq(S)
        BY <1>1, <1>2
      <3> QED
        BY ONLY <1>5, <3>1, ConcatFacts
    <2> QED
      BY <1>1, <1>2, <2>1
  <1>7. ASSUME NEW i \in 1 .. Len(h) PROVE h[i] = g[i]
    <2>1. CASE i = 1
      BY <1>4, <1>6, <2>1
    <2>2. CASE i # 1
      <3>1. PICK j : j = i - 1
        OBVIOUS
      <3>2. j \in 1 .. Len(S) /\ j + 1 = i /\ 1 + j = i
        BY <1>2, <1>4, <2>2, <3>1
      <3> QED
        BY <1>4, <1>6, <3>2
    <2> QED
      BY <2>1, <2>2
  <1>8. h = g
    BY <1>4, <1>6, <1>7, SameSeq
  <1> QED
    BY <1>3, <1>5, <1>8

\* ... and behind one more.
LEMMA HeardMore ==
  ASSUME NEW cert, NEW w \in Nat, NEW h, Heard(h, w, cert)
  PROVE  Heard(Append(h, ServerMessages(cert)[w + 1]), w + 1, cert)
  <1> DEFINE S == ServerMessages(cert)
  <1>1. PICK g : g = Append(h, S[w + 1])
    OBVIOUS
  <1>2. /\ IsSeq(h) /\ Len(h) = w + 1 /\ h[1] = Plain("ClientHello")
        /\ \A i \in 1 .. w : h[i + 1] = S[i]
    BY DEF Heard
  <1> HIDE DEF S
  <1>3. /\ IsSeq(g) /\ Len(g) = w + 1 + 1 /\ g[w + 1 + 1] = S[w + 1]
        /\ \A i \in 1 .. w + 1 : g[i] = h[i]
    BY <1>1, <1>2, AppendFacts
  <1>4. g[1] = h[1]
    BY <1>3
  <1>5. ASSUME NEW i \in 1 .. w + 1 PROVE g[i + 1] = S[i]
    BY <1>2, <1>3
  <1> QED
    BY <1>1, <1>2, <1>3, <1>4, <1>5 DEF Heard, S

-----------------------------------------------------------------------------
(* The client that has met w of them.                                      *)

Met(t, w, cert) ==
  /\ t.state = "handshake" /\ ~ t.encIn /\ t.rdSeq = 0
  /\ (t.gotHello <=> w >= 1) /\ (t.gotKeyExchange <=> w >= 3)
  /\ (t.certRequested <=> cert /\ w >= 4)
  /\ (t.sentFinished <=> w = Len(ServerMessages(cert)))
  /\ w < Len(ServerMessages(cert)) => Heard(t.hash, w, cert)
  /\ w = Len(ServerMessages(cert)) => t.hash = Closing(cert)

\* What the call hands over: the answer, when the server is done.
Saying(t, w, cert) ==
  t.out = IF w = Len(ServerMessages(cert)) THEN Answering(cert) ELSE << >>

\* Fields that these facts are not about may change.
LEMMA MetLasts ==
  ASSUME NEW t, NEW u, NEW w, NEW cert, Met(t, w, cert), But({"hs", "rec", "out", "data"}, t, u)
  PROVE  Met(u, w, cert)
  <1>1. /\ u.state = t.state /\ u.encIn = t.encIn /\ u.rdSeq = t.rdSeq
        /\ u.gotHello = t.gotHello /\ u.gotKeyExchange = t.gotKeyExchange
        /\ u.certRequested = t.certRequested /\ u.sentFinished = t.sentFinished
        /\ u.hash = t.hash
    BY DEF But, Fields
  <1> QED
    BY <1>1 DEF Met

\* The next message of the server is met as it is meant.
LEMMA MeetsOne ==
  ASSUME NEW cert \in BOOLEAN, NEW t, Client(t), NEW w \in Nat, w < Len(ServerMessages(cert)),
         Met(t, w, cert), t.out = << >>
  PROVE  LET u == HandleMessage(t, ServerMessages(cert)[w + 1])
         IN  /\ Client(u) /\ Met(u, w + 1, cert) /\ Saying(u, w + 1, cert)
             /\ But(Moved, t, u)
  <1> DEFINE S == ServerMessages(cert)
             m == S[w + 1]
             h == [t EXCEPT !.hash = Append(@, m)]
             u == HandleMessage(t, m)
             Goal == /\ Client(u) /\ Met(u, w + 1, cert) /\ Saying(u, w + 1, cert)
                     /\ But(Moved, t, u)
  <1> SUFFICES Goal
    OBVIOUS
  <1>1. /\ Len(S) = (IF cert THEN 5 ELSE 4) /\ w \in 0 .. 4
        /\ w = 0 => m.kind = "ServerHello"
        /\ w = 1 => m.kind = "Certificate"
        /\ w = 2 => m.kind = "ServerKeyExchange"
        /\ w = 3 /\ cert => m.kind = "CertificateRequest"
        /\ w + 1 = Len(S) => m.kind = "ServerHelloDone"
        /\ w + 1 # Len(S) => w < 3 \/ (w = 3 /\ cert)
        /\ m.kind # "Finished"
    BY ServerSays DEF Plain, Message
  <1>2. Heard(t.hash, w, cert) /\ t.state = "handshake"
    BY DEF Met
  <1>3. Client(h) /\ But({"hash"}, t, h) /\ h.hash = Append(t.hash, m)
    <2>1. IsSeq(Append(t.hash, m))
      BY AppendFacts DEF Client
    <2> QED
      BY <2>1 DEF Client, Fields, But
  <1>4. Heard(h.hash, w + 1, cert)
    BY <1>2, <1>3, HeardMore
  <1>5. /\ h.state = t.state /\ h.encIn = t.encIn /\ h.rdSeq = t.rdSeq
        /\ h.gotHello = t.gotHello /\ h.gotKeyExchange = t.gotKeyExchange
        /\ h.certRequested = t.certRequested /\ h.sentFinished = t.sentFinished
        /\ h.out = t.out
    BY <1>3 DEF But, Fields
  <1>m. /\ t.state = "handshake" /\ ~ t.encIn /\ t.rdSeq = 0
        /\ (t.gotHello <=> w >= 1) /\ (t.gotKeyExchange <=> w >= 3)
        /\ (t.certRequested <=> cert /\ w >= 4)
        /\ ~ t.sentFinished
    BY DEF Met
  <1>u. u = CASE m.kind = "ServerHello"        -> handleServerHello(h)
              [] m.kind = "ServerKeyExchange"  -> handleKeyExchange(h)
              [] m.kind = "CertificateRequest" -> [h EXCEPT !.certRequested = TRUE]
              [] m.kind = "ServerHelloDone"    -> handleHelloDone(h)
              [] m.kind = "Finished"           -> handleFinished(h, m)
              [] OTHER                         -> h
    BY <1>1, <1>2 DEF HandleMessage
  <1> HIDE DEF h, u, m
  <1>6. CASE w = 0
    <2>1. u = [h EXCEPT !.gotHello = TRUE]
      BY <1>u, <1>1, <1>5, <1>6, <1>m DEF handleServerHello
    <2>2. Client(u) /\ u.gotHello = TRUE /\ But({"gotHello"}, h, u)
      BY <1>3, <2>1 DEF Client, Fields, But
    <2>3. /\ u.state = h.state /\ u.encIn = h.encIn /\ u.rdSeq = h.rdSeq
          /\ u.gotKeyExchange = h.gotKeyExchange
          /\ u.certRequested = h.certRequested /\ u.sentFinished = h.sentFinished
          /\ u.hash = h.hash /\ u.out = h.out
      BY <2>2 DEF But, Fields
    <2>4. Met(u, w + 1, cert) /\ Saying(u, w + 1, cert)
      BY <1>1, <1>4, <1>5, <1>6, <1>m, <2>2, <2>3 DEF Met, Saying
    <2> QED
      BY <1>3, <2>2, <2>4 DEF But, Moved
  <1>7. CASE w = 1
    <2>1. u = h
      BY <1>u, <1>1, <1>7
    <2>2. Met(u, w + 1, cert) /\ Saying(u, w + 1, cert)
      BY <1>1, <1>4, <1>5, <1>7, <1>m, <2>1 DEF Met, Saying
    <2> QED
      BY <1>3, <2>1, <2>2 DEF But, Moved
  <1>8. CASE w = 2
    <2>1. u = [h EXCEPT !.gotKeyExchange = TRUE]
      BY <1>u, <1>1, <1>5, <1>8, <1>m DEF handleKeyExchange
    <2>2. Client(u) /\ u.gotKeyExchange = TRUE /\ But({"gotKeyExchange"}, h, u)
      BY <1>3, <2>1 DEF Client, Fields, But
    <2>3. /\ u.state = h.state /\ u.encIn = h.encIn /\ u.rdSeq = h.rdSeq
          /\ u.gotHello = h.gotHello
          /\ u.certRequested = h.certRequested /\ u.sentFinished = h.sentFinished
          /\ u.hash = h.hash /\ u.out = h.out
      BY <2>2 DEF But, Fields
    <2>4. Met(u, w + 1, cert) /\ Saying(u, w + 1, cert)
      BY <1>1, <1>4, <1>5, <1>8, <1>m, <2>2, <2>3 DEF Met, Saying
    <2> QED
      BY <1>3, <2>2, <2>4 DEF But, Moved
  <1>9. CASE w = 3 /\ cert
    <2>1. u = [h EXCEPT !.certRequested = TRUE]
      BY <1>u, <1>1, <1>9
    <2>2. Client(u) /\ u.certRequested = TRUE /\ But({"certRequested"}, h, u)
      BY <1>3, <2>1 DEF Client, Fields, But
    <2>3. /\ u.state = h.state /\ u.encIn = h.encIn /\ u.rdSeq = h.rdSeq
          /\ u.gotHello = h.gotHello /\ u.gotKeyExchange = h.gotKeyExchange
          /\ u.sentFinished = h.sentFinished
          /\ u.hash = h.hash /\ u.out = h.out
      BY <2>2 DEF But, Fields
    <2>4. Met(u, w + 1, cert) /\ Saying(u, w + 1, cert)
      <3>1. Len(S) = 5 /\ w + 1 = 4
        BY <1>1, <1>9
      <3>2. Heard(u.hash, 4, cert)
        BY <1>4, <2>3, <3>1
      <3> QED
        <4>1. u.state = "handshake" /\ ~ u.encIn /\ u.rdSeq = 0
          BY <1>5, <1>m, <2>3
        <4>2. (u.gotHello <=> 4 >= 1) /\ (u.gotKeyExchange <=> 4 >= 3)
          BY <1>5, <1>9, <1>m, <2>3
        <4>3. u.certRequested <=> cert /\ 4 >= 4
          BY <1>9, <2>2
        <4>4. ~ u.sentFinished /\ u.out = << >>
          BY <1>5, <1>m, <2>3
        <4> QED
          BY <3>1, <3>2, <4>1, <4>2, <4>3, <4>4 DEF Met, Saying
    <2> QED
      BY <1>3, <2>2, <2>4 DEF But, Moved
  <1>10. CASE w + 1 = Len(S)
    <2>1. u = handleHelloDone(h)
      BY <1>u, <1>1, <1>10
    <2>2. h.gotHello /\ h.gotKeyExchange /\ (h.certRequested <=> cert) /\ h.out = << >>
      BY <1>1, <1>5, <1>10, <1>m
    <2>3. h.hash = Greeted(cert)
      BY <1>4, <1>10, HeardAll DEF S
    <2>4. /\ Client(u) /\ u.sentFinished = TRUE
          /\ u.hash = Closing(cert) /\ u.out = Answering(cert)
          /\ But({"hash", "out", "sentFinished"}, h, u)
      <3> DEFINE asked == IF h.certRequested THEN Append(h.hash, Plain("Certificate")) ELSE h.hash
                 said  == IF h.certRequested THEN Append(h.out, Plain("Certificate")) ELSE h.out
                 keys  == Append(asked, Plain("ClientKeyExchange"))
                 fin   == Message("Finished", keys)
      <3>1. /\ Client(u) /\ u.sentFinished = TRUE
            /\ u.hash = Append(keys, fin)
            /\ u.out = Append(Append(Append(said, Plain("ClientKeyExchange")),
                                      Plain("ChangeCipherSpec")), fin)
            /\ But({"hash", "out", "sentFinished"}, h, u)
        BY <1>3, <2>1, <2>2, HelloDoneIs
      <3>2. asked = Asked(cert) /\ said = Certified(cert)
        BY <2>2, <2>3 DEF Asked, Certified
      <3> QED
        BY <3>1, <3>2 DEF Closing, Answering, Finale, Keyed
    <2>5. /\ u.state = h.state /\ u.encIn = h.encIn /\ u.rdSeq = h.rdSeq
          /\ u.gotHello = h.gotHello /\ u.gotKeyExchange = h.gotKeyExchange
          /\ u.certRequested = h.certRequested
      BY <2>4 DEF But, Fields
    <2>6. Met(u, w + 1, cert)
      BY <1>1, <1>5, <1>10, <1>m, <2>4, <2>5 DEF Met
    <2>7. Saying(u, w + 1, cert)
      BY <1>10, <2>4 DEF Saying
    <2> QED
      BY <1>3, <2>4, <2>6, <2>7 DEF But, Moved
  <1> QED
    BY <1>1, <1>6, <1>7, <1>8, <1>9, <1>10

\* So are the next n of them.
LEMMA HandledMeets ==
  ASSUME NEW cert \in BOOLEAN, NEW t, Client(t), NEW w \in Nat, NEW n \in Nat,
         w < Len(ServerMessages(cert)), w + n <= Len(ServerMessages(cert)),
         Met(t, w, cert), t.out = << >>
  PROVE  LET u == Handled(t, SubSeq(ServerMessages(cert), w + 1, w + n))
         IN  Client(u) /\ Met(u, w + n, cert) /\ Saying(u, w + n, cert) /\ But(Moved, t, u)
  <1> DEFINE S == ServerMessages(cert)
  <1>1. IsSeq(S) /\ Len(S) \in Nat
    BY ServerSays, SeqFacts
  <1>2. PICK j : j = w + n
    OBVIOUS
  <1>3. PICK q : q = SubSeq(S, w + 1, j)
    OBVIOUS
  <1>4. IsSeq(q) /\ Len(q) = n /\ \A k \in 1 .. n : q[k] = S[w + k]
    <2>1. j \in Nat /\ w <= j /\ j <= Len(S) /\ j - w = n
      BY <1>1, <1>2
    <2>2. IsSeq(q) /\ Len(q) = j - w /\ \A k \in 1 .. j - w : q[k] = S[w + k]
      BY ONLY <1>1, <1>3, <2>1, w \in Nat, SliceFacts
    <2> QED
      BY ONLY <2>1, <2>2
  <1>5. \E f : /\ f[0] = t /\ Handled(t, q) = f[Len(q)]
               /\ \A k \in 1 .. Len(q) : f[k] = HandleMessage(f[k - 1], q[k])
    BY ONLY <1>4, HandledIs
  <1>6. PICK f : /\ f[0] = t /\ Handled(t, q) = f[n]
                 /\ \A k \in 1 .. n : f[k] = HandleMessage(f[k - 1], q[k])
    BY ONLY <1>4, <1>5
  <1> DEFINE Fine2(u, k) == /\ Client(u) /\ Met(u, w + k, cert) /\ Saying(u, w + k, cert)
                            /\ But(Moved, t, u)
             Good == {k \in 0 .. n : Fine2(f[k], k)}
  <1>7. 0 \in Good
    <2>1. Fine2(t, 0)
      <3>1. w + 0 = w /\ w # Len(S)
        BY <1>1
      <3> QED
        BY <3>1 DEF Saying, But
    <2> HIDE DEF Fine2
    <2> QED
      BY <1>6, <2>1
  <1>8. ASSUME NEW k \in 1 .. n, k - 1 \in Good PROVE k \in Good
    <2>1. PICK v, u, x : v = f[k - 1] /\ u = f[k] /\ x = w + (k - 1)
      OBVIOUS
    <2>2. /\ x \in Nat /\ x < Len(S) /\ x + 1 = w + k /\ x # Len(S)
          /\ k \in 0 .. n
      BY <1>1, <2>1
    <2>3. Client(v) /\ Met(v, x, cert) /\ Saying(v, x, cert) /\ But(Moved, t, v)
      BY <1>8, <2>1
    <2>4. v.out = << >>
      BY <2>2, <2>3 DEF Saying
    <2>5. u = HandleMessage(v, S[x + 1])
      BY <1>4, <1>6, <2>1, <2>2
    <2>6. /\ Client(u) /\ Met(u, x + 1, cert) /\ Saying(u, x + 1, cert) /\ But(Moved, v, u)
      BY ONLY <2>2, <2>3, <2>4, <2>5, MeetsOne, cert \in BOOLEAN
    <2>7. But(Moved, t, u)
      BY <2>3, <2>6 DEF But
    <2> QED
      BY <2>1, <2>2, <2>6, <2>7
  <1>9. n \in Good
    <2> HIDE DEF Good
    <2>1. 0 .. n \subseteq Good
      BY <1>7, <1>8, Induction
    <2> QED
      BY <2>1
  <1> QED
    BY <1>2, <1>3, <1>6, <1>9

\* The halves up to place c, with the first w messages apart, make n messages more.
Swallows(t, M, w, c, n, b) ==
  /\ c = 2 * (w + n) + b
  /\ processHandshake(t) = [Handled(t, SubSeq(M, w + 1, w + n))
                              EXCEPT !.hs = SubSeq(Halves(M), 2 * (w + n) + 1, c)]

\* Halves of the messages M that have come in, the first w messages apart: the whole
\* ones are handled, and half a message is kept.
LEMMA SliceHandled ==
  ASSUME NEW t, Client(t), NEW M, IsSeq(M), NEW w \in Nat, NEW c \in Nat,
         2 * w <= c, c <= 2 * Len(M), t.hs = SubSeq(Halves(M), 2 * w + 1, c)
  PROVE  \E n \in Nat : \E b \in {0, 1} : Swallows(t, M, w, c, n, b)
  <1>1. PICK l, n, b : l = c - 2 * w /\ n = l \div 2 /\ b = l - 2 * n
    OBVIOUS
  <1>2. l \in Nat /\ n \in Nat /\ b \in {0, 1} /\ c = 2 * (w + n) + b /\ 2 * n <= l
    <2>1. l \in Nat
      BY <1>1
    <2>2. l \div 2 \in Nat /\ 2 * (l \div 2) <= l /\ l <= 2 * (l \div 2) + 1
      BY <2>1, Halved
    <2> QED
      BY <1>1, <2>1, <2>2
  <1>3. PICK H : H = Halves(M)
    OBVIOUS
  <1>4. /\ IsSeq(H) /\ Len(H) = 2 * Len(M) /\ Len(M) \in Nat
        /\ \A i \in 1 .. Len(M) : H[2 * i] = <<M[i], 2>>
    BY <1>3, HalvesFacts, SeqFacts
  <1>5. PICK i : i = 2 * w
    OBVIOUS
  <1>6. PICK hs : hs = t.hs
    OBVIOUS
  <1>7. hs = SubSeq(H, i + 1, c) /\ i \in Nat /\ i <= c /\ c <= Len(H) /\ l = c - i
    BY <1>1, <1>3, <1>4, <1>5, <1>6
  <1>8. IsSeq(hs) /\ Len(hs) = l /\ \A k \in 1 .. l : hs[k] = H[i + k]
    BY ONLY <1>4, <1>7, c \in Nat, SliceFacts
  <1> DEFINE whole == [k \in 1 .. Len(t.hs) \div 2 |-> t.hs[2 * k][1]]
  <1>9. processHandshake(t) =
          [Handled(t, whole) EXCEPT !.hs = SubSeq(t.hs, 2 * Len(whole) + 1, Len(t.hs))]
    BY DEF processHandshake
  <1>10. whole = [k \in 1 .. n |-> hs[2 * k][1]]
    BY <1>1, <1>6, <1>8
  <1> HIDE DEF whole
  <1>11. IsSeq(whole) /\ Len(whole) = n
    <2>1. DOMAIN whole = 1 .. n /\ whole = [k \in 1 .. n |-> whole[k]]
      BY <1>10
    <2> QED
      BY <1>2, <2>1, ListFacts
  <1>12. PICK j : j = w + n
    OBVIOUS
  <1>13. PICK q : q = SubSeq(M, w + 1, j)
    OBVIOUS
  <1>14. IsSeq(q) /\ Len(q) = n /\ \A k \in 1 .. n : q[k] = M[w + k]
    <2>1. j \in Nat /\ w <= j /\ j <= Len(M) /\ j - w = n
      BY <1>2, <1>4, <1>12
    <2>2. IsSeq(q) /\ Len(q) = j - w /\ \A k \in 1 .. j - w : q[k] = M[w + k]
      BY ONLY IsSeq(M), <1>13, <2>1, w \in Nat, SliceFacts
    <2> QED
      BY ONLY <2>1, <2>2
  <1>15. ASSUME NEW k \in 1 .. n PROVE whole[k] = q[k]
    <2>1. PICK m : m = w + k
      OBVIOUS
    <2>2. m \in 1 .. Len(M) /\ 2 * k \in 1 .. l /\ i + 2 * k = 2 * m
      BY <1>2, <1>4, <1>5, <2>1
    <2>3. H[2 * m][1] = M[m]
      <3>1. H[2 * m] = <<M[m], 2>>
        BY <1>4, <2>2
      <3> QED
        BY <3>1
    <2> QED
      BY <1>8, <1>10, <1>14, <2>1, <2>2, <2>3
  <1>16. whole = q
    BY <1>11, <1>14, <1>15, SameSeq
  <1>17. SubSeq(t.hs, 2 * Len(whole) + 1, Len(t.hs)) = SubSeq(H, 2 * (w + n) + 1, c)
    <2>1. PICK m : m = 2 * n
      OBVIOUS
    <2>2. m \in Nat /\ m <= c - i /\ i + m = 2 * (w + n)
      BY <1>2, <1>5, <1>7, <2>1
    <2>3. SubSeq(SubSeq(H, i + 1, c), m + 1, c - i) = SubSeq(H, i + m + 1, c)
      <3>1. IsSeq(H) /\ i \in Nat /\ c \in Nat /\ m \in Nat /\ i <= c /\ c <= Len(H) /\ m <= c - i
        BY <1>4, <1>7, <2>2
      <3> QED
        BY ONLY <3>1, SliceOfSlice
    <2> QED
      BY <1>6, <1>7, <1>8, <1>11, <2>1, <2>2, <2>3
  <1>18. processHandshake(t) = [Handled(t, SubSeq(M, w + 1, w + n))
                                       EXCEPT !.hs = SubSeq(Halves(M), 2 * (w + n) + 1, c)]
    BY <1>3, <1>9, <1>12, <1>13, <1>16, <1>17
  <1> QED
    BY <1>2, <1>18 DEF Swallows

-----------------------------------------------------------------------------
(* The server's messages in records.                                       *)

\* How many halves the first k records hold.
Held(cert, cut, k) ==
  IF k < Len(Packed(ServerMessages(cert), cut)) THEN k * cut ELSE 2 * Len(ServerMessages(cert))

\* A record holds the halves between those of the records before it and its own end, and
\* there is at least one record.
LEMMA PackedFacts ==
  ASSUME NEW cert \in BOOLEAN, NEW cut \in Nat \ {0}
  PROVE  LET S == ServerMessages(cert)
             F == Packed(S, cut)
         IN  /\ IsSeq(F) /\ Len(F) \in Nat /\ Len(F) # 0
             /\ \A k \in 0 .. Len(F) - 1 :
                  /\ F[k + 1] = Record("handshake", FALSE, 0,
                                  SubSeq(Halves(S), Held(cert, cut, k) + 1, Held(cert, cut, k + 1)))
                  /\ Held(cert, cut, k) \in Nat /\ Held(cert, cut, k + 1) \in Nat
                  /\ Held(cert, cut, k) < 2 * Len(S)
                  /\ Held(cert, cut, k) <= Held(cert, cut, k + 1)
                  /\ Held(cert, cut, k + 1) <= 2 * Len(S)
                  /\ Held(cert, cut, k + 1) = 2 * Len(S) => k + 1 = Len(F)
  <1> DEFINE S == ServerMessages(cert)
             hs == Halves(S)
             n == (Len(hs) + cut - 1) \div cut
             to(i) == IF i * cut < Len(hs) THEN i * cut ELSE Len(hs)
             F == Packed(S, cut)
             Hd(k) == Held(cert, cut, k)
             l == 2 * Len(S)
  <1>1. Len(S) \in 4 .. 5 /\ IsSeq(S)
    BY ServerSays
  <1>2. Len(hs) = l /\ l \in 8 .. 10
    <2>1. IsSeq(S)
      BY <1>1
    <2> HIDE DEF S
    <2>2. Len(hs) = l
      BY ONLY <2>1, HalvesFacts
    <2> HIDE DEF hs
    <2>3. PICK m : m = Len(S)
      OBVIOUS
    <2>4. m = 4 \/ m = 5
      BY <1>1, <2>3
    <2>5. 2 * m \in 8 .. 10
      BY ONLY <2>4
    <2>6. l \in 8 .. 10
      BY ONLY <2>3, <2>5
    <2> QED
      BY ONLY <2>2, <2>6
  <1>3. F = [i \in 1 .. n |-> Record("handshake", FALSE, 0, SubSeq(hs, (i - 1) * cut + 1, to(i)))]
    BY DEF Packed
  <1>h. \A k : Hd(k) = IF k < Len(F) THEN k * cut ELSE l
    BY DEF Held
  <1>4. n \in Nat /\ n * cut <= l + cut - 1 /\ l + cut - 1 < n * cut + cut
    <2>1. PICK m : m = l + cut - 1
      OBVIOUS
    <2>2. m \in Nat
      BY <1>2, <2>1
    <2>3. m \div cut \in Nat /\ (m \div cut) * cut <= m /\ m < (m \div cut) * cut + cut
      BY ONLY <2>2, cut \in Nat \ {0}
    <2> QED
      BY <1>2, <2>1, <2>3
  <1> HIDE DEF n, F, Hd, l, hs, S
  <1>5. IsSeq(F) /\ Len(F) = n
    <2>1. DOMAIN F = 1 .. n /\ F = [i \in 1 .. n |-> F[i]]
      BY <1>3
    <2> QED
      BY <1>4, <2>1, ListFacts
  <1>6. n # 0
    <2>1. n = 0 => n * cut = 0
      OBVIOUS
    <2> QED
      BY <1>2, <1>4, <2>1
  <1>7. ASSUME NEW k \in 0 .. n - 1
        PROVE  /\ F[k + 1] = Record("handshake", FALSE, 0, SubSeq(hs, Hd(k) + 1, Hd(k + 1)))
               /\ Hd(k) \in Nat /\ Hd(k + 1) \in Nat /\ Hd(k) < l
               /\ Hd(k) <= Hd(k + 1) /\ Hd(k + 1) <= l /\ (Hd(k + 1) = l => k + 1 = n)
    <2>1. k * cut \in Nat /\ (k + 1) * cut = k * cut + cut /\ (k + 1) * cut \in Nat
      BY <1>4
    <2>2. (k + 1) * cut <= n * cut
      BY <1>4
    <2>3. k * cut < l
      BY <1>2, <1>4, <2>1, <2>2
    <2>4. Hd(k) = k * cut
      BY <1>4, <1>5, <1>h
    <2>5. k + 1 < n => (k + 1) * cut < l /\ Hd(k + 1) = (k + 1) * cut
      <3>1. k + 1 < n => (k + 2) * cut <= n * cut /\ (k + 2) * cut = (k + 1) * cut + cut
        BY <1>4
      <3> QED
        BY <1>2, <1>4, <1>5, <1>h, <2>1, <3>1
    <2>6. k + 1 = n => Hd(k + 1) = l /\ ~ (k + 1) * cut < l
      BY <1>2, <1>4, <1>5, <1>h
    <2>7. to(k + 1) = Hd(k + 1)
      BY <1>2, <1>4, <2>5, <2>6
    <2>8. F[k + 1] = Record("handshake", FALSE, 0, SubSeq(hs, k * cut + 1, to(k + 1)))
      <3>1. k + 1 \in 1 .. n /\ k + 1 - 1 = k
        BY <1>4
      <3> QED
        BY <1>3, <3>1
    <2>9. Hd(k) \in Nat /\ Hd(k + 1) \in Nat /\ Hd(k) < l
          /\ Hd(k) <= Hd(k + 1) /\ Hd(k + 1) <= l /\ (Hd(k + 1) = l => k + 1 = n)
      <3>1. CASE k + 1 < n
        BY <1>2, <2>1, <2>3, <2>4, <2>5, <3>1
      <3>2. CASE k + 1 = n
        BY <1>2, <2>1, <2>3, <2>4, <2>6, <3>2
      <3> QED
        BY <1>4, <3>1, <3>2
    <2> QED
      BY <2>4, <2>7, <2>8, <2>9
  <1> QED
    BY <1>4, <1>5, <1>6, <1>7 DEF Hd, F, S, l, hs

\* The client that has read k records of the server's messages ...
KeysAt(t, k, cert, cut) ==
  \E w \in 0 .. Len(ServerMessages(cert)) : \E b \in {0, 1} :
    /\ Held(cert, cut, k) = 2 * w + b
    /\ Met(t, w, cert)
    /\ t.hs = SubSeq(Halves(ServerMessages(cert)), 2 * w + 1, Held(cert, cut, k))

\* ... of the end of the handshake ...
RequestAt(t, k, digest) ==
  /\ t.sentFinished /\ t.hash = digest /\ t.hs = << >>
  /\ (t.encIn <=> k >= 1)
  /\ t.state = IF k = 2 THEN "ready" ELSE "handshake"
  /\ t.rdSeq = IF k = 2 THEN 1 ELSE 0

\* ... and of the reply, which has p pieces.
ReplyAt(t, k, digest, p) ==
  /\ t.encIn /\ t.hash = digest /\ t.rdSeq = 1 + k
  /\ t.state = IF k = p + 1 THEN "closed" ELSE "ready"

\* A record that is only begun changes nothing of this.
LEMMA StagesLast ==
  ASSUME NEW t, NEW u, But({"rec", "out", "data"}, t, u)
  PROVE  /\ \A k, cert, cut : KeysAt(t, k, cert, cut) => KeysAt(u, k, cert, cut)
         /\ \A k, digest : RequestAt(t, k, digest) => RequestAt(u, k, digest)
         /\ \A k, digest, p : ReplyAt(t, k, digest, p) => ReplyAt(u, k, digest, p)
  <1>1. /\ u.state = t.state /\ u.encIn = t.encIn /\ u.rdSeq = t.rdSeq
        /\ u.sentFinished = t.sentFinished /\ u.hash = t.hash /\ u.hs = t.hs
    BY DEF But, Fields
  <1>2. But({"hs", "rec", "out", "data"}, t, u)
    BY DEF But
  <1>3. ASSUME NEW k, NEW cert, NEW cut, KeysAt(t, k, cert, cut) PROVE KeysAt(u, k, cert, cut)
    BY <1>1, <1>2, <1>3, MetLasts DEF KeysAt
  <1>4. ASSUME NEW k, NEW digest, RequestAt(t, k, digest) PROVE RequestAt(u, k, digest)
    BY <1>1, <1>4 DEF RequestAt
  <1>5. ASSUME NEW k, NEW digest, NEW p, ReplyAt(t, k, digest, p) PROVE ReplyAt(u, k, digest, p)
    BY <1>1, <1>5 DEF ReplyAt
  <1> QED
    BY <1>3, <1>4, <1>5

\* Nothing is half said.
Quiet(t) == t.rec = << >> /\ t.out = << >> /\ t.data = << >>

\* One of the server's messages' records.
KeysDone(u, k, cert, cut) ==
  /\ Client(u) /\ KeysAt(u, k + 1, cert, cut)
  /\ u.rec = << >> /\ u.data = << >>
  /\ u.out = IF k + 1 = Len(Packed(ServerMessages(cert), cut)) THEN Answering(cert) ELSE << >>

\* The client that reads the next of these records goes on to the next stage, and has
\* answered with the last one.
LEMMA KeysRecord ==
  ASSUME NEW cert \in BOOLEAN, NEW cut \in Nat \ {0}, NEW t, Client(t), Quiet(t),
         NEW k \in Nat, k < Len(Packed(ServerMessages(cert), cut)), KeysAt(t, k, cert, cut)
  PROVE  KeysDone(processRecord(t, Packed(ServerMessages(cert), cut)[k + 1]), k, cert, cut)
  <1> DEFINE S == ServerMessages(cert)
             F == Packed(S, cut)
             H == Halves(S)
             c == Held(cert, cut, k)
             d == Held(cert, cut, k + 1)
             u == processRecord(t, F[k + 1])
             Goal == /\ Client(u) /\ KeysAt(u, k + 1, cert, cut)
                     /\ u.rec = << >> /\ u.data = << >>
                     /\ u.out = IF k + 1 = Len(F) THEN Answering(cert) ELSE << >>
  <1> SUFFICES Goal
    BY DEF KeysDone
  <1>1. /\ F[k + 1] = Record("handshake", FALSE, 0, SubSeq(H, c + 1, d))
        /\ c \in Nat /\ d \in Nat /\ c < 2 * Len(S) /\ c <= d /\ d <= 2 * Len(S)
        /\ (d = 2 * Len(S) => k + 1 = Len(F)) /\ (k + 1 = Len(F) => d = 2 * Len(S))
    <2>1. Len(F) \in Nat
      BY PackedFacts
    <2>2. k \in 0 .. Len(F) - 1
      BY <2>1
    <2>3. k + 1 = Len(F) => d = 2 * Len(S)
      BY <2>1 DEF Held
    <2> HIDE DEF c, d
    <2> QED
      BY <2>2, <2>3, PackedFacts DEF c, d
  <1>2. IsSeq(S) /\ Len(S) \in Nat /\ IsSeq(H) /\ Len(H) = 2 * Len(S)
    <2>1. IsSeq(S)
      BY ServerSays
    <2> HIDE DEF S
    <2> QED
      BY <2>1, SeqFacts, HalvesFacts
  <1>3. PICK w \in 0 .. Len(S) : \E b \in {0, 1} :
          c = 2 * w + b /\ Met(t, w, cert) /\ t.hs = SubSeq(H, 2 * w + 1, c)
    BY DEF KeysAt
  <1>4. /\ w \in Nat /\ w < Len(S) /\ 2 * w <= c /\ Met(t, w, cert)
        /\ t.hs = SubSeq(H, 2 * w + 1, c)
    BY <1>1, <1>2, <1>3
  <1>5. PICK body : body = SubSeq(H, c + 1, d)
    OBVIOUS
  <1> DEFINE v == [t EXCEPT !.hs = @ \o body]
  <1>6. u = processHandshake(v)
    <2>1. t.state = "handshake" /\ ~ t.encIn
      BY <1>4 DEF Met
    <2>2. PICK r : r = F[k + 1]
      OBVIOUS
    <2>3. r.type = "handshake" /\ r.body = body
      <3> HIDE DEF F, H, c, d
      <3> QED
        BY <1>1, <1>5, <2>2 DEF Record
    <2>4. processRecord(t, r) = ProcessPlain(t, r)
      BY <2>1 DEF processRecord
    <2>5. ProcessPlain(t, r) = processHandshake(v)
      BY <2>1, <2>3 DEF ProcessPlain
    <2> QED
      BY <2>2, <2>4, <2>5
  <1> HIDE DEF S, F, H, c, d, u
  <1>7. t.hs \o body = SubSeq(H, 2 * w + 1, d)
    <2>1. PICK i : i = 2 * w
      OBVIOUS
    <2>2. i \in Nat /\ i <= c /\ c <= d /\ d <= Len(H)
      BY <1>1, <1>2, <1>4, <2>1
    <2>3. SubSeq(H, i + 1, c) \o SubSeq(H, c + 1, d) = SubSeq(H, i + 1, d)
      <3>1. IsSeq(H) /\ c \in Nat /\ d \in Nat
        BY <1>1, <1>2
      <3> QED
        BY ONLY <2>2, <3>1, SlicesJoin
    <2> QED
      BY <1>4, <1>5, <2>1, <2>3
  <1>8. IsSeq(t.hs \o body)
    <2>1. IsSeq(t.hs)
      BY DEF Client
    <2>2. IsSeq(body)
      BY <1>1, <1>2, <1>5, SliceFacts
    <2> QED
      BY <2>1, <2>2, ConcatFacts
  <1>9. Client(v) /\ v.hs = t.hs \o body /\ But({"hs"}, t, v)
    BY <1>8 DEF Client, Fields, But
  <1> HIDE DEF v
  <1>10. PICK n \in Nat, b \in {0, 1} : Swallows(v, S, w, d, n, b)
    <2>1. 2 * w <= d /\ d <= 2 * Len(S) /\ d \in Nat
      BY <1>1, <1>4
    <2>2. v.hs = SubSeq(Halves(S), 2 * w + 1, d)
      BY <1>7, <1>9 DEF H
    <2>3. Client(v) /\ IsSeq(S) /\ w \in Nat
      BY <1>2, <1>4, <1>9
    <2> QED
      BY ONLY <2>1, <2>2, <2>3, SliceHandled
  <1>a. /\ d = 2 * (w + n) + b
        /\ processHandshake(v) = [Handled(v, SubSeq(S, w + 1, w + n))
                                    EXCEPT !.hs = SubSeq(H, 2 * (w + n) + 1, d)]
    BY <1>10 DEF Swallows, H
  <1>11. w + n <= Len(S) /\ w + n \in 0 .. Len(S) /\ (w + n = Len(S) <=> k + 1 = Len(F))
    <2>1. PICK g, l : g = w + n /\ l = Len(S)
      OBVIOUS
    <2>2. g \in Nat /\ l \in Nat /\ d = 2 * g + b /\ d <= 2 * l /\ b \in {0, 1}
      <3>1. w \in Nat /\ n \in Nat /\ b \in {0, 1}
        BY <1>4, <1>10
      <3>2. d = 2 * (w + n) + b /\ d <= 2 * Len(S) /\ Len(S) \in Nat
        BY <1>1, <1>2, <1>a
      <3> QED
        BY ONLY <2>1, <3>1, <3>2
    <2>3. g <= l /\ g \in 0 .. l /\ (g = l <=> d = 2 * l)
      BY ONLY <2>2
    <2> QED
      BY <1>1, <2>1, <2>3
  <1> DEFINE x == Handled(v, SubSeq(S, w + 1, w + n))
  <1>12. Client(x) /\ Met(x, w + n, cert) /\ Saying(x, w + n, cert) /\ But(Moved, v, x)
    <2>1. Met(v, w, cert)
      <3>1. But({"hs", "rec", "out", "data"}, t, v)
        BY <1>9 DEF But
      <3> QED
        BY <1>4, <3>1, MetLasts
    <2>2. v.out = << >>
      BY <1>9 DEF But, Fields, Quiet
    <2> QED
      BY <1>4, <1>9, <1>11, <2>1, <2>2, HandledMeets DEF S
  <1>13. u = [x EXCEPT !.hs = SubSeq(H, 2 * (w + n) + 1, d)]
    BY <1>6, <1>a
  <1> HIDE DEF x
  <1>14. IsSeq(SubSeq(H, 2 * (w + n) + 1, d))
    <2>1. PICK i : i = 2 * (w + n)
      OBVIOUS
    <2>2. PICK g : g = w + n
      OBVIOUS
    <2>3. g \in Nat /\ i = 2 * g /\ d = 2 * g + b /\ b \in {0, 1} /\ d <= Len(H)
      <3>1. w \in Nat /\ n \in Nat /\ b \in {0, 1}
        BY <1>4, <1>10
      <3>2. d <= Len(H)
        BY <1>1, <1>2
      <3> QED
        BY ONLY <1>a, <2>1, <2>2, <3>1, <3>2
    <2>4. i \in Nat /\ i <= d /\ d <= Len(H)
      BY ONLY <2>3
    <2> QED
      BY <1>1, <1>2, <2>1, <2>4, SliceFacts
  <1>15. Client(u) /\ u.hs = SubSeq(H, 2 * (w + n) + 1, d) /\ But({"hs"}, x, u)
    BY <1>12, <1>13, <1>14 DEF Client, Fields, But
  <1>16. Met(u, w + n, cert)
    <2>1. But({"hs", "rec", "out", "data"}, x, u)
      BY <1>15 DEF But
    <2> QED
      BY <1>12, <2>1, MetLasts
  <1>17. KeysAt(u, k + 1, cert, cut)
    BY <1>a, <1>11, <1>15, <1>16 DEF KeysAt, H, S, d
  <1>18. u.rec = t.rec /\ u.data = t.data /\ u.out = x.out
    <2>1. u.rec = x.rec /\ u.data = x.data /\ u.out = x.out
      BY <1>15 DEF But, Fields
    <2>2. x.rec = v.rec /\ x.data = v.data
      BY <1>12 DEF But, Fields, Moved
    <2>3. v.rec = t.rec /\ v.data = t.data
      BY <1>9 DEF But, Fields
    <2> QED
      BY <2>1, <2>2, <2>3
  <1>19. u.out = IF k + 1 = Len(F) THEN Answering(cert) ELSE << >>
    BY <1>11, <1>12, <1>18 DEF Saying, S
  <1> QED
    BY <1>15, <1>17, <1>18, <1>19 DEF Quiet

\* The end of the handshake is two records.
LEMMA FinishesIs ==
  ASSUME NEW digest
  PROVE  LET F == ServerFinishes(digest)
         IN  /\ IsSeq(F) /\ Len(F) = 2
             /\ F[1] = Record("changeCipherSpec", FALSE, 0, << >>)
             /\ F[2] = Record("handshake", TRUE, 0, Halves(<< Message("Finished", digest) >>))
  <1>1. PICK a, b : /\ a = Record("changeCipherSpec", FALSE, 0, << >>)
                    /\ b = Record("handshake", TRUE, 0, Halves(<< Message("Finished", digest) >>))
    OBVIOUS
  <1>2. << a, b >> \in Seq({a, b}) /\ Len(<< a, b >>) = 2 /\ << a, b >>[1] = a /\ << a, b >>[2] = b
    OBVIOUS
  <1> QED
    BY <1>1, <1>2 DEF ServerFinishes, IsSeq

\* The client takes both of them.
LEMMA RequestRecord ==
  ASSUME NEW digest, NEW t, Client(t), Quiet(t), NEW k \in 0 .. 1, RequestAt(t, k, digest)
  PROVE  LET u == processRecord(t, ServerFinishes(digest)[k + 1])
         IN  Client(u) /\ RequestAt(u, k + 1, digest) /\ Quiet(u)
  <1> DEFINE u == processRecord(t, ServerFinishes(digest)[k + 1])
             Goal == Client(u) /\ RequestAt(u, k + 1, digest) /\ Quiet(u)
  <1> SUFFICES Goal
    OBVIOUS
  <1>1. CASE k = 0
    <2>1. PICK r : r = ServerFinishes(digest)[k + 1]
      OBVIOUS
    <2>2. r.type = "changeCipherSpec"
      <3>1. ServerFinishes(digest)[1] = Record("changeCipherSpec", FALSE, 0, << >>)
        BY ONLY FinishesIs
      <3>2. k + 1 = 1
        BY <1>1
      <3> QED
        BY <2>1, <3>1, <3>2 DEF Record
    <2>3. ~ t.encIn /\ t.sentFinished /\ t.state = "handshake" /\ t.rdSeq = 0
      BY <1>1 DEF RequestAt
    <2>4. processRecord(t, r) = [t EXCEPT !.encIn = TRUE]
      BY <2>2, <2>3 DEF processRecord, ProcessPlain
    <2>5. u = [t EXCEPT !.encIn = TRUE]
      BY <2>1, <2>4
    <2> HIDE DEF u
    <2>6. Client(u) /\ u.encIn = TRUE /\ But({"encIn"}, t, u)
      BY <2>5 DEF Client, Fields, But
    <2>7. /\ u.state = t.state /\ u.rdSeq = t.rdSeq /\ u.sentFinished = t.sentFinished
          /\ u.hash = t.hash /\ u.hs = t.hs /\ u.rec = t.rec /\ u.out = t.out /\ u.data = t.data
      BY <2>6 DEF But, Fields
    <2> QED
      BY <1>1, <2>3, <2>6, <2>7 DEF RequestAt, Quiet
  <1>2. CASE k = 1
    <2> DEFINE m == Message("Finished", digest)
               M == << m >>
               H == Halves(M)
               v == [t EXCEPT !.rdSeq = @ + 1]
               x == [v EXCEPT !.hs = @ \o H]
    <2>1. IsSeq(M) /\ Len(M) = 1 /\ M[1] = m
      BY SmallSeqs
    <2>2. IsSeq(H) /\ Len(H) = 2
      <3> HIDE DEF M
      <3> QED
        <4>1. IsSeq(M)
          BY <2>1
        <4>2. IsSeq(H) /\ Len(H) = 2 * Len(M)
          BY ONLY <4>1, HalvesFacts
        <4> QED
          BY <2>1, <4>2
    <2>3. PICK r : r = ServerFinishes(digest)[k + 1]
      OBVIOUS
    <2>4. r.type = "handshake" /\ r.sealed = TRUE /\ r.seq = 0 /\ r.body = H
      <3> HIDE DEF H
      <3>1. r = Record("handshake", TRUE, 0, H)
        <4>1. ServerFinishes(digest)[2] = Record("handshake", TRUE, 0, H)
          BY ONLY FinishesIs DEF H, M, m
        <4>2. k + 1 = 2
          BY <1>2
        <4> QED
          BY <2>3, <4>1, <4>2
      <3> QED
        BY <3>1 DEF Record
    <2>5. /\ t.encIn /\ t.sentFinished /\ t.state = "handshake" /\ t.rdSeq = 0
          /\ t.hash = digest /\ t.hs = << >>
      BY <1>2 DEF RequestAt
    <2> HIDE DEF H, M
    <2>6. processRecord(t, r) = ProcessPlain(v, r)
      BY <2>4, <2>5 DEF processRecord, Opens
    <2>7. Client(v) /\ v.rdSeq = 1 /\ But({"rdSeq"}, t, v)
      <3>1. 0 + 1 = 1 /\ 1 \in Nat
        OBVIOUS
      <3> QED
        BY <2>5, <3>1 DEF Client, Fields, But
    <2> HIDE DEF v
    <2>8. v.state = "handshake" /\ v.hs = << >>
      BY <2>5, <2>7 DEF But, Fields
    <2>9. ProcessPlain(v, r) = processHandshake(x)
      BY <2>4, <2>8 DEF ProcessPlain
    <2>10. << >> \o H = H
      <3>1. IsSeq(<< >>)
        BY SmallSeqs
      <3> QED
        BY <2>2, <3>1, ConcatFacts
    <2>11. Client(x) /\ x.hs = H /\ But({"hs"}, v, x)
      BY <2>2, <2>7, <2>8, <2>10 DEF Client, Fields, But
    <2> HIDE DEF x
    <2>12. PICK S : H \in Seq(S)
      BY <2>2 DEF IsSeq
    <2>13. x.hs = SubSeq(Halves(M), 2 * 0 + 1, 2)
      <3>1. SubSeq(H, 1, Len(H)) = H
        BY <2>12, SubSeqFull
      <3> QED
        BY <2>2, <2>11, <3>1 DEF H
    <2>14. PICK n \in Nat, b \in {0, 1} : Swallows(x, M, 0, 2, n, b)
      <3>1. 0 \in Nat /\ 2 \in Nat /\ 2 * 0 <= 2 /\ 2 <= 2 * Len(M)
        BY <2>1
      <3> QED
        BY ONLY <2>1, <2>11, <2>13, <3>1, SliceHandled
    <2>15. n = 1 /\ 2 = 2 * (0 + n) + b
      BY <2>14 DEF Swallows
    <2>16. PICK T : M \in Seq(T)
      BY <2>1 DEF IsSeq
    <2>17. SubSeq(M, 0 + 1, 0 + n) = M
      <3>1. SubSeq(M, 1, Len(M)) = M
        BY <2>16, SubSeqFull
      <3> QED
        BY <2>1, <2>15, <3>1
    <2>18. SubSeq(H, 2 * (0 + n) + 1, 2) = << >>
      <3>1. 2 * (0 + n) + 1 = 3
        BY <2>15
      <3>2. SubSeq(H, 3, 2) = << >>
        BY SubSeqEmpty
      <3> QED
        BY <3>1, <3>2
    <2>19. processHandshake(x) = [Handled(x, M) EXCEPT !.hs = << >>]
      <3>1. processHandshake(x) = [Handled(x, SubSeq(M, 0 + 1, 0 + n))
                                    EXCEPT !.hs = SubSeq(Halves(M), 2 * (0 + n) + 1, 2)]
        BY <2>14 DEF Swallows
      <3> QED
        BY <2>17, <2>18, <3>1 DEF H
    <2>20. Handled(x, M) = HandleMessage(x, m)
      <3>1. PICK f : /\ f[0] = x /\ Handled(x, M) = f[Len(M)]
                     /\ \A i \in 1 .. Len(M) : f[i] = HandleMessage(f[i - 1], M[i])
        BY ONLY <2>1, HandledIs
      <3>2. f[1] = HandleMessage(f[1 - 1], M[1])
        BY <2>1, <3>1
      <3> QED
        BY <2>1, <3>1, <3>2
    <2>21. /\ x.state = "handshake" /\ x.sentFinished /\ x.encIn /\ x.hash = digest
           /\ x.rdSeq = 1 /\ x.rec = t.rec /\ x.out = t.out /\ x.data = t.data
      <3>1. /\ x.state = v.state /\ x.sentFinished = v.sentFinished /\ x.encIn = v.encIn
            /\ x.hash = v.hash /\ x.rdSeq = v.rdSeq /\ x.rec = v.rec /\ x.out = v.out
            /\ x.data = v.data
        BY <2>11 DEF But, Fields
      <3>2. /\ v.sentFinished = t.sentFinished /\ v.encIn = t.encIn
            /\ v.hash = t.hash /\ v.rec = t.rec /\ v.out = t.out
            /\ v.data = t.data
        BY <2>7 DEF But, Fields
      <3> QED
        BY <2>5, <2>7, <2>8, <3>1, <3>2
    <2>22. HandleMessage(x, m) = [x EXCEPT !.state = "ready"]
      <3>1. m.kind = "Finished" /\ m.digest = digest
        BY DEF Message
      <3> HIDE DEF m
      <3> QED
        BY <2>21, <3>1 DEF HandleMessage, handleFinished
    <2> DEFINE y == [x EXCEPT !.state = "ready"]
    <2>23. u = [y EXCEPT !.hs = << >>]
      BY <2>3, <2>6, <2>9, <2>19, <2>20, <2>22
    <2>24. Client(y) /\ y.state = "ready" /\ But({"state"}, x, y)
      BY <2>11 DEF Client, Fields, But
    <2> HIDE DEF y, u
    <2>25. Client(u) /\ u.hs = << >> /\ But({"hs"}, y, u)
      <3>1. IsSeq(<< >>)
        BY SmallSeqs
      <3> QED
        BY <2>23, <2>24, <3>1 DEF Client, Fields, But
    <2>26. /\ u.state = "ready" /\ u.sentFinished = x.sentFinished /\ u.encIn = x.encIn
           /\ u.hash = x.hash /\ u.rdSeq = x.rdSeq /\ u.rec = x.rec /\ u.out = x.out
           /\ u.data = x.data
      <3>1. /\ u.state = y.state /\ u.sentFinished = y.sentFinished /\ u.encIn = y.encIn
            /\ u.hash = y.hash /\ u.rdSeq = y.rdSeq /\ u.rec = y.rec /\ u.out = y.out
            /\ u.data = y.data
        BY <2>25 DEF But, Fields
      <3>2. /\ y.sentFinished = x.sentFinished /\ y.encIn = x.encIn
            /\ y.hash = x.hash /\ y.rdSeq = x.rdSeq /\ y.rec = x.rec /\ y.out = x.out
            /\ y.data = x.data
        BY <2>24 DEF But, Fields
      <3> QED
        BY <2>24, <3>1, <3>2
    <2> QED
      BY <1>2, <2>21, <2>25, <2>26 DEF RequestAt, Quiet
  <1> QED
    BY <1>1, <1>2

\* The reply is a record for each piece, and a notice that it is all.
LEMMA DataIs ==
  ASSUME NEW body, IsSeq(body)
  PROVE  LET F == ServerData(body)
             p == Len(body)
         IN  /\ IsSeq(F) /\ Len(F) = p + 1
             /\ \A i \in 1 .. p : F[i] = Record("data", TRUE, i, body[i])
             /\ F[p + 1] = Record("alert", TRUE, p + 1, "close")
  <1> DEFINE p == Len(body)
             a == [i \in 1 .. p |-> Record("data", TRUE, i, body[i])]
             c == << Record("alert", TRUE, p + 1, "close") >>
  <1>1. p \in Nat
    BY SeqFacts
  <1>2. IsSeq(a) /\ Len(a) = p
    <2>1. DOMAIN a = 1 .. p /\ a = [i \in 1 .. p |-> a[i]]
      OBVIOUS
    <2> HIDE DEF a, p
    <2> QED
      BY <1>1, <2>1, ListFacts
  <1>3. \A i \in 1 .. p : a[i] = Record("data", TRUE, i, body[i])
    OBVIOUS
  <1>4. IsSeq(c) /\ Len(c) = 1 /\ c[1] = Record("alert", TRUE, p + 1, "close")
    BY SmallSeqs
  <1>5. PICK F : F = a \o c
    OBVIOUS
  <1>6. ServerData(body) = F
    BY <1>5 DEF ServerData
  <1> HIDE DEF a, c, p
  <1>7. /\ IsSeq(F) /\ Len(F) = Len(a) + Len(c) /\ \A i \in 1 .. Len(a) : F[i] = a[i]
        /\ \A i \in 1 .. Len(c) : F[Len(a) + i] = c[i]
    <2>1. IsSeq(a) /\ IsSeq(c)
      BY <1>2, <1>4
    <2> QED
      BY ONLY <1>5, <2>1, ConcatFacts
  <1>8. F[p + 1] = c[1]
    <2>1. 1 \in 1 .. Len(c)
      BY <1>4
    <2>2. F[Len(a) + 1] = c[1]
      BY ONLY <1>7, <2>1
    <2> QED
      BY <1>2, <2>2
  <1>9. IsSeq(F) /\ Len(F) = p + 1 /\ \A i \in 1 .. p : F[i] = a[i]
    BY <1>1, <1>2, <1>4, <1>7
  <1> QED
    BY <1>3, <1>4, <1>6, <1>8, <1>9 DEF p

\* The client takes them in their order, and hands the pieces on.
LEMMA ReplyRecord ==
  ASSUME NEW body, IsSeq(body), NEW digest, NEW t, Client(t), Quiet(t),
         NEW k \in 0 .. Len(body), ReplyAt(t, k, digest, Len(body))
  PROVE  LET u == processRecord(t, ServerData(body)[k + 1])
         IN  /\ Client(u) /\ ReplyAt(u, k + 1, digest, Len(body))
             /\ u.rec = << >> /\ u.out = << >>
             /\ u.data = IF k < Len(body) THEN << body[k + 1] >> ELSE << >>
  <1> DEFINE u == processRecord(t, ServerData(body)[k + 1])
             p == Len(body)
             v == [t EXCEPT !.rdSeq = @ + 1]
             Goal == /\ Client(u) /\ ReplyAt(u, k + 1, digest, p)
                     /\ u.rec = << >> /\ u.out = << >>
                     /\ u.data = IF k < p THEN << body[k + 1] >> ELSE << >>
  <1> SUFFICES Goal
    OBVIOUS
  <1>1. p \in Nat
    BY SeqFacts
  <1>2. PICK r : r = ServerData(body)[k + 1]
    OBVIOUS
  <1>3. /\ k < p => r = Record("data", TRUE, k + 1, body[k + 1])
        /\ k = p => r = Record("alert", TRUE, k + 1, "close")
    <2>1. /\ \A i \in 1 .. p : ServerData(body)[i] = Record("data", TRUE, i, body[i])
          /\ ServerData(body)[p + 1] = Record("alert", TRUE, p + 1, "close")
      BY DataIs
    <2>2. k < p => k + 1 \in 1 .. p
      BY <1>1
    <2> QED
      BY <1>2, <2>1, <2>2
  <1>4. t.encIn /\ t.hash = digest /\ t.rdSeq = 1 + k /\ t.state = "ready"
    BY <1>1 DEF ReplyAt
  <1>5. Client(v) /\ v.rdSeq = 1 + (k + 1) /\ But({"rdSeq"}, t, v)
    <2>1. PICK l : l = 1 + k + 1
      OBVIOUS
    <2>2. l \in Nat /\ l = 1 + (k + 1)
      BY <1>1, <2>1
    <2>3. v = [t EXCEPT !.rdSeq = l]
      BY <1>4, <2>1
    <2> HIDE DEF v
    <2> QED
      BY <2>2, <2>3 DEF Client, Fields, But
  <1>6. r.sealed = TRUE /\ r.seq = k + 1 /\ (k < p => r.type = "data" /\ r.body = body[k + 1])
        /\ (k = p => r.type = "alert" /\ r.body = "close")
    BY <1>1, <1>3 DEF Record
  <1>7. processRecord(t, r) = ProcessPlain(v, r)
    BY <1>1, <1>4, <1>6 DEF processRecord, Opens
  <1> HIDE DEF v
  <1>8. /\ v.state = "ready" /\ v.encIn = t.encIn /\ v.hash = t.hash /\ v.rec = t.rec
        /\ v.out = t.out /\ v.data = t.data
    BY <1>4, <1>5 DEF But, Fields
  <1>9. CASE k < p
    <2>1. v.data = << >>
      BY <1>8 DEF Quiet
    <2>2. u = [v EXCEPT !.data = Append(@, body[k + 1])]
      BY <1>2, <1>6, <1>7, <1>8, <1>9 DEF ProcessPlain
    <2>3. PICK d : d = << body[k + 1] >>
      OBVIOUS
    <2>4. Append(<< >>, body[k + 1]) = d /\ IsSeq(d)
      BY <2>3, SmallSeqs
    <2>5. u = [v EXCEPT !.data = d]
      BY <2>1, <2>2, <2>4
    <2> HIDE DEF u
    <2>6. Client(u) /\ u.data = d /\ But({"data"}, v, u)
      BY <1>5, <2>4, <2>5 DEF Client, Fields, But
    <2>7. /\ u.state = "ready" /\ u.encIn = t.encIn /\ u.hash = t.hash /\ u.rec = t.rec
          /\ u.out = t.out /\ u.rdSeq = v.rdSeq
      BY <1>8, <2>6 DEF But, Fields
    <2>8. k + 1 # p + 1
      BY <1>1, <1>9
    <2> QED
      BY <1>4, <1>5, <1>9, <2>3, <2>6, <2>7, <2>8 DEF ReplyAt, Quiet
  <1>10. CASE k = p
    <2>1. u = [v EXCEPT !.state = "closed"]
      BY <1>2, <1>6, <1>7, <1>10 DEF ProcessPlain
    <2> HIDE DEF u
    <2>2. Client(u) /\ u.state = "closed" /\ But({"state"}, v, u)
      BY <1>5, <2>1 DEF Client, Fields, But
    <2>3. /\ u.encIn = t.encIn /\ u.hash = t.hash /\ u.rec = t.rec
          /\ u.out = t.out /\ u.rdSeq = v.rdSeq /\ u.data = t.data
      BY <1>8, <2>2 DEF But, Fields
    <2>4. ~ k < p
      BY <1>1, <1>10
    <2> QED
      BY <1>4, <1>5, <1>10, <2>2, <2>3, <2>4 DEF ReplyAt, Quiet
  <1> QED
    BY <1>1, <1>9, <1>10

-----------------------------------------------------------------------------
(* The response.                                                           *)

Pieces(s, n) == [i \in 1 .. n |-> <<s.reply, i>>]
Least(a, b) == IF a < b THEN a ELSE b

\* The pieces of a reply.
LEMMA PiecesFacts ==
  ASSUME NEW s, NEW n \in Nat
  PROVE  /\ IsSeq(Pieces(s, n)) /\ Len(Pieces(s, n)) = n
         /\ \A i \in 1 .. n : Pieces(s, n)[i] = <<s.reply, i>>
  <1>1. PICK f : f = Pieces(s, n)
    OBVIOUS
  <1>2. f = [i \in 1 .. n |-> <<s.reply, i>>]
    BY <1>1 DEF Pieces
  <1>3. DOMAIN f = 1 .. n /\ f = [i \in 1 .. n |-> f[i]]
    BY <1>2
  <1> QED
    BY <1>1, <1>2, <1>3, ListFacts

\* What fits into resp.
LEMMA CappedIs ==
  ASSUME NEW r, IsSeq(r)
  PROVE  /\ IsSeq(Capped(r)) /\ Len(Capped(r)) = Least(Len(r), RESP_MAX)
         /\ \A i \in 1 .. Least(Len(r), RESP_MAX) : Capped(r)[i] = r[i]
         /\ Len(r) <= RESP_MAX => Capped(r) = r
  <1>1. PICK n : n = Least(Len(r), RESP_MAX)
    OBVIOUS
  <1>2. RESP_MAX \in Nat /\ Len(r) \in Nat
    BY BrowserAssumption, SeqFacts
  <1>3. n \in Nat /\ n <= Len(r) /\ (Len(r) <= RESP_MAX => n = Len(r))
    BY <1>1, <1>2 DEF Least
  <1>4. PICK c : c = Capped(r)
    OBVIOUS
  <1>5. c = SubSeq(r, 0 + 1, n)
    BY <1>1, <1>4 DEF Capped, Least
  <1>6. IsSeq(c) /\ Len(c) = n - 0 /\ \A i \in 1 .. n - 0 : c[i] = r[0 + i]
    BY <1>3, <1>5, SliceFacts
  <1>7. Len(c) = n /\ \A i \in 1 .. n : c[i] = r[i]
    BY <1>3, <1>6
  <1>8. Len(r) <= RESP_MAX => c = r
    BY <1>3, <1>6, <1>7, SameSeq
  <1> QED
    BY <1>1, <1>4, <1>6, <1>7, <1>8

\* One more piece, unless the response is full.
LEMMA PiecesGrow ==
  ASSUME NEW s, NEW k \in Nat
  PROVE  LET r == Pieces(s, Least(k, RESP_MAX))
         IN  /\ Capped(Append(r, <<s.reply, k + 1>>)) = Pieces(s, Least(k + 1, RESP_MAX))
             /\ r \o << <<s.reply, k + 1>> >> = Append(r, <<s.reply, k + 1>>)
             /\ Capped(r \o << >>) = r
  <1>1. PICK m, n, r, x : /\ m = Least(k, RESP_MAX) /\ n = Least(k + 1, RESP_MAX)
                          /\ r = Pieces(s, m) /\ x = <<s.reply, k + 1>>
    OBVIOUS
  <1>2. RESP_MAX \in Nat
    BY BrowserAssumption
  <1>3. /\ m \in Nat /\ n \in Nat /\ m <= RESP_MAX /\ n = Least(m + 1, RESP_MAX)
        /\ n <= m + 1 /\ (n = m + 1 => m = k)
    BY <1>1, <1>2 DEF Least
  <1>4. IsSeq(r) /\ Len(r) = m /\ \A i \in 1 .. m : r[i] = <<s.reply, i>>
    BY <1>1, <1>3, PiecesFacts
  <1>5. PICK a : a = Append(r, x)
    OBVIOUS
  <1>6. IsSeq(a) /\ Len(a) = m + 1 /\ a[m + 1] = x /\ \A i \in 1 .. m : a[i] = r[i]
    BY <1>4, <1>5, AppendFacts
  <1>7. PICK c : c = Capped(a)
    OBVIOUS
  <1>8. IsSeq(c) /\ Len(c) = n /\ \A i \in 1 .. n : c[i] = a[i]
    <2>1. /\ IsSeq(c) /\ Len(c) = Least(Len(a), RESP_MAX)
          /\ \A i \in 1 .. Least(Len(a), RESP_MAX) : c[i] = a[i]
      BY <1>6, <1>7, CappedIs
    <2> QED
      BY <1>3, <1>6, <2>1
  <1>9. PICK d : d = Pieces(s, n)
    OBVIOUS
  <1>10. IsSeq(d) /\ Len(d) = n /\ \A i \in 1 .. n : d[i] = <<s.reply, i>>
    BY <1>3, <1>9, PiecesFacts
  <1>11. ASSUME NEW i \in 1 .. n PROVE c[i] = d[i]
    <2>1. CASE i = m + 1
      <3>1. i = k + 1
        BY <1>3, <2>1
      <3> QED
        BY <1>1, <1>6, <1>8, <1>10, <2>1, <3>1
    <2>2. CASE i # m + 1
      <3>1. i \in 1 .. m
        BY <1>3, <2>2
      <3> QED
        BY <1>4, <1>6, <1>8, <1>10, <3>1
    <2> QED
      BY <2>1, <2>2
  <1>12. c = d
    BY <1>8, <1>10, <1>11, SameSeq
  <1>13. r \o << x >> = a
    <2>1. PICK S : r \in Seq(S)
      BY <1>4 DEF IsSeq
    <2>2. r \in Seq(S \cup {x}) /\ x \in S \cup {x}
      BY <2>1
    <2> QED
      BY <1>5, <2>2, AppendIsConcat
  <1>14. Capped(r \o << >>) = r
    <2>1. r \o << >> = r
      BY <1>4, SmallSeqs, ConcatFacts
    <2>2. Capped(r) = r
      BY <1>3, <1>4, CappedIs
    <2> QED
      BY <2>1, <2>2
  <1> QED
    BY <1>1, <1>5, <1>7, <1>9, <1>12, <1>13, <1>14

-----------------------------------------------------------------------------
(* A server of the browser, and the flight of records it is sending.       *)

HttpFields == {"job", "asked", "phase", "left", "reply", "pieces"}
HttpsFields == HttpFields \cup {"cut", "cert", "digest", "refused"}

Secure(s) ==
  /\ DOMAIN s = HttpsFields /\ s.job = "https"
  /\ IsSeq(s.left) /\ s.pieces \in Nat /\ s.cut \in Nat \ {0} /\ s.cert \in BOOLEAN

Flight(s) ==
  CASE s.phase = "keys"    -> Packed(ServerMessages(s.cert), s.cut)
    [] s.phase = "request" -> ServerFinishes(s.digest)
    [] s.phase = "reply"   -> ServerData(Pieces(s, s.pieces))
    [] OTHER               -> << >>

\* The client when it has read k records of that flight, and the response.
At(s, t, k) ==
  /\ s.phase = "keys" => s.digest = Greeted(s.cert) /\ KeysAt(t, k, s.cert, s.cut)
  /\ s.phase = "request" => RequestAt(t, k, s.digest)
  /\ s.phase = "reply" => ReplyAt(t, k, s.digest, s.pieces)

Got(s, k) ==
  IF s.phase = "reply" THEN Pieces(s, Least(Least(k, s.pieces), RESP_MAX)) ELSE << >>

\* Both sides are at the same place: q is what is on the way to the client t, r the
\* response so far.
Agreement(s, q, t, r) ==
  /\ s.phase \in {"hello", "keys", "request", "reply"}
  /\ s.phase = "hello" => q = << >> /\ r = << >> /\ t.state \in {"idle", "handshake"}
  /\ s.phase # "hello" =>
       \E k \in Nat, b \in {0, 1} :
         Reading(Flight(s), k, b, q, t) /\ At(s, t, k) /\ r = Got(s, k)

\* How many records a flight has.
LEMMA FlightFacts ==
  ASSUME NEW s, Secure(s)
  PROVE  /\ IsSeq(Flight(s)) /\ Len(Flight(s)) \in Nat
         /\ s.phase = "request" => Len(Flight(s)) = 2
         /\ s.phase = "reply" => Len(Flight(s)) = s.pieces + 1
  <1>1. CASE s.phase = "keys"
    <2>1. IsSeq(Packed(ServerMessages(s.cert), s.cut))
      BY PackedFacts DEF Secure
    <2> QED
      BY <1>1, <2>1, SeqFacts DEF Flight
  <1>2. CASE s.phase = "request"
    <2>1. IsSeq(ServerFinishes(s.digest)) /\ Len(ServerFinishes(s.digest)) = 2
      BY ONLY FinishesIs
    <2> QED
      BY <1>2, <2>1 DEF Flight
  <1>3. CASE s.phase = "reply"
    <2>1. PICK d : d = Pieces(s, s.pieces)
      OBVIOUS
    <2>2. IsSeq(d) /\ Len(d) = s.pieces /\ s.pieces \in Nat
      BY <2>1, PiecesFacts DEF Secure
    <2>3. IsSeq(ServerData(d)) /\ Len(ServerData(d)) = Len(d) + 1
      <3>1. IsSeq(d)
        BY <2>2
      <3> QED
        BY ONLY <3>1, DataIs
    <2> QED
      BY <1>3, <2>1, <2>2, <2>3 DEF Flight
  <1>4. CASE s.phase \notin {"keys", "request", "reply"}
    BY <1>4, SmallSeqs DEF Flight
  <1> QED
    BY <1>1, <1>2, <1>3, <1>4

\* Nothing more comes once all records are read, and only then.
LEMMA ReadingEnds ==
  ASSUME NEW F, IsSeq(F), NEW k, NEW b, NEW q, NEW t, Reading(F, k, b, q, t)
  PROVE  q = << >> <=> k = Len(F)
  <1>1. PICK i, j : i = 2 * k + b /\ j = 2 * Len(F)
    OBVIOUS
  <1>2. Len(F) \in Nat /\ IsSeq(Halves(F)) /\ Len(Halves(F)) = 2 * Len(F)
    BY SeqFacts, HalvesFacts
  <1>3. k \in 0 .. Len(F) /\ b \in {0, 1} /\ (b = 1 => k < Len(F))
    BY DEF Reading
  <1>4. q = SubSeq(Halves(F), i + 1, j)
    BY <1>1 DEF Reading
  <1>5. i \in Nat /\ j \in Nat /\ i <= j /\ (i = j <=> k = Len(F))
    BY <1>1, <1>2, <1>3
  <1> QED
    BY <1>1, <1>2, <1>4, <1>5, SliceFacts

\* A flight that has just been sent.
LEMMA ReadingStarts ==
  ASSUME NEW F, IsSeq(F), NEW t, t.rec = << >>
  PROVE  Reading(F, 0, 0, Halves(F), t)
  <1>1. Len(F) \in Nat /\ IsSeq(Halves(F)) /\ Len(Halves(F)) = 2 * Len(F)
    BY SeqFacts, HalvesFacts
  <1>2. PICK S : Halves(F) \in Seq(S)
    BY <1>1 DEF IsSeq
  <1>3. SubSeq(Halves(F), 1, Len(Halves(F))) = Halves(F)
    BY <1>2, SubSeqFull
  <1> QED
    BY <1>1, <1>3 DEF Reading

\* When a call is over, what it handed over is gone.
LEMMA ReturnedIs ==
  ASSUME NEW t, Client(t)
  PROVE  /\ Client(Returned(t)) /\ Returned(t).out = << >> /\ Returned(t).data = << >>
         /\ But({"out", "data"}, t, Returned(t))
  <1>1. PICK u : u = Returned(t)
    OBVIOUS
  <1>2. PICK v : v = [t EXCEPT !.out = << >>]
    OBVIOUS
  <1>3. u = [v EXCEPT !.data = << >>]
    BY <1>1, <1>2 DEF Returned
  <1>4. IsSeq(<< >>)
    BY SmallSeqs
  <1>5. Client(v) /\ v.out = << >> /\ But({"out"}, t, v)
    BY <1>2, <1>4 DEF Client, Fields, But
  <1>6. Client(u) /\ u.data = << >> /\ But({"data"}, v, u)
    BY <1>3, <1>4, <1>5 DEF Client, Fields, But
  <1>7. u.out = << >>
    BY <1>5, <1>6 DEF But, Fields
  <1> QED
    BY <1>1, <1>5, <1>6, <1>7 DEF But

\* The client is still at work while something is on the way.
LEMMA StillReading ==
  ASSUME NEW s, Secure(s), NEW q, NEW t, q # << >>, NEW k \in Nat, NEW b \in {0, 1},
         s.phase \in {"keys", "request", "reply"},
         Reading(Flight(s), k, b, q, t), At(s, t, k)
  PROVE  t.state \in {"handshake", "ready"} /\ k < Len(Flight(s))
  <1>1. IsSeq(Flight(s)) /\ k # Len(Flight(s))
    BY FlightFacts, ReadingEnds
  <1>2. k < Len(Flight(s))
    BY <1>1, FlightFacts DEF Reading
  <1>3. CASE s.phase = "keys"
    BY <1>2, <1>3 DEF At, KeysAt, Met
  <1>4. CASE s.phase = "request"
    BY <1>2, <1>4 DEF At, RequestAt
  <1>5. CASE s.phase = "reply"
    <2>1. k # s.pieces + 1
      BY <1>1, <1>5, FlightFacts
    <2> QED
      BY <1>2, <1>5, <2>1 DEF At, ReplyAt
  <1> QED
    BY <1>3, <1>4, <1>5

\* A record, whatever its phase.
RecordDone(s, k, u) ==
  /\ Client(u) /\ At(s, u, k + 1) /\ u.rec = << >>
  /\ IF s.phase = "keys" /\ k + 1 = Len(Flight(s)) THEN u.out = Answering(s.cert) ELSE u.out = << >>
  /\ u.data = IF s.phase = "reply" /\ k < s.pieces THEN << <<s.reply, k + 1>> >> ELSE << >>

\* The client takes the next record, whatever the phase.
LEMMA RecordAgrees ==
  ASSUME NEW s, Secure(s), NEW t, Client(t), Quiet(t), NEW k \in Nat, k < Len(Flight(s)),
         s.phase \in {"keys", "request", "reply"}, At(s, t, k)
  PROVE  RecordDone(s, k, processRecord(t, Flight(s)[k + 1]))
  <1>1. PICK u : u = processRecord(t, Flight(s)[k + 1])
    OBVIOUS
  <1>2. CASE s.phase = "keys"
    <2>1. PICK F : F = Packed(ServerMessages(s.cert), s.cut)
      OBVIOUS
    <2>2. Flight(s) = F
      BY <1>2, <2>1 DEF Flight
    <2>3. /\ Client(u) /\ KeysAt(u, k + 1, s.cert, s.cut)
          /\ u.rec = << >> /\ u.data = << >>
          /\ u.out = IF k + 1 = Len(F) THEN Answering(s.cert) ELSE << >>
      <3>1. s.cert \in BOOLEAN /\ s.cut \in Nat \ {0} /\ KeysAt(t, k, s.cert, s.cut)
        BY <1>2 DEF Secure, At
      <3>2. u = processRecord(t, F[k + 1]) /\ k < Len(F)
        BY <1>1, <2>2
      <3>3. /\ s.cert \in BOOLEAN /\ s.cut \in Nat \ {0} /\ KeysAt(t, k, s.cert, s.cut)
            /\ Client(t) /\ Quiet(t) /\ k \in Nat
            /\ F = Packed(ServerMessages(s.cert), s.cut)
            /\ k < Len(Packed(ServerMessages(s.cert), s.cut)) /\ u = processRecord(t, F[k + 1])
        BY <2>1, <3>1, <3>2
      <3> QED
        <4>1. PICK cert, cut : cert = s.cert /\ cut = s.cut
          OBVIOUS
        <4>2. /\ cert \in BOOLEAN /\ cut \in Nat \ {0} /\ KeysAt(t, k, cert, cut)
              /\ k < Len(Packed(ServerMessages(cert), cut))
              /\ u = processRecord(t, Packed(ServerMessages(cert), cut)[k + 1])
          BY <3>3, <4>1
        <4>3. KeysDone(u, k, cert, cut)
          BY ONLY <3>3, <4>2, KeysRecord
        <4> QED
          BY <3>3, <4>1, <4>3 DEF KeysDone
    <2>4. At(s, u, k + 1)
      BY <1>2, <2>3 DEF At
    <2> QED
      BY <1>1, <1>2, <2>2, <2>3, <2>4 DEF RecordDone
  <1>3. CASE s.phase = "request"
    <2>1. k \in 0 .. 1
      <3>1. Len(Flight(s)) = 2
        BY <1>3, FlightFacts
      <3> QED
        BY <3>1
    <2>2. u = processRecord(t, ServerFinishes(s.digest)[k + 1])
      BY <1>1, <1>3 DEF Flight
    <2>3. RequestAt(t, k, s.digest)
      BY <1>3 DEF At
    <2>4. Client(u) /\ RequestAt(u, k + 1, s.digest) /\ Quiet(u)
      BY <2>1, <2>2, <2>3, RequestRecord
    <2> QED
      BY <1>1, <1>3, <2>4 DEF RecordDone, At, Quiet
  <1>4. CASE s.phase = "reply"
    <2>1. PICK body : body = Pieces(s, s.pieces)
      OBVIOUS
    <2>2. /\ IsSeq(body) /\ Len(body) = s.pieces /\ s.pieces \in Nat
          /\ \A i \in 1 .. s.pieces : body[i] = <<s.reply, i>>
      BY <2>1, PiecesFacts DEF Secure
    <2>3. k \in 0 .. Len(body)
      BY <1>4, <2>2, FlightFacts
    <2>4. u = processRecord(t, ServerData(body)[k + 1])
      BY <1>1, <1>4, <2>1 DEF Flight
    <2>5. ReplyAt(t, k, s.digest, Len(body))
      BY <1>4, <2>2 DEF At
    <2>6. /\ Client(u) /\ ReplyAt(u, k + 1, s.digest, Len(body))
          /\ u.rec = << >> /\ u.out = << >>
          /\ u.data = IF k < Len(body) THEN << body[k + 1] >> ELSE << >>
      <3>1. IsSeq(body)
        BY <2>2
      <3> QED
        BY ONLY <2>3, <2>4, <2>5, <3>1, Client(t), Quiet(t), ReplyRecord
    <2>7. k < s.pieces => body[k + 1] = <<s.reply, k + 1>>
      BY <2>2, <2>3
    <2> QED
      BY <1>1, <1>4, <2>2, <2>6, <2>7 DEF RecordDone, At
  <1> QED
    BY <1>1, <1>2, <1>3, <1>4

\* The response grows by what the record holds.
LEMMA GotMore ==
  ASSUME NEW s, Secure(s), NEW k \in Nat, k < Len(Flight(s))
  PROVE  LET data == IF s.phase = "reply" /\ k < s.pieces THEN << <<s.reply, k + 1>> >> ELSE << >>
         IN  /\ Capped(Got(s, k) \o data) = Got(s, k + 1)
             /\ Capped(Got(s, k) \o << >>) = Got(s, k)
  <1>1. RESP_MAX \in Nat /\ s.pieces \in Nat
    BY BrowserAssumption DEF Secure
  <1>2. Capped(<< >> \o << >>) = << >>
    <2>1. << >> \o << >> = << >>
      BY SmallSeqs, ConcatFacts
    <2>2. Capped(<< >>) = << >>
      <3>1. IsSeq(<< >>) /\ Len(<< >>) = 0 /\ 0 <= RESP_MAX
        BY <1>1, SmallSeqs
      <3> QED
        BY <3>1, CappedIs
    <2> QED
      BY <2>1, <2>2
  <1>3. CASE s.phase # "reply"
    BY <1>2, <1>3 DEF Got
  <1>4. CASE s.phase = "reply" /\ k < s.pieces
    <2>1. Least(k, s.pieces) = k /\ Least(k + 1, s.pieces) = k + 1
      BY <1>1, <1>4 DEF Least
    <2>2. /\ Got(s, k) = Pieces(s, Least(k, RESP_MAX))
          /\ Got(s, k + 1) = Pieces(s, Least(k + 1, RESP_MAX))
      BY <1>4, <2>1 DEF Got
    <2> QED
      BY <1>4, <2>2, PiecesGrow
  <1>5. CASE s.phase = "reply" /\ ~ k < s.pieces
    <2>1. Least(k, s.pieces) = s.pieces /\ Least(k + 1, s.pieces) = s.pieces
      BY <1>1, <1>5 DEF Least
    <2>2. /\ Got(s, k) = Pieces(s, Least(s.pieces, RESP_MAX))
          /\ Got(s, k + 1) = Pieces(s, Least(s.pieces, RESP_MAX))
      BY <1>5, <2>1 DEF Got
    <2>3. Capped(Pieces(s, Least(s.pieces, RESP_MAX)) \o << >>) =
            Pieces(s, Least(s.pieces, RESP_MAX))
      BY <1>1, PiecesGrow
    <2> QED
      BY <1>5, <2>2, <2>3
  <1> QED
    BY <1>3, <1>4, <1>5

\* When the server's messages are all read, the client has answered.
LEMMA KeysEnd ==
  ASSUME NEW s, Secure(s), s.phase = "keys", NEW t, Client(t), At(s, t, Len(Flight(s)))
  PROVE  RequestAt(t, 0, Closing(s.cert))
  <1> DEFINE S == ServerMessages(s.cert)
             l == Len(S)
  <1>1. l \in Nat /\ IsSeq(Halves(S)) /\ Len(Halves(S)) = 2 * l
    <2>1. IsSeq(S)
      BY ServerSays DEF Secure
    <2> HIDE DEF S
    <2> QED
      BY <2>1, SeqFacts, HalvesFacts
  <1>2. Held(s.cert, s.cut, Len(Flight(s))) = 2 * l
    <2>1. Flight(s) = Packed(S, s.cut)
      BY DEF Flight
    <2>2. Len(Flight(s)) \in Nat
      BY FlightFacts
    <2> QED
      BY <2>1, <2>2 DEF Held
  <1>3. PICK w \in 0 .. l : \E b \in {0, 1} :
          2 * l = 2 * w + b /\ Met(t, w, s.cert) /\ t.hs = SubSeq(Halves(S), 2 * w + 1, 2 * l)
    <2>1. KeysAt(t, Len(Flight(s)), s.cert, s.cut)
      BY DEF At
    <2> QED
      BY <1>2, <2>1 DEF KeysAt
  <1> HIDE DEF l
  <1>4. w = l
    BY <1>1, <1>3
  <1>5. t.hs = << >>
    <2>1. SubSeq(Halves(S), 2 * l + 1, 2 * l) = << >>
      <3>1. 2 * l + 1 \in Int /\ 2 * l \in Int /\ 2 * l < 2 * l + 1
        BY <1>1
      <3> QED
        BY <3>1, SubSeqEmpty
    <2> QED
      BY <1>3, <1>4, <2>1
  <1> QED
    BY <1>3, <1>4, <1>5 DEF Met, RequestAt, l

\* The next half, whatever it is.
LEMMA FeedAgrees ==
  ASSUME NEW s, Secure(s), NEW q, NEW t, Client(t), t.out = << >>, t.data = << >>, NEW r,
         Agreement(s, q, t, r), q # << >>
  PROVE  LET u == tlsFeed(t, Head(q))
         IN  /\ Client(u)
             /\ Agreement(s, Tail(q), Returned(u), Capped(r \o u.data))
             /\ u.out # << >> => /\ s.phase = "keys" /\ Tail(q) = << >>
                                 /\ u.out = Answering(s.cert) /\ s.digest = Greeted(s.cert)
                                 /\ RequestAt(Returned(u), 0, Closing(s.cert))
                                 /\ Returned(u).rec = << >>
                                 /\ Capped(r \o u.data) = << >>
  <1>1. PICK u : u = tlsFeed(t, Head(q))
    OBVIOUS
  <1>2. PICK F, p : F = Flight(s) /\ p = Tail(q)
    OBVIOUS
  <1>3. s.phase \in {"keys", "request", "reply"}
    BY DEF Agreement
  <1>4. PICK k \in Nat, b \in {0, 1} : Reading(F, k, b, q, t) /\ At(s, t, k) /\ r = Got(s, k)
    BY <1>2, <1>3 DEF Agreement
  <1>5. IsSeq(F) /\ t.state \in {"handshake", "ready"} /\ k < Len(F) /\ Len(F) \in Nat
    BY <1>2, <1>3, <1>4, FlightFacts, StillReading
  <1>6. /\ b = 0 => /\ u = [t EXCEPT !.rec = << F[k + 1] >>]
                    /\ p = SubSeq(Halves(F), 2 * k + 1 + 1, 2 * Len(F))
        /\ b = 1 => /\ u = processRecord([t EXCEPT !.rec = << >>], F[k + 1])
                    /\ p = SubSeq(Halves(F), 2 * (k + 1) + 0 + 1, 2 * Len(F))
    <2>1. t.state \notin {"failed", "closed"}
      BY <1>5
    <2>2. Reading(F, k, b, q, t) /\ IsSeq(F) /\ Client(t) /\ q # << >>
      BY <1>4, <1>5
    <2>3. GoesOn(F, k, b, q, t)
      BY ONLY <2>1, <2>2, ReadingGoesOn
    <2> QED
      BY <1>1, <1>2, <2>3 DEF GoesOn
  <1>7. CASE b = 0
    <2>1. u = [t EXCEPT !.rec = << F[k + 1] >>] /\ p = SubSeq(Halves(F), 2 * k + 1 + 1, 2 * Len(F))
      BY <1>6, <1>7
    <2>2. PICK c : c = << F[k + 1] >>
      OBVIOUS
    <2>3. Client(u) /\ u.rec = c /\ But({"rec"}, t, u)
      <3>1. IsSeq(c)
        BY <2>2, SmallSeqs
      <3> QED
        BY <2>1, <2>2, <3>1 DEF Client, Fields, But
    <2>4. u.out = << >> /\ u.data = << >>
      BY <2>3 DEF But, Fields
    <2>5. PICK v : v = Returned(u)
      OBVIOUS
    <2>6. Client(v) /\ But({"out", "data"}, u, v)
      BY <2>3, <2>5, ReturnedIs
    <2>7. v.rec = c
      BY <2>3, <2>6 DEF But, Fields
    <2>8. At(s, v, k)
      <3>1. But({"rec", "out", "data"}, t, v)
        BY <2>3, <2>6 DEF But
      <3> QED
        BY <1>4, <3>1, StagesLast DEF At
    <2>9. Reading(F, k, 1, p, v)
      <3>1. k \in 0 .. Len(F)
        BY <1>5
      <3> QED
        BY <1>5, <2>1, <2>2, <2>7, <3>1 DEF Reading
    <2>10. Capped(r \o u.data) = Got(s, k)
      BY <1>2, <1>4, <1>5, <2>4, GotMore
    <2>11. Agreement(s, p, v, Got(s, k))
      BY <1>2, <1>3, <2>8, <2>9 DEF Agreement
    <2> QED
      BY <1>1, <1>2, <2>3, <2>4, <2>5, <2>10, <2>11
  <1>8. CASE b = 1
    <2>1. PICK c : c = [t EXCEPT !.rec = << >>]
      OBVIOUS
    <2>2. u = processRecord(c, F[k + 1]) /\ p = SubSeq(Halves(F), 2 * (k + 1) + 0 + 1, 2 * Len(F))
      BY <1>6, <1>8, <2>1
    <2>3. Client(c) /\ c.rec = << >> /\ But({"rec"}, t, c)
      <3>1. IsSeq(<< >>)
        BY SmallSeqs
      <3> QED
        BY <2>1, <3>1 DEF Client, Fields, But
    <2>4. Quiet(c)
      BY <2>3 DEF But, Fields, Quiet
    <2>5. At(s, c, k)
      <3>1. But({"rec", "out", "data"}, t, c)
        BY <2>3 DEF But
      <3> QED
        BY <1>4, <3>1, StagesLast DEF At
    <2>6. RecordDone(s, k, u)
      BY <1>2, <1>3, <1>5, <2>2, <2>3, <2>4, <2>5, RecordAgrees
    <2>7. Client(u) /\ At(s, u, k + 1) /\ u.rec = << >>
      BY <2>6 DEF RecordDone
    <2>8. PICK v : v = Returned(u)
      OBVIOUS
    <2>9. Client(v) /\ But({"out", "data"}, u, v)
      BY <2>7, <2>8, ReturnedIs
    <2>10. v.rec = << >>
      BY <2>7, <2>9 DEF But, Fields
    <2>11. At(s, v, k + 1)
      <3>1. But({"rec", "out", "data"}, u, v)
        BY <2>9 DEF But
      <3> QED
        BY <2>7, <3>1, StagesLast DEF At
    <2>12. Reading(F, k + 1, 0, p, v)
      <3>1. k + 1 \in 0 .. Len(F)
        BY <1>5
      <3> QED
        BY <2>2, <2>10, <3>1 DEF Reading
    <2>13. Capped(r \o u.data) = Got(s, k + 1)
      BY <1>2, <1>4, <1>5, <2>6, GotMore DEF RecordDone
    <2>14. Agreement(s, p, v, Got(s, k + 1))
      <3>1. k + 1 \in Nat
        OBVIOUS
      <3> QED
        BY <1>2, <1>3, <2>11, <2>12, <3>1 DEF Agreement
    <2>15. ASSUME u.out # << >>
           PROVE  /\ s.phase = "keys" /\ p = << >>
                  /\ u.out = Answering(s.cert) /\ s.digest = Greeted(s.cert)
                  /\ RequestAt(v, 0, Closing(s.cert))
                  /\ Got(s, k + 1) = << >>
      <3>1. s.phase = "keys" /\ k + 1 = Len(F) /\ u.out = Answering(s.cert)
        BY <1>2, <2>6, <2>15 DEF RecordDone
      <3>2. p = << >>
        BY <1>5, <2>12, <3>1, ReadingEnds
      <3>3. RequestAt(v, 0, Closing(s.cert))
        BY <1>2, <2>9, <2>11, <3>1, KeysEnd
      <3> QED
        BY <2>11, <3>1, <3>2, <3>3 DEF At, Got
    <2> QED
      BY <1>1, <1>2, <2>7, <2>8, <2>10, <2>13, <2>14, <2>15
  <1> QED
    BY <1>7, <1>8

-----------------------------------------------------------------------------
(* Nobody forges a Finished message.                                       *)

Honest(s, m) == m.kind = "Finished" => m.digest = s.digest /\ s.phase \in {"request", "reply"}

HonestRecord(s, r) ==
  /\ r.type \in {"changeCipherSpec", "alert", "handshake", "data"}
  /\ r.type = "handshake" => IsSeq(r.body) /\ \A j \in 1 .. Len(r.body) : Honest(s, r.body[j][1])

HonestQueue(s, q) == IsSeq(q) /\ \A i \in 1 .. Len(q) : HonestRecord(s, q[i][1])

HonestClient(s, t) ==
  /\ \A i \in 1 .. Len(t.rec) : HonestRecord(s, t.rec[i])
  /\ \A i \in 1 .. Len(t.hs) : Honest(s, t.hs[i][1])
  /\ t.state = "ready" => t.hash = s.digest /\ s.phase \in {"request", "reply"}

\* The digest stays what it is once the server has said its own.
Steady(s, s2) ==
  s.phase \in {"request", "reply"} => s2.phase \in {"request", "reply"} /\ s2.digest = s.digest

\* What is honest stays so.
LEMMA HonestyLasts ==
  ASSUME NEW s, NEW s2, Steady(s, s2)
  PROVE  /\ \A r : HonestRecord(s, r) => HonestRecord(s2, r)
         /\ \A q : HonestQueue(s, q) => HonestQueue(s2, q)
         /\ \A t : HonestClient(s, t) => HonestClient(s2, t)
  <1>1. \A m : Honest(s, m) => Honest(s2, m)
    BY DEF Honest, Steady
  <1>2. \A r : HonestRecord(s, r) => HonestRecord(s2, r)
    BY <1>1 DEF HonestRecord
  <1>3. \A q : HonestQueue(s, q) => HonestQueue(s2, q)
    BY <1>2 DEF HonestQueue
  <1>4. \A t : HonestClient(s, t) => HonestClient(s2, t)
    BY <1>1, <1>2 DEF HonestClient, Steady
  <1> QED
    BY <1>2, <1>3, <1>4

\* What a record makes of the client.
LEMMA PlainHonest ==
  ASSUME NEW s, NEW t, Client(t), HonestClient(s, t), NEW r, HonestRecord(s, r)
  PROVE  Client(ProcessPlain(t, r)) /\ HonestClient(s, ProcessPlain(t, r))
  <1>1. PICK u : u = ProcessPlain(t, r)
    OBVIOUS
  <1>2. Client(Fail(t)) /\ HonestClient(s, Fail(t))
    <2>1. PICK v : v = Fail(t)
      OBVIOUS
    <2>2. Client(v) /\ v.state = "failed" /\ But({"state"}, t, v)
      BY <2>1, FailIs
    <2>3. v.rec = t.rec /\ v.hs = t.hs
      BY <2>2 DEF But, Fields
    <2> QED
      BY <2>1, <2>2, <2>3 DEF HonestClient
  <1>3. ASSUME NEW v, Client(v), But({"encIn", "data"}, t, v) PROVE HonestClient(s, v)
    <2>1. v.rec = t.rec /\ v.hs = t.hs /\ v.state = t.state /\ v.hash = t.hash
      BY <1>3 DEF But, Fields
    <2> QED
      BY <2>1 DEF HonestClient
  <1>4. CASE r.type = "changeCipherSpec"
    <2>1. PICK v : v = [t EXCEPT !.encIn = TRUE]
      OBVIOUS
    <2>2. u = Fail(t) \/ u = v
      BY <1>1, <1>4, <2>1 DEF ProcessPlain
    <2>3. Client(v) /\ But({"encIn", "data"}, t, v)
      BY <2>1 DEF Client, Fields, But
    <2> QED
      BY <1>1, <1>2, <1>3, <2>2, <2>3
  <1>5. CASE r.type = "alert"
    <2>1. PICK v : v = [t EXCEPT !.state = "closed"]
      OBVIOUS
    <2>2. u = Fail(t) \/ u = v \/ u = t
      BY <1>1, <1>5, <2>1 DEF ProcessPlain
    <2>3. Client(v) /\ v.state = "closed" /\ But({"state"}, t, v)
      BY <2>1 DEF Client, Fields, But
    <2>4. v.rec = t.rec /\ v.hs = t.hs
      BY <2>3 DEF But, Fields
    <2>5. HonestClient(s, v)
      BY <2>3, <2>4 DEF HonestClient
    <2> QED
      BY <1>1, <1>2, <2>2, <2>3, <2>5
  <1>6. CASE r.type = "handshake"
    <2>1. PICK h, b : h = t.hs /\ b = r.body
      OBVIOUS
    <2>2. PICK v : v = [t EXCEPT !.hs = h \o b]
      OBVIOUS
    <2>3. u = Fail(t) \/ (t.state = "handshake" /\ u = processHandshake(v))
      BY <1>1, <1>6, <2>1, <2>2 DEF ProcessPlain
    <2>4. IsSeq(h) /\ IsSeq(b) /\ (\A j \in 1 .. Len(b) : Honest(s, b[j][1]))
          /\ \A i \in 1 .. Len(h) : Honest(s, h[i][1])
      BY <1>6, <2>1 DEF HonestRecord, HonestClient, Client
    <2>5. PICK c : c = h \o b
      OBVIOUS
    <2>6. /\ IsSeq(c) /\ Len(c) = Len(h) + Len(b) /\ \A i \in 1 .. Len(h) : c[i] = h[i]
          /\ \A i \in 1 .. Len(b) : c[Len(h) + i] = b[i]
      <3>1. IsSeq(h) /\ IsSeq(b)
        BY <2>4
      <3> QED
        BY ONLY <2>5, <3>1, ConcatFacts
    <2>7. ASSUME NEW i \in 1 .. Len(c) PROVE Honest(s, c[i][1])
      <3>1. Len(h) \in Nat /\ Len(b) \in Nat
        BY <2>4, SeqFacts
      <3>2. CASE i <= Len(h)
        BY <2>4, <2>6, <3>1, <3>2
      <3>3. CASE ~ i <= Len(h)
        <4>1. PICK j : j = i - Len(h)
          OBVIOUS
        <4>2. j \in 1 .. Len(b) /\ Len(h) + j = i
          BY <2>6, <3>1, <3>3, <4>1
        <4> QED
          BY <2>4, <2>6, <4>2
      <3> QED
        BY <3>2, <3>3
    <2>8. Client(v) /\ v.hs = c /\ But({"hs"}, t, v)
      BY <2>2, <2>5, <2>6 DEF Client, Fields, But
    <2>9. v.state = t.state /\ v.rec = t.rec
      BY <2>8 DEF But, Fields
    <2>10. PICK x : x = processHandshake(v)
      OBVIOUS
    <2>11. /\ Client(x) /\ But(Moved \cup {"hs"}, v, x)
           /\ \A i \in 1 .. Len(x.hs) : \E j \in 1 .. Len(v.hs) : x.hs[i] = v.hs[j]
           /\ v.state = "handshake" /\ x.state = "ready" =>
                \E j \in 1 .. Len(v.hs) :
                  v.hs[j][1].kind = "Finished" /\ v.hs[j][1].digest = x.hash
      BY ONLY <2>8, <2>10, HandshakeTurns
    <2>12. x.rec = t.rec
      BY <2>9, <2>11 DEF But, Fields, Moved
    <2>13. \A i \in 1 .. Len(x.hs) : Honest(s, x.hs[i][1])
      BY <2>7, <2>8, <2>11
    <2>14. t.state = "handshake" /\ x.state = "ready" =>
             x.hash = s.digest /\ s.phase \in {"request", "reply"}
      BY <2>7, <2>8, <2>9, <2>11 DEF Honest
    <2>15. t.state = "handshake" => HonestClient(s, x)
      BY <2>12, <2>13, <2>14 DEF HonestClient
    <2> QED
      BY <1>1, <1>2, <2>3, <2>10, <2>11, <2>15
  <1>7. CASE r.type = "data"
    <2>1. PICK d, v : d = Append(t.data, r.body) /\ v = [t EXCEPT !.data = d]
      OBVIOUS
    <2>2. u = Fail(t) \/ u = v
      BY <1>1, <1>7, <2>1 DEF ProcessPlain
    <2>3. IsSeq(d)
      BY <2>1, AppendFacts DEF Client
    <2>4. Client(v) /\ But({"encIn", "data"}, t, v)
      BY <2>1, <2>3 DEF Client, Fields, But
    <2> QED
      BY <1>1, <1>2, <1>3, <2>2, <2>4
  <1> QED
    BY <1>4, <1>5, <1>6, <1>7 DEF HonestRecord

\* So does every half that is fed.
LEMMA FeedHonest ==
  ASSUME NEW s, NEW t, Client(t), HonestClient(s, t), NEW h, HonestRecord(s, h[1])
  PROVE  Client(tlsFeed(t, h)) /\ HonestClient(s, Returned(tlsFeed(t, h)))
  <1>1. PICK u, r : u = tlsFeed(t, h) /\ r = h[1]
    OBVIOUS
  <1>2. Client(Fail(t)) /\ HonestClient(s, Fail(t))
    <2>1. PICK v : v = Fail(t)
      OBVIOUS
    <2>2. Client(v) /\ v.state = "failed" /\ But({"state"}, t, v)
      BY <2>1, FailIs
    <2>3. v.rec = t.rec /\ v.hs = t.hs
      BY <2>2 DEF But, Fields
    <2> QED
      BY <2>1, <2>2, <2>3 DEF HonestClient
  <1>3. PICK v, w : v = [t EXCEPT !.rec = << r >>] /\ w = [t EXCEPT !.rec = << >>]
    OBVIOUS
  <1>4. u = t \/ u = v \/ u = Fail(t) \/ u = processRecord(w, r)
    BY <1>1, <1>3 DEF tlsFeed
  <1>5. Client(v) /\ HonestClient(s, v)
    <2>1. PICK c : c = << r >>
      OBVIOUS
    <2>2. IsSeq(c) /\ Len(c) = 1 /\ c[1] = r
      BY <2>1, SmallSeqs
    <2>3. Client(v) /\ v.rec = c /\ But({"rec"}, t, v)
      BY <1>3, <2>1, <2>2 DEF Client, Fields, But
    <2>4. v.state = t.state /\ v.hs = t.hs /\ v.hash = t.hash
      BY <2>3 DEF But, Fields
    <2>5. \A i \in 1 .. Len(v.rec) : HonestRecord(s, v.rec[i])
      <3>1. HonestRecord(s, c[1])
        BY <1>1, <2>2
      <3>2. \A i \in 1 .. 1 : i = 1
        OBVIOUS
      <3> QED
        BY ONLY <2>2, <2>3, <3>1, <3>2
    <2> QED
      BY <2>3, <2>4, <2>5 DEF HonestClient
  <1>6. Client(w) /\ HonestClient(s, w)
    <2>1. IsSeq(<< >>) /\ Len(<< >>) = 0
      BY SmallSeqs
    <2>2. Client(w) /\ w.rec = << >> /\ But({"rec"}, t, w)
      BY <1>3, <2>1 DEF Client, Fields, But
    <2>3. w.state = t.state /\ w.hs = t.hs /\ w.hash = t.hash
      BY <2>2 DEF But, Fields
    <2> QED
      BY <2>1, <2>2, <2>3 DEF HonestClient
  <1>7. Client(processRecord(w, r)) /\ HonestClient(s, processRecord(w, r))
    <2>1. PICK n : n = w.rdSeq + 1
      OBVIOUS
    <2>2. PICK x : x = [w EXCEPT !.rdSeq = n]
      OBVIOUS
    <2>3. n \in Nat
      BY <1>6, <2>1 DEF Client
    <2>4. Client(x) /\ But({"rdSeq"}, w, x)
      BY <1>6, <2>2, <2>3 DEF Client, Fields, But
    <2>5. x.state = w.state /\ x.hs = w.hs /\ x.hash = w.hash /\ x.rec = w.rec
      BY <2>4 DEF But, Fields
    <2>6. HonestClient(s, x)
      BY <1>6, <2>5 DEF HonestClient
    <2>7. HonestRecord(s, r)
      BY <1>1
    <2>8. Client(ProcessPlain(w, r)) /\ HonestClient(s, ProcessPlain(w, r))
      BY <1>6, <2>7, PlainHonest
    <2>9. Client(ProcessPlain(x, r)) /\ HonestClient(s, ProcessPlain(x, r))
      BY <2>4, <2>6, <2>7, PlainHonest
    <2>10. Client(Fail(w)) /\ HonestClient(s, Fail(w))
      <3>1. PICK y : y = Fail(w)
        OBVIOUS
      <3>2. Client(y) /\ y.state = "failed" /\ But({"state"}, w, y)
        BY <1>6, <3>1, FailIs
      <3>3. y.rec = w.rec /\ y.hs = w.hs
        BY <3>2 DEF But, Fields
      <3> QED
        BY <1>6, <3>1, <3>2, <3>3 DEF HonestClient
    <2>11. \/ processRecord(w, r) = ProcessPlain(w, r)
           \/ processRecord(w, r) = ProcessPlain(x, r)
           \/ processRecord(w, r) = Fail(w)
      BY <2>1, <2>2 DEF processRecord
    <2> QED
      BY <2>8, <2>9, <2>10, <2>11
  <1>8. Client(u) /\ HonestClient(s, u)
    BY <1>2, <1>4, <1>5, <1>6, <1>7
  <1>9. HonestClient(s, Returned(u))
    <2>1. PICK y : y = Returned(u)
      OBVIOUS
    <2>2. But({"out", "data"}, u, y)
      BY <1>8, <2>1, ReturnedIs
    <2>3. y.state = u.state /\ y.hs = u.hs /\ y.hash = u.hash /\ y.rec = u.rec
      BY <2>2 DEF But, Fields
    <2> QED
      BY <1>8, <2>1, <2>3 DEF HonestClient
  <1> QED
    BY <1>1, <1>8, <1>9

\* Records are as honest as their halves.
LEMMA HalvesHonest ==
  ASSUME NEW s, NEW F, IsSeq(F), \A i \in 1 .. Len(F) : HonestRecord(s, F[i])
  PROVE  HonestQueue(s, Halves(F))
  <1>1. PICK n, H : n = Len(F) /\ H = Halves(F)
    OBVIOUS
  <1>2. n \in Nat /\ IsSeq(H) /\ Len(H) = 2 * n
    BY <1>1, SeqFacts, HalvesFacts
  <1>3. ASSUME NEW j \in 1 .. 2 * n PROVE HonestRecord(s, H[j][1])
    <2>1. PICK i : i = (j + 1) \div 2
      OBVIOUS
    <2>2. i \in 1 .. n
      <3>1. PICK l : l = j + 1
        OBVIOUS
      <3>2. l \in Nat /\ 2 <= l /\ l <= 2 * n + 1
        BY <1>2, <3>1
      <3>3. l \div 2 \in Nat /\ 2 * (l \div 2) <= l /\ l <= 2 * (l \div 2) + 1
        BY <3>2, Halved
      <3> QED
        BY <1>2, <2>1, <3>1, <3>2, <3>3
    <2>3. H[j] = <<F[i], 2 - (j % 2)>>
      BY <1>1, <2>1 DEF Halves
    <2>4. H[j][1] = F[i]
      BY <2>3
    <2> QED
      BY <1>1, <2>2, <2>4
  <1> QED
    BY <1>1, <1>2, <1>3 DEF HonestQueue

\* What the server sends is honest.
LEMMA FlightHonest ==
  ASSUME NEW s, Secure(s)
  PROVE  HonestQueue(s, Halves(Flight(s)))
  <1>1. PICK F : F = Flight(s)
    OBVIOUS
  <1>2. IsSeq(F) /\ Len(F) \in Nat
    BY <1>1, FlightFacts
  <1>3. CASE s.phase = "keys"
    <2>1. PICK cert, cut, S : cert = s.cert /\ cut = s.cut /\ S = ServerMessages(cert)
      OBVIOUS
    <2>2. cert \in BOOLEAN /\ cut \in Nat \ {0} /\ F = Packed(S, cut)
      BY <1>1, <1>3, <2>1 DEF Secure, Flight
    <2>3. ASSUME NEW i \in 1 .. Len(S) PROVE S[i].kind # "Finished"
      <3>1. /\ Len(S) = (IF cert THEN 5 ELSE 4)
            /\ S[1].kind = "ServerHello" /\ S[2].kind = "Certificate"
            /\ S[3].kind = "ServerKeyExchange" /\ (cert => S[4].kind = "CertificateRequest")
            /\ S[Len(S)].kind = "ServerHelloDone"
        BY <2>1, <2>2, ServerSays DEF Plain, Message
      <3>2. i = 1 \/ i = 2 \/ i = 3 \/ (i = 4 /\ cert) \/ i = Len(S)
        BY <2>2, <3>1
      <3> QED
        BY <3>1, <3>2
    <2>4. IsSeq(S)
      BY <2>1, <2>2, ServerSays
    <2>5. ASSUME NEW i \in 1 .. Len(F) PROVE HonestRecord(s, F[i])
      <3>1. PICK k : k = i - 1
        OBVIOUS
      <3>2. k \in 0 .. Len(F) - 1 /\ i = k + 1
        BY <1>2, <3>1
      <3>3. PICK c, d : c = Held(cert, cut, k) /\ d = Held(cert, cut, k + 1)
        OBVIOUS
      <3>4. PICK H, b : H = Halves(S) /\ b = SubSeq(H, c + 1, d)
        OBVIOUS
      <3>5. /\ F[i] = Record("handshake", FALSE, 0, b)
            /\ c \in Nat /\ d \in Nat /\ c <= d /\ d <= 2 * Len(S)
        <4>1. \A x \in 0 .. Len(F) - 1 :
                  /\ F[x + 1] = Record("handshake", FALSE, 0,
                                  SubSeq(Halves(S), Held(cert, cut, x) + 1, Held(cert, cut, x + 1)))
                  /\ Held(cert, cut, x) \in Nat /\ Held(cert, cut, x + 1) \in Nat
                  /\ Held(cert, cut, x) < 2 * Len(S)
                  /\ Held(cert, cut, x) <= Held(cert, cut, x + 1)
                  /\ Held(cert, cut, x + 1) <= 2 * Len(S)
          BY <2>1, <2>2, PackedFacts, ZenonT(40)
        <4> QED
          BY <3>2, <3>3, <3>4, <4>1
      <3>6. IsSeq(H) /\ Len(H) = 2 * Len(S) /\ Len(S) \in Nat
        BY <2>4, <3>4, HalvesFacts, SeqFacts
      <3>7. IsSeq(b) /\ Len(b) = d - c /\ \A j \in 1 .. d - c : b[j] = H[c + j]
        BY <3>4, <3>5, <3>6, SliceFacts
      <3>8. ASSUME NEW j \in 1 .. Len(b) PROVE b[j][1].kind # "Finished"
        <4>1. PICK l, m : l = c + j /\ m = (l + 1) \div 2
          OBVIOUS
        <4>2. l \in 1 .. 2 * Len(S)
          BY <3>5, <3>6, <3>7, <4>1
        <4>3. m \in 1 .. Len(S)
          <5>1. PICK x : x = l + 1
            OBVIOUS
          <5>2. x \in Nat /\ 2 <= x /\ x <= 2 * Len(S) + 1
            BY <3>6, <4>2, <5>1
          <5>3. x \div 2 \in Nat /\ 2 * (x \div 2) <= x /\ x <= 2 * (x \div 2) + 1
            BY <5>2, Halved
          <5>4. PICK n : n = Len(S)
            OBVIOUS
          <5>5. m = x \div 2 /\ n \in Nat /\ x <= 2 * n + 1
            BY <3>6, <4>1, <5>1, <5>2, <5>4
          <5>6. m \in 1 .. n
            BY ONLY <5>2, <5>3, <5>5
          <5> QED
            BY <5>4, <5>6
        <4>4. H[l] = <<S[m], 2 - (l % 2)>>
          BY <3>4, <4>1, <4>2 DEF Halves
        <4>5. b[j][1] = S[m]
          BY <3>7, <4>1, <4>4
        <4> QED
          BY <2>3, <4>3, <4>5
      <3>9. F[i].type = "handshake" /\ F[i].body = b
        BY <3>5 DEF Record
      <3> QED
        BY <3>7, <3>8, <3>9 DEF HonestRecord, Honest
    <2> QED
      BY <1>1, <1>2, <2>5, HalvesHonest
  <1>4. CASE s.phase = "request"
    <2>1. PICK m, M, H : m = Message("Finished", s.digest) /\ M = << m >> /\ H = Halves(M)
      OBVIOUS
    <2>2. IsSeq(M) /\ Len(M) = 1 /\ M[1] = m
      BY <2>1, SmallSeqs
    <2>3. IsSeq(H) /\ Len(H) = 2 /\ H[2] = <<m, 2>> /\ H[1] = <<m, 1>>
      <3>1. IsSeq(H) /\ Len(H) = 2 * Len(M)
            /\ \A i \in 1 .. Len(M) : H[2 * i] = <<M[i], 2>> /\ H[2 * i - 1] = <<M[i], 1>>
        BY <2>1, <2>2, HalvesFacts
      <3>2. 1 \in 1 .. Len(M) /\ 2 * 1 = 2 /\ 2 * 1 - 1 = 1
        BY <2>2
      <3> QED
        BY <2>2, <3>1, <3>2
    <2>4. ASSUME NEW j \in 1 .. Len(H) PROVE Honest(s, H[j][1])
      <3>1. H[j][1] = m
        <4>1. j = 1 \/ j = 2
          BY <2>3
        <4>2. H[1][1] = m /\ H[2][1] = m
          BY <2>3
        <4> QED
          BY <4>1, <4>2
      <3> QED
        BY <1>4, <2>1, <3>1 DEF Honest, Message
    <2>5. F = ServerFinishes(s.digest)
      BY <1>1, <1>4 DEF Flight
    <2>6. /\ Len(F) = 2 /\ F[1] = Record("changeCipherSpec", FALSE, 0, << >>)
          /\ F[2] = Record("handshake", TRUE, 0, H)
      BY <2>1, <2>5, FinishesIs
    <2>7. HonestRecord(s, F[1]) /\ HonestRecord(s, F[2])
      BY <2>3, <2>4, <2>6 DEF HonestRecord, Record
    <2>8. \A i \in 1 .. Len(F) : i = 1 \/ i = 2
      BY <2>6
    <2> QED
      BY <1>1, <1>2, <2>7, <2>8, HalvesHonest
  <1>5. CASE s.phase = "reply"
    <2>1. PICK body, p : body = Pieces(s, s.pieces) /\ p = Len(body)
      OBVIOUS
    <2>2. IsSeq(body) /\ p \in Nat
      BY <2>1, PiecesFacts DEF Secure
    <2>3. F = ServerData(body)
      BY <1>1, <1>5, <2>1 DEF Flight
    <2>4. /\ Len(F) = p + 1 /\ \A i \in 1 .. p : F[i] = Record("data", TRUE, i, body[i])
          /\ F[p + 1] = Record("alert", TRUE, p + 1, "close")
      BY <2>1, <2>2, <2>3, DataIs
    <2>5. ASSUME NEW i \in 1 .. Len(F) PROVE HonestRecord(s, F[i])
      <3>1. i \in 1 .. p \/ i = p + 1
        BY <2>2, <2>4
      <3>2. F[i].type \in {"data", "alert"}
        <4>1. CASE i \in 1 .. p
          <5>1. F[i] = Record("data", TRUE, i, body[i])
            BY <2>4, <4>1
          <5> QED
            BY <5>1 DEF Record
        <4>2. CASE i = p + 1
          <5>1. F[i] = Record("alert", TRUE, p + 1, "close")
            BY <2>4, <4>2
          <5> QED
            BY <5>1 DEF Record
        <4> QED
          BY <3>1, <4>1, <4>2
      <3> QED
        BY <3>2 DEF HonestRecord
    <2> QED
      BY <1>1, <1>2, <2>5, HalvesHonest
  <1>6. CASE s.phase \notin {"keys", "request", "reply"}
    <2>1. F = << >> /\ Len(F) = 0
      BY <1>1, <1>6, SmallSeqs DEF Flight
    <2>2. \A i \in 1 .. Len(F) : FALSE
      BY <2>1
    <2> QED
      BY <1>1, <1>2, <2>2, HalvesHonest
  <1> QED
    BY <1>3, <1>4, <1>5, <1>6

\* Two honest queues are one.
LEMMA QueuesJoin ==
  ASSUME NEW s, NEW p, HonestQueue(s, p), NEW q, HonestQueue(s, q)
  PROVE  HonestQueue(s, p \o q)
  <1>1. PICK c : c = p \o q
    OBVIOUS
  <1>2. IsSeq(p) /\ IsSeq(q)
    BY DEF HonestQueue
  <1>3. /\ IsSeq(c) /\ Len(c) = Len(p) + Len(q) /\ \A i \in 1 .. Len(p) : c[i] = p[i]
        /\ \A i \in 1 .. Len(q) : c[Len(p) + i] = q[i]
    BY ONLY <1>1, <1>2, ConcatFacts
  <1>4. Len(p) \in Nat /\ Len(q) \in Nat
    BY <1>2, SeqFacts
  <1>5. ASSUME NEW i \in 1 .. Len(c) PROVE HonestRecord(s, c[i][1])
    <2>1. CASE i <= Len(p)
      BY <1>3, <1>4, <2>1 DEF HonestQueue
    <2>2. CASE ~ i <= Len(p)
      <3>1. PICK j : j = i - Len(p)
        OBVIOUS
      <3>2. j \in 1 .. Len(q) /\ Len(p) + j = i
        BY <1>3, <1>4, <2>2, <3>1
      <3> QED
        BY <1>3, <3>2 DEF HonestQueue
    <2> QED
      BY <2>1, <2>2
  <1> QED
    BY <1>1, <1>3, <1>5 DEF HonestQueue

-----------------------------------------------------------------------------
(* What the server is when it has heard something.                         *)

Becomes(s, s2, phase, digest, q) ==
  /\ Secure(s2) /\ s2.phase = phase /\ s2.digest = digest /\ s2.left = q
  /\ \A f \in HttpsFields \ {"phase", "digest", "left"} : s2[f] = s[f]

\* The changes of a server that occur.
LEMMA BecomesIs ==
  ASSUME NEW s, Secure(s), NEW phase, NEW digest, NEW q, IsSeq(q)
  PROVE  /\ Becomes(s, [s EXCEPT !.phase = phase, !.digest = digest, !.left = q], phase, digest, q)
         /\ Becomes(s, [s EXCEPT !.phase = phase, !.left = q], phase, s.digest, q)
         /\ Becomes(s, [s EXCEPT !.left = q], s.phase, s.digest, q)
         /\ Becomes(s, s, s.phase, s.digest, s.left)
  <1>1. PICK u : u = [s EXCEPT !.phase = phase, !.digest = digest, !.left = q]
    OBVIOUS
  <1>2. Becomes(s, u, phase, digest, q)
    BY <1>1 DEF Becomes, Secure, HttpsFields, HttpFields
  <1>3. PICK v : v = [s EXCEPT !.phase = phase, !.left = q]
    OBVIOUS
  <1>4. Becomes(s, v, phase, s.digest, q)
    BY <1>3 DEF Becomes, Secure, HttpsFields, HttpFields
  <1>5. PICK w : w = [s EXCEPT !.left = q]
    OBVIOUS
  <1>6. Becomes(s, w, s.phase, s.digest, q)
    BY <1>5 DEF Becomes, Secure, HttpsFields, HttpFields
  <1>7. Becomes(s, s, s.phase, s.digest, s.left)
    BY DEF Becomes
  <1> QED
    BY <1>1, <1>2, <1>3, <1>4, <1>5, <1>6, <1>7

\* The answer, and what it makes of the digest.
LEMMA AnswerIs ==
  ASSUME NEW cert \in BOOLEAN
  PROVE  LET msgs == Answering(cert)
             said == Handshakes(msgs)
             all  == Greeted(cert) \o said
         IN  /\ all = Closing(cert) /\ Last(msgs).digest = Front(all)
             /\ cert => Plain("Certificate") \in Range(said)
  <1> DEFINE c == Plain("Certificate")
             e == Plain("ClientKeyExchange")
             x == Plain("ChangeCipherSpec")
             f == Finale(cert)
             a == Certified(cert)
             g == Greeted(cert)
             Goal == /\ g \o Handshakes(Answering(cert)) = Closing(cert)
                     /\ Last(Answering(cert)).digest = Front(g \o Handshakes(Answering(cert)))
                     /\ cert => c \in Range(Handshakes(Answering(cert)))
  <1> SUFFICES Goal
    OBVIOUS
  <1>1. /\ c.kind = "Certificate" /\ e.kind = "ClientKeyExchange" /\ x.kind = "ChangeCipherSpec"
        /\ f.kind = "Finished" /\ f.digest = Keyed(cert)
    BY DEF Plain, Message, Finale
  <1>2. Answering(cert) = Append(Append(Append(a, e), x), f)
    BY DEF Answering
  <1>3. a = IF cert THEN Append(<< >>, c) ELSE << >>
    BY DEF Certified
  <1>4. IsSeq(g)
    <2>1. IsSeq(<< Plain("ClientHello") >>) /\ IsSeq(ServerMessages(cert))
      BY SmallSeqs, ServerSays
    <2> QED
      BY <2>1, ConcatFacts DEF Greeted
  <1>5. Asked(cert) = (IF cert THEN Append(g, c) ELSE g) /\ Keyed(cert) = Append(Asked(cert), e)
        /\ Closing(cert) = Append(Keyed(cert), f)
    BY DEF Asked, Keyed, Closing
  <1> HIDE DEF c, e, x, f, a, g
  <1>6. IsSeq(a) /\ IsSeq(<< >>)
    BY <1>3, SmallSeqs, AppendFacts
  <1>7. PICK b, d : b = Append(a, e) /\ d = Append(b, x)
    OBVIOUS
  <1>8. IsSeq(b) /\ IsSeq(d)
    BY <1>6, <1>7, AppendFacts
  <1>9. Handshakes(a) = a
    <2>1. Handshakes(<< >>) = << >>
      BY HandshakesNone
    <2>2. Handshakes(Append(<< >>, c)) = Picks(<< >>, c)
      BY <1>6, <2>1, HandshakesAppend
    <2> QED
      BY <1>1, <1>3, <2>1, <2>2 DEF Picks
  <1>10. Handshakes(b) = b
    BY <1>1, <1>6, <1>7, <1>9, HandshakesAppend DEF Picks
  <1>11. Handshakes(d) = b
    BY <1>1, <1>7, <1>8, <1>10, HandshakesAppend DEF Picks
  <1>12. PICK said, all : said = Append(b, f) /\ all = g \o said
    OBVIOUS
  <1>13. Handshakes(Answering(cert)) = said
    <2>1. Handshakes(Append(d, f)) = Picks(b, f)
      BY <1>8, <1>11, HandshakesAppend
    <2> QED
      BY <1>1, <1>2, <1>7, <1>12, <2>1 DEF Picks
  <1>14. all = Append(g \o b, f)
    BY <1>4, <1>8, <1>12, AppendParts
  <1>15. g \o b = Append(g \o a, e)
    BY <1>4, <1>6, <1>7, AppendParts
  <1>16. g \o a = Asked(cert)
    <2>1. g \o << >> = g
      BY <1>4, <1>6, ConcatFacts
    <2>2. g \o Append(<< >>, c) = Append(g \o << >>, c)
      BY <1>4, <1>6, AppendParts
    <2> QED
      BY <1>3, <1>5, <2>1, <2>2
  <1>17. all = Closing(cert) /\ g \o b = Keyed(cert)
    BY <1>5, <1>14, <1>15, <1>16
  <1>18. Front(all) = Keyed(cert)
    <2>1. PICK k : k = g \o b
      OBVIOUS
    <2>2. IsSeq(k)
      BY <1>4, <1>8, <2>1, ConcatFacts
    <2>3. Front(Append(k, f)) = k
      BY <2>2, AppendParts
    <2> QED
      BY <1>14, <1>17, <2>1, <2>3
  <1>19. Last(Answering(cert)) = f
    BY <1>2, <1>7, <1>8, AppendParts
  <1>20. cert => c \in Range(said)
    <2>1. cert => c \in Range(a)
      BY <1>3, <1>6, AppendParts
    <2>2. \A y \in Range(a) : y \in Range(b)
      BY <1>6, <1>7, AppendParts
    <2>3. \A y \in Range(b) : y \in Range(said)
      BY <1>8, <1>12, AppendParts
    <2> QED
      BY <2>1, <2>2, <2>3
  <1> QED
    BY <1>1, <1>12, <1>13, <1>17, <1>18, <1>19, <1>20

\* What is said to whom.
LEMMA HearsHello ==
  ASSUME Secure(srv), srv.phase = "hello", srv.digest = << >>, srv.left = << >>
  PROVE  LET s == Hears(<< Plain("ClientHello") >>)
         IN  Becomes(srv, s, "keys", Greeted(srv.cert), Halves(Flight(s)))
  <1> DEFINE m == Plain("ClientHello")
             msgs == << m >>
  <1>1. Handshakes(msgs) = msgs
    <2>1. m.kind = "ClientHello"
      BY DEF Plain, Message
    <2> HIDE DEF m
    <2>2. Append(<< >>, m) = msgs /\ IsSeq(<< >>)
      BY SmallSeqs
    <2>3. Handshakes(Append(<< >>, m)) = Picks(<< >>, m)
      BY <2>2, HandshakesNone, HandshakesAppend
    <2> QED
      BY <2>1, <2>2, <2>3 DEF Picks
  <1>2. << >> \o msgs = msgs /\ IsSeq(msgs)
    <2>1. IsSeq(<< >>) /\ IsSeq(msgs)
      BY SmallSeqs
    <2> HIDE DEF msgs
    <2> QED
      BY <2>1, ConcatFacts
  <1>3. PICK S, F : S = ServerMessages(srv.cert) /\ F = Packed(S, srv.cut)
    OBVIOUS
  <1>4. IsSeq(F)
    <2>1. srv.cert \in BOOLEAN /\ srv.cut \in Nat \ {0}
      BY DEF Secure
    <2> QED
      BY <1>3, <2>1, PackedFacts
  <1>5. IsSeq(Halves(F)) /\ << >> \o Halves(F) = Halves(F)
    <2>1. IsSeq(Halves(F)) /\ IsSeq(<< >>)
      BY <1>4, HalvesFacts, SmallSeqs
    <2> QED
      BY <2>1, ConcatFacts
  <1>6. msgs \o S = Greeted(srv.cert)
    BY <1>3 DEF Greeted
  <1>7. PICK s : s = Hears(msgs)
    OBVIOUS
  <1> HIDE DEF msgs
  <1>8. s = [srv EXCEPT !.phase = "keys", !.digest = Greeted(srv.cert), !.left = Halves(F)]
    BY <1>1, <1>2, <1>3, <1>5, <1>6, <1>7 DEF Hears
  <1>9. Becomes(srv, s, "keys", Greeted(srv.cert), Halves(F))
    BY <1>5, <1>8, BecomesIs
  <1>10. Flight(s) = F
    <2>1. s.phase = "keys" /\ s.cert = srv.cert /\ s.cut = srv.cut
      BY <1>9 DEF Becomes, HttpsFields, HttpFields
    <2> QED
      BY <1>3, <2>1 DEF Flight
  <1> QED
    BY <1>7, <1>9, <1>10 DEF msgs

\* Our answer ends the server's part of the handshake ...
LEMMA HearsAnswer ==
  ASSUME Secure(srv), srv.phase = "keys", srv.digest = Greeted(srv.cert)
  PROVE  LET s == Hears(Answering(srv.cert))
         IN  Becomes(srv, s, "request", Closing(srv.cert), srv.left \o Halves(Flight(s)))
  <1>1. PICK cert, msgs : cert = srv.cert /\ msgs = Answering(cert)
    OBVIOUS
  <1>2. PICK s : s = Hears(msgs)
    OBVIOUS
  <1>3. PICK said, all : said = Handshakes(msgs) /\ all = Greeted(cert) \o said
    OBVIOUS
  <1>4. cert \in BOOLEAN
    BY <1>1 DEF Secure
  <1>5. /\ all = Closing(cert) /\ Last(msgs).digest = Front(all)
        /\ cert => Plain("Certificate") \in Range(said)
    BY <1>1, <1>3, <1>4, AnswerIs
  <1>6. PICK q : q = srv.left \o Halves(ServerFinishes(all))
    OBVIOUS
  <1>7. s = [srv EXCEPT !.phase = "request", !.digest = all, !.left = q]
    BY <1>1, <1>2, <1>3, <1>5, <1>6 DEF Hears
  <1>8. IsSeq(q)
    <2>1. IsSeq(ServerFinishes(all))
      BY FinishesIs
    <2>2. IsSeq(Halves(ServerFinishes(all))) /\ IsSeq(srv.left)
      BY <2>1, HalvesFacts DEF Secure
    <2> QED
      BY <1>6, <2>2, ConcatFacts
  <1>9. Becomes(srv, s, "request", all, q)
    BY <1>7, <1>8, BecomesIs
  <1>10. Flight(s) = ServerFinishes(all)
    BY <1>9 DEF Flight, Becomes
  <1> QED
    BY <1>1, <1>2, <1>5, <1>6, <1>9, <1>10

\* ... and the request brings the reply.
LEMMA HearsGet ==
  ASSUME Secure(srv), srv.phase = "request", NEW msgs
  PROVE  LET s == Hears(msgs)
         IN  Becomes(srv, s, "reply", srv.digest, srv.left \o Halves(Flight(s)))
  <1>1. PICK s, body, q : /\ s = Hears(msgs) /\ body = Pieces(srv, srv.pieces)
                          /\ q = srv.left \o Halves(ServerData(body))
    OBVIOUS
  <1>2. s = [srv EXCEPT !.phase = "reply", !.left = q]
    BY <1>1 DEF Hears, Pieces
  <1>3. IsSeq(q)
    <2>1. IsSeq(body)
      BY <1>1, PiecesFacts DEF Secure
    <2>2. IsSeq(ServerData(body))
      BY <2>1, DataIs
    <2>3. IsSeq(Halves(ServerData(body))) /\ IsSeq(srv.left)
      BY <2>2, HalvesFacts DEF Secure
    <2> QED
      BY <1>1, <2>3, ConcatFacts
  <1>4. Becomes(srv, s, "reply", srv.digest, q)
    BY <1>2, <1>3, BecomesIs
  <1>5. s.phase = "reply" /\ s.pieces = srv.pieces /\ s.reply = srv.reply
    BY <1>4 DEF Becomes, HttpsFields, HttpFields
  <1>6. Flight(s) = ServerData(body)
    BY <1>1, <1>5 DEF Flight, Pieces
  <1> QED
    BY <1>1, <1>4, <1>6

\* Whatever it hears, it goes on as an honest server.
LEMMA HearsHonestly ==
  ASSUME Secure(srv), HonestQueue(srv, srv.left), NEW msgs
  PROVE  LET s == Hears(msgs)
         IN  /\ Secure(s) /\ Steady(srv, s) /\ HonestQueue(s, s.left)
             /\ \A f \in HttpsFields \ {"phase", "digest", "left"} : s[f] = srv[f]
  <1>1. PICK s : s = Hears(msgs)
    OBVIOUS
  <1> DEFINE Goal == /\ Secure(s) /\ Steady(srv, s) /\ HonestQueue(s, s.left)
                     /\ \A f \in HttpsFields \ {"phase", "digest", "left"} : s[f] = srv[f]
  <1>2. ASSUME NEW phase, NEW digest, NEW p, HonestQueue(s, p), Steady(srv, s),
               s = [srv EXCEPT !.phase = phase, !.digest = digest, !.left = srv.left \o p]
        PROVE  Goal
    <2>1. PICK q : q = srv.left \o p
      OBVIOUS
    <2>2. HonestQueue(s, srv.left)
      BY <1>2, HonestyLasts
    <2>3. HonestQueue(s, q)
      BY <1>2, <2>1, <2>2, QueuesJoin
    <2>4. Becomes(srv, s, phase, digest, q)
      BY <1>2, <2>1, <2>3, BecomesIs DEF HonestQueue
    <2> QED
      BY <1>2, <2>3, <2>4 DEF Becomes
  <1>3. CASE srv.phase = "hello"
    <2>1. PICK digest, F : /\ F = Packed(ServerMessages(srv.cert), srv.cut)
                           /\ digest = srv.digest \o Handshakes(msgs) \o ServerMessages(srv.cert)
      OBVIOUS
    <2>2. s = [srv EXCEPT !.phase = "keys", !.digest = digest, !.left = srv.left \o Halves(F)]
      BY <1>1, <1>3, <2>1 DEF Hears
    <2>3. Steady(srv, s)
      BY <1>3 DEF Steady
    <2>4. PICK p : p = srv.left \o Halves(F)
      OBVIOUS
    <2>5. IsSeq(p)
      <3>1. srv.cert \in BOOLEAN /\ srv.cut \in Nat \ {0} /\ IsSeq(srv.left)
        BY DEF Secure
      <3>2. IsSeq(F)
        BY <2>1, <3>1, PackedFacts
      <3>3. IsSeq(Halves(F))
        BY <3>2, HalvesFacts
      <3> QED
        BY <2>4, <3>1, <3>3, ConcatFacts
    <2>6. Becomes(srv, s, "keys", digest, p)
      BY <2>2, <2>4, <2>5, BecomesIs
    <2>7. Secure(s) /\ Flight(s) = F
      <3>1. Secure(s) /\ s.phase = "keys" /\ s.cert = srv.cert /\ s.cut = srv.cut
        BY <2>6 DEF Becomes, HttpsFields, HttpFields
      <3> QED
        BY <2>1, <3>1 DEF Flight
    <2>8. HonestQueue(s, Halves(F))
      BY <2>7, FlightHonest
    <2> QED
      BY <1>1, <1>2, <2>2, <2>3, <2>8
  <1>4. CASE srv.phase = "keys"
    <2>1. Steady(srv, s)
      BY <1>4 DEF Steady
    <2>2. PICK all : all = srv.digest \o Handshakes(msgs)
      OBVIOUS
    <2>3. PICK F, A : F = ServerFinishes(all) /\ A = << Record("alert", FALSE, 0, "fatal") >>
      OBVIOUS
    <2>4. \/ s = [srv EXCEPT !.phase = "request", !.digest = all, !.left = srv.left \o Halves(F)]
          \/ s = [srv EXCEPT !.phase = "over", !.left = srv.left \o Halves(A)]
      BY <1>1, <1>4, <2>2, <2>3 DEF Hears
    <2>5. CASE s = [srv EXCEPT !.phase = "request", !.digest = all, !.left = srv.left \o Halves(F)]
      <3>1. PICK p : p = srv.left \o Halves(F)
        OBVIOUS
      <3>2. IsSeq(p)
        <4>1. IsSeq(F)
          BY <2>3, FinishesIs
        <4>2. IsSeq(Halves(F)) /\ IsSeq(srv.left)
          BY <4>1, HalvesFacts DEF Secure
        <4> QED
          BY <3>1, <4>2, ConcatFacts
      <3>3. Becomes(srv, s, "request", all, p)
        BY <2>5, <3>1, <3>2, BecomesIs
      <3>4. Secure(s) /\ Flight(s) = F
        BY <2>3, <3>3 DEF Becomes, Flight
      <3>5. HonestQueue(s, Halves(F))
        BY <3>4, FlightHonest
      <3> QED
        BY <1>1, <1>2, <2>1, <2>5, <3>5
    <2>6. CASE s = [srv EXCEPT !.phase = "over", !.left = srv.left \o Halves(A)]
      <3>1. IsSeq(A) /\ Len(A) = 1 /\ A[1].type = "alert"
        BY <2>3, SmallSeqs DEF Record
      <3>2. HonestQueue(s, Halves(A))
        <4>1. HonestRecord(s, A[1])
          BY <3>1 DEF HonestRecord
        <4>2. \A i \in 1 .. 1 : i = 1
          OBVIOUS
        <4>3. \A i \in 1 .. Len(A) : HonestRecord(s, A[i])
          BY ONLY <3>1, <4>1, <4>2
        <4> QED
          BY <3>1, <4>3, HalvesHonest
      <3>3. s = [srv EXCEPT !.phase = "over", !.digest = srv.digest, !.left = srv.left \o Halves(A)]
        BY <2>6 DEF Secure, HttpsFields, HttpFields
      <3> QED
        BY <1>1, <1>2, <2>1, <3>2, <3>3
    <2> QED
      BY <2>4, <2>5, <2>6
  <1>5. CASE srv.phase = "request"
    <2>1. PICK p : p = Halves(Flight(s))
      OBVIOUS
    <2>2. Becomes(srv, s, "reply", srv.digest, srv.left \o p)
      BY <1>1, <1>5, <2>1, HearsGet
    <2>3. Secure(s) /\ Steady(srv, s) /\ s.left = srv.left \o p
      BY <2>2 DEF Becomes, Steady
    <2>4. HonestQueue(s, p)
      BY <2>1, <2>3, FlightHonest
    <2>5. HonestQueue(s, srv.left)
      BY <2>3, HonestyLasts
    <2>6. HonestQueue(s, s.left)
      BY <2>3, <2>4, <2>5, QueuesJoin
    <2> QED
      BY <1>1, <2>2, <2>3, <2>6 DEF Becomes
  <1>6. CASE srv.phase \notin {"hello", "keys", "request"}
    <2>1. s = srv
      BY <1>1, <1>6 DEF Hears
    <2> QED
      BY <1>1, <2>1 DEF Steady
  <1> QED
    BY <1>3, <1>4, <1>5, <1>6

-----------------------------------------------------------------------------
(* The browser and its server.                                             *)

Https == user = "browser" /\ srv.job = "https"
Asking == user = "browser" /\ state \in {"connecting", "loading"}
Clean == resp = << >> /\ ring = << >> /\ overflow = FALSE /\ tls = tlsInit

Insecure(s) == DOMAIN s = HttpFields /\ s.job = "http" /\ IsSeq(s.left) /\ s.pieces \in Nat

\* What an http server has left to say, and what was received of it.
Serving(s, q, r) ==
  \/ s.phase = "hello" /\ q = << >> /\ r = << >>
  \/ /\ s.phase = "reply"
     /\ \E k \in 0 .. s.pieces :
          q = SubSeq(Pieces(s, s.pieces), k + 1, s.pieces) /\ r = Pieces(s, Least(k, RESP_MAX))

\* A load begins with nothing received.
Fresh == state \in {"resolving", "connecting"} => Clean

\* The connection of the browser leads to a web server ...
Served ==
  user = "browser" => \/ Secure(srv) /\ (srv.refused => srv.phase = "over")
                      \/ Insecure(srv)

\* ... and, while it is loading, to the one it asked for.
Matched ==
  Asking =>
    /\ srv.asked = url /\ (srv.job = "https" <=> url.tls)
    /\ state = "connecting" =>
         /\ srv.phase = "hello" /\ srv.left = << >>
         /\ srv.job = "https" => srv.digest = << >> /\ ~ srv.refused

Unforged ==
  Https =>
    /\ Client(tls) /\ tls.out = << >> /\ tls.data = << >>
    /\ HonestQueue(srv, ring) /\ HonestQueue(srv, srv.left) /\ HonestClient(srv, tls)

Agreed ==
  (Https /\ Asking /\ ~ overflow /\ ~ srv.refused) =>
    Agreement(srv, ring \o srv.left, tls, resp)

Answered ==
  (Asking /\ srv.job = "http") => ring = << >> /\ ~ overflow /\ Serving(srv, srv.left, resp)

\* Inside a poll: what comes in behind the pump's back keeps the load alive.
Inside ==
  /\ pc = "browser pumps" => url.tls
  /\ (pc = "browser decides" /\ user = "browser") =>
       /\ ring # << >> => quiet = 0 /\ seen # "CLOSED"
       /\ overflow => ring # << >>

Excused == (Https /\ tls.state = "failed") => srv.refused \/ overflow

Web ==
  /\ person \in People
  /\ Fresh /\ Served /\ Matched /\ Unforged /\ Agreed /\ Answered /\ Inside /\ Excused
  /\ PageIsWhole

-----------------------------------------------------------------------------
\* A client that has heard nothing.
LEMMA InitialClient ==
  /\ Client(tlsInit) /\ tlsInit.out = << >> /\ tlsInit.data = << >> /\ tlsInit.rec = << >>
  /\ tlsInit.hs = << >> /\ tlsInit.hash = << >> /\ tlsInit.state = "idle"
  /\ tlsInit.rdSeq = 0 /\ tlsInit.gotHello = FALSE /\ tlsInit.gotKeyExchange = FALSE
  /\ tlsInit.certRequested = FALSE /\ tlsInit.sentFinished = FALSE /\ tlsInit.encIn = FALSE
  /\ \A s : HonestClient(s, tlsInit) /\ HonestQueue(s, << >>)
  <1>1. DOMAIN tlsInit = Fields
    BY DEF tlsInit, Fields
  <1>2. IsSeq(<< >>) /\ Len(<< >>) = 0
    BY SmallSeqs
  <1>3. /\ tlsInit.out = << >> /\ tlsInit.data = << >> /\ tlsInit.rec = << >>
        /\ tlsInit.hs = << >> /\ tlsInit.hash = << >> /\ tlsInit.state = "idle"
        /\ tlsInit.rdSeq = 0 /\ tlsInit.gotHello = FALSE /\ tlsInit.gotKeyExchange = FALSE
        /\ tlsInit.certRequested = FALSE /\ tlsInit.sentFinished = FALSE /\ tlsInit.encIn = FALSE
    BY DEF tlsInit
  <1>4. Client(tlsInit)
    BY <1>1, <1>2, <1>3 DEF Client
  <1>5. \A s : HonestClient(s, tlsInit) /\ HonestQueue(s, << >>)
    BY <1>2, <1>3 DEF HonestClient, HonestQueue
  <1> QED
    BY <1>3, <1>4, <1>5

\* At the start the browser has no server.
LEMMA InitWeb == Init => Web
  BY DEF Init, LinkInit, BrowserInit, Web, Fresh, Clean, Served, Matched, Unforged, Agreed,
         Answered, Inside, Excused, PageIsWhole, Https, Asking

\* Steps that leave the browser's end as it is, or give the load up.
LEMMA WebStays ==
  ASSUME IInv, Web, UNCHANGED <<person, user, srv, resp, ring, overflow, tls, page>>,
         eof' = eof \/ ts # "CLOSED",
         \/ UNCHANGED <<state, url>>
         \/ state' \in {"idle", "error"},
         Inside'
  PROVE  Web'
  <1>1. Fresh'
    BY DEF Web, Fresh, Clean
  <1>2. Served' /\ Unforged' /\ Excused'
    BY DEF Web, Served, Unforged, Excused, Https
  <1>3. Matched' /\ Agreed' /\ Answered'
    BY DEF Web, Matched, Agreed, Answered, Https, Asking
  <1>4. PageIsWhole'
    BY DEF Web, PageIsWhole, IInv, NoLeakedConnection
  <1> QED
    BY <1>1, <1>2, <1>3, <1>4 DEF Web

\* When the connection is not the browser's.
LEMMA WebElsewhere ==
  ASSUME Web, person' = person, user' # "browser", Fresh', pc' = "browser pumps" => url'.tls
  PROVE  Web'
  BY DEF Web, Served, Matched, Unforged, Agreed, Answered, Inside, Excused, PageIsWhole,
         Https, Asking

\* A load that is started.
LEMMA WebStarts ==
  ASSUME IInv, Web, NEW u, startLoad(u), UNCHANGED <<person, user, srv, page, eof>>, pc' = "idle"
  PROVE  Web'
  <1>1. Inside'
    BY DEF Inside
  <1>2. CASE state' = "error" /\ UNCHANGED fetch
    <2>1. UNCHANGED <<resp, ring, overflow, tls>>
      BY <1>2 DEF fetch
    <2>2. Fresh' /\ Matched' /\ Agreed' /\ Answered' /\ PageIsWhole'
      BY <1>2 DEF Fresh, Matched, Agreed, Answered, Asking, PageIsWhole
    <2>3. Served' /\ Unforged' /\ Excused'
      BY <2>1 DEF Web, Served, Unforged, Excused, Https
    <2> QED
      BY <1>1, <2>2, <2>3 DEF Web
  <1>3. CASE state' = "resolving" /\ Forget
    <2>1. Fresh' /\ Matched' /\ Agreed' /\ Answered' /\ PageIsWhole'
      BY <1>3 DEF Fresh, Matched, Agreed, Answered, Asking, PageIsWhole, Clean, Forget
    <2>2. Served'
      BY DEF Web, Served
    <2>3. tls' = tlsInit /\ ring' = << >>
      BY <1>3 DEF Forget
    <2>4. Unforged' /\ Excused'
      BY <2>3, InitialClient DEF Web, Unforged, Excused, Https
    <2> QED
      BY <1>1, <2>1, <2>2, <2>4 DEF Web
  <1> QED
    BY <1>2, <1>3 DEF startLoad

\* tcpSend, tcpAbort and tcpTick as the server of the browser sees them.
LEMMA SendReaches ==
  ASSUME NEW s, tcpSend("browser", {s})
  PROVE  /\ ts' = ts /\ user' = user /\ eof' = eof
         /\ srv' = srv \/ (user = "browser" /\ ts = "ESTABLISHED" /\ srv' = s)
  BY DEF tcpSend

\* The other calls leave the server, and whose it is, alone.
LEMMA CallsLeave ==
  /\ \A p : tcpAbort(p) => user' = user /\ srv' = srv /\ eof' = eof
  /\ \A tick : TickIf(tick) => user' = user /\ srv' = srv /\ eof' = eof
  /\ UNCHANGED link => user' = user /\ srv' = srv /\ eof' = eof
  BY DEF tcpAbort, TickIf, tcpTick, link

\* The poll goes on outside its inner steps.
LEMMA InsideLasts ==
  ASSUME Web, UNCHANGED <<user, url, ring, overflow>>,
         \/ UNCHANGED <<pc, seen, quiet>>
         \/ pc' \notin {"browser pumps", "browser decides"}
  PROVE  Inside'
  BY DEF Web, Inside

-----------------------------------------------------------------------------
(* The mail program and the interrupt.                                     *)

\* The mail program takes the connection away from the browser, or leaves it as it is.
LEMMA MailKeepsWeb ==
  ASSUME IInv, Post, Web, MailNext, UNCHANGED <<browser, person>>
  PROVE  Web'
  <1>1. /\ UNCHANGED <<state, url, resp, ring, overflow, tls, quiet, page>>
        /\ pc' \in {"browser pumps", "browser decides"} => UNCHANGED <<pc, seen>>
    <2>1. UNCHANGED <<state, url, resp, ring, overflow, tls, quiet, page>>
      BY DEF browser, fetch, counters
    <2>2. CASE MailUser
      BY <2>1, <2>2 DEF MailUser, mailKey, startSend, cancelSend, loop
    <2>3. CASE \E tick \in BOOLEAN : mailPoll(tick)
      BY <2>1, <2>3 DEF mailPoll, SmConnects, SmWaits, SmReads, loop
    <2>4. CASE MailSteps
      BY <2>1, <2>4 DEF MailSteps, ParseLine, ParseEnds, Flush, loop
    <2>5. CASE MailReceives
      BY <2>1, <2>5 DEF MailReceives, loop
    <2> QED
      BY <2>1, <2>2, <2>3, <2>4, <2>5 DEF MailNext
  <1>2. Fresh'
    BY <1>1 DEF Web, Fresh, Clean
  <1>3. (user' = user /\ srv' = srv /\ eof' = eof) \/ user' = "mail"
    <2>1. CASE MailUser
      BY <2>1, CallsLeave DEF MailUser, mailKey, startSend, cancelSend
    <2>2. CASE \E tick \in BOOLEAN : mailPoll(tick)
      BY <2>2, CallsLeave DEF mailPoll, SmConnects, SmWaits, SmReads, smtpFail, tcpConnect
    <2>3. CASE ParseLine
      BY <2>3, CallsLeave DEF ParseLine, handleReply, smtpFail, link
    <2>4. CASE ParseEnds
      BY <2>4, CallsLeave DEF ParseEnds, smtpFail, link
    <2>5. CASE Flush
      <3> QED
        BY <2>5, CallsLeave DEF Flush, smtpFail, tcpSend
    <2>6. CASE MailReceives
      BY <2>6 DEF MailReceives
    <2> QED
      BY <2>1, <2>2, <2>3, <2>4, <2>5, <2>6 DEF MailNext, MailSteps
  <1>4. CASE user' = user /\ srv' = srv /\ eof' = eof
    <2>1. Inside'
      BY <1>1, <1>4, InsideLasts
    <2>2. eof' = eof \/ ts # "CLOSED"
      BY <1>4
    <2> QED
      BY <1>1, <1>4, <2>1, <2>2, WebStays
  <1>5. CASE user' = "mail"
    <2>1. pc' = "browser pumps" => url'.tls
      BY <1>1 DEF Web, Inside
    <2> QED
      BY <1>2, <1>5, <2>1, WebElsewhere
  <1> QED
    BY <1>3, <1>4, <1>5

\* So do segments without data; after the FIN of the server nothing is shown before the
\* poll has decided.
LEMMA InterruptKeepsWeb ==
  ASSUME IInv, Web, LinkInterrupt, UNCHANGED <<loop, browser, mail, person>>
  PROVE  Web'
  <1>1. UNCHANGED <<state, url, resp, ring, overflow, tls, quiet, page, pc, seen, user, srv,
                    person>>
    BY DEF browser, fetch, counters, loop, LinkInterrupt, Connected, FinArrives, LastAckArrives,
           ResetArrives
  <1>2. eof' = eof \/ ts # "CLOSED"
    BY DEF LinkInterrupt, Connected, FinArrives, LastAckArrives, ResetArrives
  <1>3. Inside'
    BY <1>1, InsideLasts
  <1> QED
    BY <1>1, <1>2, <1>3, WebStays

-----------------------------------------------------------------------------
(* The steps of the browser.                                               *)

\* The user asks for a page.
LEMMA OpeningKeepsWeb ==
  ASSUME IInv, Web, NEW u, browserOpen(u), person' = person
  PROVE  Web'
  <1>1. /\ startLoad(u) /\ UNCHANGED <<person, page>> /\ pc' = "idle"
        /\ UNCHANGED <<user, srv, eof>>
    BY DEF browserOpen, link, loop
  <1> QED
    BY <1>1, WebStarts

\* The load is given up, or waits for an address or for the connection.
LEMMA WaitingKeepsWeb ==
  ASSUME IInv, Web, person' = person, NEW tick,
         browserKeyEsc \/ PollResolves(tick) \/ PollWaits(tick)
  PROVE  Web'
  <1>1. /\ UNCHANGED <<person, url, resp, ring, overflow, tls, page>>
        /\ UNCHANGED <<user, srv, eof>>
        /\ state' = state \/ state' = "error"
        /\ pc' = pc /\ pc = "idle"
    <2>1. CASE browserKeyEsc
      BY <2>1, CallsLeave DEF browserKeyEsc, fetch, loop
    <2>2. CASE PollResolves(tick)
      BY <2>2, CallsLeave DEF PollResolves, fetch, loop
    <2>3. CASE PollWaits(tick)
      BY <2>3, CallsLeave DEF PollWaits, fetch, loop
    <2> QED
      BY <2>1, <2>2, <2>3
  <1>2. Inside' /\ (eof' = eof \/ ts # "CLOSED")
    BY <1>1 DEF Inside
  <1> QED
    BY <1>1, <1>2, WebStays

\* The poll reads the state; over TLS it pumps first.
LEMMA LoadingKeepsWeb ==
  ASSUME IInv, Web, person' = person, NEW tick, PollLoads(tick)
  PROVE  Web'
  <1>1. /\ UNCHANGED <<person, state, url, resp, ring, overflow, tls, page>>
        /\ UNCHANGED <<user, srv, eof>>
        /\ pc' = IF url.tls THEN "browser pumps" ELSE "browser decides"
        /\ state = "loading"
    BY CallsLeave DEF PollLoads, fetch
  <1>2. ~ url.tls /\ user = "browser" => ring = << >> /\ ~ overflow
    <2>1. SUFFICES ASSUME ~ url.tls, user = "browser" PROVE ring = << >> /\ ~ overflow
      OBVIOUS
    <2>2. Asking /\ srv.job # "https"
      BY <1>1, <2>1 DEF Web, Matched, Asking
    <2>3. srv.job = "http"
      BY <2>1, <2>2 DEF Web, Served, Secure, Insecure
    <2> QED
      BY <2>2, <2>3 DEF Web, Answered
  <1>3. Inside' /\ (eof' = eof \/ ts # "CLOSED")
    BY <1>1, <1>2 DEF Inside
  <1> QED
    BY <1>1, <1>3, WebStays

\* A server that has just been reached has said nothing, and is of the kind asked for.
LEMMA ServerIsNew ==
  ASSUME Web, NEW s \in Servers
  PROVE  /\ s.asked = url /\ s.phase = "hello" /\ s.left = << >> /\ (s.job = "https" <=> url.tls)
         /\ url.tls => Secure(s) /\ s.digest = << >> /\ s.refused = FALSE
         /\ ~ url.tls => Insecure(s)
  <1>1. PICK r \in person.replies, cut \in Layouts, cert \in BOOLEAN :
          s = IF url.tls
              THEN [job |-> "https", asked |-> url, phase |-> "hello", left |-> << >>, cut |-> cut,
                    cert |-> cert, digest |-> << >>, refused |-> FALSE,
                    reply |-> r.what, pieces |-> r.pieces]
              ELSE [job |-> "http", asked |-> url, phase |-> "hello", left |-> << >>,
                    reply |-> r.what, pieces |-> r.pieces]
    BY DEF Servers
  <1>2. r.pieces \in Nat /\ cut \in Nat \ {0} /\ IsSeq(<< >>)
    BY <1>1, LinkAssumption, BrowserAssumption, SmallSeqs DEF Web
  <1>3. CASE url.tls
    <2>1. DOMAIN s = HttpsFields
      BY <1>1, <1>3 DEF HttpsFields, HttpFields
    <2>2. /\ s.job = "https" /\ s.asked = url /\ s.phase = "hello" /\ s.left = << >>
          /\ s.cut = cut /\ s.cert = cert /\ s.digest = << >> /\ s.refused = FALSE
          /\ s.pieces = r.pieces
      BY <1>1, <1>3
    <2> QED
      BY <1>1, <1>2, <1>3, <2>1, <2>2 DEF Secure
  <1>4. CASE ~ url.tls
    <2>1. DOMAIN s = HttpFields
      BY <1>1, <1>4 DEF HttpFields
    <2>2. /\ s.job = "http" /\ s.asked = url /\ s.phase = "hello" /\ s.left = << >>
          /\ s.pieces = r.pieces
      BY <1>1, <1>4
    <2> QED
      BY <1>2, <1>4, <2>1, <2>2 DEF Insecure
  <1> QED
    BY <1>3, <1>4

\* The connection is asked for.
LEMMA ConnectingKeepsWeb ==
  ASSUME IInv, Web, person' = person, PollConnects
  PROVE  Web'
  <1>1. /\ UNCHANGED <<person, url, resp, ring, overflow, tls, page>> /\ pc' = "idle"
        /\ state = "resolving"
    BY DEF PollConnects, fetch, loop
  <1>2. Inside'
    BY <1>1 DEF Inside
  <1>3. CASE ts # "CLOSED"
    BY <1>1, <1>2, <1>3, CallsLeave, WebStays DEF PollConnects
  <1>4. CASE ts = "CLOSED"
    <2>1. PICK s \in Servers : tcpConnect("browser", s) /\ state' = "connecting"
      BY <1>4 DEF PollConnects
    <2>2. srv' = s /\ user' = "browser"
      BY <2>1 DEF tcpConnect
    <2>3. /\ s.asked = url /\ s.phase = "hello" /\ s.left = << >> /\ (s.job = "https" <=> url.tls)
          /\ url.tls => Secure(s) /\ s.digest = << >> /\ s.refused = FALSE
          /\ ~ url.tls => Insecure(s)
      BY ServerIsNew
    <2>4. resp = << >> /\ ring = << >> /\ overflow = FALSE /\ tls = tlsInit
      BY <1>1 DEF Web, Fresh, Clean
    <2>5. Fresh'
      BY <1>1, <2>4 DEF Fresh, Clean
    <2>6. Served' /\ Matched'
      BY <1>1, <2>1, <2>2, <2>3 DEF Served, Matched, Insecure
    <2>7. Unforged'
      BY <1>1, <2>2, <2>3, <2>4, InitialClient DEF Unforged, Https
    <2>8. << >> \o << >> = << >>
      OBVIOUS
    <2>9. Agreement(s, << >>, tlsInit, << >>)
      BY <2>3, InitialClient DEF Agreement
    <2>10. Agreed'
      BY <1>1, <2>2, <2>3, <2>4, <2>8, <2>9 DEF Agreed
    <2>11. Answered'
      BY <1>1, <2>2, <2>3, <2>4 DEF Answered, Serving
    <2>12. Excused'
      BY <1>1, <2>4, InitialClient DEF Excused
    <2>13. PageIsWhole'
      BY <2>1 DEF PageIsWhole
    <2> QED
      BY <1>1, <1>2, <2>5, <2>6, <2>7, <2>10, <2>11, <2>12, <2>13 DEF Web
  <1> QED
    BY <1>3, <1>4

\* The hello.
LEMMA HelloIs ==
  LET t == tlsStart(tlsInit)
      u == Returned(t)
  IN  /\ t.out = << Plain("ClientHello") >>
      /\ Client(u) /\ u.out = << >> /\ u.data = << >> /\ u.state = "handshake"
      /\ u.rec = << >> /\ u.hs = << >>
      /\ \A s : HonestClient(s, u)
      /\ \A cert : cert \in BOOLEAN => \A cut \in Nat \ {0} : KeysAt(u, 0, cert, cut)
  <1> DEFINE m == Plain("ClientHello")
             t0 == [tlsInit EXCEPT !.state = "handshake"]
             t == tlsStart(tlsInit)
             u == Returned(t)
  <1>1. Client(t0) /\ But({"state"}, tlsInit, t0) /\ t0.state = "handshake"
    <2>1. DOMAIN t0 = Fields /\ t0.state = "handshake"
      BY InitialClient DEF Client, Fields
    <2>2. But({"state"}, tlsInit, t0)
      BY InitialClient DEF Client, But, Fields
    <2>3. /\ t0.hash = tlsInit.hash /\ t0.rec = tlsInit.rec /\ t0.hs = tlsInit.hs
          /\ t0.out = tlsInit.out /\ t0.data = tlsInit.data /\ t0.rdSeq = tlsInit.rdSeq
      BY <2>2 DEF But, Fields
    <2> QED
      BY <2>1, <2>2, <2>3, InitialClient DEF Client
  <1>2. t = sendHandshake(t0, m)
    BY DEF tlsStart
  <1> HIDE DEF t0, m
  <1>3. /\ Client(t) /\ t.out = Append(t0.out, m) /\ t.hash = Append(t0.hash, m)
        /\ But({"out", "hash"}, t0, t)
    BY <1>1, <1>2, SendIs
  <1> HIDE DEF t
  <1>4. Client(u) /\ u.out = << >> /\ u.data = << >> /\ But({"out", "data"}, t, u)
    BY <1>3, ReturnedIs
  <1> HIDE DEF u
  <1>5. /\ u.state = "handshake" /\ u.hash = Append(<< >>, m) /\ t.out = Append(<< >>, m)
        /\ u.rec = << >> /\ u.hs = << >> /\ u.rdSeq = 0 /\ u.gotHello = FALSE
        /\ u.gotKeyExchange = FALSE /\ u.certRequested = FALSE /\ u.sentFinished = FALSE
        /\ u.encIn = FALSE
    BY <1>1, <1>3, <1>4, InitialClient DEF But, Fields
  <1>6. Append(<< >>, m) = << m >> /\ IsSeq(<< m >>) /\ Len(<< m >>) = 1 /\ << m >>[1] = m
    BY SmallSeqs
  <1>7. \A s : HonestClient(s, u)
    BY <1>5 DEF HonestClient
  <1>8. ASSUME NEW cert \in BOOLEAN, NEW cut \in Nat \ {0} PROVE KeysAt(u, 0, cert, cut)
    <2>1. IsSeq(ServerMessages(cert)) /\ Len(ServerMessages(cert)) \in {4, 5}
      BY ServerSays
    <2>2. Len(Packed(ServerMessages(cert), cut)) \in Nat \ {0}
      BY PackedFacts
    <2>3. Held(cert, cut, 0) = 0
      BY <2>2 DEF Held
    <2>4. Heard(u.hash, 0, cert)
      BY <1>5, <1>6 DEF Heard, m
    <2>5. Met(u, 0, cert)
      <3>1. ~ 0 >= 1 /\ ~ 0 >= 3 /\ ~ 0 >= 4 /\ 0 # Len(ServerMessages(cert))
        BY <2>1
      <3> QED
        BY <1>5, <2>4, <3>1, Zenon DEF Met
    <2>6. IsSeq(Halves(ServerMessages(cert))) /\ Len(Halves(ServerMessages(cert))) \in Nat
      BY <2>1, HalvesFacts
    <2>7. SubSeq(Halves(ServerMessages(cert)), 0 + 1, 0) = << >>
      BY <2>6, SliceFacts
    <2>8. 0 \in 0 .. Len(ServerMessages(cert)) /\ 0 = 2 * 0 + 0
      BY <2>1
    <2> QED
      BY <1>5, <2>3, <2>5, <2>7, <2>8 DEF KeysAt
  <1> QED
    BY <1>4, <1>5, <1>6, <1>7, <1>8 DEF t, u, m

\* As long as both sides agree, the client has not failed.
LEMMA AgreementHolds ==
  ASSUME NEW s, NEW q, NEW t, NEW r, Agreement(s, q, t, r)
  PROVE  t.state # "failed"
  <1>1. CASE s.phase = "hello"
    BY <1>1 DEF Agreement
  <1>2. CASE s.phase # "hello"
    <2>1. PICK k \in Nat, b \in {0, 1} : At(s, t, k)
      BY <1>2 DEF Agreement
    <2>2. s.phase \in {"keys", "request", "reply"}
      BY <1>2 DEF Agreement
    <2>3. CASE s.phase = "keys"
      <3>1. KeysAt(t, k, s.cert, s.cut)
        BY <2>1, <2>3 DEF At
      <3> QED
        BY <3>1 DEF KeysAt, Met
    <2>4. CASE s.phase = "request"
      BY <2>1, <2>4 DEF At, RequestAt
    <2>5. CASE s.phase = "reply"
      BY <2>1, <2>5 DEF At, ReplyAt
    <2> QED
      BY <2>2, <2>3, <2>4, <2>5
  <1> QED
    BY <1>1, <1>2

\* What is to be shown of a step of a load over TLS ...
LEMMA SecureWeb ==
  ASSUME Web, Https, Asking, UNCHANGED <<person, user, url>>, state' = "loading",
         Secure(srv'), srv'.refused => srv'.phase = "over", srv'.asked = srv.asked,
         Unforged', Agreed', Inside'
  PROVE  Web'
  <1>1. Fresh' /\ PageIsWhole'
    BY DEF Fresh, PageIsWhole
  <1>2. Served'
    BY DEF Served
  <1>3. Matched' /\ Answered'
    BY DEF Web, Matched, Answered, Https, Asking, Secure
  <1>4. Excused'
    BY AgreementHolds DEF Agreed, Excused, Https, Asking
  <1> QED
    BY <1>1, <1>2, <1>3, <1>4 DEF Web

\* ... and of one without.
LEMMA InsecureWeb ==
  ASSUME Web, Asking, srv.job = "http", UNCHANGED <<person, user, url, ring, overflow>>,
         state' = "loading", Insecure(srv'), srv'.asked = srv.asked,
         Serving(srv', srv'.left, resp'), Inside'
  PROVE  Web'
  <1>1. Fresh' /\ PageIsWhole'
    BY DEF Fresh, PageIsWhole
  <1>2. Served' /\ Unforged' /\ Agreed' /\ Excused'
    BY DEF Served, Unforged, Agreed, Excused, Https, Insecure
  <1>3. Matched' /\ Answered'
    BY DEF Web, Matched, Answered, Asking, Insecure
  <1> QED
    BY <1>1, <1>2, <1>3 DEF Web

\* The connection is there: over TLS the hello goes out ...
LEMMA HelloKeepsWeb ==
  ASSUME IInv, Web, person' = person, PollStarts, user = "browser", url.tls
  PROVE  Web'
  <1> DEFINE t == tlsStart(tlsInit)
             hello == << Plain("ClientHello") >>
  <1>1. /\ tls' = Returned(t) /\ tcpSend("browser", {Hears(t.out)})
        /\ UNCHANGED <<person, url, resp, ring, overflow>>
        /\ state' = "loading" /\ state = "connecting" /\ pc' = "idle"
    BY DEF PollStarts, loop
  <1>2. /\ t.out = hello
        /\ Client(tls') /\ tls'.out = << >> /\ tls'.data = << >> /\ tls'.state = "handshake"
        /\ tls'.rec = << >>
        /\ \A s : HonestClient(s, tls')
        /\ \A cert : cert \in BOOLEAN => \A cut \in Nat \ {0} : KeysAt(tls', 0, cert, cut)
    BY <1>1, HelloIs
  <1> HIDE DEF t, hello
  <1>3. Https /\ Asking
    BY <1>1 DEF Web, Matched, Https, Asking
  <1>4. /\ Secure(srv) /\ srv.phase = "hello" /\ srv.digest = << >> /\ srv.left = << >>
        /\ ~ srv.refused /\ ring = << >> /\ resp = << >>
    BY <1>1, <1>3 DEF Web, Matched, Served, Fresh, Clean, Https, Insecure
  <1>5. Inside'
    BY <1>1 DEF Inside
  <1>6. user' = user /\ (srv' = srv \/ srv' = Hears(hello))
    BY <1>1, <1>2, SendReaches
  <1>7. Secure(srv') /\ HonestQueue(srv', srv'.left) /\ Steady(srv, srv')
        /\ srv'.asked = srv.asked /\ srv'.refused = srv.refused
    <2>1. HonestQueue(srv, srv.left)
      BY <1>4, InitialClient
    <2>2. PICK msgs : msgs = hello
      OBVIOUS
    <2>3. LET s == Hears(msgs)
          IN  /\ Secure(s) /\ Steady(srv, s) /\ HonestQueue(s, s.left)
              /\ \A f \in HttpsFields \ {"phase", "digest", "left"} : s[f] = srv[f]
      BY <1>4, <2>1, HearsHonestly
    <2>4. Steady(srv, srv)
      BY DEF Steady
    <2> QED
      BY <1>4, <1>6, <2>1, <2>2, <2>3, <2>4 DEF HttpsFields, HttpFields
  <1>8. Unforged'
    BY <1>1, <1>2, <1>4, <1>7, InitialClient DEF Unforged
  <1>9. Agreement(srv', srv'.left, tls', << >>)
    <2>1. CASE srv' = srv
      BY <1>2, <1>4, <2>1 DEF Agreement
    <2>2. CASE srv' = Hears(hello)
      <3>1. Becomes(srv, srv', "keys", Greeted(srv.cert), Halves(Flight(srv')))
        BY <1>4, <2>2, HearsHello DEF hello
      <3>2. /\ Secure(srv') /\ srv'.phase = "keys" /\ srv'.digest = Greeted(srv'.cert)
            /\ srv'.left = Halves(Flight(srv'))
        BY <3>1 DEF Becomes, HttpsFields, HttpFields
      <3>3. IsSeq(Flight(srv'))
        BY <3>2, FlightFacts
      <3>4. Reading(Flight(srv'), 0, 0, srv'.left, tls')
        BY <1>2, <3>2, <3>3, ReadingStarts
      <3>5. At(srv', tls', 0) /\ Got(srv', 0) = << >>
        BY <1>2, <3>2 DEF At, Got, Secure
      <3>6. 0 \in Nat /\ 0 \in {0, 1}
        OBVIOUS
      <3> QED
        BY <3>2, <3>4, <3>5, <3>6 DEF Agreement
    <2> QED
      BY <1>6, <2>1, <2>2
  <1>10. Agreed'
    <2>1. << >> \o srv'.left = srv'.left
      BY <1>7, SmallSeqs, ConcatFacts DEF Secure
    <2> QED
      BY <1>1, <1>4, <1>9, <2>1 DEF Agreed
  <1>11. srv'.refused => srv'.phase = "over"
    BY <1>4, <1>7
  <1> QED
    BY <1>1, <1>3, <1>5, <1>6, <1>7, <1>8, <1>10, <1>11, SecureWeb

\* ... and otherwise the request.
LEMMA RequestKeepsWeb ==
  ASSUME IInv, Web, person' = person, PollStarts, user = "browser", ~ url.tls
  PROVE  Web'
  <1>1. /\ tls' = tls /\ tcpSend("browser", {HearsPlain})
        /\ UNCHANGED <<person, url, resp, ring, overflow>>
        /\ state' = "loading" /\ state = "connecting" /\ pc' = "idle"
    BY DEF PollStarts, sendRequest, loop
  <1>2. Asking /\ srv.job # "https" /\ Insecure(srv)
    BY <1>1 DEF Web, Matched, Served, Asking, Secure
  <1>3. /\ srv.job = "http" /\ srv.phase = "hello" /\ srv.left = << >> /\ resp = << >>
        /\ srv.pieces \in Nat /\ DOMAIN srv = HttpFields
    BY <1>1, <1>2 DEF Web, Matched, Fresh, Clean, Insecure
  <1>4. Inside'
    BY <1>1 DEF Inside
  <1>5. user' = user /\ (srv' = srv \/ srv' = HearsPlain)
    BY <1>1, SendReaches
  <1>6. CASE srv' = srv
    <2>1. Serving(srv', srv'.left, resp')
      BY <1>1, <1>3, <1>6 DEF Serving
    <2> QED
      BY <1>1, <1>2, <1>3, <1>4, <1>5, <1>6, <2>1, InsecureWeb
  <1>7. CASE srv' = HearsPlain
    <2>1. PICK p : p = Pieces(srv, srv.pieces)
      OBVIOUS
    <2>2. IsSeq(p) /\ Len(p) = srv.pieces
      BY <1>3, <2>1, PiecesFacts
    <2>3. srv' = [srv EXCEPT !.phase = "reply", !.left = p]
      BY <1>7, <2>1 DEF HearsPlain, Pieces
    <2>4. /\ DOMAIN srv' = HttpFields /\ srv'.phase = "reply" /\ srv'.left = p
          /\ srv'.asked = srv.asked /\ srv'.pieces = srv.pieces /\ srv'.reply = srv.reply
          /\ srv'.job = srv.job
      BY <1>3, <2>3 DEF HttpFields
    <2>5. Insecure(srv')
      BY <1>3, <2>2, <2>4 DEF Insecure
    <2>6. Pieces(srv', srv'.pieces) = p
      BY <2>1, <2>4 DEF Pieces
    <2>7. SubSeq(p, 0 + 1, srv'.pieces) = p
      <3>1. /\ IsSeq(SubSeq(p, 0 + 1, srv.pieces)) /\ Len(SubSeq(p, 0 + 1, srv.pieces)) = srv.pieces
            /\ \A i \in 1 .. srv.pieces : SubSeq(p, 0 + 1, srv.pieces)[i] = p[i]
        BY <1>3, <2>2, SliceFacts
      <3> QED
        BY <2>2, <2>4, <3>1, SameSeq
    <2>8. Pieces(srv', Least(0, RESP_MAX)) = << >>
      <3>1. Least(0, RESP_MAX) = 0
        BY BrowserAssumption DEF Least
      <3>2. IsSeq(Pieces(srv', 0)) /\ Len(Pieces(srv', 0)) = 0
        BY PiecesFacts
      <3> QED
        BY <3>1, <3>2, SeqFacts
    <2>9. 0 \in 0 .. srv'.pieces
      BY <1>3, <2>4
    <2>10. Serving(srv', srv'.left, resp')
      BY <1>1, <1>3, <2>4, <2>6, <2>7, <2>8, <2>9 DEF Serving
    <2> QED
      BY <1>1, <1>2, <1>3, <1>4, <1>5, <2>4, <2>5, <2>10, InsecureWeb
  <1> QED
    BY <1>5, <1>6, <1>7

\* Whosever the connection is.
LEMMA StartingKeepsWeb ==
  ASSUME IInv, Web, person' = person, PollStarts
  PROVE  Web'
  <1>1. CASE user # "browser"
    <2>1. user' = user /\ state' = "loading" /\ pc' = "idle"
      BY SendReaches DEF PollStarts, sendRequest, loop
    <2>2. Fresh'
      BY <2>1 DEF Fresh
    <2> QED
      BY <1>1, <2>1, <2>2, WebElsewhere
  <1> QED
    BY <1>1, HelloKeepsWeb, RequestKeepsWeb

\* An empty queue is empty at both ends.
LEMMA NothingLeft ==
  ASSUME NEW p, IsSeq(p), NEW q, IsSeq(q), p \o q = << >>
  PROVE  p = << >> /\ q = << >>
  <1>1. Len(p) + Len(q) = 0 /\ Len(p) \in Nat /\ Len(q) \in Nat
    BY ConcatFacts, SeqFacts, SmallSeqs
  <1>2. Len(p) = 0 /\ Len(q) = 0
    BY <1>1
  <1> QED
    BY <1>2, SeqFacts

\* What a call leaves behind changes nothing of it.
LEMMA AgreementLasts ==
  ASSUME NEW s, NEW q, NEW t, NEW r, Agreement(s, q, t, r), NEW u, But({"out", "data"}, t, u)
  PROVE  Agreement(s, q, u, r)
  <1>1. u.rec = t.rec /\ u.state = t.state /\ But({"rec", "out", "data"}, t, u)
    BY DEF But, Fields
  <1>2. \A k : At(s, t, k) => At(s, u, k)
    BY <1>1, StagesLast DEF At
  <1>3. \A F, k, b : Reading(F, k, b, q, t) => Reading(F, k, b, q, u)
    BY <1>1 DEF Reading
  <1> QED
    BY <1>1, <1>2, <1>3 DEF Agreement

\* Nor does a piece that goes from the server to the ring.
LEMMA AgreementMoves ==
  ASSUME NEW s, NEW q, NEW t, NEW r, Agreement(s, q, t, r), NEW s2, NEW l,
         Becomes(s, s2, s.phase, s.digest, l)
  PROVE  Agreement(s2, q, t, r)
  <1>1. /\ s2.phase = s.phase /\ s2.digest = s.digest /\ s2.cert = s.cert /\ s2.cut = s.cut
        /\ s2.reply = s.reply /\ s2.pieces = s.pieces
    BY DEF Becomes, HttpsFields, HttpFields
  <1>2. \A n : Pieces(s2, n) = Pieces(s, n)
    BY <1>1 DEF Pieces
  <1>3. Flight(s2) = Flight(s)
    BY <1>1, <1>2 DEF Flight
  <1>4. \A k : (At(s, t, k) => At(s2, t, k)) /\ Got(s2, k) = Got(s, k)
    BY <1>1, <1>2 DEF At, Got
  <1> QED
    BY <1>1, <1>3, <1>4 DEF Agreement

\* Inside the pump the browser is loading over TLS.
LEMMA PumpIsSecure ==
  ASSUME IInv, Web, pc = "browser pumps", user = "browser"
  PROVE  /\ Https /\ Asking /\ state = "loading" /\ url.tls
         /\ Secure(srv) /\ (srv.refused => srv.phase = "over")
         /\ Client(tls) /\ tls.out = << >> /\ tls.data = << >>
         /\ HonestQueue(srv, ring) /\ HonestQueue(srv, srv.left) /\ HonestClient(srv, tls)
         /\ IsSeq(ring) /\ IsSeq(srv.left)
  <1>1. Asking /\ state = "loading" /\ url.tls
    BY DEF Web, Inside, IInv, Polled, Loading, Asking
  <1>2. Https
    BY <1>1 DEF Web, Matched, Https
  <1>3. Secure(srv) /\ (srv.refused => srv.phase = "over")
    BY <1>2 DEF Web, Served, Https, Insecure
  <1>4. /\ Client(tls) /\ tls.out = << >> /\ tls.data = << >>
        /\ HonestQueue(srv, ring) /\ HonestQueue(srv, srv.left) /\ HonestClient(srv, tls)
    BY <1>2 DEF Web, Unforged
  <1> QED
    BY <1>1, <1>2, <1>3, <1>4 DEF HonestQueue

\* What the server is after it has heard something, or not.
LEMMA SpokenTo ==
  ASSUME IInv, Web, pc = "browser pumps", user = "browser",
         NEW msgs, tcpSend("browser", {Hears(msgs)})
  PROVE  /\ user' = user /\ (srv' = srv \/ srv' = Hears(msgs))
         /\ Secure(srv') /\ (srv'.refused => srv'.phase = "over")
         /\ srv'.asked = srv.asked /\ srv'.refused = srv.refused
         /\ Steady(srv, srv') /\ HonestQueue(srv', srv'.left)
  <1>1. user' = user /\ (srv' = srv \/ srv' = Hears(msgs))
    BY SendReaches
  <1>2. Secure(srv) /\ HonestQueue(srv, srv.left) /\ (srv.refused => srv.phase = "over")
    BY PumpIsSecure
  <1>3. LET s == Hears(msgs)
        IN  /\ Secure(s) /\ Steady(srv, s) /\ HonestQueue(s, s.left)
            /\ \A f \in HttpsFields \ {"phase", "digest", "left"} : s[f] = srv[f]
    BY <1>2, HearsHonestly
  <1>4. srv.phase = "over" => Hears(msgs) = srv
    BY DEF Hears
  <1>5. Steady(srv, srv)
    BY DEF Steady
  <1> QED
    BY <1>1, <1>2, <1>3, <1>4, <1>5 DEF HttpsFields, HttpFields

\* A half is fed to the client.
LEMMA FeedingKeepsWeb ==
  ASSUME IInv, Web, person' = person, PumpFeeds
  PROVE  Web'
  <1> DEFINE t == tlsFeed(tls, Head(ring))
             q == ring \o srv.left
  <1>1. /\ pc = "browser pumps" /\ pc' = pc
        /\ ring # << >> /\ ring' = Tail(ring) /\ tls' = Returned(t)
        /\ resp' = Capped(resp \o t.data) /\ state' = state
        /\ UNCHANGED <<person, url, overflow>>
        /\ IF t.out = << >> THEN UNCHANGED link ELSE tcpSend("browser", {Hears(t.out)})
    BY DEF PumpFeeds, loop
  <1>2. state = "loading" /\ url.tls
    BY <1>1 DEF Web, Inside, IInv, Polled, Loading
  <1>3. CASE user # "browser"
    <2>1. user' = user
      BY <1>1, SendReaches, CallsLeave
    <2>2. Fresh'
      BY <1>1, <1>2 DEF Fresh
    <2> QED
      BY <1>1, <1>2, <1>3, <2>1, <2>2, WebElsewhere
  <1>4. CASE user = "browser"
    <2>1. /\ Https /\ Asking /\ Secure(srv) /\ (srv.refused => srv.phase = "over")
          /\ Client(tls) /\ tls.out = << >> /\ tls.data = << >>
          /\ HonestQueue(srv, ring) /\ HonestQueue(srv, srv.left) /\ HonestClient(srv, tls)
          /\ IsSeq(ring) /\ IsSeq(srv.left)
      BY <1>1, <1>4, PumpIsSecure
    <2>2. /\ HonestRecord(srv, Head(ring)[1]) /\ HonestQueue(srv, Tail(ring))
      <3>1. /\ IsSeq(Tail(ring)) /\ Len(Tail(ring)) = Len(ring) - 1 /\ Head(ring) = ring[1]
            /\ Len(ring) \in Nat /\ Len(ring) # 0
            /\ \A i \in 1 .. Len(ring) - 1 : Tail(ring)[i] = ring[i + 1]
        BY <1>1, <2>1, SeqFacts
      <3> QED
        BY <2>1, <3>1 DEF HonestQueue
    <2>3. Client(t) /\ HonestClient(srv, Returned(t))
      BY <2>1, <2>2, FeedHonest
    <2>4. Client(tls') /\ tls'.out = << >> /\ tls'.data = << >>
      BY <1>1, <2>3, ReturnedIs
    <2>5. Steady(srv, srv)
      BY DEF Steady
    <2>6. /\ user' = user /\ (srv' = srv \/ (t.out # << >> /\ srv' = Hears(t.out)))
          /\ Secure(srv') /\ (srv'.refused => srv'.phase = "over")
          /\ srv'.asked = srv.asked /\ srv'.refused = srv.refused
          /\ Steady(srv, srv') /\ HonestQueue(srv', srv'.left)
      <3>1. CASE t.out # << >>
        BY <1>1, <1>4, <3>1, SpokenTo
      <3>2. CASE t.out = << >>
        BY <1>1, <2>1, <2>5, <3>2, CallsLeave
      <3> QED
        BY <3>1, <3>2
    <2>7. Unforged'
      BY <1>1, <2>2, <2>3, <2>4, <2>6, HonestyLasts DEF Unforged
    <2>8. ASSUME ~ overflow, ~ srv.refused
          PROVE  Agreement(srv', ring' \o srv'.left, tls', resp')
      <3>1. /\ q # << >> /\ Head(q) = Head(ring) /\ Tail(q) = ring' \o srv.left
        BY <1>1, <2>1, QueueFacts
      <3>2. Agreement(srv, q, tls, resp)
        BY <2>1, <2>8 DEF Web, Agreed
      <3> HIDE DEF q
      <3>3. LET u == tlsFeed(tls, Head(q))
            IN  /\ Client(u)
                /\ Agreement(srv, Tail(q), Returned(u), Capped(resp \o u.data))
                /\ u.out # << >> => /\ srv.phase = "keys" /\ Tail(q) = << >>
                                    /\ u.out = Answering(srv.cert) /\ srv.digest = Greeted(srv.cert)
                                    /\ RequestAt(Returned(u), 0, Closing(srv.cert))
                                    /\ Returned(u).rec = << >>
                                    /\ Capped(resp \o u.data) = << >>
        BY <2>1, <3>1, <3>2, FeedAgrees
      <3>4. t = tlsFeed(tls, Head(q))
        BY <3>1
      <3> HIDE DEF t
      <3>5. Agreement(srv, ring' \o srv.left, tls', resp')
        BY <1>1, <3>1, <3>3, <3>4
      <3>6. CASE srv' = srv
        BY <3>5, <3>6
      <3>7. CASE t.out # << >> /\ srv' = Hears(t.out)
        <4>1. /\ srv.phase = "keys" /\ ring' \o srv.left = << >> /\ t.out = Answering(srv.cert)
              /\ srv.digest = Greeted(srv.cert) /\ RequestAt(tls', 0, Closing(srv.cert))
              /\ tls'.rec = << >> /\ resp' = << >>
          BY <1>1, <3>1, <3>3, <3>4, <3>7
        <4>2. Becomes(srv, srv', "request", Closing(srv.cert), srv.left \o Halves(Flight(srv')))
          BY <2>1, <3>7, <4>1, HearsAnswer
        <4>3. IsSeq(ring') /\ ring' = << >> /\ srv.left = << >>
          BY <1>1, <2>1, <2>2, <4>1, NothingLeft DEF HonestQueue
        <4>4. /\ srv'.phase = "request" /\ srv'.digest = Closing(srv.cert)
              /\ srv'.left = srv.left \o Halves(Flight(srv'))
          BY <4>2 DEF Becomes
        <4>5. IsSeq(Flight(srv')) /\ IsSeq(Halves(Flight(srv')))
          BY <2>6, FlightFacts, HalvesFacts
        <4>6. ring' \o srv'.left = Halves(Flight(srv'))
          BY <4>3, <4>4, <4>5, ConcatFacts, SmallSeqs
        <4>7. Reading(Flight(srv'), 0, 0, ring' \o srv'.left, tls')
          BY <4>1, <4>5, <4>6, ReadingStarts
        <4>8. At(srv', tls', 0) /\ Got(srv', 0) = << >>
          BY <4>1, <4>4 DEF At, Got
        <4>9. 0 \in Nat /\ 0 \in {0, 1}
          OBVIOUS
        <4> QED
          BY <4>1, <4>4, <4>7, <4>8, <4>9 DEF Agreement
      <3> QED
        BY <2>6, <3>6, <3>7
    <2>9. Agreed'
      BY <1>1, <2>6, <2>8 DEF Agreed
    <2>10. Inside'
      BY <1>1, <1>2 DEF Inside
    <2> QED
      BY <1>1, <1>2, <2>1, <2>6, <2>7, <2>9, <2>10, SecureWeb
  <1> QED
    BY <1>3, <1>4

\* The request goes out over TLS.
LEMMA AskingKeepsWeb ==
  ASSUME IInv, Web, person' = person, PumpEnds, user = "browser", ~ overflow,
         tls.state = "ready", ~ requestSent
  PROVE  Web'
  <1> DEFINE t == tlsWrite(tls, "GET")
  <1>1. /\ pc = "browser pumps" /\ pc' = "browser decides" /\ ring = << >> /\ state' = state
        /\ UNCHANGED <<person, url, resp, ring, overflow>> /\ sendRequest
    BY DEF PumpEnds
  <1>2. /\ Https /\ Asking /\ state = "loading" /\ url.tls
        /\ Secure(srv) /\ (srv.refused => srv.phase = "over")
        /\ Client(tls) /\ tls.out = << >> /\ tls.data = << >>
        /\ HonestQueue(srv, ring) /\ HonestQueue(srv, srv.left) /\ HonestClient(srv, tls)
        /\ IsSeq(ring) /\ IsSeq(srv.left)
    BY <1>1, PumpIsSecure
  <1>3. tls' = Returned(t) /\ tcpSend("browser", {Hears(t.out)})
    BY <1>1, <1>2 DEF sendRequest
  <1>4. Client(t) /\ But({"out"}, tls, t)
    <2>1. t = sendRecord(tls, Plain("GET"))
      BY DEF tlsWrite, sendRecord
    <2> QED
      BY <1>2, <2>1, SendIs
  <1> HIDE DEF t
  <1>5. Client(tls') /\ tls'.out = << >> /\ tls'.data = << >> /\ But({"out", "data"}, tls, tls')
    <2>1. /\ Client(Returned(t)) /\ Returned(t).out = << >> /\ Returned(t).data = << >>
          /\ But({"out", "data"}, t, Returned(t))
      BY <1>4, ReturnedIs
    <2> QED
      BY <1>3, <1>4, <2>1 DEF But
  <1>6. /\ user' = user /\ (srv' = srv \/ srv' = Hears(t.out))
        /\ Secure(srv') /\ (srv'.refused => srv'.phase = "over")
        /\ srv'.asked = srv.asked /\ srv'.refused = srv.refused
        /\ Steady(srv, srv') /\ HonestQueue(srv', srv'.left)
    BY <1>1, <1>3, SpokenTo
  <1>7. Unforged'
    <2>1. HonestClient(srv, tls')
      BY <1>2, <1>5 DEF HonestClient, But, Fields
    <2> QED
      BY <1>1, <1>2, <1>5, <1>6, <2>1, HonestyLasts DEF Unforged
  <1>8. ASSUME ~ srv.refused
        PROVE  Agreement(srv', ring' \o srv'.left, tls', resp')
    <2> DEFINE q == ring \o srv.left
    <2>1. Agreement(srv, q, tls, resp)
      BY <1>2, <1>8 DEF Web, Agreed
    <2>2. q = srv.left
      BY <1>1, <1>2, ConcatFacts
    <2> HIDE DEF q
    <2>3. Agreement(srv, q, tls', resp)
      BY <1>5, <2>1, AgreementLasts
    <2>4. srv.phase \in {"request", "reply"}
      BY <1>2 DEF HonestClient
    <2>5. CASE srv' = srv
      <3>1. ring' \o srv'.left = q
        BY <1>1, <2>5 DEF q
      <3> QED
        BY <1>1, <2>3, <2>5, <3>1
    <2>6. CASE srv.phase = "reply"
      <3>1. Hears(t.out) = srv
        BY <2>6 DEF Hears
      <3> QED
        BY <1>6, <2>5, <3>1
    <2>7. CASE srv.phase = "request" /\ srv' = Hears(t.out)
      <3>1. PICK k \in Nat, b \in {0, 1} :
              Reading(Flight(srv), k, b, q, tls) /\ At(srv, tls, k) /\ resp = Got(srv, k)
        BY <2>1, <2>7 DEF Agreement
      <3>2. RequestAt(tls, k, srv.digest) /\ resp = << >>
        BY <2>7, <3>1 DEF At, Got
      <3>3. k = 2 /\ tls.encIn /\ tls.hash = srv.digest /\ tls.rdSeq = 1
        BY <3>2 DEF RequestAt
      <3>4. IsSeq(Flight(srv)) /\ Len(Flight(srv)) = 2
        BY <1>2, <2>7, FlightFacts
      <3>5. q = << >>
        <4>1. PICK F : F = Flight(srv)
          OBVIOUS
        <4>2. Reading(F, k, b, q, tls) /\ IsSeq(F) /\ k = Len(F)
          BY <3>1, <3>3, <3>4, <4>1
        <4> QED
          BY ONLY <4>2, ReadingEnds
      <3>6. tls.rec = << >>
        BY <3>1, <3>3, <3>4 DEF Reading
      <3>7. Becomes(srv, srv', "reply", srv.digest, srv.left \o Halves(Flight(srv')))
        BY <1>2, <2>7, HearsGet
      <3>8. /\ srv'.phase = "reply" /\ srv'.digest = srv.digest /\ srv'.pieces \in Nat
            /\ srv'.left = srv.left \o Halves(Flight(srv'))
        BY <1>6, <3>7 DEF Becomes, Secure
      <3>9. IsSeq(Flight(srv')) /\ IsSeq(Halves(Flight(srv')))
        BY <1>6, FlightFacts, HalvesFacts
      <3>10. ring' \o srv'.left = Halves(Flight(srv'))
        <4>1. ring' = << >> /\ srv.left = << >> /\ IsSeq(<< >>)
          BY <1>1, <2>2, <3>5, SmallSeqs
        <4>2. srv'.left = Halves(Flight(srv'))
          BY <3>8, <3>9, <4>1, ConcatFacts
        <4> QED
          BY <3>9, <4>1, <4>2, ConcatFacts
      <3>11. tls'.rec = << >> /\ tls'.encIn = tls.encIn /\ tls'.hash = tls.hash
             /\ tls'.rdSeq = tls.rdSeq /\ tls'.state = tls.state
        BY <1>5, <3>6 DEF But, Fields
      <3>12. Reading(Flight(srv'), 0, 0, ring' \o srv'.left, tls')
        BY <3>9, <3>10, <3>11, ReadingStarts
      <3>13. 0 # srv'.pieces + 1
        BY <3>8
      <3>14. At(srv', tls', 0)
        BY <3>3, <3>8, <3>11, <3>13 DEF At, ReplyAt
      <3>15. Got(srv', 0) = << >>
        <4>1. Least(Least(0, srv'.pieces), RESP_MAX) = 0
          BY <3>8, BrowserAssumption DEF Least
        <4>2. IsSeq(Pieces(srv', 0)) /\ Len(Pieces(srv', 0)) = 0
          BY PiecesFacts
        <4> QED
          BY <3>8, <4>1, <4>2, SeqFacts DEF Got
      <3>16. 0 \in Nat /\ 0 \in {0, 1}
        OBVIOUS
      <3> QED
        BY <1>1, <3>2, <3>8, <3>12, <3>14, <3>15, <3>16 DEF Agreement
    <2> QED
      BY <1>6, <2>4, <2>5, <2>6, <2>7
  <1>9. Agreed'
    BY <1>1, <1>6, <1>8 DEF Agreed
  <1>10. Inside'
    BY <1>1 DEF Inside
  <1> QED
    BY <1>1, <1>2, <1>6, <1>7, <1>9, <1>10, SecureWeb

\* The pump ends: with the request, with nothing, or with the load.
LEMMA PumpedKeepsWeb ==
  ASSUME IInv, Web, person' = person, PumpEnds
  PROVE  Web'
  <1>1. /\ pc = "browser pumps" /\ UNCHANGED <<person, url, resp, ring, overflow, page>>
    BY DEF PumpEnds
  <1>2. CASE overflow \/ tls.state = "failed"
    <2>1. state' = "error" /\ pc' = "idle" /\ tls' = tls /\ UNCHANGED <<user, srv, eof>>
      BY <1>2, CallsLeave DEF PumpEnds
    <2>2. Inside' /\ (eof' = eof \/ ts # "CLOSED")
      BY <2>1 DEF Inside
    <2> QED
      BY <1>1, <2>1, <2>2, WebStays
  <1>3. CASE ~ (overflow \/ tls.state = "failed")
    <2>1. pc' = "browser decides" /\ state' = state /\ ring = << >>
      BY <1>3 DEF PumpEnds
    <2>2. Inside'
      BY <1>1, <1>3, <2>1 DEF Inside
    <2>3. CASE tls.state = "ready" /\ ~ requestSent
      <3>1. CASE user = "browser"
        BY <1>3, <2>3, <3>1, AskingKeepsWeb
      <3>2. CASE user # "browser"
        <4>1. user' = user
          BY <1>3, <2>3, SendReaches DEF PumpEnds, sendRequest
        <4>2. state = "loading"
          BY <1>1 DEF IInv, Polled, Loading
        <4>3. Fresh'
          BY <2>1, <4>2 DEF Fresh
        <4> QED
          BY <2>1, <3>2, <4>1, <4>3, WebElsewhere
      <3> QED
        BY <3>1, <3>2
    <2>4. CASE ~ (tls.state = "ready" /\ ~ requestSent)
      <3>1. tls' = tls /\ UNCHANGED <<user, srv, eof>>
        BY <1>3, <2>4, CallsLeave DEF PumpEnds
      <3>2. eof' = eof \/ ts # "CLOSED"
        BY <3>1
      <3> QED
        BY <1>1, <2>1, <2>2, <3>1, <3>2, WebStays
    <2> QED
      BY <2>3, <2>4
  <1> QED
    BY <1>2, <1>3

\* A reply that both sides agree on and that has been read to its end is whole.
LEMMA WholeReply ==
  ASSUME Web, Asking, ring = << >>, ~ overflow, srv.phase = "reply", srv.left = << >>
  PROVE  resp = Capped(Pieces(srv, srv.pieces))
  <1>1. srv.pieces \in Nat /\ RESP_MAX \in Nat
    BY BrowserAssumption DEF Web, Served, Asking, Secure, Insecure
  <1>2. Capped(Pieces(srv, srv.pieces)) = Pieces(srv, Least(srv.pieces, RESP_MAX))
    <2>1. PICK p, n : p = Pieces(srv, srv.pieces) /\ n = Least(srv.pieces, RESP_MAX)
      OBVIOUS
    <2>2. n \in Nat /\ n <= srv.pieces
      BY <1>1, <2>1 DEF Least
    <2>3. /\ IsSeq(p) /\ Len(p) = srv.pieces
          /\ \A i \in 1 .. srv.pieces : p[i] = <<srv.reply, i>>
      BY <1>1, <2>1, PiecesFacts
    <2>4. /\ IsSeq(Capped(p)) /\ Len(Capped(p)) = n
          /\ \A i \in 1 .. n : Capped(p)[i] = p[i]
      <3>1. IsSeq(p)
        BY <2>3
      <3> QED
        BY <2>1, <2>3, <3>1, CappedIs
    <2>5. /\ IsSeq(Pieces(srv, n)) /\ Len(Pieces(srv, n)) = n
          /\ \A i \in 1 .. n : Pieces(srv, n)[i] = <<srv.reply, i>>
      BY <2>2, PiecesFacts
    <2>6. \A i \in 1 .. n : i \in 1 .. srv.pieces
      BY <1>1, <2>2
    <2>7. Capped(p) = Pieces(srv, n)
      BY <2>3, <2>4, <2>5, <2>6, SameSeq
    <2> QED
      BY <2>1, <2>7
  <1>3. CASE srv.job = "https"
    <2>1. Https /\ Secure(srv) /\ ~ srv.refused
      BY <1>3 DEF Web, Served, Asking, Https, Insecure
    <2>2. << >> \o << >> = << >>
      OBVIOUS
    <2>3. Agreement(srv, << >>, tls, resp)
      BY <2>1, <2>2 DEF Web, Agreed
    <2>4. PICK k \in Nat, b \in {0, 1} :
            Reading(Flight(srv), k, b, << >>, tls) /\ resp = Got(srv, k)
      BY <2>3 DEF Agreement
    <2>5. IsSeq(Flight(srv)) /\ Len(Flight(srv)) = srv.pieces + 1
      BY <2>1, FlightFacts
    <2>6. k = Len(Flight(srv))
      <3>1. PICK F : F = Flight(srv)
        OBVIOUS
      <3>2. Reading(F, k, b, << >>, tls) /\ IsSeq(F)
        BY <2>4, <2>5, <3>1
      <3>3. k = Len(F)
        BY ONLY <3>2, ReadingEnds
      <3> QED
        BY <3>1, <3>3
    <2>7. Least(k, srv.pieces) = srv.pieces
      BY <1>1, <2>5, <2>6 DEF Least
    <2> QED
      BY <1>2, <2>4, <2>7 DEF Got
  <1>4. CASE srv.job # "https"
    <2>1. srv.job = "http" /\ Insecure(srv)
      BY <1>4 DEF Web, Served, Asking, Secure, Insecure
    <2>2. Serving(srv, << >>, resp)
      BY <2>1 DEF Web, Answered
    <2>3. PICK k \in 0 .. srv.pieces :
            /\ << >> = SubSeq(Pieces(srv, srv.pieces), k + 1, srv.pieces)
            /\ resp = Pieces(srv, Least(k, RESP_MAX))
      BY <2>2 DEF Serving
    <2>4. k = srv.pieces
      <3>1. PICK p, n : p = Pieces(srv, srv.pieces) /\ n = srv.pieces
        OBVIOUS
      <3>2. IsSeq(p) /\ Len(p) = n /\ n \in Nat /\ k \in Nat /\ k <= n
        BY <1>1, <2>3, <3>1, PiecesFacts
      <3>3. SubSeq(p, k + 1, n) = << >> <=> k = n
        BY ONLY <3>2, SliceFacts
      <3> QED
        BY <2>3, <3>1, <3>3
    <2> QED
      BY <1>2, <2>3, <2>4
  <1> QED
    BY <1>3, <1>4

\* The page that is made of the response, when the connection is the browser's.
LEMMA ShownIsWhole ==
  ASSUME IInv, Web, pc = "browser decides", seen = "CLOSED" \/ GivesUp,
         UNCHANGED <<user, srv, eof, ring, url>>, page' = [url |-> url, body |-> resp]
  PROVE  PageIsWhole'
  <1> SUFFICES ASSUME user = "browser" PROVE PageIsWhole'
    BY DEF PageIsWhole
  <1>1. Asking
    BY DEF IInv, Polled, Loading, Asking
  <1>2. ring = << >> /\ ~ overflow
    <2>1. ~ 0 > TIMEOUT
      <3>1. TIMEOUT \in Nat
        BY BrowserAssumption
      <3> QED
        BY ONLY <3>1
    <2>2. ring # << >> => quiet = 0 /\ seen # "CLOSED"
      BY DEF Web, Inside
    <2>3. overflow => ring # << >>
      BY DEF Web, Inside
    <2> QED
      BY <2>1, <2>2, <2>3 DEF GivesUp
  <1>3. page'.url = url /\ page'.body = resp
    OBVIOUS
  <1>4. srv.asked = url
    BY <1>1 DEF Web, Matched
  <1>5. (srv.phase = "reply" /\ srv.left = << >>) => resp = Capped(Pieces(srv, srv.pieces))
    BY <1>1, <1>2, WholeReply
  <1> QED
    BY <1>2, <1>3, <1>4, <1>5 DEF PageIsWhole, Pieces

\* The poll decides: nothing yet, an error, a redirect, or a page.
LEMMA DecidingKeepsWeb ==
  ASSUME IInv, Web, person' = person, PollDecides
  PROVE  Web'
  <1>1. pc = "browser decides" /\ pc' = "idle" /\ UNCHANGED <<person, user, srv, eof>>
    BY CallsLeave DEF PollDecides
  <1>2. Inside' /\ (eof' = eof \/ ts # "CLOSED")
    BY <1>1 DEF Inside
  <1>3. CASE UNCHANGED <<state, url, fetch, counters, page>> \/ failLoad
    <2>1. UNCHANGED <<url, resp, ring, overflow, tls, page>> /\ (state' = state \/ state' = "error")
      BY <1>3 DEF failLoad, fetch
    <2> QED
      BY <1>1, <1>2, <2>1, WebStays
  <1>4. CASE finish /\ (seen = "CLOSED" \/ GivesUp)
    <2>1. CASE state' = "error" /\ UNCHANGED <<url, fetch, counters, page>>
      <3>1. UNCHANGED <<url, resp, ring, overflow, tls, page>>
        BY <2>1 DEF fetch
      <3> QED
        BY <1>1, <1>2, <2>1, <3>1, WebStays
    <2>2. CASE \E u : startLoad(u) /\ UNCHANGED page
      BY <1>1, <2>2, WebStarts
    <2>3. CASE /\ page' = [url |-> url, body |-> resp] /\ state' = "done"
               /\ UNCHANGED <<url, fetch, counters>>
      <3>1. UNCHANGED <<url, resp, ring, overflow, tls>>
        BY <2>3 DEF fetch
      <3>2. PageIsWhole'
        BY <1>1, <1>4, <2>3, <3>1, ShownIsWhole
      <3>3. Fresh' /\ Matched' /\ Agreed' /\ Answered'
        BY <2>3 DEF Fresh, Matched, Agreed, Answered, Asking
      <3>4. Served' /\ Unforged' /\ Excused'
        BY <1>1, <3>1 DEF Web, Served, Unforged, Excused, Https
      <3> QED
        BY <1>1, <1>2, <3>2, <3>3, <3>4 DEF Web
    <2> QED
      BY <1>4, <2>1, <2>2, <2>3 DEF finish
  <1> QED
    BY <1>3, <1>4 DEF PollDecides

-----------------------------------------------------------------------------
\* onTcpData over TLS: a half record goes into the ring, or the ring is full ...
LEMMA RingKeepsWeb ==
  ASSUME IInv, Web, person' = person, BrowserReceives, url.tls
  PROVE  Web'
  <1> DEFINE x == Head(srv.left)
             l == Tail(srv.left)
  <1>1. /\ user = "browser" /\ ts = "ESTABLISHED" /\ srv.left # << >>
        /\ srv' = [srv EXCEPT !.left = l]
        /\ UNCHANGED <<ts, user, person, state, url, tls, resp, pc, seen>>
        /\ \/ ring' = Append(ring, x) /\ quiet' = 0 /\ overflow' = overflow
           \/ Len(ring) >= RING /\ overflow' = TRUE /\ ring' = ring /\ quiet' = quiet
    <2>1. (Len(ring) < RING) \/ ~ (Len(ring) < RING)
      OBVIOUS
    <2>2. Asking
      BY DEF BrowserReceives, IInv, NoLeakedConnection, Asking
    <2>3. IsSeq(ring)
      BY <2>2 DEF Web, Matched, Unforged, Asking, Https, HonestQueue
    <2>4. Len(ring) \in Nat /\ RING \in Nat
      BY <2>3, SeqFacts, BrowserAssumption
    <2> QED
      BY <2>1, <2>4 DEF BrowserReceives, onTcpData, loop
  <1>2. Asking /\ Https /\ state = "loading"
    BY <1>1 DEF Web, Matched, IInv, NoLeakedConnection, Asking, Https
  <1>3. /\ Secure(srv) /\ (srv.refused => srv.phase = "over")
        /\ Client(tls) /\ tls.out = << >> /\ tls.data = << >>
        /\ HonestQueue(srv, ring) /\ HonestQueue(srv, srv.left) /\ HonestClient(srv, tls)
    BY <1>2 DEF Web, Served, Unforged, Https, Insecure
  <1>4. IsSeq(ring) /\ IsSeq(srv.left)
    BY <1>3 DEF HonestQueue
  <1>5. /\ IsSeq(l) /\ Len(l) = Len(srv.left) - 1 /\ x = srv.left[1] /\ Len(srv.left) \in Nat
        /\ Len(srv.left) # 0 /\ \A i \in 1 .. Len(srv.left) - 1 : l[i] = srv.left[i + 1]
    BY <1>1, <1>4, SeqFacts
  <1>6. HonestQueue(srv, l) /\ HonestRecord(srv, x[1])
    BY <1>3, <1>5 DEF HonestQueue
  <1> HIDE DEF x, l
  <1>7. Becomes(srv, srv', srv.phase, srv.digest, l)
    BY <1>1, <1>3, <1>5, BecomesIs
  <1>8. /\ Secure(srv') /\ srv'.refused = srv.refused /\ srv'.phase = srv.phase
        /\ srv'.asked = srv.asked /\ srv'.left = l /\ Steady(srv, srv')
    BY <1>7 DEF Becomes, HttpsFields, HttpFields, Steady
  <1>9. HonestQueue(srv, ring')
    <2>1. /\ IsSeq(Append(ring, x)) /\ Len(Append(ring, x)) = Len(ring) + 1
          /\ Append(ring, x)[Len(ring) + 1] = x
          /\ \A i \in 1 .. Len(ring) : Append(ring, x)[i] = ring[i]
      BY <1>4, AppendFacts
    <2>2. Len(ring) \in Nat
      BY <1>4, SeqFacts
    <2>3. HonestQueue(srv, Append(ring, x))
      BY <1>3, <1>6, <2>1, <2>2 DEF HonestQueue
    <2> QED
      BY <1>1, <1>3, <2>3
  <1>10. Unforged'
    BY <1>1, <1>3, <1>6, <1>8, <1>9, HonestyLasts DEF Unforged
  <1>11. Agreed'
    <2>1. SUFFICES ASSUME ~ overflow', ~ srv.refused
                   PROVE  Agreement(srv', ring' \o srv'.left, tls', resp')
      BY <1>8 DEF Agreed
    <2>2. ring' = Append(ring, x) /\ ~ overflow
      BY <1>1, <2>1
    <2>3. ring' \o srv'.left = ring \o srv.left
      <3>1. PICK p : p = srv.left
        OBVIOUS
      <3>2. IsSeq(ring) /\ IsSeq(p) /\ p # << >>
        BY <1>1, <1>4, <3>1
      <3>3. Append(ring, Head(p)) \o Tail(p) = ring \o p
        BY ONLY <3>2, QueueFacts
      <3>4. Append(ring, x) \o l = ring \o srv.left
        BY <3>1, <3>3 DEF x, l
      <3> QED
        BY <1>8, <2>2, <3>4
    <2>4. Agreement(srv, ring \o srv.left, tls, resp)
      BY <1>2, <2>1, <2>2 DEF Web, Agreed
    <2>5. Agreement(srv', ring \o srv.left, tls, resp)
      BY <1>7, <2>4, AgreementMoves
    <2> QED
      BY <1>1, <2>3, <2>5
  <1>12. Inside'
    <2>1. pc # "idle" => seen # "CLOSED"
      BY <1>1 DEF IInv, Polled
    <2>2. CASE ring' = Append(ring, x) /\ quiet' = 0
      <3>1. ring' # << >>
        BY <1>4, <2>2, AppendFacts
      <3> QED
        BY <1>1, <2>1, <2>2, <3>1 DEF Inside
    <2>3. CASE Len(ring) >= RING /\ ring' = ring /\ quiet' = quiet
      <3>1. ring # << >>
        <4>1. RING \in Nat \ {0}
          BY BrowserAssumption
        <4>2. Len(ring) # 0
          BY <2>3, <4>1
        <4> QED
          BY <1>4, <4>2, SeqFacts
      <3> QED
        BY <1>1, <2>1, <2>3, <3>1 DEF Web, Inside
    <2> QED
      BY <1>1, <2>2, <2>3
  <1> QED
    BY <1>1, <1>2, <1>3, <1>8, <1>10, <1>11, <1>12, SecureWeb

\* ... and without TLS a piece goes to the response.
LEMMA PieceKeepsWeb ==
  ASSUME IInv, Web, person' = person, BrowserReceives, ~ url.tls
  PROVE  Web'
  <1> DEFINE x == Head(srv.left)
             l == Tail(srv.left)
  <1>1. /\ user = "browser" /\ ts = "ESTABLISHED" /\ srv.left # << >>
        /\ srv' = [srv EXCEPT !.left = l] /\ resp' = Capped(Append(resp, x))
        /\ UNCHANGED <<ts, user, person, state, url, ring, overflow, pc, seen>>
    BY DEF BrowserReceives, onTcpData, loop
  <1>2. Asking /\ srv.job # "https" /\ Insecure(srv) /\ state = "loading"
    BY <1>1 DEF Web, Matched, Served, IInv, NoLeakedConnection, Asking, Secure
  <1>3. /\ srv.job = "http" /\ DOMAIN srv = HttpFields /\ srv.pieces \in Nat /\ IsSeq(srv.left)
        /\ ring = << >> /\ ~ overflow /\ Serving(srv, srv.left, resp)
    BY <1>2 DEF Web, Answered, Insecure
  <1>4. IsSeq(l)
    BY <1>1, <1>3, SeqFacts
  <1>5. PICK k \in 0 .. srv.pieces :
          /\ srv.left = SubSeq(Pieces(srv, srv.pieces), k + 1, srv.pieces)
          /\ resp = Pieces(srv, Least(k, RESP_MAX))
    BY <1>1, <1>3 DEF Serving
  <1>6. srv.phase = "reply"
    BY <1>1, <1>3 DEF Serving
  <1>7. k \in Nat /\ k < srv.pieces /\ x = <<srv.reply, k + 1>>
        /\ l = SubSeq(Pieces(srv, srv.pieces), k + 1 + 1, srv.pieces)
    <2>1. PICK p, n : p = Pieces(srv, srv.pieces) /\ n = srv.pieces
      OBVIOUS
    <2>2. /\ IsSeq(p) /\ Len(p) = n /\ n \in Nat /\ k \in Nat /\ k <= n
          /\ \A i \in 1 .. n : p[i] = <<srv.reply, i>>
      BY <1>3, <1>5, <2>1, PiecesFacts
    <2>3. SubSeq(p, k + 1, n) = << >> <=> k = n
      BY ONLY <2>2, SliceFacts
    <2>4. k # n
      BY <1>1, <1>5, <2>1, <2>3
    <2>5. k < n /\ k + 1 \in 1 .. n /\ k + 2 = k + 1 + 1
      BY <2>2, <2>4
    <2>6. Tail(SubSeq(p, k + 1, n)) = SubSeq(p, k + 2, n) /\ Head(SubSeq(p, k + 1, n)) = p[k + 1]
      BY ONLY <2>2, <2>5, SliceTail
    <2> QED
      BY <1>5, <2>1, <2>2, <2>5, <2>6
  <1> HIDE DEF x, l
  <1>8. resp' = Pieces(srv, Least(k + 1, RESP_MAX))
    BY <1>1, <1>5, <1>7, PiecesGrow
  <1>9. /\ DOMAIN srv' = HttpFields /\ srv'.left = l /\ srv'.asked = srv.asked
        /\ srv'.pieces = srv.pieces /\ srv'.reply = srv.reply /\ srv'.job = srv.job
        /\ srv'.phase = srv.phase
    BY <1>1, <1>3 DEF HttpFields
  <1>10. Insecure(srv')
    BY <1>3, <1>4, <1>9 DEF Insecure
  <1>11. \A n : Pieces(srv', n) = Pieces(srv, n)
    BY <1>9 DEF Pieces
  <1>12. k + 1 \in 0 .. srv'.pieces
    BY <1>3, <1>7, <1>9
  <1>13. Serving(srv', srv'.left, resp')
    <2>1. PICK j : j = k + 1
      OBVIOUS
    <2>2. /\ j \in 0 .. srv'.pieces /\ l = SubSeq(Pieces(srv', srv'.pieces), j + 1, srv'.pieces)
          /\ resp' = Pieces(srv', Least(j, RESP_MAX))
      BY <1>7, <1>8, <1>9, <1>11, <1>12, <2>1
    <2> QED
      BY <1>6, <1>9, <2>2 DEF Serving
  <1>14. Inside'
    BY <1>1, <1>3 DEF Web, Inside
  <1> QED
    BY <1>1, <1>2, <1>3, <1>9, <1>10, <1>13, <1>14, InsecureWeb

\* The server turns the browser down.
LEMMA RefusingKeepsWeb ==
  ASSUME IInv, Post, Web, person' = person, ServerRefuses
  PROVE  Web'
  <1> DEFINE alert == << Record("alert", FALSE, 0, "fatal") >>
             l == srv.left \o Halves(alert)
  <1>1. /\ srv.job = "https" /\ srv.phase = "keys" /\ ts = "ESTABLISHED"
        /\ srv' = [srv EXCEPT !.phase = "over", !.refused = TRUE, !.left = l]
        /\ UNCHANGED <<ts, user, person, state, url, ring, overflow, tls, resp, pc, seen, quiet>>
    BY DEF ServerRefuses, browser, fetch, counters, loop
  <1>2. user = "browser"
    BY <1>1 DEF IInv, Typed, NoLeakedConnection, Post, ServerOfUser, SmtpServers
  <1>3. Asking /\ Https /\ state = "loading"
    BY <1>1, <1>2 DEF Web, Matched, IInv, NoLeakedConnection, Asking, Https
  <1>4. /\ Secure(srv) /\ Client(tls) /\ tls.out = << >> /\ tls.data = << >>
        /\ HonestQueue(srv, ring) /\ HonestQueue(srv, srv.left) /\ HonestClient(srv, tls)
    BY <1>3 DEF Web, Served, Unforged, Https, Insecure
  <1>5. HonestQueue(srv, Halves(alert))
    <2>1. /\ IsSeq(alert) /\ Len(alert) = 1 /\ alert[1] = Record("alert", FALSE, 0, "fatal")
      BY SmallSeqs
    <2>2. HonestRecord(srv, Record("alert", FALSE, 0, "fatal"))
      BY DEF HonestRecord, Record
    <2>3. \A i \in 1 .. 1 : i = 1
      OBVIOUS
    <2>4. \A i \in 1 .. Len(alert) : HonestRecord(srv, alert[i])
      BY <2>1, <2>2, <2>3
    <2> QED
      BY <2>1, <2>4, HalvesHonest
  <1> HIDE DEF alert
  <1>6. HonestQueue(srv, l)
    BY <1>4, <1>5, QueuesJoin
  <1> HIDE DEF l
  <1>7. /\ DOMAIN srv' = HttpsFields /\ srv'.phase = "over" /\ srv'.left = l
        /\ srv'.job = srv.job /\ srv'.pieces = srv.pieces /\ srv'.cut = srv.cut
        /\ srv'.cert = srv.cert /\ srv'.asked = srv.asked /\ srv'.refused = TRUE
    BY <1>1, <1>4 DEF Secure, HttpsFields, HttpFields
  <1>8. Secure(srv') /\ Steady(srv, srv')
    BY <1>1, <1>4, <1>6, <1>7 DEF Secure, Steady, HonestQueue
  <1>9. Unforged'
    BY <1>1, <1>4, <1>6, <1>7, <1>8, HonestyLasts DEF Unforged
  <1>10. Agreed'
    BY <1>7 DEF Agreed
  <1>11. Inside'
    BY <1>1, InsideLasts
  <1> QED
    BY <1>1, <1>3, <1>7, <1>8, <1>9, <1>10, <1>11, SecureWeb

\* An address arrives.
LEMMA DnsKeepsWeb ==
  ASSUME IInv, Web, person' = person, DnsAnswers
  PROVE  Web'
  <1>1. UNCHANGED <<person, user, srv, eof, state, url, resp, ring, overflow, tls, page, pc,
                    seen, quiet>>
    BY DEF DnsAnswers, link, loop, fetch, counters
  <1>2. Inside' /\ (eof' = eof \/ ts # "CLOSED")
    BY <1>1, InsideLasts
  <1> QED
    BY <1>1, <1>2, WebStays

\* Together, every step of the browser, and hence of the system.
LEMMA BrowserKeepsWeb ==
  ASSUME IInv, Post, Web, person' = person, BrowserNext
  PROVE  Web'
  <1>1. CASE BrowserUser
    <2>1. CASE browserKeyEsc
      <3>1. browserKeyEsc \/ PollResolves(TRUE) \/ PollWaits(TRUE)
        BY <2>1
      <3> QED
        BY <3>1, WaitingKeepsWeb
    <2> QED
      BY <1>1, <2>1, OpeningKeepsWeb DEF BrowserUser, browserClick
  <1>2. CASE \E tick \in BOOLEAN : browserPoll(tick)
    BY <1>2, ConnectingKeepsWeb, WaitingKeepsWeb, StartingKeepsWeb, LoadingKeepsWeb DEF browserPoll
  <1>3. CASE BrowserSteps
    BY <1>3, FeedingKeepsWeb, PumpedKeepsWeb, DecidingKeepsWeb DEF BrowserSteps
  <1>4. CASE BrowserReceives
    BY <1>4, RingKeepsWeb, PieceKeepsWeb
  <1> QED
    BY <1>1, <1>2, <1>3, <1>4, DnsKeepsWeb, RefusingKeepsWeb DEF BrowserNext

\* Hence every step of the system.
LEMMA StepKeepsWeb == IInv /\ Post /\ Web /\ [Next]_vars => Web'
  <1> SUFFICES ASSUME IInv, Post, Web, [Next]_vars PROVE Web'
    OBVIOUS
  <1>1. CASE UNCHANGED vars
    <2>1. UNCHANGED <<person, user, srv, eof, state, url, resp, ring, overflow, tls, page, pc,
                      seen, quiet>>
      BY <1>1 DEF vars, link, loop, browser, fetch, counters
    <2>2. Inside' /\ (eof' = eof \/ ts # "CLOSED")
      BY <2>1, InsideLasts
    <2> QED
      BY <2>1, <2>2, WebStays
  <1>2. CASE Next
    BY <1>2, BrowserKeepsWeb, MailKeepsWeb, InterruptKeepsWeb DEF Next
  <1> QED
    BY <1>1, <1>2

\* All that holds of the browser, its server and what is between them, for all constants.
THEOREM WebInvariance == Spec => []Web
  <1>1. Init => Web
    BY InitWeb
  <1>2. IInv /\ Post /\ [Next]_vars => Post'
    BY StepKeepsPost
  <1> QED
    BY <1>1, <1>2, StepKeepsWeb, InitInv, InitPost, Invariance, PTL DEF Spec

\* A page that is shown is the answer of the server that was asked for the address in the
\* bar, and it is whole when that server wrote it all: however the reply is cut, whenever
\* pieces come in between the steps of the poll, whatever is reset or timed out, and for
\* rings, responses and limits of any size.
THEOREM PagesAreWhole == Spec => []PageIsWhole
  <1>1. Web => PageIsWhole
    BY DEF Web
  <1> QED
    BY <1>1, WebInvariance, PTL

\* Browser and server agree on the handshake when it is over, and the browser gives a
\* connection up only when the server did or the ring ran over: however the server cuts its
\* messages into records, asks for a certificate or not, refuses, or loses what we say.
THEOREM BothSidesAgree == Spec => []TlsAgrees
  <1>1. Web => TlsAgrees
    BY DEF Web, Unforged, Excused, HonestClient, TlsAgrees, Https
  <1> QED
    BY <1>1, WebInvariance, PTL
=============================================================================

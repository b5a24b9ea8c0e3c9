-------------------------------- MODULE Mail --------------------------------
(***************************************************************************)
(* Desktop/mail.c: sending the message that is being written over SMTP,    *)
(* built with or without a login and without TLS (SMTP_USER, SMTP_TLS), to *)
(* a server given by its address.  mailPoll runs in the main loop;         *)
(* onTcpData only queues what comes in.                                    *)
(*                                                                         *)
(* A reply line is a code and whether it is the reply's last line; what we *)
(* send is a sequence of units, a command or a part of the message.  A     *)
(* message is a number: every edit makes another one.                      *)
(***************************************************************************)
EXTENDS Link, SequencesExt

CONSTANTS
  MSG_UNITS,     \* chunks a message is sent in (outChunk)
  RX_RING,       \* reply lines that fit into rxRing
  SENT_MAX,      \* sentMax
  SMTP_TIMEOUT

ASSUME MailAssumption ==
  {MSG_UNITS, RX_RING, SENT_MAX, SMTP_TIMEOUT} \subseteq Nat \ {0}

VARIABLES
  sm,          \* smIdle, smResolving, ...
  out,         \* outBuf from outPos
  rx,          \* rxRing
  rxOverflow,
  smQuiet,     \* ticks since lastActivity
  draft,       \* toText, subjText, bodyText; 0 when they are empty
  edits,       \* drafts so far
  sent,        \* the Sent folder, newest first
  sends,       \* times Send was pressed
  pressed,     \* the drafts that Send was pressed for
  accepted     \* messages that a server has taken

mail == <<sm, out, rx, rxOverflow, smQuiet, draft, edits, sent, sends, pressed, accepted>>

MailInit ==
  /\ sm = "idle" /\ out = << >> /\ rx = << >> /\ rxOverflow = FALSE
  /\ smQuiet = 0
  /\ draft = 0 /\ edits = 0 /\ sent = << >>
  /\ sends = 0 /\ pressed = {} /\ accepted = {}

smBusy == sm \notin {"idle", "done", "error"}
OnLine == smBusy /\ sm # "resolving"

-----------------------------------------------------------------------------
(* The dialogue.                                                           *)

Unit(what, n, i) == [what |-> what, msg |-> n, part |-> i]
Command(c) == << Unit(c, 0, 0) >>

\* queueMessage
MessageUnits(n) == [i \in 1 .. MSG_UNITS |-> Unit("message", n, i)]

\* handleReply: the codes that carry on, what is said then, the next state.
Turn(wants, says, next) == [wants |-> wants, says |-> says, next |-> next]
Dialogue ==
  [ greeting |-> Turn({220}, Command("EHLO"), "ehlo"),
    ehlo     |-> IF person.login THEN Turn({250}, Command("AUTH"), "auth")
                                 ELSE Turn({250}, Command("MAIL"), "from"),
    auth     |-> Turn({334}, Command("user"), "authUser"),
    authUser |-> Turn({334}, Command("password"), "authPass"),
    authPass |-> Turn({235}, Command("MAIL"), "from"),
    from     |-> Turn({250}, Command("RCPT"), "rcpt"),
    rcpt     |-> Turn({250, 251}, Command("DATA"), "data"),
    data     |-> Turn({354}, MessageUnits(draft), "body"),
    body     |-> Turn({250}, Command("QUIT"), "quit") ]

\* Mutant: a message counts as sent when its text may be sent.
Succeeds_Early(at) == at = "data"

\* The reply that ends in sendSucceeded.
Succeeds(at) == at = "body"

\* smtpFail aborts the connection unless it was not yet asked for.
\* Mutant: the server is left to close it.
smtpFail_Leaks == sm' = "error" /\ UNCHANGED link

smtpFail ==
  /\ IF sm # "resolving" THEN tcpAbort("mail") ELSE UNCHANGED link
  /\ sm' = "error"

-----------------------------------------------------------------------------
(* The user.                                                               *)

\* mailKey.  Mutant: also while a message is being sent.
mailKey_AnyTime ==
  /\ pc = "idle"
  /\ edits < person.edits /\ edits' = edits + 1 /\ draft' = edits'
  /\ UNCHANGED <<link, loop, sm, out, rx, rxOverflow, smQuiet, sent, sends, pressed, accepted>>

mailKey ==
  /\ pc = "idle" /\ ~ smBusy
  /\ edits < person.edits /\ edits' = edits + 1 /\ draft' = edits'
  /\ UNCHANGED <<link, loop, sm, out, rx, rxOverflow, smQuiet, sent, sends, pressed, accepted>>

startSend ==
  /\ pc = "idle" /\ ~ smBusy
  /\ draft # 0   \* validAddr
  /\ sends < person.sends /\ sends' = sends + 1
  /\ pressed' = pressed \cup {draft}
  /\ sm' = "resolving"
  /\ out' = << >> /\ rx' = << >> /\ rxOverflow' = FALSE /\ smQuiet' = 0
  /\ UNCHANGED <<link, loop, draft, edits, sent, accepted>>

cancelSend ==
  /\ pc = "idle" /\ smBusy
  /\ IF OnLine THEN tcpAbort("mail") ELSE UNCHANGED link
  /\ sm' = "idle"
  /\ UNCHANGED <<loop, out, rx, rxOverflow, smQuiet, draft, edits, sent, sends, pressed, accepted>>

-----------------------------------------------------------------------------
(* mailPoll.                                                               *)

SmtpServer == [job |-> "smtp", left |-> << <<220, TRUE>> >>, parts |-> << >>, took |-> 0]

SmConnects ==
  /\ pc = "idle" /\ sm = "resolving"
  /\ IF ts = "CLOSED"
     THEN tcpConnect("mail", SmtpServer) /\ sm' = "connecting" /\ smQuiet' = 0
     ELSE smtpFail /\ UNCHANGED smQuiet
  /\ UNCHANGED <<loop, out, rx, rxOverflow, draft, edits, sent, sends, pressed, accepted>>

SmWaits(tick) ==
  /\ pc = "idle" /\ sm = "connecting"
  /\ TickIf(tick)
  /\ CASE ts' = "ESTABLISHED" -> sm' = "greeting" /\ smQuiet' = 0
       [] ts' = "CLOSED"      -> sm' = "error" /\ UNCHANGED smQuiet
       [] OTHER               -> UNCHANGED <<sm, smQuiet>>
  /\ UNCHANGED <<loop, out, rx, rxOverflow, draft, edits, sent, sends, pressed, accepted>>

SmReads(tick) ==
  /\ pc = "idle" /\ OnLine /\ sm # "connecting"
  /\ TickIf(tick)
  /\ seen' = ts' /\ pc' = "mail reads"
  /\ smQuiet' = IF tick /\ smQuiet <= SMTP_TIMEOUT THEN smQuiet + 1 ELSE smQuiet
  /\ UNCHANGED <<sm, out, rx, rxOverflow, draft, edits, sent, sends, pressed, accepted>>

\* handleReply of a last line; sendSucceeded clears the draft.
handleReply(code) ==
  IF sm = "quit" THEN
    /\ tcpAbort("mail") /\ sm' = "done"
    /\ UNCHANGED <<out, draft, sent>>
  ELSE IF code \notin Dialogue[sm].wants THEN
    /\ smtpFail
    /\ UNCHANGED <<out, draft, sent>>
  ELSE
    /\ out' = out \o Dialogue[sm].says
    /\ sm' = Dialogue[sm].next
    /\ IF Succeeds(sm)
       THEN LET all == << draft >> \o sent
            IN  /\ sent' = SubSeq(all, 1, IF Len(all) < SENT_MAX THEN Len(all) ELSE SENT_MAX)
                /\ draft' = 0
       ELSE UNCHANGED <<draft, sent>>
    /\ UNCHANGED link

\* parseReplies, line by line, while more may come in ...
ParseLine ==
  /\ pc = "mail reads" /\ smBusy /\ rx # << >>
  /\ rx' = Tail(rx)
  /\ IF Head(rx)[2] THEN handleReply(Head(rx)[1]) ELSE UNCHANGED <<link, sm, out, draft, sent>>
  /\ UNCHANGED <<loop, rxOverflow, smQuiet, edits, sends, pressed, accepted>>

ParseEnds ==
  /\ pc = "mail reads" /\ (~ smBusy \/ rx = << >>)
  /\ IF smBusy /\ rxOverflow THEN smtpFail ELSE UNCHANGED <<link, sm>>
  /\ pc' = IF sm' \in {"idle", "done", "error"} THEN "idle" ELSE "mail flushes"
  /\ seen' = IF pc' = "idle" THEN "CLOSED" ELSE seen
  /\ UNCHANGED <<out, rx, rxOverflow, smQuiet, draft, edits, sent, sends, pressed, accepted>>

\* The answers to a unit (external): the expected code or a refusal, the one to
\* EHLO in several lines, the one to a message behind its last part.
Yes(what) ==
  CASE what = "EHLO" -> << <<250, FALSE>>, <<250, FALSE>>, <<250, TRUE>> >>
    [] what \in {"AUTH", "user"} -> << <<334, TRUE>> >>
    [] what = "password" -> << <<235, TRUE>> >>
    [] what = "DATA" -> << <<354, TRUE>> >>
    [] what = "QUIT" -> << <<221, TRUE>> >>
    [] OTHER -> << <<250, TRUE>> >>

Answers(unit) ==
  LET no == [srv EXCEPT !.left = @ \o << <<550, TRUE>> >>]
      parts == Append(srv.parts, unit)
      whole == unit.part = MSG_UNITS /\ parts = MessageUnits(unit.msg)
  IN  IF unit.what # "message"
      THEN {no, [srv EXCEPT !.left = @ \o Yes(unit.what)]}
      ELSE IF unit.part < MSG_UNITS THEN {[srv EXCEPT !.parts = parts]}
      ELSE {no, [srv EXCEPT !.parts = parts, !.took = IF whole THEN unit.msg ELSE 0,
                            !.left = @ \o Yes("message")]}

Took(s) == IF s.job = "smtp" /\ s.took # 0 THEN {s.took} ELSE {}

\* flushOut sends one chunk; then the end of the connection, or of our patience.
Flush ==
  LET sending == out # << >> /\ seen # "CLOSED"
      late == ~ sending /\ smQuiet > SMTP_TIMEOUT
  IN  /\ pc = "mail flushes" /\ pc' = "idle" /\ seen' = "CLOSED"
      /\ out' = IF sending THEN Tail(out) ELSE out
      /\ smQuiet' = IF sending THEN 0 ELSE smQuiet
      /\ CASE sending -> tcpSend("mail", Answers(Head(out))) /\ UNCHANGED sm
           [] ~ sending /\ seen # "CLOSED" /\ ~ late -> UNCHANGED <<link, sm>>
           [] ~ sending /\ seen = "CLOSED" /\ sm = "quit" -> sm' = "done" /\ UNCHANGED link
           [] ~ sending /\ seen # "CLOSED" /\ late /\ sm = "quit" ->
                sm' = "done" /\ tcpAbort("mail")
           [] OTHER -> smtpFail
      /\ accepted' = accepted \cup Took(srv')
      /\ UNCHANGED <<rx, rxOverflow, draft, edits, sent, sends, pressed>>

-----------------------------------------------------------------------------
(* The interrupt: onTcpData, rxPush.                                       *)

MailReceives ==
  /\ user = "mail" /\ ts = "ESTABLISHED" /\ srv.left # << >>
  /\ IF Len(rx) < RX_RING
     THEN rx' = Append(rx, Head(srv.left)) /\ smQuiet' = 0 /\ UNCHANGED rxOverflow
     ELSE rxOverflow' = TRUE /\ UNCHANGED <<rx, smQuiet>>
  /\ srv' = [srv EXCEPT !.left = Tail(@)]
  /\ UNCHANGED <<ts, user, synTicks, deaf, eof, strayed, loop, sm, out, draft, edits,
                 sent, sends, pressed, accepted>>

MailUser == mailKey \/ startSend \/ cancelSend

mailPoll(tick) == SmConnects \/ SmWaits(tick) \/ SmReads(tick)

MailSteps == ParseLine \/ ParseEnds \/ Flush

MailNext ==
  \/ MailUser
  \/ \E tick \in BOOLEAN : mailPoll(tick)
  \/ MailSteps
  \/ MailReceives

MailFairness ==
  /\ SF_<<link, loop, mail>>(mailPoll(TRUE))
  /\ WF_<<link, loop, mail>>(MailSteps)
=============================================================================

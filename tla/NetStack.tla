------------------------------ MODULE NetStack ------------------------------
(***************************************************************************)
(* Below TCP: ARP, routing, DHCP and DNS (Network/arp.c, ip.c, icmp.c,     *)
(* udp.c, dhcp.c, dns.c), from the start of the machine (kernelMain) to    *)
(* programs that look names up and send to them.  A frame that comes in is *)
(* handled by the interrupt as a whole, between any two steps of the       *)
(* program; only its answer, if there is one, waits for the card.          *)
(*                                                                         *)
(* An address stands for itself and for the MAC address of its host: hosts *)
(* keep theirs, and claim no other address.                                *)
(***************************************************************************)
EXTENDS Nic, Sequences, SequencesExt

CONSTANTS
  ARP_CACHE_SIZE, DNS_TABLE_SIZE,
  Hosts,     \* addresses of the neighbours
  Zero, Broadcast,   \* 0.0.0.0 and 255.255.255.255
  Default,   \* MY_IP, QEMU_GATEWAY, SUBNET: a lease [ip, gateway, net]
  Leases,    \* what DHCP servers offer: [ip, gateway, net, server, siaddr], of
             \* which siaddr, the boot server, need not be who answers requests
  Zone,      \* the records of the name servers: pairs of a name and an address
  DNS_SERVER,
  Traffic    \* bound: what happens, as [senders, asks, ip, dns, names,
             \* leases, loss, commands]: who sends ARP, whether they ask for us, what
             \* else comes, which names programs look up, which DHCP servers are there,
             \* whether messages of the exchange are lost, how often the shell's dhcp
             \* command is given

Names == {r[1] : r \in Zone}

ASSUME NetAssumption ==
  /\ {ARP_CACHE_SIZE, DNS_TABLE_SIZE} \subseteq Nat \ {0}
  /\ Zero # Broadcast /\ {Zero, Broadcast} \cap Hosts = {}
  /\ \A l \in Leases \cup {Default} : l.ip # Zero /\ l.net \subseteq Hosts
  /\ \A r \in Zone : r = <<r[1], r[2]>> /\ r[1] # ""
  /\ \A t \in Traffic :
       t.senders \subseteq Hosts /\ t.names \subseteq Names /\ t.leases \subseteq Leases

VARIABLES
  config,    \* myIP, gateway and the addresses of the subnet
  offer,     \* dhcpIP and dhcpServerIP
  arpCache,  \* the valid entries, as [ip, mac]; they are never given up
  dnsTable, dnsTablePos,
  dhcpIn,    \* replies of DHCP servers on their way to us
  lost,      \* one of them, or a message to them, was lost
  named,     \* the last request asked for what a server offers, and named it
  commands,  \* how often the dhcp command was given
  main,      \* where the program is, with its locals
  traffic    \* which frames come in this behaviour

tables == <<config, offer, arpCache, dnsTable, dnsTablePos>>
vars == <<nic, tables, dhcpIn, lost, named, commands, main, traffic>>

NoEntry == [domain |-> "", ip |-> Zero]
At(pc) == [pc |-> pc, then |-> pc, name |-> "", slot |-> 0, ip |-> Zero,
           server |-> Zero, kind |-> "", cfg |-> Default, steady |-> FALSE, moved |-> FALSE]

Init ==
  /\ NicInit
  /\ config = [ip |-> Zero, gateway |-> Broadcast, net |-> Default.net]
  /\ offer = [ip |-> Zero, server |-> Zero]
  /\ arpCache = << >>
  /\ dnsTable = [i \in 0 .. DNS_TABLE_SIZE - 1 |-> NoEntry] /\ dnsTablePos = 0
  /\ dhcpIn = {} /\ lost = FALSE /\ named = FALSE /\ commands = 0
  /\ main = At("discover")
  /\ traffic \in Traffic

-----------------------------------------------------------------------------
(* ARP and routing.                                                        *)

arpLookup(ip) == SelectInSeq(arpCache, LAMBDA e : e.ip = ip)

\* Mutant: a full cache gives up its oldest place.
arpCacheInsert_Evicts(ip, mac) ==
  arpCache' = IF arpLookup(ip) # 0 THEN arpCache
              ELSE IF Len(arpCache) = ARP_CACHE_SIZE
                   THEN [arpCache EXCEPT ![1] = [ip |-> ip, mac |-> mac]]
              ELSE Append(arpCache, [ip |-> ip, mac |-> mac])

\* A full cache takes no new address.
arpCacheInsert(ip, mac) ==
  arpCache' = IF arpLookup(ip) # 0 THEN [arpCache EXCEPT ![arpLookup(ip)].mac = mac]
              ELSE IF Len(arpCache) = ARP_CACHE_SIZE THEN arpCache
              ELSE Append(arpCache, [ip |-> ip, mac |-> mac])

Hop(cfg, ip) == IF ip \in cfg.net THEN ip ELSE cfg.gateway

\* A frame: what it is, to whom, and what a DHCP request asks for.
Asks(ip, server) == [ip |-> ip, server |-> server]
Frame(kind, ip, mac) == [kind |-> kind, ip |-> ip, mac |-> mac, asks |-> Asks(Zero, Zero)]
Request(ip, server, mac) == [Frame("request", Broadcast, mac) EXCEPT !.asks = Asks(ip, server)]
Answer == Frame("frame", Zero, Broadcast)

-----------------------------------------------------------------------------
(* The program.  It runs when no interrupt does.                           *)

Runs == ~ Sending("interrupt")
Step(pc) == Runs /\ main.pc = pc /\ ~ Sending("program")

\* ipSend(ip) on behalf of `kind`, and where the program goes on after it.
IpSend(kind, ip, server, then) ==
  main' = [main EXCEPT !.pc = "route", !.kind = kind, !.ip = ip, !.server = server,
                       !.then = then]

\* ipRoute: the subnet is compared, then the cache is asked for the host or for
\* the gateway of that moment.  The answer is a place in the cache, not a copy.
ipRoute ==
  /\ Step("route")
  /\ LET to == IF main.kind \in {"discover", "request"} THEN Broadcast ELSE main.ip IN
     main' = [main EXCEPT !.pc = IF to \in config.net THEN "near" ELSE "far", !.cfg = config]
  /\ UNCHANGED <<nic, tables>>

\* (History: main.steady, both were done under one configuration, main.cfg.)
Lookup ==
  /\ \E to \in {main.ip, config.gateway} :
       /\ \/ Step("near") /\ to = main.ip
          \/ Step("far") /\ to = config.gateway
       /\ main' = [main EXCEPT !.pc = "build", !.slot = arpLookup(to),
                               !.steady = (config = main.cfg)]
  /\ UNCHANGED <<nic, tables>>

\* Without a route UDP is broadcast, all else dropped ("no route yet").
IsUdp(kind) == kind \in {"discover", "request", "query"}

Build ==
  /\ Step("build")
  /\ main' = [main EXCEPT !.pc = "sending"]
  /\ IF main.slot = 0 /\ ~ IsUdp(main.kind) THEN UNCHANGED nic
     ELSE LET mac == IF main.slot = 0 THEN Broadcast ELSE arpCache[main.slot].mac IN
          SendBegins("program",
            CASE main.kind = "request" -> Request(main.ip, main.server, mac)
              [] main.kind = "discover" -> Frame("discover", Broadcast, mac)
              [] OTHER -> Frame("frame", main.ip, mac))
  /\ UNCHANGED tables

\* Mutant: requestDhcp gives the address up after it has sent the request.
SendReturns_ResetsLate ==
  /\ Step("sending")
  /\ main' = At(main.then)
  /\ config' = IF main.kind = "request" THEN [config EXCEPT !.ip = Zero] ELSE config
  /\ UNCHANGED <<nic, offer, arpCache, dnsTable, dnsTablePos>>

SendReturns ==
  /\ Step("sending")
  /\ main' = At(main.then)
  /\ UNCHANGED <<nic, tables>>

discoverDhcp ==
  /\ Step("discover")
  /\ config' = [config EXCEPT !.ip = Zero]
  /\ IpSend("discover", Zero, Zero, "request")
  /\ UNCHANGED <<nic, offer, arpCache, dnsTable, dnsTablePos>>

\* requestDhcp does not wait for the offer; what has come of it is read in two steps.
requestDhcp ==
  /\ Step("request")
  /\ config' = [config EXCEPT !.ip = Zero]
  /\ main' = [main EXCEPT !.pc = "offerIp"]
  /\ UNCHANGED <<nic, offer, arpCache, dnsTable, dnsTablePos>>

ReadOfferIp ==
  /\ Step("offerIp")
  /\ main' = [main EXCEPT !.pc = "offerServer", !.ip = offer.ip]
  /\ UNCHANGED <<nic, tables>>

ReadOfferServer ==
  /\ Step("offerServer")
  /\ IpSend("request", main.ip, offer.server, IF commands = 0 THEN "askGateway" ELSE "run")
  /\ UNCHANGED <<nic, tables>>

\* arpRequest, of the gateway once at the start and of any address by the shell.
arpRequest(ip, who) ==
  /\ SendBegins("program", Frame("frame", Zero, Broadcast))
  /\ main' = [At("sending") EXCEPT !.then = "run", !.kind = who]
  /\ UNCHANGED tables

Program ==
  \/ Step("askGateway") /\ arpRequest(config.gateway, "start")
  \/ Step("run") /\ \E h \in Hosts : arpRequest(h, "shell")
  \/ /\ Step("run")
     /\ \E n \in traffic.names : main' = [main EXCEPT !.pc = "resolve", !.name = n]
     /\ UNCHANGED <<nic, tables>>

\* The shell's dhcp command goes through the exchange once more.
dhcpCommand ==
  /\ Step("run") /\ commands < traffic.commands
  /\ commands' = commands + 1
  /\ main' = At("discover")
  /\ UNCHANGED <<nic, tables>>

\* dnsResolve compares entry by entry; at the first match it reads the address.
dnsResolve ==
  /\ Step("resolve")
  /\ \/ /\ main.slot = DNS_TABLE_SIZE
        /\ IpSend("query", DNS_SERVER, Zero, "run")
     \/ /\ main.slot < DNS_TABLE_SIZE
        /\ main' = IF dnsTable[main.slot].domain = main.name
                   THEN [main EXCEPT !.pc = "found"] ELSE [main EXCEPT !.slot = @ + 1]
  /\ UNCHANGED <<nic, tables>>

ReadAddress ==
  /\ Step("found")
  /\ IpSend("data", dnsTable[main.slot].ip, Zero, "run")
  /\ UNCHANGED <<nic, tables>>

MainStep ==
  /\ \/ /\ \/ ipRoute \/ Lookup \/ Build \/ SendReturns
           \/ discoverDhcp \/ requestDhcp \/ ReadOfferIp \/ ReadOfferServer
           \/ Program \/ dnsResolve \/ ReadAddress
           \/ Runs /\ rtlSendPacket("program") /\ UNCHANGED <<tables, main>>
        /\ UNCHANGED commands
     \/ dhcpCommand
  /\ UNCHANGED <<dhcpIn, lost, named, traffic>>

-----------------------------------------------------------------------------
(* The interrupt: a frame has come in.                                     *)

\* arpReceive learns every sender, and answers who asks for us.
arpReceive ==
  /\ Runs
  /\ \E from \in traffic.senders, asks \in {FALSE, traffic.asks} :
       /\ asks => config.ip # Zero
       /\ arpCacheInsert(from, from)
       /\ IF asks THEN SendBegins("interrupt", Answer) ELSE UNCHANGED nic
  /\ UNCHANGED <<config, offer, dnsTable, dnsTablePos, dhcpIn, lost, named, commands,
                 main, traffic>>

\* An answer to ip from within the interrupt: icmpReceive, tcpReceive.
AnswerTo(ip) ==
  IF arpLookup(Hop(config, ip)) = 0 THEN UNCHANGED nic ELSE SendBegins("interrupt", Answer)

\* An echo request is answered to ourselves, as ipReceive passes myIP as the
\* sender; a segment to its sender, once programs run that open connections.
ipReceive ==
  /\ Runs /\ traffic.ip
  /\ \/ AnswerTo(config.ip)
     \/ /\ commands > 0 \/ (main.then = "run" /\ main.kind # "start")
        /\ \E r \in Zone : AnswerTo(r[2])
  /\ UNCHANGED <<tables, dhcpIn, lost, named, commands, main, traffic>>

\* A reply without an address stands for a refusal: the default is taken.  An
\* offer is only kept; an acknowledgement is taken at once.
receiveDhcp ==
  /\ Runs
  /\ \E m \in dhcpIn :
       /\ dhcpIn' = dhcpIn \ {m}
       /\ config' = CASE m.type = "nak" -> Default
                      [] m.type = "ack" -> [x \in {"ip", "gateway", "net"} |-> m.lease[x]]
                      [] OTHER -> config
       /\ offer' = IF m.type = "offer" THEN Asks(m.lease.ip, m.lease.siaddr) ELSE offer
  /\ UNCHANGED <<nic, arpCache, dnsTable, dnsTablePos, lost, named, commands, main, traffic>>

\* dnsAddEntry takes the oldest entry, here for the only record of an answer,
\* whoever asked for it.  (History: main.moved, the program has found its name
\* there and not yet read the address.)
dnsReceive ==
  /\ Runs /\ traffic.dns
  /\ \E r \in Zone :
       dnsTable' = [dnsTable EXCEPT ![dnsTablePos] = [domain |-> r[1], ip |-> r[2]]]
  /\ dnsTablePos' = (dnsTablePos + 1) % DNS_TABLE_SIZE
  /\ main' = [main EXCEPT !.moved = @ \/ (main.pc = "found" /\ main.slot = dnsTablePos)]
  /\ UNCHANGED <<nic, config, offer, arpCache, dhcpIn, lost, named, commands, traffic>>

Arrives == arpReceive \/ ipReceive \/ dnsReceive

InterruptStep ==
  rtlSendPacket("interrupt") /\ UNCHANGED <<tables, dhcpIn, lost, named, commands, main, traffic>>

-----------------------------------------------------------------------------
(* The card, and the servers.                                              *)

\* A server that is asked by name for what it offers acknowledges or refuses.  If
\* another one is named, or none, it keeps silent as the protocol says, or refuses,
\* or does not look at the name.
Ack(l) == [type |-> "ack", lease |-> l]
Nak == [type |-> "nak", lease |-> Default]
Verdicts(l, asks) ==
  {{Nak}} \cup (IF asks.ip = l.ip THEN {{Ack(l)}} ELSE {})
          \cup (IF asks = Asks(l.ip, l.server) THEN {} ELSE {{}})

\* What may come back for a frame: sets of replies, each server deciding for itself.
Replies(frame, leases) ==
  CASE frame.kind = "discover" -> SUBSET {[type |-> "offer", lease |-> l] : l \in leases}
    [] frame.kind = "request" ->
         {UNION {v[l] : l \in leases} :
            v \in {v \in [leases -> UNION {Verdicts(l, frame.asks) : l \in leases}] :
                    \A l \in leases : v[l] \in Verdicts(l, frame.asks)}}
    [] OTHER -> {{}}

Transmit ==
  /\ CardSends
  /\ LET frame == slots[card] IN
     /\ \E replies \in Replies(frame, traffic.leases) : \E got \in SUBSET replies :
          /\ got # replies => traffic.loss
          /\ dhcpIn' = dhcpIn \cup got
          /\ lost' = (lost \/ got # replies)
     /\ named' = IF frame.kind = "request"
                 THEN \E l \in traffic.leases : frame.asks = Asks(l.ip, l.server)
                 ELSE named
  /\ UNCHANGED <<tables, commands, main, traffic>>

Next == MainStep \/ InterruptStep \/ Arrives \/ receiveDhcp \/ Transmit

\* Frames do not keep the processor for ever: between two of them the program
\* runs, and the card interrupts for every frame it has received.
Fairness ==
  /\ SF_vars(MainStep) /\ WF_vars(InterruptStep)
  /\ SF_vars(receiveDhcp) /\ WF_vars(Transmit)

Spec == Init /\ [][Next]_vars /\ Fairness

-----------------------------------------------------------------------------
\* What a program sends to a name goes to an address that a name server gave for
\* that name, by way of the host itself or of the gateway, as the subnet says:
\* although the route is a pointer into the cache, and the interrupt adds to both
\* tables.  Unless the entry was replaced between its name and its address being
\* read, or the configuration changed while the route was looked for.
FrameGoesToItsHost ==
  (main.pc = "sending" /\ main.kind = "data" /\ Sending("program")) =>
    LET frame == send["program"].frame IN
    /\ main.moved \/ <<main.name, frame.ip>> \in Zone
    /\ main.steady => frame.mac = Hop(main.cfg, frame.ip)

\* If the last request asked for what a server offers and named it, and that server
\* answers, the machine has an address in the end: the answer may come before the
\* send has returned, late offers and the dhcp command between, but nothing after
\* the request takes the address away.  Only if a message was lost, or the card is
\* stuck, it may not.  Of a request that names nobody, because no offer had come
\* yet or siaddr was 0, nothing is said: nobody need answer it, and nothing repeats it.
HostGetsAddress == <>[](named => config.ip # Zero \/ lost \/ raced)
=============================================================================

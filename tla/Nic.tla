-------------------------------- MODULE Nic ---------------------------------
(***************************************************************************)
(* Sending through the network card (Network/rtl.c): four transmit         *)
(* descriptors which the card serves in turn, filled by the program and,   *)
(* in the middle of that, by the interrupt that answers a frame.           *)
(*                                                                         *)
(* The card takes a frame as it is when the length is written.  (The       *)
(* buffer is on the stack of ethernetSend, which returns before a slower   *)
(* card has read it; that is not modelled.)                                *)
(***************************************************************************)
EXTENDS Integers

CONSTANTS
  DESCRIPTORS  \* 4 in the card

ASSUME NicAssumption == DESCRIPTORS \in Nat \ {0}

VARIABLES
  txIndex,  \* the descriptor the next frame goes to
  slots,    \* per descriptor, the frame the card has to send, or Free: its OWN bit
  card,     \* the descriptor the card serves next
  tok,      \* the TOK bit of descriptor 0: set when its frame is out
  send,     \* per context, how far its rtlSendPacket is
  raced     \* the interrupt has sent in the middle of the program's send

nic == <<txIndex, slots, card, tok, send, raced>>

Slots == 0 .. DESCRIPTORS - 1
Contexts == {"program", "interrupt"}
Free == [kind |-> "free"]
OnWire(frame) == [kind |-> frame.kind, asks |-> frame.asks]
Idle == [at |-> "idle", entry |-> 0, next |-> 0, frame |-> Free]

NicInit ==
  /\ txIndex = 0 /\ card = 0 /\ tok = FALSE /\ raced = FALSE
  /\ slots = [d \in Slots |-> Free]
  /\ send = [c \in Contexts |-> Idle]

Sending(c) == send[c].at # "idle"

\* rtlSendPacket is called: it reads txIndex.
SendBegins(c, frame) ==
  /\ send' = [send EXCEPT ![c] =
                [at |-> "wait", entry |-> txIndex, next |-> 0, frame |-> frame]]
  /\ raced' = (raced \/ (c = "interrupt" /\ Sending("program")))
  /\ UNCHANGED <<txIndex, slots, card, tok>>

SlotIsFree(c) ==
  /\ send[c].at = "wait" /\ slots[send[c].entry] = Free
  /\ send' = [send EXCEPT ![c].at = "write"]
  /\ UNCHANGED <<txIndex, slots, card, tok, raced>>

\* The two writes of address and length: the card owns the descriptor.
SlotIsFilled(c) ==
  /\ send[c].at = "write"
  /\ slots' = [slots EXCEPT ![send[c].entry] = OnWire(send[c].frame)]
  /\ tok' = (tok /\ send[c].entry # 0)
  /\ send' = [send EXCEPT ![c].at = "sent"]
  /\ UNCHANGED <<txIndex, card, raced>>

\* Mutant: one descriptor is never used.
SentIsSeen_OneTooFew(c) ==
  /\ send[c].at = "sent" /\ tok
  /\ send' = [send EXCEPT ![c].at = "advance", ![c].next = (txIndex + 1) % (DESCRIPTORS - 1)]
  /\ UNCHANGED <<txIndex, slots, card, tok, raced>>

\* The second wait is for descriptor 0, whichever one was filled.
SentIsSeen(c) ==
  /\ send[c].at = "sent" /\ tok
  /\ send' = [send EXCEPT ![c].at = "advance", ![c].next = (txIndex + 1) % DESCRIPTORS]
  /\ UNCHANGED <<txIndex, slots, card, tok, raced>>

IndexAdvances(c) ==
  /\ send[c].at = "advance"
  /\ txIndex' = send[c].next
  /\ send' = [send EXCEPT ![c] = Idle]
  /\ UNCHANGED <<slots, card, tok, raced>>

rtlSendPacket(c) ==
  SlotIsFree(c) \/ SlotIsFilled(c) \/ SentIsSeen(c) \/ IndexAdvances(c)

\* The card sends the frame of the descriptor whose turn it is.
CardSends ==
  /\ slots[card] # Free
  /\ slots' = [slots EXCEPT ![card] = Free]
  /\ tok' = (tok \/ card = 0)
  /\ card' = (card + 1) % DESCRIPTORS
  /\ UNCHANGED <<txIndex, send, raced>>

-----------------------------------------------------------------------------
\* The card never waits at an empty descriptor while a later one holds a frame,
\* which would then hold up all that follow: as long as no interrupt has sent a
\* frame of its own between the program's reading and its writing of txIndex.
RingHasNoGap ==
  ~ raced => \A k \in 1 .. DESCRIPTORS - 1 :
    slots[(card + k) % DESCRIPTORS] # Free => slots[(card + k - 1) % DESCRIPTORS] # Free
=============================================================================

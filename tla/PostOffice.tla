----------------------------- MODULE PostOffice -----------------------------
(***************************************************************************)
(* The network devices (machine/network.cc) and the post office on top of  *)
(* them (network/post.cc).  A packet goes from Send into a socket, or is   *)
(* lost; NetworkInput polls the socket and buffers one packet; the postal  *)
(* worker puts it into a mailbox.  The mail is what the machine sends to   *)
(* itself.  A mailbox is a SynchList, here the atomic queue that SynchList *)
(* is shown to implement.                                                  *)
(***************************************************************************)
EXTENDS DeviceCalls

CONSTANTS
  SendLock, MessageSent,  \* PostOfficeOutput: the semaphore in sendLock, and messageSent
  MessageAvailable,       \* PostOfficeInput
  Worker,                 \* the thread "postal worker"
  Box,                    \* mailboxes
  MaxMail                 \* bound: messages sent

ASSUME PostOfficeAssumption == Worker \in Thread /\ MaxMail \in Nat

VARIABLES
  sent,     \* messages handed to NetworkOutput; a message is known by its number
  sending,  \* a NetworkSendInt is pending
  wire,     \* the packets in the socket
  inbox,    \* what NetworkInput has buffered; empty: inHdr.length is 0
  hand,     \* what the postal worker has taken out of it
  boxes,    \* boxes[b]: the messages in a mailbox
  received  \* how many messages Receive has returned

postVars == <<sent, sending, wire, inbox, hand, boxes, received>>

Packet == [number : 1 .. MaxMail, to : Box]

PostInit ==
  /\ sent = 0
  /\ sending = FALSE
  /\ wire = <<>>
  /\ inbox = <<>>
  /\ hand = <<>>
  /\ boxes = [b \in Box |-> <<>>]
  /\ received = 0

-----------------------------------------------------------------------------
AcquireSend(t) == PFromTo(t, SendLock, "send", "sendLocked") /\ UNCHANGED postVars

(* NetworkOutput::Send, and the P that follows.  Lost or not, the interrupt comes. *)
NetworkSend(t) ==
  /\ pc[t] = "sendLocked"
  /\ sent < MaxMail
  /\ sent' = sent + 1
  /\ sending' = TRUE
  /\ wire' \in {wire} \cup {Append(wire, [number |-> sent', to |-> b]) : b \in Box}
  /\ StartP(t, MessageSent, "sendWait", "sendDone")
  /\ UNCHANGED <<inbox, hand, boxes, received>>

AwaitSend(t) == PFromTo(t, MessageSent, "sendWait", "sendDone") /\ UNCHANGED postVars

ReleaseSend(t) == ReleaseAndReturn(t, SendLock, "sendDone") /\ UNCHANGED postVars

(* NetworkOutput::CallBack *)
NetworkSendInt ==
  /\ sending
  /\ sending' = FALSE
  /\ V(MessageSent)
  /\ UNCHANGED <<pc, sent, wire, inbox, hand, boxes, received>>

-----------------------------------------------------------------------------
(* Mutant: the poll reads over a packet that is still buffered. *)
AnyBuffer == TRUE
(* NetworkInput::CallBack does nothing while a packet is buffered. *)
BufferFree == inbox = <<>>

(* NetworkInput::CallBack: it is called again and again, and reads a packet when it can. *)
NetworkRecvInt ==
  /\ BufferFree
  /\ wire # <<>>
  /\ inbox' = <<Head(wire)>>
  /\ wire' = Tail(wire)
  /\ V(MessageAvailable)
  /\ UNCHANGED <<pc, sent, sending, hand, boxes, received>>

(* PostalDelivery: wait for a packet, and fetch it. *)
AwaitPacket ==
  /\ PFromTo(Worker, MessageAvailable, "worker", "packet")
  /\ UNCHANGED postVars

NetworkReceive ==
  /\ pc[Worker] = "packet"
  /\ hand' = inbox
  /\ inbox' = <<>>
  /\ Goto(Worker, "deliver")
  /\ UNCHANGED <<semaphoreVars, sent, sending, wire, boxes, received>>

(* MailBox::Put *)
Put ==
  /\ pc[Worker] = "deliver"
  /\ boxes' = [boxes EXCEPT ![hand[1].to] = Append(@, hand[1].number)]
  /\ hand' = <<>>
  /\ Goto(Worker, "worker")
  /\ UNCHANGED <<semaphoreVars, sent, sending, wire, inbox, received>>

(* PostOfficeInput::Receive: MailBox::Get waits while the box is empty. *)
Receive(t, b) ==
  /\ pc[t] = "receive"
  /\ boxes[b] # <<>>
  /\ boxes' = [boxes EXCEPT ![b] = Tail(@)]
  /\ received' = received + 1
  /\ Goto(t, "outside")
  /\ UNCHANGED <<semaphoreVars, sent, sending, wire, inbox, hand>>

PostStep(t) ==
  \/ AcquireSend(t) \/ NetworkSend(t) \/ AwaitSend(t) \/ ReleaseSend(t)
  \/ \E b \in Box : Receive(t, b)

Deliver == AwaitPacket \/ NetworkReceive \/ Put

(* One packet is sent at a time: NetworkOutput asserts it of sendBusy, which nobody sets. *)
SendOneAtATime ==
  /\ \A t \in Thread : pc[t] = "sendLocked" => ~sending
  /\ \A t \in Thread : pc[t] = "sendDone" => ~sending /\ value[MessageSent] = 0
=============================================================================

----------------------------- MODULE MailChannel -----------------------------
(***************************************************************************)
(* What the post office promises: mail may be lost on the way, but what    *)
(* arrives in a box arrives once and in the order it was sent.  A message  *)
(* is known by its number, and numbers count up: of the messages for a box *)
(* the next to arrive is always the one with the lowest number.            *)
(***************************************************************************)
EXTENDS Naturals

CONSTANT Box   \* the boxes

VARIABLES
  sent,     \* how many messages were sent
  channel,  \* channel[b]: the messages for box b that are on the way or in the box
  received  \* how many messages were received

vars == <<sent, channel, received>>

Init ==
  /\ sent = 0
  /\ channel = [b \in Box |-> {}]
  /\ received = 0

Lose == sent' = sent + 1 /\ UNCHANGED <<channel, received>>

Send(b) ==
  /\ sent' = sent + 1
  /\ channel' = [channel EXCEPT ![b] = @ \cup {sent'}]
  /\ UNCHANGED received

Receive(b) ==
  \E m \in channel[b] :
    /\ \A n \in channel[b] : m <= n
    /\ channel' = [channel EXCEPT ![b] = @ \ {m}]
    /\ received' = received + 1
    /\ UNCHANGED sent

Next == Lose \/ \E b \in Box : Send(b) \/ Receive(b)

Spec == Init /\ [][Next]_vars
=============================================================================

----------------------------- MODULE FIFOQueue -----------------------------
(***************************************************************************)
(* What a SynchList promises to the threads that share it: a first-in      *)
(* first-out queue whose append and remove each happen at one instant      *)
(* between call and return, and whose remove waits for an item.            *)
(*                                                                         *)
(* This is the abstract specification that SynchList refines; it models no *)
(* code of its own.                                                        *)
(***************************************************************************)
EXTENDS Naturals, Sequences

CONSTANTS
  Thread,
  Item,
  None      \* no item

VARIABLES
  contents,  \* the items in the queue
  request,   \* request[t]: what t has called and what has not happened yet
  received   \* received[t]: the item t has removed, until its next call; or None

vars == <<contents, request, received>>

Idle      == [op |-> "none", item |-> None]
Appending(x) == [op |-> "append", item |-> x]
Removing  == [op |-> "remove", item |-> None]

Init ==
  /\ contents = <<>>
  /\ request = [t \in Thread |-> Idle]
  /\ received = [t \in Thread |-> None]

(* A call that is neither an append nor a remove only forgets the last answer. *)
Call(t) ==
  /\ request[t] = Idle
  /\ request' \in {[request EXCEPT ![t] = r] : r \in {Idle, Removing} \cup {Appending(x) : x \in Item}}
  /\ received' = [received EXCEPT ![t] = None]
  /\ UNCHANGED contents

AppendItem(t) ==
  /\ request[t].op = "append"
  /\ contents' = Append(contents, request[t].item)
  /\ request' = [request EXCEPT ![t] = Idle]
  /\ UNCHANGED received

RemoveItem(t) ==
  /\ request[t].op = "remove" /\ contents # <<>>
  /\ received' = [received EXCEPT ![t] = Head(contents)]
  /\ contents' = Tail(contents)
  /\ request' = [request EXCEPT ![t] = Idle]

Next == \E t \in Thread : Call(t) \/ AppendItem(t) \/ RemoveItem(t)

Spec == Init /\ [][Next]_vars
=============================================================================

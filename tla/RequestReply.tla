---------------------------- MODULE RequestReply ----------------------------
(***************************************************************************)
(* The protocol that the drivers of the disk, the display and the network  *)
(* follow: a caller holds the lock while its request is with the device,   *)
(* and leaves when the interrupt has answered it.  A device takes one      *)
(* request at a time and asserts so.                                       *)
(***************************************************************************)
EXTENDS Naturals

CONSTANT Thread

VARIABLES
  place,  \* place[t]: "outside", "locked", "waiting" or "answered"
  lock,   \* units of the lock
  reply,  \* units of the semaphore that the interrupt handler V's
  busy    \* a request is with the device, its interrupt pending

vars == <<place, lock, reply, busy>>

Init ==
  /\ place = [t \in Thread |-> "outside"]
  /\ lock = 1
  /\ reply = 0
  /\ busy = FALSE

Move(t, from, to) == place[t] = from /\ place' = [place EXCEPT ![t] = to]

Acquire(t) ==
  /\ Move(t, "outside", "locked")
  /\ lock > 0 /\ lock' = lock - 1
  /\ UNCHANGED <<reply, busy>>

(* A unit left over from an earlier request would answer this one at once. *)
Request(t) ==
  /\ busy' = TRUE
  /\ \/ Move(t, "locked", "waiting") /\ reply = 0 /\ UNCHANGED reply
     \/ Move(t, "locked", "answered") /\ reply > 0 /\ reply' = reply - 1
  /\ UNCHANGED lock

Answered(t) ==
  /\ Move(t, "waiting", "answered")
  /\ reply > 0 /\ reply' = reply - 1
  /\ UNCHANGED <<lock, busy>>

Release(t) ==
  /\ Move(t, "answered", "outside")
  /\ lock' = lock + 1
  /\ UNCHANGED <<reply, busy>>

Interrupt ==
  /\ busy /\ busy' = FALSE
  /\ reply' = reply + 1
  /\ UNCHANGED <<place, lock>>

Next ==
  \/ \E t \in Thread : Acquire(t) \/ Request(t) \/ Answered(t) \/ Release(t)
  \/ Interrupt

Spec == Init /\ [][Next]_vars

-----------------------------------------------------------------------------
(* No request while another is under way; and who has been answered was answered for its   *)
(* own request: none is under way, and no unit is left behind.                             *)
OneAtATime ==
  /\ \A t \in Thread : place[t] = "locked" => ~busy
  /\ \A t \in Thread : place[t] = "answered" => ~busy /\ reply = 0

(* Strengthening: one caller at a time is inside, and the request or its answer is the one *)
(* it waits for.                                                                           *)
TypeOK ==
  /\ place \in [Thread -> {"outside", "locked", "waiting", "answered"}]
  /\ lock \in Nat /\ reply \in Nat /\ busy \in BOOLEAN
Inside(t) == place[t] # "outside"
IInv ==
  /\ TypeOK
  /\ \A t, u \in Thread : Inside(t) /\ Inside(u) => t = u
  /\ lock <= 1 /\ (\A t \in Thread : Inside(t) => lock = 0)
  /\ reply <= 1 /\ (busy => reply = 0)
  /\ busy \/ reply > 0 => \E t \in Thread : place[t] = "waiting"
=============================================================================

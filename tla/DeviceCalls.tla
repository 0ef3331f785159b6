---------------------------- MODULE DeviceCalls ----------------------------
(***************************************************************************)
(* What the drivers of the disk, the console and the network have in       *)
(* common: a thread takes the lock of the device, starts a request, and    *)
(* sleeps in P of a semaphore until the interrupt handler calls V.         *)
(*                                                                         *)
(* Granularity, as in SynchList: a step is the code of one thread from one *)
(* tick to the next.  An interrupt handler runs between two steps, since   *)
(* interrupts are taken at ticks, or when the machine idles.               *)
(***************************************************************************)
EXTENDS Semaphores

VARIABLE pc   \* pc[t]: the point of the code t is at

Goto(t, l) == pc' = [pc EXCEPT ![t] = l]

(* s->P() at `from`: it returns at `to`, or t sleeps and stays. *)
PFromTo(t, s, from, to) ==
  /\ pc[t] = from
  /\ InOrCallingP(t, s)
  /\ \/ Take(t, s) /\ Goto(t, to)
     \/ Wait(t, s) /\ UNCHANGED pc

(* A request has just been started: s->P() begins in the same step, at `to` t waits or is  *)
(* done.                                                                                   *)
StartP(t, s, waiting, done) ==
  /\ inP[t] = None
  /\ \/ Take(t, s) /\ Goto(t, done)
     \/ Wait(t, s) /\ Goto(t, waiting)

(* lock->Release(), the last thing a driver does. *)
ReleaseAndReturn(t, lock, from) ==
  /\ pc[t] = from
  /\ V(lock)
  /\ Goto(t, "outside")
=============================================================================

----------------------------- MODULE Semaphores -----------------------------
(***************************************************************************)
(* The semaphores of the kernel (threads/synch.cc), which Project2 and the *)
(* final version share.  P and V run with interrupts off, so each is one   *)
(* step up to the point where P puts its caller to sleep.  V does not hand *)
(* its unit to the thread it wakes: it makes the thread ready and counts   *)
(* the unit as available, so that another P may take it first and the      *)
(* woken thread, which tests the value again, goes back to the queue.      *)
(*                                                                         *)
(* Which ready thread runs is left open here; Threads adds the scheduler,  *)
(* SynchList and FileManager build on these actions.                       *)
(***************************************************************************)
EXTENDS Naturals, Sequences, FiniteSets

CONSTANTS
  Thread,        \* the threads of the kernel
  Semaphore,     \* the semaphores
  InitialValue,  \* InitialValue[s]: the initialValue s is constructed with
  None           \* no semaphore, no thread

ASSUME SemaphoreAssumption ==
  /\ InitialValue \in [Semaphore -> Nat]
  /\ IsFiniteSet(Thread)
  /\ None \notin Thread
  /\ None \notin Semaphore

VARIABLES
  value,  \* value[s]: units available
  queue,  \* queue[s]: the threads asleep in s->P(), first come first
  inP     \* inP[t]: the semaphore whose P thread t has slept in and not left, or None

semaphoreVars == <<value, queue, inP>>

Sleeping(s) == {queue[s][i] : i \in DOMAIN queue[s]}
(* Made ready by a V of s, and not yet back on the processor to test the value again. *)
Woken(s) == {t \in Thread : inP[t] = s} \ Sleeping(s)

SemaphoreInit ==
  /\ value = InitialValue
  /\ queue = [s \in Semaphore |-> <<>>]
  /\ inP = [t \in Thread |-> None]

-----------------------------------------------------------------------------
(* Mutant: P takes a unit that is not there. *)
TakeUntested(t, s) ==
  /\ value' = [value EXCEPT ![s] = @ - 1]
  /\ inP' = [inP EXCEPT ![t] = None]
  /\ UNCHANGED queue

Take(t, s) ==
  /\ value[s] > 0
  /\ value' = [value EXCEPT ![s] = @ - 1]
  /\ inP' = [inP EXCEPT ![t] = None]
  /\ UNCHANGED queue

Wait(t, s) ==
  /\ value[s] = 0
  /\ queue' = [queue EXCEPT ![s] = Append(@, t)]
  /\ inP' = [inP EXCEPT ![t] = s]
  /\ UNCHANGED value

(* The loop of P, from one test of the value to the unit or to the next Sleep. *)
TakeOrWait(t, s) == Take(t, s) \/ Wait(t, s)

P(t, s) == inP[t] = None /\ TakeOrWait(t, s)

(* Mutant: `if` for `while` in P; the woken thread takes its unit untested. *)
RecheckOmitted(t) ==
  \E s \in Semaphore :
    /\ t \in Woken(s)
    /\ value' = [value EXCEPT ![s] = @ - 1]
    /\ inP' = [inP EXCEPT ![t] = None]
    /\ UNCHANGED queue

(* Sleep returns in P. *)
Recheck(t) == \E s \in Semaphore : t \in Woken(s) /\ TakeOrWait(t, s)

(* Calling P, or testing again in it. *)
InOrCallingP(t, s) == inP[t] = None \/ t \in Woken(s)

(* Mutant: a unit already available makes V leave the queue alone. *)
WakeOnlyFirst(s) ==
  queue' = [queue EXCEPT ![s] = IF @ = <<>> \/ value[s] > 0 THEN @ ELSE Tail(@)]

WakeFront(s) ==
  queue' = [queue EXCEPT ![s] = IF @ = <<>> THEN @ ELSE Tail(@)]

V(s) ==
  /\ WakeFront(s)
  /\ value' = [value EXCEPT ![s] = @ + 1]
  /\ UNCHANGED inP

SemaphoreNext ==
  \/ \E t \in Thread : Recheck(t) \/ \E s \in Semaphore : P(t, s)
  \/ \E s \in Semaphore : V(s)

SemaphoreSpec == SemaphoreInit /\ [][SemaphoreNext]_semaphoreVars

-----------------------------------------------------------------------------
SemaphoreTypeOK ==
  /\ value \in [Semaphore -> Nat]
  /\ queue \in [Semaphore -> Seq(Thread)]
  /\ inP \in [Thread -> Semaphore \cup {None}]

(* A thread sleeps in the queue of the semaphore whose P it is in, and stands there once: *)
(* List::Append asserts that it is not already on the list.                               *)
QueuesHoldWaiters ==
  \A s \in Semaphore :
    /\ \A i \in DOMAIN queue[s] : inP[queue[s][i]] = s
    /\ \A i, j \in DOMAIN queue[s] : queue[s][i] = queue[s][j] => i = j

(* No lost wake-up: while threads sleep on s, every unit available has a thread that was    *)
(* woken for it and is on its way to test the value.  Neither a P that overtakes the woken  *)
(* thread nor a V during a burst of V's may leave a unit on offer with all its takers asleep.*)
NoLostWakeup ==
  \A s \in Semaphore : queue[s] # <<>> => value[s] <= Cardinality(Woken(s))

=============================================================================

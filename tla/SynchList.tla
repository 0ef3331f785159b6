----------------------------- MODULE SynchList -----------------------------
(***************************************************************************)
(* SynchList (threads/synchlist.cc), the monitor behind every mailbox, on  *)
(* top of Lock and Condition (threads/synch.cc) and the semaphores they    *)
(* are made of.                                                            *)
(*                                                                         *)
(* Granularity.  A thread can lose the processor at each tick, that is     *)
(* where P or V turns interrupts back on, and where P sleeps.  A step is   *)
(* the code of one thread from one such point to the next.  In particular  *)
(* the lock is taken one step before lockHolder is set.                    *)
(***************************************************************************)
EXTENDS Semaphores

CONSTANTS
  Item,      \* what the list holds
  ListLock,  \* the semaphore inside the Lock
  WaiterOf,  \* WaiterOf[t]: the Semaphore that Condition::Wait allocates for thread t
  MaxItems   \* bound: nobody calls Append while the list and the appends under way hold so many

ASSUME SynchListAssumption ==
  /\ ListLock \in Semaphore /\ InitialValue[ListLock] = 1
  /\ WaiterOf \in [Thread -> Semaphore \ {ListLock}]
  /\ \A t, u \in Thread : WaiterOf[t] = WaiterOf[u] => t = u
  /\ \A t \in Thread : InitialValue[WaiterOf[t]] = 0
  /\ MaxItems \in Nat
  /\ None \notin Item

VARIABLES
  list,        \* the List inside the SynchList
  waitQueue,   \* waitQueue of the Condition listEmpty: waiter semaphores
  live,        \* the waiter semaphores that are allocated
  lockHolder,  \* lock->lockHolder
  pc,          \* pc[t]: the point of the code t is at
  item,        \* item[t]: the argument of the Append t is in, or None
  received     \* received[t]: what the RemoveFront of t returned, until its next call; or None

monitorVars == <<list, waitQueue, live, lockHolder, pc, item, received>>
vars == <<semaphoreVars, monitorVars>>

PC == {"outside",
       "append",  "appendLocked", "appended",  \* Append: before, after Acquire; after Signal
       "remove",  "removeLocked",              \* RemoveFront: before, after the first Acquire
       "waiting", "reacquire", "woken",        \* Wait: after Release; after P; after Acquire
       "apply",   "applyLocked"}               \* Apply: before, after Acquire

Init ==
  /\ SemaphoreInit
  /\ list = <<>>
  /\ waitQueue = <<>>
  /\ live = {}
  /\ lockHolder = None
  /\ pc = [t \in Thread |-> "outside"]
  /\ item = [t \in Thread |-> None]
  /\ received = [t \in Thread |-> None]

-----------------------------------------------------------------------------
Goto(t, l) == pc' = [pc EXCEPT ![t] = l]

Pending == {t \in Thread : pc[t] \in {"append", "appendLocked"}}

Call(t) ==
  /\ pc[t] = "outside"
  /\ \/ /\ Len(list) + Cardinality(Pending) < MaxItems
        /\ \E x \in Item : item' = [item EXCEPT ![t] = x]
        /\ Goto(t, "append")
     \/ UNCHANGED item /\ (Goto(t, "remove") \/ Goto(t, "apply"))
  /\ received' = [received EXCEPT ![t] = None]
  /\ UNCHANGED <<semaphoreVars, list, waitQueue, live, lockHolder>>

(* P on behalf of t, at `from`: it returns at `to`, or sleeps and stays. *)
PFromTo(t, s, from, to) ==
  /\ pc[t] = from
  /\ InOrCallingP(t, s)
  /\ \/ Take(t, s) /\ Goto(t, to)
     \/ Wait(t, s) /\ UNCHANGED pc
  /\ UNCHANGED <<list, waitQueue, live, lockHolder, item, received>>

(* semaphore->P() of Lock::Acquire; lockHolder is set in the step that follows. *)
Acquire(t) ==
  \/ PFromTo(t, ListLock, "append", "appendLocked")
  \/ PFromTo(t, ListLock, "remove", "removeLocked")
  \/ PFromTo(t, ListLock, "reacquire", "woken")
  \/ PFromTo(t, ListLock, "apply", "applyLocked")

(* lockHolder = NULL; semaphore->V(). *)
Release == V(ListLock) /\ lockHolder' = None

(* Mutant: Signal looks at the first waiter and leaves it in the queue. *)
WaitersUnchanged(q) == q
WaitersAfterSignal(q) == Tail(q)

(* Mutant: a list that was not empty cannot have waiters. *)
SignalIfWasEmpty == waitQueue # <<>> /\ list = <<>>
(* Condition::Signal finds a waiter. *)
SignalNeeded == waitQueue # <<>>

(* Mutant: the item goes to the head of the list. *)
ItemInFront(x) == <<x>> \o list
(* list->Append. *)
ItemAppended(x) == Append(list, x)

(* Append, from the end of Acquire: the item, Signal up to the end of V when there is a    *)
(* waiter; else Signal does nothing and Release follows at once.                           *)
AppendItem(t) ==
  /\ pc[t] = "appendLocked"
  /\ list' = ItemAppended(item[t])
  /\ item' = [item EXCEPT ![t] = None]
  /\ IF SignalNeeded
       THEN /\ V(Head(waitQueue))
            /\ waitQueue' = WaitersAfterSignal(waitQueue)
            /\ lockHolder' = t
            /\ Goto(t, "appended")
       ELSE /\ Release
            /\ UNCHANGED waitQueue
            /\ Goto(t, "outside")
  /\ UNCHANGED <<live, received>>

ReleaseAfterAppend(t) ==
  /\ pc[t] = "appended"
  /\ Release
  /\ Goto(t, "outside")
  /\ UNCHANGED <<list, waitQueue, live, item, received>>

(* Mutant: the waiter's semaphore starts with a unit, like that of a lock. *)
WaiterStartsFree == 1
WaiterStart == 0

(* Condition::Wait up to the end of Release: a new semaphore with value 0, linked into      *)
(* waitQueue before the lock is given up.                                                   *)
WaitForItem(t) ==
  /\ value' = [value EXCEPT ![WaiterOf[t]] = WaiterStart, ![ListLock] = @ + 1]
  /\ WakeFront(ListLock)
  /\ UNCHANGED inP
  /\ waitQueue' = Append(waitQueue, WaiterOf[t])
  /\ live' = live \cup {WaiterOf[t]}
  /\ lockHolder' = None
  /\ Goto(t, "waiting")
  /\ UNCHANGED <<list, item, received>>

TakeItem(t) ==
  /\ received' = [received EXCEPT ![t] = Head(list)]
  /\ list' = Tail(list)
  /\ Release
  /\ Goto(t, "outside")
  /\ UNCHANGED <<waitQueue, item>>

(* The loop test of RemoveFront. *)
Empty(t) == list = <<>>

(* RemoveFront, from the end of the first Acquire. *)
TestList(t) ==
  /\ pc[t] = "removeLocked"
  /\ IF Empty(t) THEN WaitForItem(t) ELSE TakeItem(t) /\ UNCHANGED live

(* The end of Wait deletes the waiter; the next round of the loop allocates another one. *)
TestListAgain(t) ==
  /\ pc[t] = "woken"
  /\ IF Empty(t) THEN WaitForItem(t) ELSE TakeItem(t) /\ live' = live \ {WaiterOf[t]}

(* Mutant: Wait returns without the lock. *)
WaitPKeepsNoLock(t) == PFromTo(t, WaiterOf[t], "waiting", "woken")
WaitP(t) == PFromTo(t, WaiterOf[t], "waiting", "reacquire")

(* Mutant: Apply returns with the lock. *)
ApplyKeepsLock(t) ==
  /\ pc[t] = "applyLocked"
  /\ lockHolder' = t
  /\ Goto(t, "outside")
  /\ UNCHANGED <<semaphoreVars, list, waitQueue, live, item, received>>

(* Apply only looks at the items. *)
Apply(t) ==
  /\ pc[t] = "applyLocked"
  /\ Release
  /\ Goto(t, "outside")
  /\ UNCHANGED <<list, waitQueue, live, item, received>>

Step(t) == \/ Acquire(t) \/ AppendItem(t) \/ ReleaseAfterAppend(t) \/ TestList(t)
           \/ WaitP(t) \/ TestListAgain(t) \/ Apply(t)

Next == \E t \in Thread : Call(t) \/ Step(t)

Spec == Init /\ [][Next]_vars

(* The scheduler gives every ready thread the processor: ReadyRuns of Threads. *)
FairSpec == Spec /\ \A t \in Thread : WF_vars(Step(t))

-----------------------------------------------------------------------------
TypeOK ==
  /\ SemaphoreTypeOK
  /\ list \in Seq(Item)
  /\ waitQueue \in Seq(Semaphore)
  /\ live \subseteq Semaphore
  /\ lockHolder \in Thread \cup {None}
  /\ pc \in [Thread -> PC]
  /\ item \in [Thread -> Item \cup {None}]
  /\ received \in [Thread -> Item \cup {None}]

Locked == {t \in Thread : pc[t] \in {"appendLocked", "appended", "removeLocked", "woken",
                                     "applyLocked"}}

(* The lock protects the list: its one unit is either available or with the only thread     *)
(* that is past Acquire; and lockHolder, set a tick later, names that thread whenever       *)
(* Release or Signal asserts it.                                                            *)
MutualExclusion ==
  /\ value[ListLock] + Cardinality(Locked) = 1
  /\ \A t \in Thread : pc[t] = "appended" => lockHolder = t
  /\ lockHolder # None => lockHolder \in Locked

(* Condition::Wait deletes its semaphore while Signal may hold a pointer to it: the queue   *)
(* holds live semaphores only, each once, and of threads that still wait; one that is       *)
(* deleted has nobody asleep in it.                                                         *)
NoDanglingWaiter ==
  /\ \A i, j \in DOMAIN waitQueue : waitQueue[i] = waitQueue[j] => i = j
  /\ \A i \in DOMAIN waitQueue :
       waitQueue[i] \in live /\ \E t \in Thread : WaiterOf[t] = waitQueue[i] /\ pc[t] = "waiting"
  /\ \A t \in Thread :
       WaiterOf[t] \in live <=> pc[t] \in {"waiting", "reacquire", "woken"}

(* A signal reaches a waiter that has released the lock but does not sleep yet: a thread    *)
(* that has left waitQueue has, or has consumed, exactly one unit of its own semaphore.     *)
SignalIsKept ==
  \A t \in Thread :
    /\ pc[t] = "waiting" =>
         value[WaiterOf[t]] = IF \E i \in DOMAIN waitQueue : waitQueue[i] = WaiterOf[t]
                                THEN 0 ELSE 1
    /\ pc[t] \in {"reacquire", "woken"} => value[WaiterOf[t]] = 0

(* The monitor implements an atomic queue. *)
Requests == [t \in Thread |->
  CASE pc[t] \in {"append", "appendLocked"} -> [op |-> "append", item |-> item[t]]
    [] pc[t] \in {"remove", "removeLocked", "waiting", "reacquire", "woken"} ->
         [op |-> "remove", item |-> None]
    [] OTHER -> [op |-> "none", item |-> None]]
Q == INSTANCE FIFOQueue WITH contents <- list, request <- Requests
ImplementsFIFOQueue == Q!Spec

Removing == {t \in Thread : Requests[t].op = "remove"}

(* A P can be overtaken by others that come later, again and again, so what is promised is *)
(* only promised when the calls that keep coming do not last for ever.                     *)
CallsForEver == []<><<\E t \in Thread : Call(t)>>_vars

(* Items do not lie in the list while somebody waits to remove one, although a remover that *)
(* was not asleep may take the item the woken one was signalled for.                        *)
ItemsFindTakers ==
  CallsForEver \/ ((list # <<>> /\ Removing # {}) ~> (list = <<>> \/ Removing = {}))

(* Every Append and every Apply returns: nobody keeps the lock. *)
AppendReturns ==
  CallsForEver \/ \A t \in Thread : (pc[t] \in {"append", "apply"}) ~> (pc[t] = "outside")

=============================================================================

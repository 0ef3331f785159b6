-------------------------- MODULE SynchList_proofs --------------------------
(***************************************************************************)
(* Proofs about SynchList, for any number of threads and items and lists   *)
(* of any length: the lock excludes, a waiter's semaphore is alive as long *)
(* as somebody may signal it, no signal is lost, and the monitor           *)
(* implements an atomic FIFO queue.                                        *)
(***************************************************************************)
EXTENDS SynchList, Semaphores_proofs

LockedPC == {"appendLocked", "appended", "removeLocked", "woken", "applyLocked"}
WaiterPC == {"waiting", "reacquire", "woken"}

(* The unit of the lock is on offer, or with the only thread that is past Acquire; where    *)
(* lockHolder is set at the end of a step, its thread is between Signal and Release.        *)
LockInv ==
  /\ \/ value[ListLock] = 1 /\ Locked = {}
     \/ value[ListLock] = 0 /\ \E t \in Thread : Locked = {t}
  /\ \A t \in Thread : pc[t] = "appended" => lockHolder = t
  /\ lockHolder # None => lockHolder \in Thread /\ pc[lockHolder] = "appended"

(* The condition's queue names waiting threads, each once; a waiter's semaphore has a unit  *)
(* exactly between its signal and the return of its P.                                      *)
WaiterInv ==
  /\ NoRepeats(waitQueue)
  /\ \A w \in Members(waitQueue) : \E t \in Thread : WaiterOf[t] = w /\ pc[t] = "waiting"
  /\ \A t \in Thread : WaiterOf[t] \in live <=> pc[t] \in WaiterPC
  /\ \A t \in Thread :
       value[WaiterOf[t]] =
         IF pc[t] = "waiting" /\ WaiterOf[t] \notin Members(waitQueue) THEN 1 ELSE 0

(* Who appends has brought an item. *)
ItemInv == \A t \in Thread : pc[t] \in {"append", "appendLocked"} => item[t] \in Item

(* TypeOK without the semaphores, whose types are part of SemaphoreInv. *)
MonitorTypeOK ==
  /\ list \in Seq(Item)
  /\ waitQueue \in Seq(Semaphore)
  /\ live \subseteq Semaphore
  /\ lockHolder \in Thread \cup {None}
  /\ pc \in [Thread -> PC]
  /\ item \in [Thread -> Item \cup {None}]
  /\ received \in [Thread -> Item \cup {None}]

MonitorInv == SemaphoreInv /\ MonitorTypeOK /\ ItemInv /\ LockInv /\ WaiterInv


-----------------------------------------------------------------------------
(* The semaphores of the lock and of the waiters are different objects. *)
LEMMA Waiters ==
  /\ ListLock \in Semaphore
  /\ \A t \in Thread : WaiterOf[t] \in Semaphore /\ WaiterOf[t] # ListLock
  /\ \A t, u \in Thread : WaiterOf[t] = WaiterOf[u] => t = u
BY SynchListAssumption

(* A thread that moves changes its own place only.                                          *)
LEMMA Moved ==
  ASSUME TypeOK, NEW t \in Thread, NEW l \in PC, Goto(t, l)
  PROVE  /\ pc' \in [Thread -> PC]
         /\ pc'[t] = l
         /\ \A u \in Thread : u # t => pc'[u] = pc[u]
         /\ Locked' = IF l \in LockedPC THEN Locked \cup {t} ELSE Locked \ {t}
         /\ t \in Locked <=> pc[t] \in LockedPC
<1>1. /\ pc' \in [Thread -> PC]
      /\ pc'[t] = l
      /\ \A u \in Thread : u # t => pc'[u] = pc[u]
  BY DEF TypeOK, Goto
<1> QED BY <1>1 DEF Locked, LockedPC

(* P, as far as the values and places go; the other variables stay.                         *)
LEMMA PEffect ==
  ASSUME SemaphoreTypeOK, NEW t \in Thread, NEW s \in Semaphore, NEW from, NEW to,
         PFromTo(t, s, from, to)
  PROVE  /\ pc[t] = from
         /\ UNCHANGED <<list, waitQueue, live, lockHolder, item, received>>
         /\ \/ /\ Goto(t, to) /\ value[s] > 0 /\ value'[s] = value[s] - 1
               /\ \A r \in Semaphore : r # s => value'[r] = value[r]
            \/ UNCHANGED <<pc, value>>
BY DEF PFromTo, Take, Wait, SemaphoreTypeOK

-----------------------------------------------------------------------------
(* How the lock's invariant survives: a step that takes its unit,                           *)
LEMMA LockTaken ==
  ASSUME TypeOK, LockInv, NEW t \in Thread, NEW l \in LockedPC \ {"appended"}, Goto(t, l),
         value[ListLock] > 0, value'[ListLock] = value[ListLock] - 1, UNCHANGED lockHolder
  PROVE  LockInv'
<1>1. l \in PC
  BY DEF LockedPC, PC
<1>2. value[ListLock] = 1 /\ Locked = {} /\ value'[ListLock] = 0
  BY DEF LockInv
<1>3. Locked' = {t}
  BY <1>1, <1>2, Moved
<1>4. \A u \in Thread : pc[u] # "appended"
  BY <1>2 DEF Locked
<1>5. lockHolder = None
  BY <1>4 DEF LockInv
<1> QED BY <1>1, <1>2, <1>3, <1>4, <1>5, Moved DEF LockInv

(* one that gives it back,                                                                  *)
LEMMA LockReleased ==
  ASSUME TypeOK, LockInv, NEW t \in Thread, NEW l \in PC \ LockedPC, Goto(t, l),
         pc[t] \in LockedPC, value'[ListLock] = value[ListLock] + 1, lockHolder' = None
  PROVE  LockInv'
<1>1. t \in Locked
  BY Moved
<1>2. value[ListLock] = 0 /\ Locked = {t} /\ value'[ListLock] = 1
  BY <1>1 DEF LockInv
<1>3. Locked' = {}
  BY <1>2, Moved
<1>4. \A u \in Thread : pc'[u] # "appended"
  BY <1>3 DEF Locked
<1> QED BY <1>2, <1>3, <1>4 DEF LockInv

(* and one that leaves it where it is.                                                      *)
LEMMA LockKept ==
  ASSUME TypeOK, LockInv, NEW t \in Thread, NEW l \in PC \ {"appended"}, Goto(t, l),
         pc[t] \in LockedPC <=> l \in LockedPC, pc[t] # "appended",
         value'[ListLock] = value[ListLock], UNCHANGED lockHolder
  PROVE  LockInv'
<1>1. Locked' = Locked
  BY Moved
<1> QED BY <1>1, Moved DEF LockInv

(* How the waiters survive a step that has nothing to do with them.                         *)
LEMMA WaitersKept ==
  ASSUME TypeOK, WaiterInv, NEW t \in Thread, NEW l \in PC, Goto(t, l),
         pc[t] # "waiting", l # "waiting", pc[t] \in WaiterPC <=> l \in WaiterPC,
         UNCHANGED <<waitQueue, live>>,
         \A r \in Semaphore : r # ListLock => value'[r] = value[r]
  PROVE  WaiterInv'
<1>1. \A u \in Thread : /\ pc'[u] = "waiting" <=> pc[u] = "waiting"
                        /\ pc'[u] \in WaiterPC <=> pc[u] \in WaiterPC
                        /\ value'[WaiterOf[u]] = value[WaiterOf[u]]
  BY Moved, Waiters
<1>2. NoRepeats(waitQueue)' /\ Members(waitQueue)' = Members(waitQueue)
  BY DEF WaiterInv
<1> QED BY <1>1, <1>2 DEF WaiterInv

-----------------------------------------------------------------------------
(* Every step keeps MonitorInv. *)
LEMMA InvParts ==
  MonitorInv => /\ TypeOK /\ MonitorTypeOK /\ SemaphoreTypeOK /\ ItemInv
                /\ SemaphoreInv /\ LockInv /\ WaiterInv
BY DEF MonitorInv, MonitorTypeOK, TypeOK, SemaphoreInv

(* A step that changes nothing of what the invariants are about. *)
LEMMA NothingMoves ==
  ASSUME MonitorInv, UNCHANGED <<list, waitQueue, live, lockHolder, pc, item, received, value>>
  PROVE  MonitorTypeOK' /\ ItemInv' /\ LockInv' /\ WaiterInv'
<1>1. MonitorTypeOK' /\ ItemInv' /\ LockInv'
  BY InvParts DEF MonitorTypeOK, ItemInv, LockInv, Locked
<1>2. WaiterInv'
  BY InvParts DEF WaiterInv, Members, NoRepeats
<1> QED BY <1>1, <1>2

LEMMA CallKeeps ==
  ASSUME MonitorInv, NEW t \in Thread, Call(t)
  PROVE  MonitorInv'
<1> USE InvParts
<1>1. PICK l \in {"append", "remove", "apply"} :
        /\ Goto(t, l) /\ item' \in [Thread -> Item \cup {None}]
        /\ l = "append" => item'[t] \in Item
        /\ \A u \in Thread : u # t => item'[u] = item[u]
  BY DEF Call, MonitorTypeOK
<1>2. pc[t] = "outside" /\ l \in PC
  BY DEF Call, PC
<1>3. /\ UNCHANGED <<value, list, waitQueue, live, lockHolder>> /\ SemaphoreInv'
      /\ received' \in [Thread -> Item \cup {None}]
  BY DEF Call, semaphoreVars, MonitorTypeOK, SemaphoreInv, SemaphoreTypeOK, QueuesHoldWaiters,
         NoLostWakeup, Woken, Sleeping
<1>4. MonitorTypeOK'
  BY <1>1, <1>2, <1>3, Moved DEF MonitorTypeOK
<1>5. LockInv'
  BY <1>1, <1>2, <1>3, LockKept DEF LockedPC
<1>6. WaiterInv'
  BY <1>1, <1>2, <1>3, WaitersKept DEF WaiterPC
<1>7. ItemInv'
  BY <1>1, <1>2, Moved DEF ItemInv
<1> QED BY <1>3, <1>4, <1>5, <1>6, <1>7 DEF MonitorInv

(* Lock::Acquire, wherever it is called. *)
LEMMA AcquireAtKeeps ==
  ASSUME MonitorInv, NEW t \in Thread, NEW from \in PC \ LockedPC, NEW to \in LockedPC \ {"appended"},
         from # "waiting", from \in WaiterPC <=> to \in WaiterPC,
         to = "appendLocked" => from = "append",
         PFromTo(t, ListLock, from, to)
  PROVE  MonitorInv'
<1> USE InvParts, Waiters
<1>1. SemaphoreInv'
  BY TakeKeeps, WaitKeeps DEF PFromTo
<1>2. to \in PC /\ to # "waiting"
  BY DEF LockedPC, PC
<1>3. CASE UNCHANGED <<pc, value>>
  BY <1>1, <1>3, PEffect, NothingMoves DEF MonitorInv
<1>4. CASE ~ UNCHANGED <<pc, value>>
  <2>1. /\ pc[t] = from /\ Goto(t, to) /\ UNCHANGED <<list, waitQueue, live, lockHolder, item, received>>
        /\ value[ListLock] > 0 /\ value'[ListLock] = value[ListLock] - 1
        /\ \A r \in Semaphore : r # ListLock => value'[r] = value[r]
    BY <1>4, PEffect
  <2>2. MonitorTypeOK' /\ ItemInv'
    BY <1>2, <2>1, Moved DEF MonitorTypeOK, ItemInv, LockedPC
  <2>3. LockInv'
    BY <2>1, LockTaken
  <2>4. WaiterInv'
    BY <1>2, <2>1, WaitersKept
  <2> QED BY <1>1, <2>2, <2>3, <2>4 DEF MonitorInv
<1> QED BY <1>3, <1>4

LEMMA AcquireKeeps ==
  ASSUME MonitorInv, NEW t \in Thread, Acquire(t)
  PROVE  MonitorInv'
<1>1. /\ {"append", "remove", "reacquire", "apply"} \subseteq PC \ LockedPC
      /\ {"appendLocked", "removeLocked", "woken", "applyLocked"} \subseteq LockedPC \ {"appended"}
      /\ \A l \in {"append", "appendLocked", "remove", "removeLocked", "apply", "applyLocked"} :
           l \notin WaiterPC
      /\ {"reacquire", "woken"} \subseteq WaiterPC
  BY DEF PC, LockedPC, WaiterPC
<1> QED BY <1>1, AcquireAtKeeps DEF Acquire

(* The end of a critical section that leaves the waiters alone. *)
LEMMA ReleaseKeeps ==
  ASSUME MonitorInv, NEW t \in Thread, Release, Goto(t, "outside"),
         pc[t] \in {"appendLocked", "appended", "removeLocked", "applyLocked"},
         UNCHANGED <<waitQueue, live>>,
         list' \in Seq(Item), item' \in [Thread -> Item \cup {None}],
         \A u \in Thread : u # t => item'[u] = item[u],
         received' \in [Thread -> Item \cup {None}]
  PROVE  MonitorInv'
<1> USE InvParts, Waiters
<1>1. SemaphoreInv'
  BY VKeeps DEF Release
<1>2. /\ lockHolder' = None /\ value'[ListLock] = value[ListLock] + 1
      /\ \A r \in Semaphore : r # ListLock => value'[r] = value[r]
  BY VEffect DEF Release
<1>3. "outside" \in PC \ LockedPC /\ "outside" \notin WaiterPC /\ pc[t] \in LockedPC
      /\ pc[t] \notin WaiterPC
  BY DEF PC, LockedPC, WaiterPC
<1>4. MonitorTypeOK' /\ ItemInv'
  BY <1>2, <1>3, Moved DEF MonitorTypeOK, ItemInv
<1>5. LockInv'
  BY <1>2, <1>3, LockReleased
<1>6. WaiterInv'
  BY <1>2, <1>3, WaitersKept
<1> QED BY <1>1, <1>4, <1>5, <1>6 DEF MonitorInv

LEMMA ApplyKeeps ==
  ASSUME MonitorInv, NEW t \in Thread, Apply(t) \/ ReleaseAfterAppend(t)
  PROVE  MonitorInv'
BY InvParts, ReleaseKeeps DEF Apply, ReleaseAfterAppend, MonitorTypeOK

(* Append: the signal gives the first waiter the unit it waits for. *)
LEMMA AppendItemKeeps ==
  ASSUME MonitorInv, NEW t \in Thread, AppendItem(t)
  PROVE  MonitorInv'
<1> USE InvParts, Waiters
<1>1. /\ pc[t] = "appendLocked" /\ UNCHANGED <<live, received>>
      /\ item[t] \in Item /\ list' = Append(list, item[t])
      /\ item' \in [Thread -> Item \cup {None}]
      /\ \A u \in Thread : u # t => item'[u] = item[u]
  BY DEF AppendItem, ItemAppended, MonitorTypeOK, ItemInv
<1>2. list' \in Seq(Item)
  BY <1>1, AppendFacts DEF MonitorTypeOK
<1>3. CASE waitQueue = <<>>
  BY <1>1, <1>2, <1>3, ReleaseKeeps DEF AppendItem, SignalNeeded, MonitorTypeOK
<1>4. CASE waitQueue # <<>>
  <2> DEFINE w == Head(waitQueue)
  <2>1. V(w) /\ waitQueue' = Tail(waitQueue) /\ lockHolder' = t /\ Goto(t, "appended")
    BY <1>4 DEF AppendItem, SignalNeeded, WaitersAfterSignal
  <2>2. waitQueue \in Seq(Semaphore) /\ NoRepeats(waitQueue)
    BY DEF MonitorTypeOK, WaiterInv
  <2>3. /\ w \in Semaphore /\ w \in Members(waitQueue)
        /\ Tail(waitQueue) \in Seq(Semaphore) /\ NoRepeats(Tail(waitQueue))
        /\ w \notin Members(Tail(waitQueue))
        /\ Members(Tail(waitQueue)) = Members(waitQueue) \ {w}
    BY <1>4, <2>2, TailFacts
  <2>4. waitQueue' \in Seq(Semaphore) /\ NoRepeats(waitQueue)'
        /\ Members(waitQueue)' = Members(waitQueue) \ {w}
    BY <2>1, <2>3 DEF NoRepeats, Members
  <2>5. PICK u \in Thread : WaiterOf[u] = w /\ pc[u] = "waiting"
    BY <2>3 DEF WaiterInv
  <2>6. value'[w] = value[w] + 1 /\ \A r \in Semaphore : r # w => value'[r] = value[r]
    BY <2>1, <2>3, VEffect
  <2>7. "appended" \in PC /\ "appended" \in LockedPC /\ pc[t] \in LockedPC
    BY <1>1 DEF PC, LockedPC
  <2>8. SemaphoreInv'
    BY <2>1, <2>3, VKeeps
  <2>9. MonitorTypeOK' /\ ItemInv'
    BY <1>1, <1>2, <2>1, <2>4, <2>7, Moved DEF MonitorTypeOK, ItemInv
  <2>10. LockInv'
    <3>1. t \in Locked /\ Locked' = Locked
      BY <2>1, <2>7, Moved
    <3>2. Locked = {t} /\ value[ListLock] = 0
      BY <3>1 DEF LockInv
    <3>3. value'[ListLock] = 0
      BY <2>5, <2>6, <3>2
    <3>4. pc'[t] = "appended" /\ \A v \in Thread : pc'[v] = "appended" => v = t
      BY <2>1, <2>7, <3>1, <3>2, Moved DEF Locked
    <3> QED BY <2>1, <3>1, <3>2, <3>3, <3>4 DEF LockInv
  <2>11. WaiterInv'
    <3>1. \A v \in Thread : (pc'[v] = "waiting" <=> pc[v] = "waiting")
                            /\ (pc'[v] \in WaiterPC <=> pc[v] \in WaiterPC)
      BY <1>1, <2>1, <2>7, Moved DEF WaiterPC
    <3>2. \A r \in Members(waitQueue)' : \E v \in Thread : WaiterOf[v] = r /\ pc'[v] = "waiting"
      BY <2>4, <3>1 DEF WaiterInv
    <3>3. \A v \in Thread : WaiterOf[v] \in live' <=> pc'[v] \in WaiterPC
      BY <1>1, <3>1 DEF WaiterInv
    <3>4. ASSUME NEW v \in Thread
          PROVE  value'[WaiterOf[v]] =
                   IF pc'[v] = "waiting" /\ WaiterOf[v] \notin Members(waitQueue)' THEN 1 ELSE 0
      <4>1. CASE v = u
        BY <2>3, <2>4, <2>5, <2>6, <3>1, <4>1 DEF WaiterInv
      <4>2. CASE v # u
        <5>1. WaiterOf[v] # w /\ value'[WaiterOf[v]] = value[WaiterOf[v]]
          BY <2>5, <2>6, <4>2
        <5> QED BY <2>4, <3>1, <5>1 DEF WaiterInv
      <4> QED BY <4>1, <4>2
    <3> QED BY <2>4, <3>2, <3>3, <3>4 DEF WaiterInv
  <2> QED BY <2>8, <2>9, <2>10, <2>11 DEF MonitorInv
<1> QED BY <1>3, <1>4

(* RemoveFront finds no item: a new semaphore, without a unit, joins the condition's queue,  *)
(* and the lock is given up.                                                                *)
LEMMA WaitForItemKeeps ==
  ASSUME MonitorInv, NEW t \in Thread, pc[t] \in {"removeLocked", "woken"}, WaitForItem(t)
  PROVE  MonitorInv'
<1> USE InvParts, Waiters
<1> DEFINE w == WaiterOf[t]
<1>1. w \in Semaphore /\ w # ListLock /\ value[w] = 0 /\ w \notin Members(waitQueue)
  <2>1. pc[t] # "waiting" /\ w \notin Members(waitQueue)
    BY DEF WaiterInv
  <2> QED BY <2>1 DEF WaiterInv
<1>2. V(ListLock)
  BY <1>1 DEF WaitForItem, WaiterStart, V, SemaphoreTypeOK
<1>3. /\ waitQueue' = Append(waitQueue, w) /\ live' = live \cup {w} /\ lockHolder' = None
      /\ Goto(t, "waiting") /\ UNCHANGED <<list, item, received>>
  BY DEF WaitForItem
<1>4. /\ value'[ListLock] = value[ListLock] + 1
      /\ \A r \in Semaphore : r # ListLock => value'[r] = value[r]
  BY <1>2, VEffect
<1>5. /\ waitQueue' \in Seq(Semaphore) /\ NoRepeats(waitQueue)'
      /\ Members(waitQueue)' = Members(waitQueue) \cup {w}
  <2>1. waitQueue \in Seq(Semaphore) /\ NoRepeats(waitQueue)
    BY DEF MonitorTypeOK, WaiterInv
  <2>2. /\ Append(waitQueue, w) \in Seq(Semaphore) /\ NoRepeats(Append(waitQueue, w))
        /\ Members(Append(waitQueue, w)) = Members(waitQueue) \cup {w}
    BY <1>1, <2>1, AppendFacts
  <2> QED BY <1>3, <2>2 DEF NoRepeats, Members
<1>6. "waiting" \in PC \ LockedPC /\ "waiting" \in WaiterPC /\ pc[t] \in LockedPC
  BY DEF PC, LockedPC, WaiterPC
<1>7. SemaphoreInv'
  BY <1>2, VKeeps
<1>8. MonitorTypeOK' /\ ItemInv'
  BY <1>1, <1>3, <1>5, <1>6, Moved DEF MonitorTypeOK, ItemInv
<1>9. LockInv'
  BY <1>3, <1>4, <1>6, LockReleased
<1>10. WaiterInv'
  <2>1. pc'[t] = "waiting" /\ \A u \in Thread : u # t => pc'[u] = pc[u] /\ WaiterOf[u] # w
    BY <1>3, <1>6, Moved
  <2>2. \A r \in Members(waitQueue)' : \E u \in Thread : WaiterOf[u] = r /\ pc'[u] = "waiting"
    <3>1. ASSUME NEW r \in Members(waitQueue)
          PROVE  \E u \in Thread : WaiterOf[u] = r /\ pc'[u] = "waiting"
      BY <2>1 DEF WaiterInv
    <3> QED BY <1>5, <2>1, <3>1
  <2>3. \A u \in Thread : WaiterOf[u] \in live' <=> pc'[u] \in WaiterPC
    BY <1>3, <1>6, <2>1 DEF WaiterInv
  <2>4. \A u \in Thread : value'[WaiterOf[u]] = value[WaiterOf[u]]
    BY <1>4
  <2>5. \A u \in Thread :
          value'[WaiterOf[u]] =
            IF pc'[u] = "waiting" /\ WaiterOf[u] \notin Members(waitQueue)' THEN 1 ELSE 0
    <3>1. value'[w] = 0 /\ w \in Members(waitQueue)'
      BY <1>1, <1>5, <2>4
    <3>2. ASSUME NEW u \in Thread, u # t
          PROVE  value'[WaiterOf[u]] =
                   IF pc'[u] = "waiting" /\ WaiterOf[u] \notin Members(waitQueue)' THEN 1 ELSE 0
      BY <1>5, <2>1, <2>4, <3>2 DEF WaiterInv
    <3> QED BY <3>1, <3>2
  <2> QED BY <1>5, <2>2, <2>3, <2>5 DEF WaiterInv
<1> QED BY <1>7, <1>8, <1>9, <1>10 DEF MonitorInv

(* What TakeItem does to the types. *)
LEMMA TakeItemTypes ==
  ASSUME MonitorInv, NEW t \in Thread, list # <<>>, TakeItem(t)
  PROVE  /\ list' \in Seq(Item) /\ received' \in [Thread -> Item \cup {None}]
         /\ UNCHANGED <<waitQueue, item>> /\ Release /\ Goto(t, "outside")
<1>1. list \in Seq(Item) /\ received \in [Thread -> Item \cup {None}]
  BY InvParts DEF MonitorTypeOK
<1>2. Head(list) \in Item /\ Tail(list) \in Seq(Item)
  BY <1>1, TailFacts
<1> QED BY <1>1, <1>2 DEF TakeItem

LEMMA TestListKeeps ==
  ASSUME MonitorInv, NEW t \in Thread, TestList(t)
  PROVE  MonitorInv'
<1>1. CASE list = <<>>
  BY <1>1, WaitForItemKeeps DEF TestList, Empty
<1>2. CASE list # <<>>
  BY <1>2, TakeItemTypes, ReleaseKeeps, InvParts DEF TestList, Empty, MonitorTypeOK
<1> QED BY <1>1, <1>2

(* A remover that has waited frees its semaphore; nobody is asleep in it or may signal it.   *)
LEMMA TestListAgainKeeps ==
  ASSUME MonitorInv, NEW t \in Thread, TestListAgain(t)
  PROVE  MonitorInv'
<1> USE InvParts, Waiters
<1>1. CASE list = <<>>
  BY <1>1, WaitForItemKeeps DEF TestListAgain, Empty
<1>2. CASE list # <<>>
  <2>1. /\ pc[t] = "woken" /\ TakeItem(t) /\ live' = live \ {WaiterOf[t]}
    BY <1>2 DEF TestListAgain, Empty
  <2>2. /\ list' \in Seq(Item) /\ received' \in [Thread -> Item \cup {None}]
        /\ UNCHANGED <<waitQueue, item>> /\ Release /\ Goto(t, "outside")
    BY <1>2, <2>1, TakeItemTypes
  <2>3. SemaphoreInv'
    BY <2>2, VKeeps DEF Release
  <2>4. /\ lockHolder' = None /\ value'[ListLock] = value[ListLock] + 1
        /\ \A r \in Semaphore : r # ListLock => value'[r] = value[r]
    BY <2>2, VEffect DEF Release
  <2>5. "outside" \in PC \ LockedPC /\ "outside" \notin WaiterPC /\ pc[t] \in LockedPC
    BY <2>1 DEF PC, LockedPC, WaiterPC
  <2>6. MonitorTypeOK' /\ ItemInv'
    BY <2>1, <2>2, <2>4, <2>5, Moved DEF MonitorTypeOK, ItemInv
  <2>7. LockInv'
    BY <2>2, <2>4, <2>5, LockReleased
  <2>8. WaiterInv'
    <3>1. pc'[t] = "outside" /\ \A u \in Thread : u # t => pc'[u] = pc[u] /\ WaiterOf[u] # WaiterOf[t]
      BY <2>2, <2>5, Moved
    <3>2. \A u \in Thread : pc'[u] = "waiting" <=> pc[u] = "waiting"
      BY <2>1, <3>1
    <3>3. Members(waitQueue)' = Members(waitQueue) /\ NoRepeats(waitQueue)'
      BY <2>2 DEF WaiterInv, Members, NoRepeats
    <3>4. \A r \in Members(waitQueue)' : \E u \in Thread : WaiterOf[u] = r /\ pc'[u] = "waiting"
      BY <3>2, <3>3 DEF WaiterInv
    <3>5. \A u \in Thread : WaiterOf[u] \in live' <=> pc'[u] \in WaiterPC
      BY <2>1, <2>5, <3>1 DEF WaiterInv
    <3>6. \A u \in Thread : value'[WaiterOf[u]] = value[WaiterOf[u]]
      BY <2>4
    <3> QED BY <3>2, <3>3, <3>4, <3>5, <3>6 DEF WaiterInv
  <2> QED BY <2>3, <2>6, <2>7, <2>8 DEF MonitorInv
<1> QED BY <1>1, <1>2

(* Condition::Wait sleeps in its own semaphore, and leaves it with the unit of its signal.   *)
LEMMA WaitPKeeps ==
  ASSUME MonitorInv, NEW t \in Thread, WaitP(t)
  PROVE  MonitorInv'
<1> USE InvParts, Waiters
<1> DEFINE w == WaiterOf[t]
<1>1. PFromTo(t, w, "waiting", "reacquire") /\ w \in Semaphore /\ w # ListLock
  BY DEF WaitP
<1>2. SemaphoreInv'
  BY <1>1, TakeKeeps, WaitKeeps DEF PFromTo
<1>3. CASE UNCHANGED <<pc, value>>
  BY <1>1, <1>2, <1>3, PEffect, NothingMoves DEF MonitorInv
<1>4. CASE ~ UNCHANGED <<pc, value>>
  <2>1. /\ pc[t] = "waiting" /\ Goto(t, "reacquire")
        /\ UNCHANGED <<list, waitQueue, live, lockHolder, item, received>>
        /\ value[w] > 0 /\ value'[w] = value[w] - 1
        /\ \A r \in Semaphore : r # w => value'[r] = value[r]
    BY <1>1, <1>4, PEffect
  <2>2. "reacquire" \in PC /\ "reacquire" \notin LockedPC /\ "waiting" \notin LockedPC
        /\ "reacquire" \in WaiterPC /\ "waiting" \in WaiterPC
    BY DEF PC, LockedPC, WaiterPC
  <2>3. MonitorTypeOK' /\ ItemInv'
    BY <2>1, <2>2, Moved DEF MonitorTypeOK, ItemInv
  <2>4. LockInv'
    BY <1>1, <2>1, <2>2, LockKept
  <2>5. WaiterInv'
    <3>1. w \notin Members(waitQueue) /\ value'[w] = 0
      BY <2>1 DEF WaiterInv
    <3>2. pc'[t] = "reacquire" /\ \A u \in Thread : u # t => pc'[u] = pc[u] /\ WaiterOf[u] # w
      BY <2>1, <2>2, Moved
    <3>3. Members(waitQueue)' = Members(waitQueue) /\ NoRepeats(waitQueue)'
      BY <2>1 DEF WaiterInv, Members, NoRepeats
    <3>4. ASSUME NEW r \in Members(waitQueue)
          PROVE  \E u \in Thread : WaiterOf[u] = r /\ pc'[u] = "waiting"
      <4>1. PICK u \in Thread : WaiterOf[u] = r /\ pc[u] = "waiting"
        BY DEF WaiterInv
      <4> QED BY <3>1, <3>2, <4>1
    <3>5. \A u \in Thread : WaiterOf[u] \in live' <=> pc'[u] \in WaiterPC
      BY <2>1, <2>2, <3>2 DEF WaiterInv
    <3>6. ASSUME NEW u \in Thread, u # t
          PROVE  value'[WaiterOf[u]] =
                   IF pc'[u] = "waiting" /\ WaiterOf[u] \notin Members(waitQueue)' THEN 1 ELSE 0
      BY <2>1, <3>2, <3>3, <3>6 DEF WaiterInv
    <3> QED BY <3>1, <3>2, <3>3, <3>4, <3>5, <3>6 DEF WaiterInv
  <2> QED BY <1>2, <2>3, <2>4, <2>5 DEF MonitorInv
<1> QED BY <1>3, <1>4

-----------------------------------------------------------------------------
LEMMA InitInv == Init => MonitorInv
<1> SUFFICES ASSUME Init PROVE MonitorInv
  OBVIOUS
<1> USE Waiters DEF Init
<1>1. SemaphoreInv
  BY SemaphoreInitInv
<1>2. MonitorTypeOK /\ ItemInv
  BY EmptySeq DEF MonitorTypeOK, ItemInv, PC
<1>3. Locked = {} /\ value = InitialValue
  BY DEF Locked, SemaphoreInit
<1>4. LockInv
  BY <1>3, SynchListAssumption DEF LockInv
<1>5. NoRepeats(waitQueue) /\ Members(waitQueue) = {}
  BY DEF NoRepeats, Members
<1>6. WaiterInv
  BY <1>3, <1>5, SynchListAssumption DEF WaiterInv, WaiterPC
<1> QED BY <1>1, <1>2, <1>4, <1>6 DEF MonitorInv

LEMMA NextInv == MonitorInv /\ [Next]_vars => MonitorInv'
<1> SUFFICES ASSUME MonitorInv, [Next]_vars PROVE MonitorInv'
  OBVIOUS
<1>1. CASE UNCHANGED vars
  <2>1. /\ UNCHANGED <<list, waitQueue, live, lockHolder, pc, item, received, value>>
        /\ UNCHANGED semaphoreVars
    BY <1>1 DEF vars, monitorVars, semaphoreVars
  <2>2. SemaphoreInv'
    BY <2>1, InvParts, SemaphoreNextInv
  <2> QED BY <2>1, <2>2, NothingMoves DEF MonitorInv
<1>2. ASSUME NEW t \in Thread, Call(t) \/ Step(t)
      PROVE  MonitorInv'
  BY <1>2, CallKeeps, AcquireKeeps, AppendItemKeeps, ApplyKeeps, TestListKeeps, WaitPKeeps,
     TestListAgainKeeps DEF Step
<1> QED BY <1>1, <1>2 DEF Next

(* Every reachable state of the monitor satisfies MonitorInv. *)
THEOREM InvariantHolds == Spec => []MonitorInv
BY InitInv, NextInv, PTL DEF Spec

(* Types, of the semaphores too. *)
THEOREM TypeCorrect == Spec => []TypeOK
<1>1. MonitorInv => TypeOK
  BY InvParts
<1> QED BY <1>1, InvariantHolds, PTL

(* The lock of Append, RemoveFront and Apply excludes, across the Release and Acquire in    *)
(* Condition::Wait; the assertions on lockHolder in Release and Signal hold.                *)
THEOREM LockExcludes == Spec => []MutualExclusion
<1>1. ASSUME MonitorInv PROVE MutualExclusion
  <2>1. value[ListLock] + Cardinality(Locked) = 1
    <3>1. CASE value[ListLock] = 1 /\ Locked = {}
      BY <3>1, FS_EmptySet
    <3>2. CASE value[ListLock] = 0 /\ \E t \in Thread : Locked = {t}
      <4>1. PICK t \in Thread : Locked = {t}
        BY <3>2
      <4>2. Cardinality({t}) = 1
        BY FS_Singleton
      <4> QED BY <3>2, <4>1, <4>2
    <3>3. LockInv
      BY <1>1, InvParts
    <3> QED BY <3>1, <3>2, <3>3 DEF LockInv
  <2>2. lockHolder # None => lockHolder \in Locked
    BY <1>1, InvParts DEF LockInv, Locked
  <2> QED BY <1>1, <2>1, <2>2, InvParts DEF MutualExclusion, LockInv
<1> QED BY <1>1, InvariantHolds, PTL

(* Condition::Signal never finds a semaphore that Condition::Wait has deleted. *)
THEOREM WaitersAreAlive == Spec => []NoDanglingWaiter
<1>1. ASSUME MonitorInv PROVE NoDanglingWaiter
  <2> USE <1>1, InvParts
  <2>1. ASSUME NEW i \in DOMAIN waitQueue
        PROVE  waitQueue[i] \in live
               /\ \E t \in Thread : WaiterOf[t] = waitQueue[i] /\ pc[t] = "waiting"
    <3>1. PICK t \in Thread : WaiterOf[t] = waitQueue[i] /\ pc[t] = "waiting"
      BY <2>1 DEF WaiterInv, Members
    <3>2. WaiterOf[t] \in live
      BY <3>1 DEF WaiterInv, WaiterPC
    <3> QED BY <3>1, <3>2
  <2> QED BY <2>1 DEF NoDanglingWaiter, WaiterInv, WaiterPC, NoRepeats
<1> QED BY <1>1, InvariantHolds, PTL

(* A signal between the Release and the P of Condition::Wait is not lost. *)
THEOREM SignalsAreKept == Spec => []SignalIsKept
<1>1. ASSUME MonitorInv PROVE SignalIsKept
  <2>1. \A w : w \in Members(waitQueue) <=> \E i \in DOMAIN waitQueue : waitQueue[i] = w
    BY DEF Members
  <2> QED BY <1>1, <2>1, InvParts DEF SignalIsKept, WaiterInv
<1> QED BY <1>1, InvariantHolds, PTL

-----------------------------------------------------------------------------
(* The monitor implements the queue: Append happens when the item is linked in, RemoveFront *)
(* when it is taken out, whatever waits and wake-ups come before.                           *)

(* The request of a thread that moves, and of nobody else, changes. *)
LEMMA RequestsMove ==
  ASSUME MonitorInv, NEW t \in Thread, NEW l \in PC, Goto(t, l),
         \A u \in Thread : u # t => item'[u] = item[u],
         NEW r,
         r = CASE l \in {"append", "appendLocked"} -> [op |-> "append", item |-> item'[t]]
               [] l \in {"remove", "removeLocked", "waiting", "reacquire", "woken"} ->
                    [op |-> "remove", item |-> None]
               [] OTHER -> [op |-> "none", item |-> None]
  PROVE  Requests' = [Requests EXCEPT ![t] = r]
<1>1. pc'[t] = l /\ \A u \in Thread : u # t => pc'[u] = pc[u]
  BY InvParts, Moved
<1> QED BY <1>1 DEF Requests

LEMMA RequestEnds ==
  ASSUME MonitorInv, NEW t \in Thread, NEW l \in {"appended", "outside"}, Goto(t, l),
         \A u \in Thread : u # t => item'[u] = item[u]
  PROVE  Requests' = [Requests EXCEPT ![t] = Q!Idle]
<1>1. l \in PC
  BY DEF PC
<1>2. pc'[t] = l /\ \A u \in Thread : u # t => pc'[u] = pc[u]
  BY <1>1, InvParts, Moved
<1>3. Requests'[t] = Q!Idle /\ \A u \in Thread : u # t => Requests'[u] = Requests[u]
  BY <1>2 DEF Requests, Q!Idle
<1> QED BY <1>3 DEF Requests

LEMMA RequestsStay ==
  ASSUME UNCHANGED <<pc, item>>
  PROVE  UNCHANGED Requests
BY DEF Requests

LEMMA CallRefines ==
  ASSUME MonitorInv, NEW t \in Thread, Call(t)
  PROVE  Q!Call(t)
<1>1. PICK l \in {"append", "remove", "apply"} :
        /\ Goto(t, l)
        /\ \/ l = "append" /\ \E x \in Item : item' = [item EXCEPT ![t] = x]
           \/ l # "append" /\ item' = item
  BY DEF Call
<1>2. l \in PC /\ item \in [Thread -> Item \cup {None}]
  BY InvParts DEF PC, MonitorTypeOK
<1>3. Requests[t] = Q!Idle /\ received' = [received EXCEPT ![t] = None] /\ list' = list
  BY DEF Call, Requests, Q!Idle
<1>4. CASE l = "append"
  <2>1. PICK x \in Item : item' = [item EXCEPT ![t] = x]
    BY <1>1, <1>4
  <2>2. Requests' = [Requests EXCEPT ![t] = Q!Appending(x)]
    BY <1>1, <1>2, <1>4, <2>1, RequestsMove DEF Q!Appending
  <2> QED BY <1>3, <2>2 DEF Q!Call
<1>5. CASE l = "remove"
  <2>1. Requests' = [Requests EXCEPT ![t] = Q!Removing]
    BY <1>1, <1>2, <1>5, RequestsMove DEF Q!Removing
  <2> QED BY <1>3, <2>1 DEF Q!Call
<1>6. CASE l = "apply"
  <2>1. Requests' = [Requests EXCEPT ![t] = Q!Idle]
    BY <1>1, <1>2, <1>6, RequestsMove DEF Q!Idle
  <2> QED BY <1>3, <2>1 DEF Q!Call
<1> QED BY <1>4, <1>5, <1>6

(* A move between two places of the same request is no step of the queue. *)
LEMMA SilentMove ==
  ASSUME MonitorInv, NEW t \in Thread, NEW l \in PC, Goto(t, l), UNCHANGED <<list, item, received>>,
         \/ pc[t] = "append" /\ l = "appendLocked"
         \/ {pc[t], l} \subseteq {"remove", "removeLocked", "waiting", "reacquire", "woken"}
         \/ {pc[t], l} \subseteq {"outside", "appended", "apply", "applyLocked"}
  PROVE  UNCHANGED Q!vars
<1>1. pc'[t] = l /\ \A u \in Thread : u # t => pc'[u] = pc[u]
  BY InvParts, Moved
<1>2. UNCHANGED Requests
  BY <1>1 DEF Requests
<1> QED BY <1>2 DEF Q!vars

LEMMA PRefines ==
  ASSUME MonitorInv, NEW t \in Thread, Acquire(t) \/ WaitP(t)
  PROVE  UNCHANGED Q!vars
<1> USE InvParts, Waiters
<1>1. ASSUME NEW s \in Semaphore, NEW from, NEW to \in PC, PFromTo(t, s, from, to),
             \/ from = "append" /\ to = "appendLocked"
             \/ {from, to} \subseteq {"remove", "removeLocked", "waiting", "reacquire", "woken"}
             \/ {from, to} \subseteq {"outside", "appended", "apply", "applyLocked"}
      PROVE  UNCHANGED Q!vars
  <2>1. pc[t] = from /\ UNCHANGED <<list, item, received>> /\ (Goto(t, to) \/ UNCHANGED pc)
    BY <1>1, PEffect
  <2>2. CASE UNCHANGED pc
    BY <2>1, <2>2, RequestsStay DEF Q!vars
  <2>3. CASE Goto(t, to)
    BY <1>1, <2>1, <2>3, SilentMove
  <2> QED BY <2>1, <2>2, <2>3
<1>2. {"appendLocked", "removeLocked", "reacquire", "woken", "applyLocked"} \subseteq PC
  BY DEF PC
<1>3. CASE PFromTo(t, ListLock, "append", "appendLocked")
  BY <1>1, <1>2, <1>3
<1>4. CASE PFromTo(t, ListLock, "remove", "removeLocked")
  BY <1>1, <1>2, <1>4
<1>5. CASE PFromTo(t, ListLock, "reacquire", "woken")
  BY <1>1, <1>2, <1>5
<1>6. CASE PFromTo(t, ListLock, "apply", "applyLocked")
  BY <1>1, <1>2, <1>6
<1>7. CASE PFromTo(t, WaiterOf[t], "waiting", "reacquire")
  BY <1>1, <1>2, <1>7
<1> QED BY <1>3, <1>4, <1>5, <1>6, <1>7 DEF Acquire, WaitP

LEMMA AppendRefines ==
  ASSUME MonitorInv, NEW t \in Thread, AppendItem(t)
  PROVE  Q!AppendItem(t)
<1>1. item \in [Thread -> Item \cup {None}]
  BY InvParts DEF MonitorTypeOK
<1>2. /\ pc[t] = "appendLocked" /\ list' = Append(list, item[t])
      /\ item' = [item EXCEPT ![t] = None] /\ received' = received
  BY DEF AppendItem, ItemAppended
<1>3. PICK l \in {"appended", "outside"} : Goto(t, l)
  BY DEF AppendItem
<1>4. Requests' = [Requests EXCEPT ![t] = Q!Idle]
  BY <1>1, <1>2, <1>3, RequestEnds
<1>5. Requests[t] = [op |-> "append", item |-> item[t]]
  BY <1>2 DEF Requests
<1> QED BY <1>2, <1>4, <1>5 DEF Q!AppendItem

LEMMA RemoveRefines ==
  ASSUME MonitorInv, NEW t \in Thread, TestList(t) \/ TestListAgain(t)
  PROVE  [Q!RemoveItem(t)]_(Q!vars)
<1>1. pc[t] \in {"removeLocked", "woken"}
  BY DEF TestList, TestListAgain
<1>2. CASE list = <<>>
  <2>1. WaitForItem(t)
    BY <1>2 DEF TestList, TestListAgain, Empty
  <2>2. Goto(t, "waiting") /\ UNCHANGED <<list, item, received>> /\ "waiting" \in PC
    BY <2>1 DEF WaitForItem, PC
  <2> QED BY <1>1, <2>2, SilentMove
<1>3. CASE list # <<>>
  <2>1. TakeItem(t)
    BY <1>3 DEF TestList, TestListAgain, Empty
  <2>2. /\ received' = [received EXCEPT ![t] = Head(list)] /\ list' = Tail(list)
        /\ Goto(t, "outside") /\ item' = item
    BY <2>1 DEF TakeItem
  <2>3. Requests' = [Requests EXCEPT ![t] = Q!Idle]
    BY <2>2, RequestEnds
  <2>4. Requests[t].op = "remove"
    BY <1>1 DEF Requests
  <2> QED BY <1>3, <2>2, <2>3, <2>4 DEF Q!RemoveItem
<1> QED BY <1>2, <1>3

LEMMA ReturnRefines ==
  ASSUME MonitorInv, NEW t \in Thread, Apply(t) \/ ReleaseAfterAppend(t)
  PROVE  UNCHANGED Q!vars
<1>1. /\ pc[t] \in {"appended", "applyLocked"} /\ Goto(t, "outside")
      /\ UNCHANGED <<list, item, received>> /\ "outside" \in PC
  BY DEF Apply, ReleaseAfterAppend, PC
<1> QED BY <1>1, SilentMove

(* Whatever threads append, remove, wait and are woken: the list is a FIFO queue whose      *)
(* operations happen at one instant.                                                        *)
THEOREM Refinement == Spec => ImplementsFIFOQueue
<1>1. Init => Q!Init
  BY DEF Init, Q!Init, Requests, Q!Idle
<1>2. ASSUME MonitorInv, [Next]_vars PROVE [Q!Next]_(Q!vars)
  <2>1. CASE UNCHANGED vars
    BY <2>1, RequestsStay DEF vars, monitorVars, Q!vars
  <2>2. ASSUME NEW t \in Thread, Call(t) \/ Step(t) PROVE [Q!Next]_(Q!vars)
    BY <1>2, <2>2, CallRefines, PRefines, AppendRefines, RemoveRefines, ReturnRefines
       DEF Step, Q!Next
  <2> QED BY <1>2, <2>1, <2>2 DEF Next
<1> QED BY <1>1, <1>2, InvariantHolds, PTL DEF Spec, ImplementsFIFOQueue, Q!Spec
=============================================================================

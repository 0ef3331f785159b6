------------------------- MODULE Semaphores_proofs --------------------------
(***************************************************************************)
(* Proofs about Semaphores, for any number of threads and semaphores: the  *)
(* queues are in order and no wake-up is lost.  The modules that build on  *)
(* P and V inherit both by showing that their steps are steps of           *)
(* SemaphoreSpec (see Threads_proofs).                                     *)
(***************************************************************************)
EXTENDS Semaphores, FiniteSetTheorems, SequenceTheorems, TLAPS

(* What stands on a list, and that nothing stands on it twice. *)
Members(list) == {list[i] : i \in DOMAIN list}
NoRepeats(list) == \A i, j \in DOMAIN list : list[i] = list[j] => i = j

(* A list of the kernel grows at its end. *)
LEMMA AppendFacts ==
  ASSUME NEW S, NEW list \in Seq(S), NEW e \in S
  PROVE  /\ Append(list, e) \in Seq(S)
         /\ Append(list, e) # <<>>
         /\ Members(Append(list, e)) = Members(list) \cup {e}
         /\ NoRepeats(list) /\ e \notin Members(list) => NoRepeats(Append(list, e))
<1> DEFINE r == Append(list, e)
           n == Len(list)
<1>1. /\ r \in Seq(S) /\ r # <<>> /\ Len(r) = n + 1
      /\ \A i \in 1 .. n : r[i] = list[i]
      /\ r[n + 1] = e
  BY AppendProperties
<1>2. n \in Nat /\ DOMAIN list = 1 .. n /\ DOMAIN r = 1 .. n + 1
  BY <1>1, LenProperties
<1>3. Members(r) = Members(list) \cup {e}
  <2>1. \A i \in 1 .. n + 1 : i \in 1 .. n \/ i = n + 1
    BY <1>2
  <2>2. 1 .. n \subseteq 1 .. n + 1 /\ n + 1 \in 1 .. n + 1
    BY <1>2
  <2> QED BY <1>1, <1>2, <2>1, <2>2 DEF Members
<1>4. ASSUME NoRepeats(list), e \notin Members(list)
      PROVE  NoRepeats(r)
  <2>1. \A i \in 1 .. n : list[i] # e
    BY <1>2, <1>4 DEF Members
  <2>2. \A i, j \in 1 .. n : list[i] = list[j] => i = j
    BY <1>2, <1>4 DEF NoRepeats
  <2> QED BY <1>1, <1>2, <2>1, <2>2 DEF NoRepeats
<1> QED BY <1>1, <1>3, <1>4

(* RemoveFront takes exactly the head. *)
LEMMA TailFacts ==
  ASSUME NEW S, NEW list \in Seq(S), list # <<>>
  PROVE  /\ Head(list) \in S /\ Head(list) \in Members(list)
         /\ Tail(list) \in Seq(S)
         /\ Members(Tail(list)) \subseteq Members(list)
         /\ Members(list) \subseteq Members(Tail(list)) \cup {Head(list)}
         /\ NoRepeats(list) => /\ NoRepeats(Tail(list))
                               /\ Head(list) \notin Members(Tail(list))
                               /\ Members(Tail(list)) = Members(list) \ {Head(list)}
<1> DEFINE r == Tail(list)
           n == Len(list)
<1>1. n \in Nat \ {0} /\ DOMAIN list = 1 .. n
  BY EmptySeq, LenProperties
<1>2. /\ Head(list) \in S /\ r \in Seq(S) /\ Len(r) = n - 1
      /\ \A i \in 1 .. Len(r) : r[i] = list[i + 1]
  BY HeadTailProperties
<1>3. DOMAIN r = 1 .. n - 1
  BY <1>2, LenProperties
<1>4. \A i \in 1 .. n - 1 : r[i] = list[i + 1] /\ i + 1 \in 1 .. n /\ i + 1 # 1
  BY <1>1, <1>2
<1>5. Head(list) = list[1] /\ 1 \in 1 .. n
  BY <1>1
<1>6. \A i \in 1 .. n : i = 1 \/ (i - 1 \in 1 .. n - 1 /\ (i - 1) + 1 = i)
  BY <1>1
<1>7. Members(r) \subseteq Members(list) /\ Head(list) \in Members(list)
  BY <1>1, <1>3, <1>4, <1>5 DEF Members
<1>8. Members(list) \subseteq Members(r) \cup {Head(list)}
  <2>1. ASSUME NEW i \in 1 .. n PROVE list[i] \in Members(r) \cup {Head(list)}
    <3>1. CASE i = 1
      BY <3>1, <1>5
    <3>2. CASE i # 1
      <4>1. i - 1 \in 1 .. n - 1 /\ (i - 1) + 1 = i
        BY <3>2, <1>6
      <4>2. r[i - 1] = list[i]
        BY <4>1, <1>4
      <4> QED BY <4>1, <4>2, <1>3 DEF Members
    <3> QED BY <3>1, <3>2
  <2> QED BY <2>1, <1>1 DEF Members
<1>9. ASSUME NoRepeats(list)
      PROVE  NoRepeats(r) /\ Head(list) \notin Members(r)
  <2>1. \A i, j \in 1 .. n : list[i] = list[j] => i = j
    BY <1>1, <1>9 DEF NoRepeats
  <2>2. \A i, j \in 1 .. n - 1 : r[i] = r[j] => i = j
    <3> SUFFICES ASSUME NEW i \in 1 .. n - 1, NEW j \in 1 .. n - 1, r[i] = r[j] PROVE i = j
      OBVIOUS
    <3>1. i + 1 = j + 1
      BY <1>4, <2>1
    <3> QED BY <3>1
  <2>3. \A i \in 1 .. n - 1 : r[i] # Head(list)
    BY <1>4, <1>5, <2>1
  <2> QED BY <1>3, <2>2, <2>3 DEF NoRepeats, Members
<1> QED BY <1>2, <1>7, <1>8, <1>9

-----------------------------------------------------------------------------
SemaphoreInv == SemaphoreTypeOK /\ QueuesHoldWaiters /\ NoLostWakeup

(* What the invariant says of one queue, in terms of Members. *)
LEMMA QueueFacts ==
  ASSUME SemaphoreTypeOK, QueuesHoldWaiters, NEW s \in Semaphore
  PROVE  /\ queue[s] \in Seq(Thread)
         /\ Sleeping(s) = Members(queue[s])
         /\ NoRepeats(queue[s])
         /\ \A t \in Sleeping(s) : t \in Thread /\ inP[t] = s
<1>1. queue[s] \in Seq(Thread) /\ NoRepeats(queue[s])
  BY DEF SemaphoreTypeOK, QueuesHoldWaiters, NoRepeats
<1>2. \A i \in DOMAIN queue[s] : queue[s][i] \in Thread
  BY <1>1, ElementOfSeq, LenProperties
<1> QED BY <1>1, <1>2 DEF Sleeping, Members, QueuesHoldWaiters

(* Few threads can have been woken: they are counted. *)
LEMMA WokenFinite ==
  ASSUME NEW s \in Semaphore
  PROVE  IsFiniteSet(Woken(s)) /\ Cardinality(Woken(s)) \in Nat
<1>1. Woken(s) \in SUBSET Thread /\ IsFiniteSet(Thread)
  BY SemaphoreAssumption DEF Woken
<1> QED BY <1>1, FS_Subset, FS_CardinalityType

(* The semaphores a step does not touch keep their queue and their woken threads.           *)
LEMMA OtherSemaphores ==
  ASSUME NEW s \in Semaphore, queue'[s] = queue[s], value'[s] = value[s],
         \A t \in Thread : inP'[t] = s <=> inP[t] = s,
         queue[s] # <<>> => value[s] <= Cardinality(Woken(s))
  PROVE  queue'[s] # <<>> => value'[s] <= Cardinality(Woken(s)')
<1>1. Woken(s)' = Woken(s)
  BY DEF Woken, Sleeping
<1> QED BY <1>1

(* What V does to the units on offer. *)
LEMMA VEffect ==
  ASSUME SemaphoreTypeOK, NEW s \in Semaphore, V(s)
  PROVE  value'[s] = value[s] + 1 /\ \A r \in Semaphore : r # s => value'[r] = value[r]
BY DEF V, SemaphoreTypeOK

-----------------------------------------------------------------------------
(* A unit taken is one less on offer and at most one woken thread less on its way to it.    *)
LEMMA TakeKeeps ==
  ASSUME SemaphoreInv, NEW t \in Thread, NEW s \in Semaphore, InOrCallingP(t, s), Take(t, s)
  PROVE  SemaphoreInv'
<1> USE DEF SemaphoreInv
<1>1. /\ value \in [Semaphore -> Nat] /\ value[s] > 0 /\ value' = [value EXCEPT ![s] = @ - 1]
      /\ inP' = [inP EXCEPT ![t] = None] /\ queue' = queue /\ inP \in [Thread -> Semaphore \cup {None}]
  BY DEF Take, SemaphoreTypeOK
<1>2. SemaphoreTypeOK'
  BY <1>1 DEF SemaphoreTypeOK
<1>3. \A s1 \in Semaphore : t \notin Sleeping(s1)
  BY QueueFacts, SemaphoreAssumption DEF InOrCallingP, Woken
<1>4. QueuesHoldWaiters'
  <2>1. ASSUME NEW s1 \in Semaphore, NEW i \in DOMAIN queue[s1] PROVE inP'[queue[s1][i]] = s1
    <3>1. queue[s1][i] \in Sleeping(s1)
      BY DEF Sleeping
    <3>2. queue[s1][i] # t /\ queue[s1][i] \in Thread /\ inP[queue[s1][i]] = s1
      BY <3>1, <1>3, QueueFacts
    <3> QED BY <3>2, <1>1
  <2> QED BY <1>1, <2>1 DEF QueuesHoldWaiters
<1>5. ASSUME NEW s1 \in Semaphore, queue'[s1] # <<>>
      PROVE  value'[s1] <= Cardinality(Woken(s1)')
  <2>1. value[s1] <= Cardinality(Woken(s1)) /\ Cardinality(Woken(s1)) \in Nat
    BY <1>1, <1>5, WokenFinite DEF NoLostWakeup
  <2>2. CASE s1 = s
    <3>1. Woken(s)' = Woken(s) \ {t}
      BY <1>1, SemaphoreAssumption DEF Woken, Sleeping
    <3>2. Cardinality(Woken(s)') >= Cardinality(Woken(s)) - 1
      <4>1. Cardinality(Woken(s) \ {t}) =
              IF t \in Woken(s) THEN Cardinality(Woken(s)) - 1 ELSE Cardinality(Woken(s))
        BY WokenFinite, FS_RemoveElement
      <4> QED BY <2>1, <2>2, <3>1, <4>1
    <3>3. value'[s] = value[s] - 1 /\ value[s] \in Nat
      BY <1>1
    <3>4. Cardinality(Woken(s)') \in Nat
      BY <3>1, WokenFinite, FS_RemoveElement, FS_CardinalityType
    <3> QED BY <2>1, <2>2, <3>2, <3>3, <3>4
  <2>3. CASE s1 # s
    <3>1. inP[t] # s1
      BY <2>3, SemaphoreAssumption DEF InOrCallingP, Woken
    <3>2. queue'[s1] = queue[s1] /\ value'[s1] = value[s1]
      BY <1>1, <2>3
    <3>3. \A u \in Thread : inP'[u] = s1 <=> inP[u] = s1
      BY <1>1, <3>1, SemaphoreAssumption
    <3> QED BY <1>5, <2>1, <3>2, <3>3, OtherSemaphores
  <2> QED BY <2>2, <2>3
<1> QED BY <1>2, <1>4, <1>5 DEF NoLostWakeup

(* A thread goes to sleep only where no unit is on offer.                                   *)
LEMMA WaitKeeps ==
  ASSUME SemaphoreInv, NEW t \in Thread, NEW s \in Semaphore, InOrCallingP(t, s), Wait(t, s)
  PROVE  SemaphoreInv'
<1> USE DEF SemaphoreInv
<1>1. /\ value \in [Semaphore -> Nat] /\ value[s] = 0 /\ value' = value
      /\ inP' = [inP EXCEPT ![t] = s] /\ inP \in [Thread -> Semaphore \cup {None}]
      /\ queue' = [queue EXCEPT ![s] = Append(@, t)] /\ queue \in [Semaphore -> Seq(Thread)]
  BY DEF Wait, SemaphoreTypeOK
<1>2. \A s1 \in Semaphore : t \notin Sleeping(s1)
  BY QueueFacts, SemaphoreAssumption DEF InOrCallingP, Woken
<1>3. /\ queue'[s] \in Seq(Thread) /\ NoRepeats(queue'[s])
      /\ Members(queue'[s]) = Sleeping(s) \cup {t}
  <2>1. queue'[s] = Append(queue[s], t)
    BY <1>1
  <2> QED BY <1>2, <2>1, QueueFacts, AppendFacts
<1>4. \A s1 \in Semaphore : s1 # s => queue'[s1] = queue[s1]
  BY <1>1
<1>5. SemaphoreTypeOK'
  BY <1>1, <1>3, <1>4 DEF SemaphoreTypeOK
<1>6. QueuesHoldWaiters'
  <2>1. ASSUME NEW s1 \in Semaphore
        PROVE  /\ \A i \in DOMAIN queue'[s1] : inP'[queue'[s1][i]] = s1
               /\ NoRepeats(queue'[s1])
    <3>1. CASE s1 = s
      <4>1. \A u \in Members(queue'[s]) : u \in Thread /\ inP'[u] = s
        BY <1>1, <1>3, QueueFacts
      <4> QED BY <1>3, <3>1, <4>1 DEF Members
    <3>2. CASE s1 # s
      <4>1. queue'[s1] = queue[s1] /\ NoRepeats(queue[s1])
        BY <1>4, <3>2, QueueFacts
      <4>2. \A u \in Sleeping(s1) : u \in Thread /\ inP'[u] = s1
        BY <1>1, <1>2, QueueFacts
      <4> QED BY <4>1, <4>2 DEF Sleeping
    <3> QED BY <3>1, <3>2
  <2> QED BY <2>1 DEF QueuesHoldWaiters, NoRepeats
<1>7. ASSUME NEW s1 \in Semaphore, queue'[s1] # <<>>
      PROVE  value'[s1] <= Cardinality(Woken(s1)')
  <2>1. CASE s1 = s
    <3>1. IsFiniteSet(Woken(s)')
      <4>1. Woken(s)' \in SUBSET Thread
        BY DEF Woken
      <4> QED BY <4>1, SemaphoreAssumption, FS_Subset
    <3> QED BY <1>1, <2>1, <3>1, FS_CardinalityType
  <2>2. CASE s1 # s
    <3>1. inP[t] # s1
      BY <2>2, SemaphoreAssumption DEF InOrCallingP, Woken
    <3>2. queue'[s1] = queue[s1] /\ value'[s1] = value[s1]
      BY <1>1, <1>4, <2>2
    <3>3. \A u \in Thread : inP'[u] = s1 <=> inP[u] = s1
      BY <1>1, <2>2, <3>1
    <3> QED BY <1>7, <3>2, <3>3, OtherSemaphores DEF NoLostWakeup
  <2> QED BY <2>1, <2>2
<1> QED BY <1>5, <1>6, <1>7 DEF NoLostWakeup

(* V wakes a thread for the unit it adds, or nobody sleeps.                                 *)
LEMMA VKeeps ==
  ASSUME SemaphoreInv, NEW s \in Semaphore, V(s)
  PROVE  SemaphoreInv'
<1> USE DEF SemaphoreInv
<1>1. /\ value \in [Semaphore -> Nat] /\ value' = [value EXCEPT ![s] = @ + 1]
      /\ inP' = inP /\ inP \in [Thread -> Semaphore \cup {None}]
      /\ queue' = [queue EXCEPT ![s] = IF @ = <<>> THEN @ ELSE Tail(@)]
      /\ queue \in [Semaphore -> Seq(Thread)]
  BY DEF V, WakeFront, SemaphoreTypeOK
<1>2. \A s1 \in Semaphore : s1 # s => queue'[s1] = queue[s1]
  BY <1>1
<1>3. /\ queue'[s] \in Seq(Thread) /\ NoRepeats(queue'[s])
      /\ Members(queue'[s]) \subseteq Sleeping(s)
      /\ queue[s] # <<>> => /\ Head(queue[s]) \in Sleeping(s)
                            /\ Members(queue'[s]) = Sleeping(s) \ {Head(queue[s])}
  <2>1. CASE queue[s] = <<>>
    <3>1. queue'[s] = queue[s]
      BY <1>1, <2>1
    <3> QED BY <2>1, <3>1, QueueFacts
  <2>2. CASE queue[s] # <<>>
    <3>1. queue'[s] = Tail(queue[s])
      BY <1>1, <2>2
    <3> QED BY <2>2, <3>1, QueueFacts, TailFacts
  <2> QED BY <2>1, <2>2
<1>4. SemaphoreTypeOK'
  BY <1>1, <1>2, <1>3 DEF SemaphoreTypeOK
<1>5. QueuesHoldWaiters'
  <2>1. ASSUME NEW s1 \in Semaphore
        PROVE  /\ \A i \in DOMAIN queue'[s1] : inP'[queue'[s1][i]] = s1
               /\ NoRepeats(queue'[s1])
    <3>1. CASE s1 = s
      <4>1. \A u \in Members(queue'[s]) : inP'[u] = s
        BY <1>1, <1>3, QueueFacts
      <4> QED BY <1>3, <3>1, <4>1 DEF Members
    <3>2. CASE s1 # s
      BY <1>1, <1>2, <3>2, QueueFacts DEF QueuesHoldWaiters
    <3> QED BY <3>1, <3>2
  <2> QED BY <2>1 DEF QueuesHoldWaiters, NoRepeats
<1>6. ASSUME NEW s1 \in Semaphore, queue'[s1] # <<>>
      PROVE  value'[s1] <= Cardinality(Woken(s1)')
  <2>1. CASE s1 = s
    <3> DEFINE h == Head(queue[s])
    <3>1. queue[s] # <<>>
      BY <1>1, <1>6, <2>1
    <3>2. h \in Sleeping(s) /\ h \in Thread /\ inP[h] = s /\ h \notin Woken(s)
      BY <1>3, <3>1, QueueFacts DEF Woken
    <3>3. Sleeping(s)' = Sleeping(s) \ {h}
      BY <1>3, <3>1 DEF Sleeping, Members
    <3>4. Woken(s)' = Woken(s) \cup {h}
      BY <1>1, <3>2, <3>3 DEF Woken
    <3>5. Cardinality(Woken(s)') = Cardinality(Woken(s)) + 1
      BY <3>2, <3>4, WokenFinite, FS_AddElement
    <3>6. value'[s] = value[s] + 1 /\ value[s] \in Nat /\ value[s] <= Cardinality(Woken(s))
      BY <1>1, <3>1 DEF NoLostWakeup
    <3> QED BY <2>1, <3>5, <3>6, WokenFinite
  <2>2. CASE s1 # s
    <3>1. queue'[s1] = queue[s1] /\ value'[s1] = value[s1]
      BY <1>1, <1>2, <2>2
    <3> QED BY <1>1, <1>6, <3>1, OtherSemaphores DEF NoLostWakeup
  <2> QED BY <2>1, <2>2
<1> QED BY <1>4, <1>5, <1>6 DEF NoLostWakeup

-----------------------------------------------------------------------------
(* The semaphores start with nobody asleep.                                                 *)
LEMMA SemaphoreInitInv == SemaphoreInit => SemaphoreInv
<1> SUFFICES ASSUME SemaphoreInit PROVE SemaphoreInv
  OBVIOUS
<1>1. SemaphoreTypeOK
  BY SemaphoreAssumption, EmptySeq DEF SemaphoreInit, SemaphoreTypeOK
<1>2. QueuesHoldWaiters /\ NoLostWakeup
  BY DEF SemaphoreInit, QueuesHoldWaiters, NoLostWakeup
<1> QED BY <1>1, <1>2 DEF SemaphoreInv

(* The invariant holds again after each step.                                               *)
LEMMA SemaphoreNextInv == SemaphoreInv /\ [SemaphoreNext]_semaphoreVars => SemaphoreInv'
<1> SUFFICES ASSUME SemaphoreInv, [SemaphoreNext]_semaphoreVars PROVE SemaphoreInv'
  OBVIOUS
<1>1. ASSUME NEW t \in Thread, NEW s \in Semaphore, InOrCallingP(t, s), TakeOrWait(t, s)
      PROVE  SemaphoreInv'
  BY <1>1, TakeKeeps, WaitKeeps DEF TakeOrWait
<1>2. ASSUME NEW t \in Thread, Recheck(t) PROVE SemaphoreInv'
  BY <1>1, <1>2 DEF Recheck, InOrCallingP
<1>3. ASSUME NEW t \in Thread, NEW s \in Semaphore, P(t, s) PROVE SemaphoreInv'
  BY <1>1, <1>3 DEF P, InOrCallingP
<1>4. ASSUME NEW s \in Semaphore, V(s) PROVE SemaphoreInv'
  BY <1>4, VKeeps
<1>5. CASE UNCHANGED semaphoreVars
  BY <1>5 DEF semaphoreVars, SemaphoreInv, SemaphoreTypeOK, QueuesHoldWaiters, NoLostWakeup,
              Woken, Sleeping
<1> QED BY <1>2, <1>3, <1>4, <1>5 DEF SemaphoreNext

(* The types, the order of the queues and the count of the wake-ups hold together: V moves  *)
(* a thread from a queue to the woken ones only if it stands there once, and a P takes one  *)
(* woken thread away only with a unit.                                                      *)
THEOREM SemaphoresAreSafe == SemaphoreSpec => []SemaphoreInv
<1> QED BY SemaphoreInitInv, SemaphoreNextInv, PTL DEF SemaphoreSpec

=============================================================================

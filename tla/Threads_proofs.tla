--------------------------- MODULE Threads_proofs ---------------------------
(***************************************************************************)
(* Proofs about Threads, for any number of threads and semaphores: every   *)
(* thread is found at exactly one place, there is one carcass, and the     *)
(* scheduler does not disturb the protocol of the semaphores.              *)
(***************************************************************************)
EXTENDS Threads, Semaphores_proofs

(* Strengthening.  A thread in its own code is in no P, so that Finish leaves a carcass that *)
(* no V will wake; a thread in Sleep does not run, so that it may be dispatched again.       *)
ProcessorInv ==
  /\ phase = "running" => inP[currentThread] = None
  /\ phase \in {"sleeping", "idle"} => status[currentThread] \in {"BLOCKED", "READY"}
  /\ finishing => status[currentThread] = "BLOCKED"

SchedulerInv == TypeOK /\ ThreadPlacement /\ OneCarcass /\ ProcessorInv
IInv == SemaphoreInv /\ SchedulerInv

-----------------------------------------------------------------------------
(* The ready list, as a set.                                                                *)
LEMMA ReadyFacts ==
  ASSUME IInv
  PROVE  /\ readyList \in Seq(Thread) /\ NoRepeats(readyList) /\ Ready = Members(readyList)
         /\ \A t \in Thread : status[t] = "READY" <=> t \in Ready
BY DEF IInv, SchedulerInv, TypeOK, ThreadPlacement, Ready, Members, NoRepeats

(* What ReadyToRun does to the ready list. *)
LEMMA ReadyAppend ==
  ASSUME IInv, NEW t \in Thread, status[t] # "READY", readyList' = AppendReady(readyList, t)
  PROVE  /\ readyList' \in Seq(Thread) /\ NoRepeats(readyList')
         /\ Ready' = Ready \cup {t}
<1>1. readyList \in Seq(Thread) /\ NoRepeats(readyList) /\ Ready = Members(readyList) /\ t \notin Ready
  BY ReadyFacts
<1>2. Ready' = Members(readyList')
  BY DEF Ready, Members
<1> QED BY <1>1, <1>2, AppendFacts DEF AppendReady

(* Each action of a thread on a semaphore is one of the semaphores; the scheduler's are     *)
(* none of their business.                                                                  *)
LEMMA SemaphoreStep == TypeOK /\ [Next]_vars => [SemaphoreNext]_semaphoreVars
<1> SUFFICES ASSUME TypeOK, [Next]_vars PROVE SemaphoreNext \/ UNCHANGED semaphoreVars
  OBVIOUS
<1>0. currentThread \in Thread
  BY DEF TypeOK
<1>1. CASE Yield \/ Finish \/ Idle \/ Dispatch \/ Continue \/ TimerInterrupt \/ IdleTimerInterrupt
  BY <1>1 DEF Yield, YieldAt, Finish, Idle, Dispatch, Continue, TimerInterrupt, IdleTimerInterrupt
<1>2. CASE ContinueInP
  BY <1>0, <1>2 DEF ContinueInP, SemaphoreNext
<1>3. ASSUME NEW t \in Thread, Fork(t) PROVE UNCHANGED semaphoreVars
  BY <1>3 DEF Fork
<1>4. ASSUME NEW s \in Semaphore, ThreadP(s) PROVE SemaphoreNext
  BY <1>0, <1>4 DEF ThreadP, SemaphoreNext
<1>5. ASSUME NEW s \in Semaphore, ThreadV(s) \/ DeviceInterrupt(s) PROVE SemaphoreNext
  BY <1>5 DEF ThreadV, DeviceInterrupt, MakeReady, SemaphoreNext
<1>6. CASE UNCHANGED vars
  BY <1>6 DEF vars
<1> QED BY <1>1, <1>2, <1>3, <1>4, <1>5, <1>6, ThreadsAssumption DEF Next

(* The clock keeps its types: it is set to 0, counts on, or stays.                          *)
LEMMA ClockStep == ClockOK /\ [Next]_vars => ClockOK'
<1> SUFFICES ASSUME ClockOK, [Next]_vars PROVE ClockOK'
  OBVIOUS
<1>0. Elapsed \in Nat
  BY DEF Elapsed, ClockOK
<1>1. ASSUME RestartQuantum PROVE ClockOK'
  BY <1>1 DEF RestartQuantum, ClockOK
<1>2. ASSUME runningTime' = Elapsed, UNCHANGED timeQuantum PROVE ClockOK'
  BY <1>0, <1>2 DEF ClockOK
<1>7. CASE Yield \/ Dispatch
  BY <1>1, <1>7 DEF Yield, YieldAt, Dispatch
<1>8. CASE TimerInterrupt \/ IdleTimerInterrupt
  BY <1>1, <1>2, <1>8 DEF TimerInterrupt, IdleTimerInterrupt, YieldAt
<1> USE DEF ClockOK, clockVars
<1>3. CASE Finish \/ Idle \/ Continue \/ ContinueInP
  BY <1>3 DEF Finish, Idle, Continue, ContinueInP
<1>4. ASSUME NEW t \in Thread, Fork(t) PROVE ClockOK'
  BY <1>4 DEF Fork
<1>5. ASSUME NEW s \in Semaphore, ThreadP(s) \/ ThreadV(s) \/ DeviceInterrupt(s) PROVE ClockOK'
  BY <1>5 DEF ThreadP, ThreadV, DeviceInterrupt, MakeReady
<1>6. CASE UNCHANGED vars
  BY <1>6 DEF vars
<1> HIDE DEF ClockOK
<1> QED BY <1>3, <1>4, <1>5, <1>6, <1>7, <1>8, ThreadsAssumption DEF Next

-----------------------------------------------------------------------------
(* A new thread has no other place yet.                                                     *)
LEMMA ForkKeeps ==
  ASSUME IInv, SemaphoreInv', ClockOK', NEW t \in Thread, Fork(t)
  PROVE  SchedulerInv'
<1> USE DEF IInv, SchedulerInv, TypeOK
<1>1. /\ phase = "running" /\ status[t] = "JUST_CREATED" /\ status' = [status EXCEPT ![t] = "READY"]
      /\ currentThread' = currentThread /\ toBeDestroyed' = toBeDestroyed
      /\ phase' = phase /\ finishing' = finishing
      /\ value' = value /\ queue' = queue /\ inP' = inP
  BY DEF Fork, semaphoreVars
<1>2. readyList' \in Seq(Thread) /\ NoRepeats(readyList') /\ Ready' = Ready \cup {t}
  BY <1>1, ReadyAppend DEF Fork
<1>3. TypeOK'
  BY <1>1, <1>2 DEF Status, SemaphoreInv
<1>4. \A s \in Semaphore : Sleeping(s)' = Sleeping(s) /\ t \notin Sleeping(s)
  BY <1>1 DEF Sleeping, ThreadPlacement
<1>5. ThreadPlacement'
  BY <1>1, <1>2, <1>4 DEF ThreadPlacement, NoRepeats, SemaphoreInv
<1>6. OneCarcass' /\ ProcessorInv'
  BY <1>1, <1>4 DEF OneCarcass, ProcessorInv, ThreadPlacement
<1> QED BY <1>3, <1>5, <1>6

(* What Run does for Yield and for Sleep: the front of the ready list runs.                 *)
LEMMA FrontFacts ==
  ASSUME IInv, readyList # <<>>
  PROVE  /\ Head(readyList) \in Thread /\ status[Head(readyList)] = "READY"
         /\ Tail(readyList) \in Seq(Thread) /\ NoRepeats(Tail(readyList))
         /\ Members(Tail(readyList)) = Ready \ {Head(readyList)}
<1>1. readyList \in Seq(Thread) /\ NoRepeats(readyList) /\ Ready = Members(readyList)
  BY ReadyFacts
<1>2. Head(readyList) \in Thread /\ Head(readyList) \in Ready
  BY <1>1, TailFacts
<1> QED BY <1>1, <1>2, ReadyFacts, TailFacts

(* The yielding thread goes to the ready list, the front of the list runs.                  *)
LEMMA YieldKeeps ==
  ASSUME IInv, SemaphoreInv', ClockOK', NEW time, YieldAt(time)
  PROVE  SchedulerInv'
<1> USE DEF IInv, SchedulerInv, TypeOK
<1> DEFINE next == Head(readyList)
           rest == Tail(readyList)
<1>1. /\ phase = "running" /\ readyList # <<>> /\ toBeDestroyed' = toBeDestroyed
      /\ currentThread' = next
      /\ status' = [[status EXCEPT ![currentThread] = "READY"] EXCEPT ![next] = "RUNNING"]
      /\ readyList' = AppendReady(rest, currentThread)
      /\ phase' = "switched" /\ finishing' = FALSE
      /\ value' = value /\ queue' = queue /\ inP' = inP
  BY DEF YieldAt, FindsNext, Run, semaphoreVars
<1>2. /\ next \in Thread /\ status[next] = "READY" /\ rest \in Seq(Thread) /\ NoRepeats(rest)
      /\ Members(rest) = Ready \ {next}
  BY <1>1, FrontFacts
<1>3. status[currentThread] = "RUNNING" /\ currentThread # next /\ currentThread \notin Members(rest)
  BY <1>1, <1>2, ReadyFacts DEF ThreadPlacement
<1>4. /\ readyList' \in Seq(Thread) /\ NoRepeats(readyList')
      /\ Ready' = (Ready \ {next}) \cup {currentThread}
  <2>1. Ready' = Members(readyList') /\ readyList' = Append(rest, currentThread)
    BY <1>1 DEF Ready, Members, AppendReady
  <2>2. currentThread \in Thread
    OBVIOUS
  <2> HIDE DEF IInv, SchedulerInv, TypeOK, rest
  <2>3. /\ Append(rest, currentThread) \in Seq(Thread)
        /\ Members(Append(rest, currentThread)) = Members(rest) \cup {currentThread}
        /\ NoRepeats(Append(rest, currentThread))
    BY <1>2, <1>3, <2>2, AppendFacts
  <2> QED BY <1>2, <2>1, <2>3
<1>5. TypeOK'
  BY <1>1, <1>2, <1>4 DEF Status, Phase, SemaphoreInv
<1>6. \A s \in Semaphore : /\ Sleeping(s)' = Sleeping(s)
                           /\ next \notin Sleeping(s) /\ currentThread \notin Sleeping(s)
  BY <1>1, <1>2, <1>3 DEF Sleeping, ThreadPlacement
<1>7. toBeDestroyed = None /\ ~finishing
  BY <1>1 DEF OneCarcass
<1>8. ThreadPlacement'
  <2>1. \A t \in Thread : status'[t] = IF t = next THEN "RUNNING"
                                       ELSE IF t = currentThread THEN "READY" ELSE status[t]
    BY <1>1, <1>2
  <2>2. \A t \in Thread : status'[t] = "READY" <=> t \in Ready'
    BY <1>3, <1>4, <2>1, ReadyFacts
  <2>3. \A t \in Thread : status'[t] = "RUNNING" => t = currentThread'
    BY <1>1, <2>1 DEF ThreadPlacement
  <2>4. status'[currentThread'] = "RUNNING"
    BY <1>1, <1>2, <2>1
  <2>5. \A s \in Semaphore : \A t \in Sleeping(s)' : status'[t] = "BLOCKED"
    BY <1>6, <2>1, QueueFacts DEF ThreadPlacement, SemaphoreInv
  <2>6. \A t \in Thread : status'[t] = "BLOCKED" => \E s \in Semaphore : t \in Sleeping(s)'
    BY <1>6, <1>7, <2>1, SemaphoreAssumption DEF ThreadPlacement
  <2> QED BY <1>4, <2>2, <2>3, <2>4, <2>5, <2>6 DEF ThreadPlacement, NoRepeats, SemaphoreInv
<1>9. OneCarcass' /\ ProcessorInv'
  BY <1>1, <1>7 DEF OneCarcass, ProcessorInv
<1> QED BY <1>5, <1>8, <1>9

-----------------------------------------------------------------------------
(* P takes a unit, or its caller goes from the processor to the end of the queue.           *)
LEMMA PKeeps ==
  ASSUME IInv, SemaphoreInv', ClockOK', NEW s \in Semaphore, ThreadP(s)
  PROVE  SchedulerInv'
<1> USE DEF IInv, SchedulerInv, TypeOK
<1>1. /\ phase = "running" /\ inP[currentThread] = None /\ toBeDestroyed = None /\ ~finishing
      /\ status[currentThread] = "RUNNING" /\ currentThread \in Thread
  BY DEF ThreadP, P, OneCarcass, ThreadPlacement
<1>2. CASE value[s] = 0
  <2>1. /\ queue' = [queue EXCEPT ![s] = Append(@, currentThread)] /\ value' = value
        /\ inP' = [inP EXCEPT ![currentThread] = s]
    BY <1>2 DEF ThreadP, P, TakeOrWait, Take, Wait
  <2>2. /\ status' = [status EXCEPT ![currentThread] = "BLOCKED"]
        /\ phase' = "sleeping" /\ finishing' = FALSE /\ currentThread' = currentThread
        /\ readyList' = readyList /\ toBeDestroyed' = toBeDestroyed
    BY <1>2 DEF ThreadP, Sleep
  <2>3. /\ Sleeping(s)' = Sleeping(s) \cup {currentThread}
        /\ \A s1 \in Semaphore : s1 # s => Sleeping(s1)' = Sleeping(s1)
    <3>1. queue'[s] = Append(queue[s], currentThread) /\ \A s1 \in Semaphore : s1 # s => queue'[s1] = queue[s1]
      BY <2>1 DEF SemaphoreTypeOK
    <3>2. queue[s] \in Seq(Thread) /\ Sleeping(s) = Members(queue[s]) /\ Sleeping(s)' = Members(queue'[s])
      BY DEF SemaphoreTypeOK, Sleeping, Members
    <3>3. Sleeping(s)' = Sleeping(s) \cup {currentThread}
      BY <1>1, <3>1, <3>2, AppendFacts
    <3>4. \A s1 \in Semaphore : s1 # s => Sleeping(s1)' = Sleeping(s1)
      BY <3>1 DEF Sleeping
    <3> QED BY <3>3, <3>4
  <2>4. TypeOK'
    BY <2>2 DEF Status, Phase, SemaphoreInv
  <2>5. Ready' = Ready
    BY <2>2 DEF Ready
  <2>6. ThreadPlacement'
    <3>1. \A t \in Thread : status'[t] = IF t = currentThread THEN "BLOCKED" ELSE status[t]
      BY <1>1, <2>2
    <3>2. \A s1 \in Semaphore : \A t \in Sleeping(s1)' : t \in Thread /\ status'[t] = "BLOCKED"
      <4>1. \A s1 \in Semaphore : \A t \in Sleeping(s1) : t \in Thread /\ status[t] = "BLOCKED"
        BY QueueFacts DEF ThreadPlacement, SemaphoreInv
      <4> QED BY <1>1, <2>3, <3>1, <4>1
    <3>3. \A t \in Thread : status'[t] = "BLOCKED" => \E s1 \in Semaphore : t \in Sleeping(s1)'
      <4>1. \A t \in Thread : status[t] = "BLOCKED" => \E s1 \in Semaphore : t \in Sleeping(s1)
        BY <1>1, SemaphoreAssumption DEF ThreadPlacement
      <4> QED BY <2>3, <3>1, <4>1
    <3>4. \A t \in Thread : status'[t] = "READY" <=> t \in Ready'
      BY <1>1, <2>5, <3>1, ReadyFacts
    <3> QED BY <1>1, <2>2, <3>1, <3>2, <3>3, <3>4 DEF ThreadPlacement, SemaphoreInv
  <2>7. OneCarcass' /\ ProcessorInv'
    BY <1>1, <2>2 DEF OneCarcass, ProcessorInv
  <2> QED BY <2>4, <2>6, <2>7
<1>3. CASE value[s] # 0
  <2>1. /\ queue' = queue /\ inP' = [inP EXCEPT ![currentThread] = None] /\ UNCHANGED schedulerVars
    BY <1>3 DEF ThreadP, P, TakeOrWait, Take, Wait
  <2>2. inP' = inP
    BY <1>1, <2>1 DEF SemaphoreTypeOK
  <2> QED BY <2>1, <2>2 DEF schedulerVars, SemaphoreInv, ThreadPlacement, OneCarcass, ProcessorInv,
                            Sleeping, Ready, QueuesHoldWaiters
<1> QED BY <1>2, <1>3

(* V moves the front of the queue to the ready list; it may be the thread that idles.       *)
LEMMA MakeReadyKeeps ==
  ASSUME IInv, SemaphoreInv', ClockOK', NEW s \in Semaphore, MakeReady(s), phase \in {"running", "idle"}
  PROVE  SchedulerInv'
<1> USE DEF IInv, SchedulerInv, TypeOK
<1>1. /\ currentThread' = currentThread /\ toBeDestroyed' = toBeDestroyed /\ phase' = phase
      /\ finishing' = finishing /\ inP' = inP
      /\ queue' = [queue EXCEPT ![s] = IF @ = <<>> THEN @ ELSE Tail(@)]
  BY DEF MakeReady, V, WakeFront
<1>2. CASE queue[s] = <<>>
  <2>1. queue' = queue /\ readyList' = readyList /\ status' = status
    BY <1>1, <1>2 DEF MakeReady, ReadyFront, SemaphoreTypeOK
  <2> QED BY <1>1, <2>1 DEF SemaphoreInv, ThreadPlacement, OneCarcass, ProcessorInv,
                            Sleeping, Ready, QueuesHoldWaiters
<1>3. CASE queue[s] # <<>>
  <2> DEFINE h == Head(queue[s])
  <2>1. /\ queue'[s] = Tail(queue[s]) /\ \A s1 \in Semaphore : s1 # s => queue'[s1] = queue[s1]
        /\ readyList' = AppendReady(readyList, h) /\ status' = [status EXCEPT ![h] = "READY"]
    BY <1>1, <1>3 DEF MakeReady, ReadyFront, SemaphoreTypeOK
  <2>2. /\ h \in Thread /\ h \in Sleeping(s) /\ status[h] = "BLOCKED" /\ inP[h] = s
        /\ Sleeping(s)' = Sleeping(s) \ {h}
    <3>1. queue[s] \in Seq(Thread) /\ Sleeping(s) = Members(queue[s]) /\ NoRepeats(queue[s])
      BY QueueFacts DEF SemaphoreInv
    <3>2. Sleeping(s)' = Members(queue'[s])
      BY DEF Sleeping, Members
    <3>3. h \in Sleeping(s) /\ Sleeping(s)' = Sleeping(s) \ {h}
      BY <1>3, <2>1, <3>1, <3>2, TailFacts
    <3> QED BY <3>3, QueueFacts DEF SemaphoreInv, ThreadPlacement
  <2>3. \A s1 \in Semaphore : s1 # s => Sleeping(s1)' = Sleeping(s1) /\ h \notin Sleeping(s1)
    BY <2>1, <2>2, QueueFacts DEF SemaphoreInv, Sleeping
  <2>4. readyList' \in Seq(Thread) /\ NoRepeats(readyList') /\ Ready' = Ready \cup {h}
    BY <2>1, <2>2, ReadyAppend
  <2>5. TypeOK'
    BY <1>1, <2>1, <2>4 DEF Status, SemaphoreInv
  <2>6. \A t \in Thread : status'[t] = IF t = h THEN "READY" ELSE status[t]
    BY <2>1, <2>2
  <2>7. toBeDestroyed = None /\ (finishing => currentThread # h)
    BY <2>2, SemaphoreAssumption DEF OneCarcass
  <2>8. ThreadPlacement'
    <3>1. \A t \in Thread : status'[t] = "READY" <=> t \in Ready'
      BY <2>4, <2>6, ReadyFacts
    <3>2. /\ \A t \in Thread : status'[t] = "RUNNING" => t = currentThread'
          /\ phase' \in {"running", "switched"} => status'[currentThread'] = "RUNNING"
      BY <1>1, <2>2, <2>6 DEF ThreadPlacement
    <3>3. \A s1 \in Semaphore : \A t \in Sleeping(s1)' : status'[t] = "BLOCKED"
      <4>1. \A s1 \in Semaphore : \A t \in Sleeping(s1) : t \in Thread /\ status[t] = "BLOCKED"
        BY QueueFacts DEF ThreadPlacement, SemaphoreInv
      <4> QED BY <2>2, <2>3, <2>6, <4>1
    <3>4. ASSUME NEW t \in Thread, status'[t] = "BLOCKED"
          PROVE  (\E s1 \in Semaphore : t \in Sleeping(s1)') \/ (t = currentThread' /\ finishing')
      <4>1. t # h /\ status[t] = "BLOCKED"
        BY <2>6, <3>4
      <4>2. (\E s1 \in Semaphore : t \in Sleeping(s1)) \/ (t = currentThread /\ finishing)
        BY <4>1, <2>7, SemaphoreAssumption DEF ThreadPlacement
      <4> QED BY <1>1, <2>2, <2>3, <4>1, <4>2
    <3> QED BY <2>4, <3>1, <3>2, <3>3, <3>4 DEF ThreadPlacement, NoRepeats, SemaphoreInv
  <2>9. OneCarcass' /\ ProcessorInv'
    BY <1>1, <2>2, <2>6, <2>7 DEF OneCarcass, ProcessorInv
  <2> QED BY <2>5, <2>8, <2>9
<1> QED BY <1>2, <1>3

-----------------------------------------------------------------------------
(* A thread that finishes is in no queue and on no list.                                    *)
LEMMA FinishKeeps ==
  ASSUME IInv, SemaphoreInv', ClockOK', Finish
  PROVE  SchedulerInv'
<1> USE DEF IInv, SchedulerInv, TypeOK
<1>1. /\ phase = "running" /\ status' = [status EXCEPT ![currentThread] = "BLOCKED"]
      /\ phase' = "sleeping" /\ finishing' = TRUE /\ currentThread' = currentThread
      /\ readyList' = readyList /\ toBeDestroyed' = toBeDestroyed
      /\ value' = value /\ queue' = queue /\ inP' = inP
  BY DEF Finish, Sleep, semaphoreVars
<1>2. /\ status[currentThread] = "RUNNING" /\ currentThread \in Thread
      /\ inP[currentThread] = None /\ toBeDestroyed = None
  BY <1>1 DEF ThreadPlacement, ProcessorInv, OneCarcass
<1>3. Ready' = Ready /\ \A s \in Semaphore : Sleeping(s)' = Sleeping(s)
  BY <1>1 DEF Ready, Sleeping
<1>4. TypeOK'
  BY <1>1 DEF Status, Phase, SemaphoreInv
<1>5. \A t \in Thread : status'[t] = IF t = currentThread THEN "BLOCKED" ELSE status[t]
  BY <1>1
<1>6. ThreadPlacement'
  BY <1>1, <1>2, <1>3, <1>5 DEF ThreadPlacement, SemaphoreInv
<1>7. OneCarcass' /\ ProcessorInv'
  BY <1>1, <1>2, <1>5 DEF OneCarcass, ProcessorInv
<1> QED BY <1>4, <1>6, <1>7

(* The front of the ready list runs; a finished thread becomes the carcass.                 *)
LEMMA DispatchKeeps ==
  ASSUME IInv, SemaphoreInv', ClockOK', Dispatch
  PROVE  SchedulerInv'
<1> USE DEF IInv, SchedulerInv, TypeOK
<1> DEFINE next == Head(readyList)
<1>1. /\ phase \in {"sleeping", "idle"} /\ readyList # <<>>
      /\ toBeDestroyed' = IF finishing THEN currentThread ELSE toBeDestroyed
      /\ currentThread' = next /\ status' = [status EXCEPT ![next] = "RUNNING"]
      /\ readyList' = Tail(readyList) /\ phase' = "switched" /\ finishing' = FALSE
      /\ value' = value /\ queue' = queue /\ inP' = inP
  BY DEF Dispatch, FindsNext, Run, semaphoreVars
<1>2. /\ next \in Thread /\ status[next] = "READY" /\ readyList' \in Seq(Thread)
      /\ NoRepeats(readyList') /\ Members(readyList') = Ready \ {next}
  BY <1>1, FrontFacts
<1>3. Ready' = Ready \ {next} /\ \A s \in Semaphore : Sleeping(s)' = Sleeping(s)
  BY <1>1, <1>2 DEF Ready, Members, Sleeping
<1>4. \A t \in Thread : status'[t] = IF t = next THEN "RUNNING" ELSE status[t]
  BY <1>1
<1>5. /\ toBeDestroyed = None /\ status[currentThread] # "RUNNING"
      /\ finishing => /\ currentThread # next /\ status[currentThread] = "BLOCKED"
                      /\ \A s \in Semaphore : currentThread \notin Sleeping(s)
  <2>1. toBeDestroyed = None /\ status[currentThread] # "RUNNING"
    BY <1>1 DEF OneCarcass, ProcessorInv
  <2>2. finishing => status[currentThread] = "BLOCKED" /\ inP[currentThread] = None
    BY DEF OneCarcass, ProcessorInv
  <2> QED BY <1>2, <2>1, <2>2, QueueFacts, SemaphoreAssumption DEF SemaphoreInv
<1>6. TypeOK'
  BY <1>1, <1>2 DEF Status, Phase, SemaphoreInv
<1>7. ThreadPlacement'
  <2>1. \A t \in Thread : status'[t] = "READY" <=> t \in Ready'
    BY <1>3, <1>4, ReadyFacts
  <2>2. \A t \in Thread : status'[t] = "RUNNING" => t = currentThread'
    BY <1>1, <1>4, <1>5 DEF ThreadPlacement
  <2>3. status'[currentThread'] = "RUNNING"
    BY <1>1, <1>2, <1>4
  <2>4. \A s \in Semaphore : \A t \in Sleeping(s)' : status'[t] = "BLOCKED"
    <3>1. \A s \in Semaphore : \A t \in Sleeping(s) : t \in Thread /\ status[t] = "BLOCKED"
      BY QueueFacts DEF ThreadPlacement, SemaphoreInv
    <3> QED BY <1>2, <1>3, <1>4, <3>1
  <2>5. ASSUME NEW t \in Thread, status'[t] = "BLOCKED"
        PROVE  (\E s \in Semaphore : t \in Sleeping(s)') \/ t = toBeDestroyed'
    <3>1. status[t] = "BLOCKED"
      BY <1>4, <2>5
    <3>2. (\E s \in Semaphore : t \in Sleeping(s)) \/ (t = currentThread /\ finishing)
      BY <1>5, <3>1, SemaphoreAssumption DEF ThreadPlacement
    <3> QED BY <1>1, <1>3, <3>2
  <2> QED BY <1>2, <2>1, <2>2, <2>3, <2>4, <2>5 DEF ThreadPlacement, NoRepeats, SemaphoreInv
<1>8. OneCarcass' /\ ProcessorInv'
  BY <1>1, <1>3, <1>4, <1>5 DEF OneCarcass, ProcessorInv
<1> QED BY <1>6, <1>7, <1>8

(* The next thread deletes the carcass, which is nowhere else.                              *)
LEMMA CleanedUp ==
  ASSUME IInv, phase = "switched",
         NEW st \in [Thread -> Status], CheckToBeDestroyed(st)
  PROVE  /\ toBeDestroyed' = None
         /\ status' \in [Thread -> Status]
         /\ \A t \in Thread : status'[t] = IF t = toBeDestroyed THEN "deleted" ELSE st[t]
         /\ toBeDestroyed # currentThread
         /\ toBeDestroyed # None => status[toBeDestroyed] = "BLOCKED"
         /\ \A s \in Semaphore : toBeDestroyed \notin Sleeping(s)
<1>1. /\ currentThread \in Thread /\ None \notin Thread
      /\ toBeDestroyed # None => /\ toBeDestroyed # currentThread /\ status[toBeDestroyed] = "BLOCKED"
                                 /\ \A s \in Semaphore : toBeDestroyed \notin Sleeping(s)
  BY SemaphoreAssumption DEF IInv, SchedulerInv, TypeOK, OneCarcass
<1>2. \A s \in Semaphore : None \notin Sleeping(s)
  BY <1>1, QueueFacts DEF IInv, SemaphoreInv
<1> QED BY <1>1, <1>2 DEF CheckToBeDestroyed, Status

(* Back in Yield, or starting: interrupts go on.                                            *)
LEMMA ContinueKeeps ==
  ASSUME IInv, SemaphoreInv', ClockOK', Continue
  PROVE  SchedulerInv'
<1> USE DEF IInv, SchedulerInv, TypeOK
<1>1. /\ phase = "switched" /\ inP[currentThread] = None /\ phase' = "running"
      /\ currentThread' = currentThread /\ readyList' = readyList /\ finishing' = finishing
      /\ value' = value /\ queue' = queue /\ inP' = inP
  BY DEF Continue, semaphoreVars
<1>2. /\ toBeDestroyed' = None /\ status' \in [Thread -> Status]
      /\ \A t \in Thread : status'[t] = IF t = toBeDestroyed THEN "deleted" ELSE status[t]
      /\ toBeDestroyed # currentThread
      /\ toBeDestroyed # None => status[toBeDestroyed] = "BLOCKED"
      /\ \A s \in Semaphore : toBeDestroyed \notin Sleeping(s)
  BY <1>1, CleanedUp DEF Continue
<1>3. Ready' = Ready /\ \A s \in Semaphore : Sleeping(s)' = Sleeping(s)
  BY <1>1 DEF Ready, Sleeping
<1>4. ~finishing
  BY <1>1 DEF OneCarcass
<1>5. TypeOK'
  BY <1>1, <1>2 DEF Phase, SemaphoreInv
<1>6. ThreadPlacement'
  <2>1. \A t \in Thread : status'[t] = "READY" <=> t \in Ready'
    BY <1>2, <1>3, ReadyFacts, SemaphoreAssumption
  <2>2. \A s \in Semaphore : \A t \in Sleeping(s)' : status'[t] = "BLOCKED"
    <3>1. \A s \in Semaphore : \A t \in Sleeping(s) : t \in Thread /\ status[t] = "BLOCKED"
      BY QueueFacts DEF ThreadPlacement, SemaphoreInv
    <3> QED BY <1>2, <1>3, <3>1
  <2>3. \A t \in Thread : status'[t] = "BLOCKED" => \E s \in Semaphore : t \in Sleeping(s)'
    BY <1>2, <1>3, <1>4 DEF ThreadPlacement
  <2> QED BY <1>1, <1>2, <2>1, <2>2, <2>3 DEF ThreadPlacement, SemaphoreInv
<1>7. OneCarcass' /\ ProcessorInv'
  BY <1>1, <1>2, <1>4 DEF OneCarcass, ProcessorInv
<1> QED BY <1>5, <1>6, <1>7

(* Back in the loop of P: the woken thread goes on with its unit, or to the queue again.    *)
LEMMA ContinueInPKeeps ==
  ASSUME IInv, SemaphoreInv', ClockOK', ContinueInP
  PROVE  SchedulerInv'
<1> USE DEF IInv, SchedulerInv, TypeOK
<1>1. /\ phase = "switched" /\ currentThread \in Thread /\ status[currentThread] = "RUNNING"
      /\ currentThread' = currentThread /\ readyList' = readyList /\ finishing' = finishing
      /\ ~finishing
  BY DEF ContinueInP, ThreadPlacement, OneCarcass
<1>2. Ready' = Ready
  BY <1>1 DEF Ready
<1>3. PICK s \in Semaphore : currentThread \in Woken(s) /\ TakeOrWait(currentThread, s)
  BY DEF ContinueInP, Recheck
<1>4. \A s1 \in Semaphore : \A t \in Sleeping(s1) : t \in Thread /\ status[t] = "BLOCKED"
  BY QueueFacts DEF ThreadPlacement, SemaphoreInv
<1>5. CASE Take(currentThread, s)
  <2>1. inP' = [inP EXCEPT ![currentThread] = None] /\ queue' = queue /\ inP'[currentThread] = None
    BY <1>1, <1>5 DEF Take, SemaphoreTypeOK
  <2>2. phase' = "running" /\ CheckToBeDestroyed(status)
    BY <2>1 DEF ContinueInP
  <2>3. /\ toBeDestroyed' = None /\ status' \in [Thread -> Status]
        /\ \A t \in Thread : status'[t] = IF t = toBeDestroyed THEN "deleted" ELSE status[t]
        /\ toBeDestroyed # currentThread
        /\ toBeDestroyed # None => status[toBeDestroyed] = "BLOCKED"
        /\ \A s1 \in Semaphore : toBeDestroyed \notin Sleeping(s1)
    BY <1>1, <2>2, CleanedUp
  <2>4. \A s1 \in Semaphore : Sleeping(s1)' = Sleeping(s1)
    BY <2>1 DEF Sleeping
  <2>5. TypeOK'
    BY <1>1, <2>2, <2>3 DEF Phase, SemaphoreInv
  <2>6. ThreadPlacement'
    <3>1. \A t \in Thread : status'[t] = "READY" <=> t \in Ready'
      BY <1>2, <2>3, ReadyFacts, SemaphoreAssumption
    <3>2. \A s1 \in Semaphore : \A t \in Sleeping(s1)' : status'[t] = "BLOCKED"
      BY <1>4, <2>3, <2>4
    <3>3. \A t \in Thread : status'[t] = "BLOCKED" => \E s1 \in Semaphore : t \in Sleeping(s1)'
      BY <1>1, <2>3, <2>4 DEF ThreadPlacement
    <3> QED BY <1>1, <2>3, <3>1, <3>2, <3>3 DEF ThreadPlacement, SemaphoreInv
  <2>7. OneCarcass' /\ ProcessorInv'
    BY <1>1, <2>1, <2>2, <2>3 DEF OneCarcass, ProcessorInv
  <2> QED BY <2>5, <2>6, <2>7
<1>6. CASE Wait(currentThread, s)
  <2> DEFINE st == [status EXCEPT ![currentThread] = "BLOCKED"]
  <2>1. /\ inP' = [inP EXCEPT ![currentThread] = s] /\ inP'[currentThread] # None
        /\ queue' = [queue EXCEPT ![s] = Append(@, currentThread)]
    BY <1>1, <1>6, SemaphoreAssumption DEF Wait, SemaphoreTypeOK
  <2>2. phase' = "sleeping" /\ CheckToBeDestroyed(st)
    BY <2>1 DEF ContinueInP
  <2>3. /\ toBeDestroyed' = None /\ status' \in [Thread -> Status]
        /\ \A t \in Thread : status'[t] = IF t = toBeDestroyed THEN "deleted" ELSE st[t]
        /\ toBeDestroyed # currentThread
        /\ toBeDestroyed # None => status[toBeDestroyed] = "BLOCKED"
        /\ \A s1 \in Semaphore : toBeDestroyed \notin Sleeping(s1)
    <3>1. st \in [Thread -> Status]
      BY DEF Status
    <3> QED BY <1>1, <2>2, <3>1, CleanedUp
  <2>4. /\ Sleeping(s)' = Sleeping(s) \cup {currentThread}
        /\ \A s1 \in Semaphore : s1 # s => Sleeping(s1)' = Sleeping(s1)
    <3>1. /\ queue'[s] = Append(queue[s], currentThread)
          /\ \A s1 \in Semaphore : s1 # s => queue'[s1] = queue[s1]
      BY <2>1 DEF SemaphoreTypeOK
    <3>2. queue[s] \in Seq(Thread) /\ Sleeping(s) = Members(queue[s]) /\ Sleeping(s)' = Members(queue'[s])
      BY DEF SemaphoreTypeOK, Sleeping, Members
    <3>3. Sleeping(s)' = Sleeping(s) \cup {currentThread}
      BY <1>1, <3>1, <3>2, AppendFacts
    <3>4. \A s1 \in Semaphore : s1 # s => Sleeping(s1)' = Sleeping(s1)
      BY <3>1 DEF Sleeping
    <3> QED BY <3>3, <3>4
  <2>5. TypeOK'
    BY <1>1, <2>2, <2>3 DEF Phase, SemaphoreInv
  <2>6. \A t \in Thread : st[t] = IF t = currentThread THEN "BLOCKED" ELSE status[t]
    OBVIOUS
  <2>7. ThreadPlacement'
    <3>1. \A t \in Thread : status'[t] = "READY" <=> t \in Ready'
      BY <1>1, <1>2, <2>3, <2>6, ReadyFacts, SemaphoreAssumption
    <3>2. \A s1 \in Semaphore : \A t \in Sleeping(s1)' : status'[t] = "BLOCKED"
      BY <1>1, <1>4, <2>3, <2>4, <2>6
    <3>3. ASSUME NEW t \in Thread, status'[t] = "BLOCKED"
          PROVE  \E s1 \in Semaphore : t \in Sleeping(s1)'
      <4>1. CASE t = currentThread
        BY <2>4, <4>1
      <4>2. CASE t # currentThread
        <5>1. status[t] = "BLOCKED" /\ t # toBeDestroyed
          BY <2>3, <2>6, <3>3, <4>2
        <5>2. \E s1 \in Semaphore : t \in Sleeping(s1)
          BY <1>1, <5>1 DEF ThreadPlacement
        <5> QED BY <2>4, <5>2
      <4> QED BY <4>1, <4>2
    <3>4. \A t \in Thread : status'[t] # "RUNNING"
      BY <1>1, <2>3, <2>6 DEF ThreadPlacement
    <3> QED BY <1>1, <2>2, <3>1, <3>2, <3>3, <3>4 DEF ThreadPlacement, SemaphoreInv
  <2>8. OneCarcass' /\ ProcessorInv'
    BY <1>1, <2>2, <2>3, <2>6 DEF OneCarcass, ProcessorInv
  <2> QED BY <2>5, <2>7, <2>8
<1> QED BY <1>3, <1>5, <1>6 DEF TakeOrWait

-----------------------------------------------------------------------------
(* The kernel starts with one thread, which runs.                                           *)
LEMMA InitIInv == Init => IInv
<1> SUFFICES ASSUME Init PROVE IInv
  OBVIOUS
<1>1. SemaphoreInv
  BY SemaphoreInitInv DEF Init
<1>2. TypeOK
  BY <1>1, EmptySeq, ThreadsAssumption DEF Init, TypeOK, ClockOK, SemaphoreInv, Status, Phase
<1>3. ThreadPlacement
  <2>1. Ready = {} /\ \A s \in Semaphore : Sleeping(s) = {}
    BY DEF Init, SemaphoreInit, Ready, Sleeping
  <2> QED BY <1>1, <2>1 DEF Init, ThreadPlacement, SemaphoreInv
<1>4. OneCarcass /\ ProcessorInv
  BY DEF Init, SemaphoreInit, OneCarcass, ProcessorInv
<1> QED BY <1>1, <1>2, <1>3, <1>4 DEF IInv, SchedulerInv

(* The invariant holds again after each step.                                               *)
LEMMA NextIInv == IInv /\ [Next]_vars => IInv'
<1> SUFFICES ASSUME IInv, [Next]_vars PROVE SchedulerInv' /\ SemaphoreInv'
  BY DEF IInv
<1>0. SemaphoreInv'
  BY SemaphoreStep, SemaphoreNextInv DEF IInv, SchedulerInv
<1>c. ClockOK'
  BY ClockStep DEF IInv, SchedulerInv, TypeOK
<1>1. CASE Yield
  BY <1>0, <1>c, <1>1, YieldKeeps DEF Yield
<1>11. CASE TimerInterrupt
  <2>1. CASE YieldAt(Elapsed)
    BY <1>0, <1>c, <2>1, YieldKeeps
  <2>2. CASE ~YieldAt(Elapsed)
    BY <1>0, <1>c, <1>11, <2>2 DEF TimerInterrupt, semaphoreVars, schedulerVars, IInv, SchedulerInv,
       SemaphoreInv, TypeOK, ThreadPlacement, OneCarcass, ProcessorInv, Sleeping, Ready, QueuesHoldWaiters
  <2> QED BY <2>1, <2>2
<1>12. CASE IdleTimerInterrupt
  BY <1>0, <1>c, <1>12 DEF IdleTimerInterrupt, semaphoreVars, schedulerVars, IInv, SchedulerInv,
     SemaphoreInv, TypeOK, ThreadPlacement, OneCarcass, ProcessorInv, Sleeping, Ready, QueuesHoldWaiters
<1>2. CASE Finish
  BY <1>0, <1>c, <1>2, FinishKeeps
<1>3. CASE Idle
  <2>1. /\ phase = "sleeping" /\ phase' = "idle" /\ UNCHANGED semaphoreVars
        /\ UNCHANGED <<currentThread, status, readyList, toBeDestroyed, finishing>>
    BY <1>3 DEF Idle
  <2> QED BY <1>0, <1>c, <2>1 DEF semaphoreVars, IInv, SchedulerInv, SemaphoreInv, TypeOK, ThreadPlacement,
                            OneCarcass, ProcessorInv, Sleeping, Ready, QueuesHoldWaiters, Phase
<1>4. CASE Dispatch
  BY <1>0, <1>c, <1>4, DispatchKeeps
<1>5. CASE Continue
  BY <1>0, <1>c, <1>5, ContinueKeeps
<1>6. CASE ContinueInP
  BY <1>0, <1>c, <1>6, ContinueInPKeeps
<1>7. ASSUME NEW t \in Thread, Fork(t) PROVE SchedulerInv'
  BY <1>0, <1>c, <1>7, ForkKeeps
<1>8. ASSUME NEW s \in Semaphore, ThreadP(s) PROVE SchedulerInv'
  BY <1>0, <1>c, <1>8, PKeeps
<1>9. ASSUME NEW s \in Semaphore, ThreadV(s) \/ DeviceInterrupt(s) PROVE SchedulerInv'
  BY <1>0, <1>c, <1>9, MakeReadyKeeps DEF ThreadV, DeviceInterrupt
<1>10. CASE UNCHANGED vars
  BY <1>0, <1>c, <1>10 DEF vars, semaphoreVars, schedulerVars, IInv, SchedulerInv, SemaphoreInv, TypeOK,
                     ThreadPlacement, OneCarcass, ProcessorInv, Sleeping, Ready, QueuesHoldWaiters
<1> QED
  BY <1>0, <1>1, <1>2, <1>3, <1>4, <1>5, <1>6, <1>7, <1>8, <1>9, <1>10, <1>11, <1>12,
     ThreadsAssumption DEF Next

(* The inductive invariant of the thread system.                                            *)
THEOREM InvariantHolds == Spec => []IInv
<1> QED BY InitIInv, NextIInv, PTL DEF Spec

(* The variables of the scheduler keep their types.                                         *)
THEOREM TypeCorrect == Spec => []TypeOK
<1>1. IInv => TypeOK
  BY DEF IInv, SchedulerInv
<1> QED BY <1>1, InvariantHolds, PTL

(* Every thread is at the one place its status names: whatever the interleaving of threads, *)
(* interrupts and the timer, ReadyToRun and P never list a thread twice or lose it.         *)
THEOREM ThreadsArePlaced == Spec => []ThreadPlacement
<1>1. IInv => ThreadPlacement
  BY DEF IInv, SchedulerInv
<1> QED BY <1>1, InvariantHolds, PTL

(* The assertion of Run that there is no other carcass holds, and nobody can reach the one. *)
THEOREM CarcassIsAlone == Spec => []OneCarcass
<1>1. IInv => OneCarcass
  BY DEF IInv, SchedulerInv
<1> QED BY <1>1, InvariantHolds, PTL

(* In the thread system no wake-up is lost, although P can be overtaken.                    *)
THEOREM WakeupsAreKept == Spec => []NoLostWakeup
<1>1. IInv => NoLostWakeup
  BY DEF IInv, SemaphoreInv
<1> QED BY <1>1, InvariantHolds, PTL

(* Threads uses the semaphores only as Semaphores describes: what is proved of those holds. *)
THEOREM ImplementsSemaphores == Spec => SemaphoreSpec
<1>1. Init => SemaphoreInit
  BY DEF Init
<1>2. IInv /\ [Next]_vars => [SemaphoreNext]_semaphoreVars
  BY SemaphoreStep DEF IInv, SchedulerInv
<1> QED BY <1>1, <1>2, InvariantHolds, PTL DEF Spec, SemaphoreSpec

=============================================================================

------------------------------ MODULE Threads ------------------------------
(***************************************************************************)
(* The thread system of Project2 and of the final kernel: Thread::Fork,    *)
(* Begin, Yield, Sleep and Finish (threads/thread.cc), the round-robin     *)
(* Scheduler (threads/scheduler.cc), the semaphores that put threads to    *)
(* sleep and wake them, the timer (threads/alarm.cc), and the devices whose*)
(* interrupt handlers call V (machine/interrupt.cc).  Project2 adds a time *)
(* quantum to the scheduler, without which FindNextToRun gives nobody; the *)
(* final kernel is the case of a quantum of 0.                             *)
(*                                                                         *)
(* Granularity.  There is one processor.  Interrupts are on only while     *)
(* phase = "running": a handler or the timer gets in there, at a tick, and *)
(* nowhere else except in Interrupt::Idle.  The code between two such      *)
(* points is cut where it calls SWITCH, because the thread that goes on    *)
(* after SWITCH is another one than the thread that called it.             *)
(***************************************************************************)
EXTENDS Semaphores

CONSTANTS
  DeviceSemaphore,  \* the semaphores that interrupt handlers V
  Quantum,          \* what setTQ may set TIME_QUANTUM to; 0 for the final kernel
  MaxValue          \* bound: a semaphore is not V'ed beyond this value

ASSUME ThreadsAssumption ==
  /\ DeviceSemaphore \subseteq Semaphore
  /\ Quantum \subseteq Nat
  /\ MaxValue \in Nat

VARIABLES
  currentThread,  \* kernel->currentThread
  status,         \* status[t], with "deleted" once the carcass is gone
  readyList,      \* scheduler->readyList
  toBeDestroyed,  \* scheduler->toBeDestroyed: the carcass the next thread deletes, or None
  phase,          \* what currentThread is doing, see Phase
  finishing,      \* the argument of the Sleep in progress
  timeQuantum,    \* TIME_QUANTUM
  runningTime     \* scheduler->runningTime: timer interrupts since the last dispatch

schedulerVars == <<currentThread, status, readyList, toBeDestroyed, phase, finishing>>
clockVars == <<timeQuantum, runningTime>>
vars == <<semaphoreVars, schedulerVars, clockVars>>

Phase == {"running",   \* its own code, interrupts on
          "sleeping",  \* in Sleep, before FindNextToRun, interrupts off
          "idle",      \* in Sleep, in Interrupt::Idle
          "switched"}  \* just back from SWITCH, interrupts off
Status == {"JUST_CREATED", "RUNNING", "READY", "BLOCKED", "deleted"}

Init ==
  /\ SemaphoreInit
  /\ currentThread \in Thread
  /\ status = [t \in Thread |-> IF t = currentThread THEN "RUNNING" ELSE "JUST_CREATED"]
  /\ readyList = <<>>
  /\ toBeDestroyed = None
  /\ phase = "running"
  /\ finishing = FALSE
  /\ timeQuantum \in Quantum
  /\ runningTime = 0

-----------------------------------------------------------------------------
(* Mutant: the yielding thread goes to the head of the list. *)
AppendInFront(list, t) == <<t>> \o list
(* ReadyToRun: to the end of the ready list. *)
AppendReady(list, t) == Append(list, t)

(* Sleep up to FindNextToRun. *)
Sleep(finish) ==
  /\ status' = [status EXCEPT ![currentThread] = "BLOCKED"]
  /\ phase' = "sleeping"
  /\ finishing' = finish
  /\ UNCHANGED <<currentThread, readyList, toBeDestroyed>>

(* Run(next, finishing) up to SWITCH. *)
Run(next, ready, st, finish) ==
  /\ toBeDestroyed' = IF finish THEN currentThread ELSE toBeDestroyed
  /\ currentThread' = next
  /\ status' = [st EXCEPT ![next] = "RUNNING"]
  /\ readyList' = ready
  /\ phase' = "switched"
  /\ finishing' = FALSE

-----------------------------------------------------------------------------
(* The clock *)

(* Alarm::CallBack.  Bound: the counter stops where its only test, >=, is true. *)
Elapsed == IF runningTime < timeQuantum THEN runningTime + 1 ELSE runningTime

(* FindNextToRun gives a thread, and then the quantum starts again. *)
FindsNext(time) == readyList # <<>> /\ time >= timeQuantum
RestartQuantum == runningTime' = 0 /\ UNCHANGED timeQuantum

-----------------------------------------------------------------------------
(* What currentThread does with interrupts on.                             *)

Fork(t) ==
  /\ phase = "running" /\ status[t] = "JUST_CREATED"
  /\ status' = [status EXCEPT ![t] = "READY"]
  /\ readyList' = AppendReady(readyList, t)
  /\ UNCHANGED <<semaphoreVars, currentThread, toBeDestroyed, phase, finishing, clockVars>>

(* The thread calls Yield at this time, which returns at once if FindNextToRun gives NULL. *)
YieldAt(time) ==
  /\ phase = "running" /\ FindsNext(time)
  /\ Run(Head(readyList), AppendReady(Tail(readyList), currentThread),
         [status EXCEPT ![currentThread] = "READY"], FALSE)
  /\ RestartQuantum
  /\ UNCHANGED semaphoreVars

Yield == YieldAt(runningTime)

(* The timer: Alarm::CallBack, and after the tick the Yield that it asked for. *)
TimerInterrupt ==
  \/ YieldAt(Elapsed)
  \/ /\ phase = "running" /\ ~FindsNext(Elapsed)
     /\ runningTime' = Elapsed
     /\ UNCHANGED <<semaphoreVars, schedulerVars, timeQuantum>>

ThreadP(s) ==
  /\ phase = "running"
  /\ P(currentThread, s)
  /\ IF value[s] = 0 THEN Sleep(FALSE) ELSE UNCHANGED schedulerVars
  /\ UNCHANGED clockVars

(* Mutant: V makes the front of the queue ready without a place on the ready list. *)
WokenNotListed(s) ==
  /\ readyList' = readyList
  /\ status' = IF queue[s] = <<>> THEN status ELSE [status EXCEPT ![Head(queue[s])] = "READY"]

(* ReadyToRun of the thread V takes from the queue. *)
ReadyFront(s) ==
  IF queue[s] = <<>> THEN UNCHANGED <<readyList, status>>
  ELSE /\ readyList' = AppendReady(readyList, Head(queue[s]))
       /\ status' = [status EXCEPT ![Head(queue[s])] = "READY"]

MakeReady(s) ==
  /\ value[s] < MaxValue
  /\ V(s)
  /\ ReadyFront(s)
  /\ UNCHANGED <<currentThread, toBeDestroyed, phase, finishing, clockVars>>

ThreadV(s) == phase = "running" /\ MakeReady(s)

Finish ==
  /\ phase = "running"
  /\ Sleep(TRUE)
  /\ UNCHANGED <<semaphoreVars, clockVars>>

-----------------------------------------------------------------------------
(* A device completes: its handler runs in OneTick, or while the machine idles. *)
DeviceInterrupt(s) == phase \in {"running", "idle"} /\ MakeReady(s)

(* FindNextToRun returned NULL: nobody is ready, or the quantum is not used up. *)
Idle ==
  /\ phase = "sleeping" /\ ~FindsNext(runningTime)
  /\ phase' = "idle"
  /\ UNCHANGED <<semaphoreVars, currentThread, status, readyList, toBeDestroyed, finishing, clockVars>>

(* The timer while the machine idles: no Yield follows. *)
IdleTimerInterrupt ==
  /\ phase = "idle"
  /\ runningTime' = Elapsed
  /\ UNCHANGED <<semaphoreVars, schedulerVars, timeQuantum>>

(* FindNextToRun returned a thread; it may be the one that was idling. *)
Dispatch ==
  /\ phase \in {"sleeping", "idle"} /\ FindsNext(runningTime)
  /\ Run(Head(readyList), Tail(readyList), status, finishing)
  /\ RestartQuantum
  /\ UNCHANGED semaphoreVars

(* Mutant: the thread that starts does not clean up after the one that finished. *)
CheckOmitted(st) == status' = st /\ UNCHANGED toBeDestroyed

CheckToBeDestroyed(st) ==
  /\ status' = IF toBeDestroyed = None THEN st ELSE [st EXCEPT ![toBeDestroyed] = "deleted"]
  /\ toBeDestroyed' = None

(* SWITCH returns in a thread that Yield had given up the processor for, or that starts in *)
(* Begin: interrupts go back on.                                                           *)
Continue ==
  /\ phase = "switched" /\ inP[currentThread] = None
  /\ CheckToBeDestroyed(status)
  /\ phase' = "running"
  /\ UNCHANGED <<semaphoreVars, currentThread, readyList, finishing, clockVars>>

(* SWITCH returns in a thread that a V has woken, in the loop of P. *)
ContinueInP ==
  /\ phase = "switched"
  /\ Recheck(currentThread)
  /\ IF inP'[currentThread] = None
       THEN CheckToBeDestroyed(status) /\ phase' = "running"
       ELSE CheckToBeDestroyed([status EXCEPT ![currentThread] = "BLOCKED"]) /\ phase' = "sleeping"
  /\ UNCHANGED <<currentThread, readyList, finishing, clockVars>>

-----------------------------------------------------------------------------
Next ==
  \/ Yield \/ Finish \/ Idle \/ Dispatch \/ Continue \/ ContinueInP
  \/ TimerInterrupt \/ IdleTimerInterrupt
  \/ \E t \in Thread : Fork(t)
  \/ \E s \in Semaphore : ThreadP(s) \/ ThreadV(s)
  \/ \E s \in DeviceSemaphore : DeviceInterrupt(s)

Spec == Init /\ [][Next]_vars

(* The timer schedules its next interrupt each time it fires, and code with interrupts off *)
(* runs to its end.  Nothing is assumed of what threads and devices do.                    *)
FairSpec == /\ Spec
            /\ WF_vars(TimerInterrupt) /\ WF_vars(IdleTimerInterrupt)
            /\ WF_vars(Idle \/ Dispatch \/ Continue \/ ContinueInP)

-----------------------------------------------------------------------------
ClockOK == timeQuantum \in Nat /\ runningTime \in Nat

TypeOK ==
  /\ SemaphoreTypeOK
  /\ currentThread \in Thread
  /\ status \in [Thread -> Status]
  /\ readyList \in Seq(Thread)
  /\ toBeDestroyed \in Thread \cup {None}
  /\ phase \in Phase
  /\ finishing \in BOOLEAN
  /\ ClockOK

Ready == {readyList[i] : i \in DOMAIN readyList}

(* Every thread has exactly one place to be found again: a READY thread stands once on the *)
(* ready list and in no queue; a BLOCKED one in the queue of the semaphore it waits for,   *)
(* unless it has finished; a RUNNING one is currentThread.  A second entry would abort in  *)
(* List::Append; a missing one loses the thread for ever.                                  *)
ThreadPlacement ==
  /\ QueuesHoldWaiters
  /\ \A t \in Thread : status[t] = "READY" <=> t \in Ready
  /\ \A i, j \in DOMAIN readyList : readyList[i] = readyList[j] => i = j
  /\ \A t \in Thread : status[t] = "RUNNING" => t = currentThread
  /\ phase \in {"running", "switched"} => status[currentThread] = "RUNNING"
  /\ \A s \in Semaphore : \A t \in Sleeping(s) : status[t] = "BLOCKED"
  /\ \A t \in Thread : status[t] = "BLOCKED" =>
       \/ \E s \in Semaphore : t \in Sleeping(s)
       \/ t = currentThread /\ finishing
       \/ t = toBeDestroyed

(* Run asserts toBeDestroyed == NULL when a thread finishes: there is never a second       *)
(* carcass, and the one there is belongs to no list and no longer runs.                    *)
OneCarcass ==
  /\ toBeDestroyed # None =>
       /\ phase = "switched"
       /\ toBeDestroyed # currentThread
       /\ status[toBeDestroyed] = "BLOCKED"
       /\ \A s \in Semaphore : toBeDestroyed \notin Sleeping(s)
  /\ finishing => phase \in {"sleeping", "idle"} /\ inP[currentThread] = None

(* Time-slicing gives every ready thread the processor, even when the quantum of a thread  *)
(* that sleeps has to be idled away first.                                                 *)
ReadyRuns == \A t \in Thread : status[t] = "READY" ~> status[t] = "RUNNING"

(* A unit does not lie on a semaphore for ever while threads sleep on it, although the     *)
(* thread that V wakes may be overtaken again and again.                                   *)
UnitIsTaken ==
  \A s \in Semaphore :
    (value[s] > 0 /\ queue[s] # <<>>) ~> (value[s] = 0 \/ queue[s] = <<>>)

=============================================================================

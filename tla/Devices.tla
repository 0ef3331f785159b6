------------------------------- MODULE Devices -------------------------------
(***************************************************************************)
(* The three drivers in one kernel: its threads call any of them, and the  *)
(* interrupts of the devices come in any order.                            *)
(***************************************************************************)
EXTENDS SynchDisk, SynchConsole, PostOffice

(* The constructors of the drivers: each has semaphores of its own, and a lock is free.     *)
DriverSemaphores == <<DiskLock, DiskDone, InLock, InAvail, OutLock, OutDone, SendLock, MessageSent,
                      MessageAvailable>>
ASSUME DevicesAssumption ==
  /\ \A i, j \in 1 .. 9 : DriverSemaphores[i] = DriverSemaphores[j] => i = j
  /\ \A i \in 1 .. 9 : DriverSemaphores[i] \in Semaphore
  /\ \A lock \in {DiskLock, InLock, OutLock, SendLock} : InitialValue[lock] = 1
  /\ \A s \in {DiskDone, InAvail, OutDone, MessageSent, MessageAvailable} :
       InitialValue[s] = 0

vars == <<semaphoreVars, pc, active, consoleVars, postVars>>

Init ==
  /\ SemaphoreInit
  /\ pc = [t \in Thread |-> IF t = Worker THEN "worker" ELSE "outside"]
  /\ DiskInit
  /\ ConsoleInit
  /\ PostInit

(* ReadSector or WriteSector, PutChar, GetChar, Send, Receive. *)
Call(t) ==
  /\ pc[t] = "outside"
  /\ \/ \E l \in {"disk", "put", "get", "receive"} : Goto(t, l)
     \/ sent + Cardinality({u \in Thread : pc[u] \in {"send", "sendLocked"}}) < MaxMail
        /\ Goto(t, "send")
  /\ UNCHANGED <<semaphoreVars, active, consoleVars, postVars>>

Step(t) ==
  \/ DiskStep(t)    /\ UNCHANGED <<consoleVars, postVars>>
  \/ ConsoleStep(t) /\ UNCHANGED <<active, postVars>>
  \/ PostStep(t)    /\ UNCHANGED <<active, consoleVars>>

WorkerStep == Deliver /\ UNCHANGED <<active, consoleVars>>

DiskInt    == DiskInterrupt    /\ UNCHANGED <<consoleVars, postVars>>
DisplayInt == ConsoleWriteInt  /\ UNCHANGED <<active, postVars>>
KeyInt     == ConsoleReadInt   /\ UNCHANGED <<active, postVars>>
KeyEnd     == ConsoleReadEnd   /\ UNCHANGED <<active, postVars>>
SendInt    == NetworkSendInt   /\ UNCHANGED <<active, consoleVars>>
RecvInt    == NetworkRecvInt   /\ UNCHANGED <<active, consoleVars>>

Next ==
  \/ \E t \in Thread \ {Worker} : Call(t) \/ Step(t)
  \/ WorkerStep
  \/ DiskInt \/ DisplayInt \/ KeyInt \/ KeyEnd \/ SendInt \/ RecvInt

Spec == Init /\ [][Next]_vars

(* Every ready thread runs (ReadyRuns of Threads), and simulated time, which every tick    *)
(* and every idle loop advances, reaches each pending interrupt.                           *)
FairSpec ==
  /\ Spec
  /\ \A t \in Thread \ {Worker} : WF_vars(Step(t))
  /\ WF_vars(WorkerStep)
  /\ WF_vars(DiskInt) /\ WF_vars(DisplayInt) /\ WF_vars(SendInt) /\ WF_vars(RecvInt)

-----------------------------------------------------------------------------
TypeOK ==
  /\ SemaphoreTypeOK
  /\ pc \in [Thread -> {"outside", "disk", "diskLocked", "diskWait", "diskDone",
                        "put", "putLocked", "putWait", "putDone", "get", "getLocked", "getDone",
                        "send", "sendLocked", "sendWait", "sendDone", "receive",
                        "worker", "packet", "deliver"}]
  /\ {active, putBusy, polling, ended, sending} \subseteq BOOLEAN
  /\ incoming \in Char /\ typed \in 0 .. MaxInput
  /\ {sent, received} \subseteq 0 .. MaxMail
  /\ wire \in Seq(Packet) /\ inbox \in Seq(Packet) /\ hand \in Seq(Packet)
  /\ boxes \in [Box -> Seq(1 .. MaxMail)]

(* The assertions of the device simulators, and what they are there for: every wake-up     *)
(* goes to the thread whose request it answers.                                            *)
OneRequestAtATime == DiskOneAtATime /\ DisplayOneAtATime /\ SendOneAtATime /\ OneKeystroke

(* No packet that has reached the socket is overwritten in the buffer of NetworkInput,     *)
(* delivered twice or overtaken.                                                           *)
Elements(q) == {q[i] : i \in DOMAIN q}
NumbersFor(b, q) == {m.number : m \in {m \in Elements(q) : m.to = b}}
Mail == INSTANCE MailChannel
          WITH channel <- [b \in Box |-> Elements(boxes[b]) \cup NumbersFor(b, hand)
                                           \cup NumbersFor(b, inbox) \cup NumbersFor(b, wire)]
ImplementsMailChannel == Mail!Spec

(* A thread that waits for a device gets its answer and returns, and no packet stays in    *)
(* the socket.                                                                             *)
RequestsComplete ==
  /\ \A t \in Thread :
       pc[t] \in {"diskWait", "putWait", "sendWait"} ~> pc[t] = "outside"
  /\ wire # <<>> ~> wire = <<>> /\ inbox = <<>>
=============================================================================

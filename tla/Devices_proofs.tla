--------------------------- MODULE Devices_proofs ---------------------------
(***************************************************************************)
(* Proofs about the drivers, for any number of threads, characters, boxes  *)
(* and messages.  The disk, the display and the network each follow        *)
(* RequestReply, of which the exclusion is proved; the keyboard has an     *)
(* invariant of its own.  Their semaphores are those of Semaphores, so     *)
(* that no wake-up is lost in a driver.                                    *)
(***************************************************************************)
EXTENDS Devices, Semaphores_proofs

Labels == {"outside", "disk", "diskLocked", "diskWait", "diskDone",
           "put", "putLocked", "putWait", "putDone", "get", "getLocked", "getDone",
           "send", "sendLocked", "sendWait", "sendDone", "receive",
           "worker", "packet", "deliver"}

(* What the steps of a driver need to know of the semaphores and of the threads.            *)
DriverTypeOK ==
  /\ pc \in [Thread -> Labels]
  /\ value \in [Semaphore -> Nat]
  /\ {active, putBusy, polling, ended, sending} \subseteq BOOLEAN

(* Where a thread is in a driver whose labels are these. *)
PlaceAmong(l, locked, waiting, answered) ==
  CASE l = locked -> "locked" [] l = waiting -> "waiting" [] l = answered -> "answered"
    [] OTHER -> "outside"
DiskPlace    == [t \in Thread |-> PlaceAmong(pc[t], "diskLocked", "diskWait", "diskDone")]
DisplayPlace == [t \in Thread |-> PlaceAmong(pc[t], "putLocked", "putWait", "putDone")]
NetPlace     == [t \in Thread |-> PlaceAmong(pc[t], "sendLocked", "sendWait", "sendDone")]

Disk == INSTANCE RequestReply
  WITH place <- DiskPlace, lock <- value[DiskLock], reply <- value[DiskDone], busy <- active
Display == INSTANCE RequestReply
  WITH place <- DisplayPlace, lock <- value[OutLock], reply <- value[OutDone], busy <- putBusy
Net == INSTANCE RequestReply
  WITH place <- NetPlace, lock <- value[SendLock], reply <- value[MessageSent], busy <- sending

-----------------------------------------------------------------------------
(* The semaphores of a driver are its own. *)
LEMMA Distinct ==
  /\ {DiskLock, DiskDone, InLock, InAvail, OutLock, OutDone, SendLock, MessageSent,
      MessageAvailable} \subseteq Semaphore
  /\ DiskLock \notin {DiskDone, InLock, InAvail, OutLock, OutDone, SendLock, MessageSent,
                      MessageAvailable}
  /\ DiskDone \notin {InLock, InAvail, OutLock, OutDone, SendLock, MessageSent, MessageAvailable}
  /\ InLock \notin {InAvail, OutLock, OutDone, SendLock, MessageSent, MessageAvailable}
  /\ InAvail \notin {OutLock, OutDone, SendLock, MessageSent, MessageAvailable}
  /\ OutLock \notin {OutDone, SendLock, MessageSent, MessageAvailable}
  /\ OutDone \notin {SendLock, MessageSent, MessageAvailable}
  /\ SendLock \notin {MessageSent, MessageAvailable}
  /\ MessageSent # MessageAvailable
BY DevicesAssumption DEF DriverSemaphores

(* A step that moves threads between these labels only and changes the units of these       *)
(* semaphores only.                                                                         *)
Touches(labels, semaphores) ==
  /\ pc' \in [Thread -> Labels]
  /\ \A t \in Thread : pc'[t] = pc[t] \/ (pc[t] \in labels /\ pc'[t] \in labels)
  /\ value' \in [Semaphore -> Nat]
  /\ \A s \in Semaphore \ semaphores : value'[s] = value[s]

(* P, as far as the counts and the labels go.                                               *)
LEMMA PTouches ==
  ASSUME DriverTypeOK, NEW t \in Thread, NEW s \in Semaphore, NEW from \in Labels, NEW to \in Labels,
         PFromTo(t, s, from, to)
  PROVE  /\ Touches({from, to}, {s})
         /\ \/ pc[t] = from /\ pc' = [pc EXCEPT ![t] = to] /\ value[s] > 0 /\ value'[s] = value[s] - 1
            \/ UNCHANGED pc /\ UNCHANGED value
BY DEF PFromTo, Take, Wait, Goto, Touches, DriverTypeOK

(* The P that follows a request. *)
LEMMA StartTouches ==
  ASSUME DriverTypeOK, NEW t \in Thread, NEW s \in Semaphore,
         NEW waiting \in Labels, NEW done \in Labels, StartP(t, s, waiting, done)
  PROVE  /\ Touches({pc[t], waiting, done}, {s})
         /\ \/ pc' = [pc EXCEPT ![t] = done] /\ value[s] > 0 /\ value'[s] = value[s] - 1
            \/ pc' = [pc EXCEPT ![t] = waiting] /\ value[s] = 0 /\ value'[s] = 0
BY DEF StartP, Take, Wait, Goto, Touches, DriverTypeOK

(* lock->Release() *)
LEMMA ReleaseTouches ==
  ASSUME DriverTypeOK, NEW t \in Thread, NEW s \in Semaphore, NEW from \in Labels,
         ReleaseAndReturn(t, s, from)
  PROVE  /\ Touches({from, "outside"}, {s})
         /\ pc[t] = from /\ pc' = [pc EXCEPT ![t] = "outside"] /\ value'[s] = value[s] + 1
BY DEF ReleaseAndReturn, V, Goto, Touches, DriverTypeOK, Labels

(* The interrupt handlers. *)
LEMMA VTouches ==
  ASSUME DriverTypeOK, NEW s \in Semaphore, V(s), UNCHANGED pc
  PROVE  Touches({}, {s}) /\ value'[s] = value[s] + 1
BY DEF V, Touches, DriverTypeOK

(* What touches few touches at most more.                                                   *)
LEMMA TouchesMore ==
  ASSUME NEW labels, NEW semaphores, Touches(labels, semaphores),
         NEW labels2, labels \subseteq labels2, NEW semaphores2, semaphores \subseteq semaphores2
  PROVE  Touches(labels2, semaphores2)
BY DEF Touches

-----------------------------------------------------------------------------
(* What each driver touches. *)
DiskLabels == {"outside", "disk", "diskLocked", "diskWait", "diskDone"}
PutLabels  == {"outside", "put", "putLocked", "putWait", "putDone"}
GetLabels  == {"outside", "get", "getLocked", "getDone"}
PostLabels == {"outside", "send", "sendLocked", "sendWait", "sendDone"}

(* The disk and its driver. *)
LEMMA DiskTouches ==
  ASSUME DriverTypeOK, NEW t \in Thread, DiskStep(t) \/ DiskInterrupt
  PROVE  Touches(DiskLabels, {DiskLock, DiskDone}) /\ active' \in BOOLEAN
<1> USE Distinct DEF DiskLabels
<1>1. {"disk", "diskLocked", "diskWait", "diskDone", "outside"} \subseteq Labels
  BY DEF Labels
<1>2. CASE AcquireDisk(t)
  <2>1. Touches({"disk", "diskLocked"}, {DiskLock})
    BY <1>1, <1>2, PTouches DEF AcquireDisk
  <2> QED BY <1>2, <2>1, TouchesMore DEF AcquireDisk, DriverTypeOK
<1>3. CASE DiskRequest(t)
  <2>1. Touches({"diskLocked", "diskWait", "diskDone"}, {DiskDone})
    BY <1>1, <1>3, StartTouches DEF DiskRequest
  <2> QED BY <1>3, <2>1, TouchesMore DEF DiskRequest
<1>4. CASE AwaitDisk(t)
  <2>1. Touches({"diskWait", "diskDone"}, {DiskDone})
    BY <1>1, <1>4, PTouches DEF AwaitDisk
  <2> QED BY <1>4, <2>1, TouchesMore DEF AwaitDisk, DriverTypeOK
<1>5. CASE ReleaseDisk(t)
  <2>1. Touches({"diskDone", "outside"}, {DiskLock})
    BY <1>1, <1>5, ReleaseTouches DEF ReleaseDisk
  <2> QED BY <1>5, <2>1, TouchesMore DEF ReleaseDisk, DriverTypeOK
<1>6. CASE DiskInterrupt
  <2>1. Touches({}, {DiskDone})
    BY <1>6, VTouches DEF DiskInterrupt
  <2>2. active' \in BOOLEAN
    BY <1>6, Zenon DEF DiskInterrupt
  <2> QED BY <2>1, <2>2, TouchesMore
<1> QED BY <1>2, <1>3, <1>4, <1>5, <1>6 DEF DiskStep

(* The console and its drivers: the display,                                                *)
LEMMA DisplayTouches ==
  ASSUME DriverTypeOK, NEW t \in Thread,
         AcquireOut(t) \/ PutChar(t) \/ AwaitOut(t) \/ ReleaseOut(t) \/ ConsoleWriteInt
  PROVE  /\ Touches(PutLabels, {OutLock, OutDone})
         /\ putBusy' \in BOOLEAN /\ UNCHANGED <<incoming, polling, ended>>
<1> USE Distinct DEF PutLabels
<1>1. {"put", "putLocked", "putWait", "putDone", "outside"} \subseteq Labels
  BY DEF Labels
<1>2. CASE AcquireOut(t)
  <2>1. Touches({"put", "putLocked"}, {OutLock})
    BY <1>1, <1>2, PTouches DEF AcquireOut
  <2> QED BY <1>2, <2>1, TouchesMore DEF AcquireOut, DriverTypeOK, consoleVars
<1>3. CASE PutChar(t)
  <2>1. Touches({"putLocked", "putWait", "putDone"}, {OutDone})
    BY <1>1, <1>3, StartTouches DEF PutChar
  <2> QED BY <1>3, <2>1, TouchesMore DEF PutChar
<1>4. CASE AwaitOut(t)
  <2>1. Touches({"putWait", "putDone"}, {OutDone})
    BY <1>1, <1>4, PTouches DEF AwaitOut
  <2> QED BY <1>4, <2>1, TouchesMore DEF AwaitOut, DriverTypeOK, consoleVars
<1>5. CASE ReleaseOut(t)
  <2>1. Touches({"putDone", "outside"}, {OutLock})
    BY <1>1, <1>5, ReleaseTouches DEF ReleaseOut
  <2> QED BY <1>5, <2>1, TouchesMore DEF ReleaseOut, DriverTypeOK, consoleVars
<1>6. CASE ConsoleWriteInt
  <2>1. Touches({}, {OutDone})
    BY <1>6, VTouches DEF ConsoleWriteInt
  <2>2. putBusy' \in BOOLEAN /\ UNCHANGED <<incoming, polling, ended>>
    BY <1>6, Zenon DEF ConsoleWriteInt
  <2> QED BY <2>1, <2>2, TouchesMore
<1> QED BY <1>2, <1>3, <1>4, <1>5, <1>6

(* and the keyboard.                                                                        *)
LEMMA KeyboardTouches ==
  ASSUME DriverTypeOK, NEW t \in Thread,
         AcquireIn(t) \/ AwaitIn(t) \/ GetChar(t) \/ ConsoleReadInt \/ ConsoleReadEnd
  PROVE  /\ Touches(GetLabels, {InLock, InAvail})
         /\ {polling', ended'} \subseteq BOOLEAN /\ UNCHANGED putBusy
<1> USE Distinct DEF GetLabels
<1>1. {"get", "getLocked", "getDone", "outside"} \subseteq Labels
  BY DEF Labels
<1>2. CASE AcquireIn(t)
  <2>1. Touches({"get", "getLocked"}, {InLock})
    BY <1>1, <1>2, PTouches DEF AcquireIn
  <2> QED BY <1>2, <2>1, TouchesMore DEF AcquireIn, DriverTypeOK, consoleVars
<1>3. CASE AwaitIn(t)
  <2>1. Touches({"getLocked", "getDone"}, {InAvail})
    BY <1>1, <1>3, PTouches DEF AwaitIn
  <2> QED BY <1>3, <2>1, TouchesMore DEF AwaitIn, DriverTypeOK, consoleVars
<1>4. CASE GetChar(t)
  <2>1. Touches({"getDone", "outside"}, {InLock})
    BY <1>1, <1>4, ReleaseTouches DEF GetChar
  <2>2. polling' \in BOOLEAN
    BY <1>4, Zenon DEF GetChar, PollAgain
  <2> QED BY <1>4, <2>1, <2>2, TouchesMore DEF GetChar, DriverTypeOK
<1>5. CASE ConsoleReadInt
  <2>1. Touches({}, {InAvail})
    BY <1>5, VTouches DEF ConsoleReadInt
  <2>2. polling' \in BOOLEAN /\ ended' \in BOOLEAN /\ UNCHANGED putBusy
    BY <1>5, Zenon DEF ConsoleReadInt
  <2> QED BY <2>1, <2>2, TouchesMore
<1>6. CASE ConsoleReadEnd
  <2>1. Touches({}, {InAvail})
    BY <1>6, VTouches DEF ConsoleReadEnd
  <2>2. polling' \in BOOLEAN /\ ended' \in BOOLEAN /\ UNCHANGED putBusy
    BY <1>6, Zenon DEF ConsoleReadEnd
  <2> QED BY <2>1, <2>2, TouchesMore
<1> QED BY <1>2, <1>3, <1>4, <1>5, <1>6

(* The network: who sends,                                                                  *)
LEMMA SendTouches ==
  ASSUME DriverTypeOK, NEW t \in Thread,
         AcquireSend(t) \/ NetworkSend(t) \/ AwaitSend(t) \/ ReleaseSend(t) \/ NetworkSendInt
  PROVE  Touches(PostLabels, {SendLock, MessageSent}) /\ sending' \in BOOLEAN
<1> USE Distinct DEF PostLabels
<1>1. {"send", "sendLocked", "sendWait", "sendDone", "outside"} \subseteq Labels
  BY DEF Labels
<1>2. CASE AcquireSend(t)
  <2>1. Touches({"send", "sendLocked"}, {SendLock})
    BY <1>1, <1>2, PTouches DEF AcquireSend
  <2> QED BY <1>2, <2>1, TouchesMore DEF AcquireSend, DriverTypeOK, postVars
<1>3. CASE NetworkSend(t)
  <2>1. Touches({"sendLocked", "sendWait", "sendDone"}, {MessageSent})
    BY <1>1, <1>3, StartTouches DEF NetworkSend
  <2> QED BY <1>3, <2>1, TouchesMore DEF NetworkSend
<1>4. CASE AwaitSend(t)
  <2>1. Touches({"sendWait", "sendDone"}, {MessageSent})
    BY <1>1, <1>4, PTouches DEF AwaitSend
  <2> QED BY <1>4, <2>1, TouchesMore DEF AwaitSend, DriverTypeOK, postVars
<1>5. CASE ReleaseSend(t)
  <2>1. Touches({"sendDone", "outside"}, {SendLock})
    BY <1>1, <1>5, ReleaseTouches DEF ReleaseSend
  <2> QED BY <1>5, <2>1, TouchesMore DEF ReleaseSend, DriverTypeOK, postVars
<1>6. CASE NetworkSendInt
  <2>1. Touches({}, {MessageSent})
    BY <1>6, VTouches DEF NetworkSendInt
  <2>2. sending' \in BOOLEAN
    BY <1>6, Zenon DEF NetworkSendInt
  <2> QED BY <2>1, <2>2, TouchesMore
<1> QED BY <1>2, <1>3, <1>4, <1>5, <1>6

ReceiveLabels == {"outside", "receive", "worker", "packet", "deliver"}

(* and who receives.                                                                        *)
LEMMA ReceiveTouches ==
  ASSUME DriverTypeOK, NEW t \in Thread,
         (\E b \in Box : Receive(t, b)) \/ NetworkRecvInt \/ Deliver
  PROVE  Touches(ReceiveLabels, {MessageAvailable}) /\ UNCHANGED sending
<1> USE Distinct DEF ReceiveLabels
<1>1. ReceiveLabels \subseteq Labels /\ Worker \in Thread
  BY PostOfficeAssumption DEF Labels
<1>2. CASE \E b \in Box : Receive(t, b)
  BY <1>1, <1>2 DEF Receive, Goto, semaphoreVars, DriverTypeOK, Touches
<1>3. CASE NetworkRecvInt
  <2>1. Touches({}, {MessageAvailable})
    BY <1>3, VTouches DEF NetworkRecvInt
  <2> QED BY <1>3, <2>1, TouchesMore DEF NetworkRecvInt
<1>4. CASE AwaitPacket
  <2>1. Touches({"worker", "packet"}, {MessageAvailable})
    BY <1>1, <1>4, PTouches DEF AwaitPacket
  <2> QED BY <1>4, <2>1, TouchesMore DEF AwaitPacket, postVars
<1>5. CASE NetworkReceive
  BY <1>1, <1>5 DEF NetworkReceive, Goto, semaphoreVars, DriverTypeOK, Touches
<1>6. CASE Put
  BY <1>1, <1>6 DEF Put, Goto, semaphoreVars, DriverTypeOK, Touches
<1> QED BY <1>2, <1>3, <1>4, <1>5, <1>6 DEF Deliver

CallLabels == {"outside", "disk", "put", "get", "send", "receive"}

(* A thread that calls a driver. *)
LEMMA CallTouches ==
  ASSUME DriverTypeOK, NEW t \in Thread, Call(t)
  PROVE  Touches(CallLabels, {})
<1>1. \E l \in {"disk", "put", "get", "receive", "send"} : Goto(t, l) /\ pc[t] = "outside"
  BY DEF Call
<1> QED BY <1>1 DEF Call, Goto, semaphoreVars, DriverTypeOK, Touches, CallLabels, Labels

-----------------------------------------------------------------------------
(* Each driver follows RequestReply. *)

(* SynchDisk and the disk. *)
LEMMA DiskMoves ==
  ASSUME DriverTypeOK, NEW t \in Thread, NEW to, pc' = [pc EXCEPT ![t] = to]
  PROVE  DiskPlace' = [DiskPlace EXCEPT ![t] = PlaceAmong(to, "diskLocked", "diskWait", "diskDone")]
BY DEF DiskPlace, DriverTypeOK

(* The steps of the driver and of the device are steps of the protocol.                     *)
LEMMA DiskProtocol ==
  ASSUME DriverTypeOK, NEW t \in Thread,
         AcquireDisk(t) \/ DiskRequest(t) \/ AwaitDisk(t) \/ ReleaseDisk(t) \/ DiskInterrupt
  PROVE  [Disk!Next]_(Disk!vars)
<1> USE Distinct DEF Disk!Move
<1>1. /\ {"disk", "diskLocked", "diskWait", "diskDone", "outside"} \subseteq Labels
      /\ PlaceAmong("disk", "diskLocked", "diskWait", "diskDone") = "outside"
      /\ PlaceAmong("outside", "diskLocked", "diskWait", "diskDone") = "outside"
      /\ PlaceAmong("diskLocked", "diskLocked", "diskWait", "diskDone") = "locked"
      /\ PlaceAmong("diskWait", "diskLocked", "diskWait", "diskDone") = "waiting"
      /\ PlaceAmong("diskDone", "diskLocked", "diskWait", "diskDone") = "answered"
  BY DEF Labels, PlaceAmong
<1>2. DiskPlace[t] = PlaceAmong(pc[t], "diskLocked", "diskWait", "diskDone")
  BY DEF DiskPlace
<1>3. UNCHANGED <<pc, value, active>> => UNCHANGED Disk!vars
  BY DEF Disk!vars, DiskPlace
<1>4. CASE AcquireDisk(t)
  <2>1. \/ pc[t] = "disk" /\ pc' = [pc EXCEPT ![t] = "diskLocked"]
           /\ value[DiskLock] > 0 /\ value'[DiskLock] = value[DiskLock] - 1
           /\ value'[DiskDone] = value[DiskDone] /\ active' = active
        \/ UNCHANGED <<pc, value, active>>
    BY <1>1, <1>4, PTouches DEF AcquireDisk, Touches
  <2>2. CASE ~ UNCHANGED <<pc, value, active>>
    <3>1. DiskPlace[t] = "outside" /\ DiskPlace' = [DiskPlace EXCEPT ![t] = "locked"]
      BY <1>1, <1>2, <2>1, <2>2, DiskMoves
    <3>2. Disk!Acquire(t)
      BY <2>1, <2>2, <3>1 DEF Disk!Acquire
    <3> QED BY <3>2 DEF Disk!Next
  <2> QED BY <1>3, <2>2
<1>5. CASE DiskRequest(t)
  <2>1. /\ pc[t] = "diskLocked" /\ value'[DiskLock] = value[DiskLock]
        /\ \/ pc' = [pc EXCEPT ![t] = "diskDone"]
              /\ value[DiskDone] > 0 /\ value'[DiskDone] = value[DiskDone] - 1
           \/ pc' = [pc EXCEPT ![t] = "diskWait"]
              /\ value[DiskDone] = 0 /\ value'[DiskDone] = 0
    BY <1>1, <1>5, StartTouches DEF DiskRequest, Touches
  <2>2. active' = TRUE
    BY <1>5, Zenon DEF DiskRequest
  <2>3. \/ DiskPlace' = [DiskPlace EXCEPT ![t] = "answered"]
           /\ value[DiskDone] > 0 /\ value'[DiskDone] = value[DiskDone] - 1
        \/ DiskPlace' = [DiskPlace EXCEPT ![t] = "waiting"]
           /\ value[DiskDone] = 0 /\ value'[DiskDone] = value[DiskDone]
    BY <1>1, <2>1, DiskMoves
  <2>4. DiskPlace[t] = "locked"
    BY <1>1, <1>2, <2>1
  <2>5. Disk!Request(t)
    BY <2>1, <2>2, <2>3, <2>4 DEF Disk!Request
  <2> QED BY <2>5 DEF Disk!Next
<1>6. CASE AwaitDisk(t)
  <2>1. \/ pc[t] = "diskWait" /\ pc' = [pc EXCEPT ![t] = "diskDone"]
           /\ value[DiskDone] > 0 /\ value'[DiskDone] = value[DiskDone] - 1
           /\ value'[DiskLock] = value[DiskLock] /\ active' = active
        \/ UNCHANGED <<pc, value, active>>
    BY <1>1, <1>6, PTouches DEF AwaitDisk, Touches
  <2>2. CASE ~ UNCHANGED <<pc, value, active>>
    <3>1. DiskPlace[t] = "waiting" /\ DiskPlace' = [DiskPlace EXCEPT ![t] = "answered"]
      BY <1>1, <1>2, <2>1, <2>2, DiskMoves
    <3>2. Disk!Answered(t)
      BY <2>1, <2>2, <3>1 DEF Disk!Answered
    <3> QED BY <3>2 DEF Disk!Next
  <2> QED BY <1>3, <2>2
<1>7. CASE ReleaseDisk(t)
  <2>1. /\ pc[t] = "diskDone" /\ pc' = [pc EXCEPT ![t] = "outside"]
        /\ value'[DiskLock] = value[DiskLock] + 1
        /\ value'[DiskDone] = value[DiskDone] /\ active' = active
    BY <1>1, <1>7, ReleaseTouches DEF ReleaseDisk, Touches
  <2>2. DiskPlace' = [DiskPlace EXCEPT ![t] = PlaceAmong("outside", "diskLocked", "diskWait", "diskDone")]
    BY <2>1, DiskMoves
  <2>3. DiskPlace[t] = "answered"
    BY <1>1, <1>2, <2>1
  <2>4. Disk!Release(t)
    BY <1>1, <2>1, <2>2, <2>3 DEF Disk!Release
  <2> QED BY <2>4 DEF Disk!Next
<1>8. CASE DiskInterrupt
  <2>1. /\ value'[DiskDone] = value[DiskDone] + 1 /\ value'[DiskLock] = value[DiskLock]
        /\ DiskPlace' = DiskPlace
    BY <1>8, VTouches DEF DiskInterrupt, Touches, DiskPlace
  <2>2. active /\ active' = FALSE
    BY <1>8, Zenon DEF DiskInterrupt
  <2>3. Disk!Interrupt
    BY <2>1, <2>2 DEF Disk!Interrupt
  <2> QED BY <2>3 DEF Disk!Next
<1> QED BY <1>4, <1>5, <1>6, <1>7, <1>8

(* SynchConsoleOutput and the display. *)
LEMMA DisplayMoves ==
  ASSUME DriverTypeOK, NEW t \in Thread, NEW to, pc' = [pc EXCEPT ![t] = to]
  PROVE  DisplayPlace' = [DisplayPlace EXCEPT ![t] = PlaceAmong(to, "putLocked", "putWait", "putDone")]
BY DEF DisplayPlace, DriverTypeOK

(* The steps of the driver and of the device are steps of the protocol.                     *)
LEMMA DisplayProtocol ==
  ASSUME DriverTypeOK, NEW t \in Thread,
         AcquireOut(t) \/ PutChar(t) \/ AwaitOut(t) \/ ReleaseOut(t) \/ ConsoleWriteInt
  PROVE  [Display!Next]_(Display!vars)
<1> USE Distinct DEF Display!Move
<1>1. /\ {"put", "putLocked", "putWait", "putDone", "outside"} \subseteq Labels
      /\ PlaceAmong("put", "putLocked", "putWait", "putDone") = "outside"
      /\ PlaceAmong("outside", "putLocked", "putWait", "putDone") = "outside"
      /\ PlaceAmong("putLocked", "putLocked", "putWait", "putDone") = "locked"
      /\ PlaceAmong("putWait", "putLocked", "putWait", "putDone") = "waiting"
      /\ PlaceAmong("putDone", "putLocked", "putWait", "putDone") = "answered"
  BY DEF Labels, PlaceAmong
<1>2. DisplayPlace[t] = PlaceAmong(pc[t], "putLocked", "putWait", "putDone")
  BY DEF DisplayPlace
<1>3. UNCHANGED <<pc, value, putBusy>> => UNCHANGED Display!vars
  BY DEF Display!vars, DisplayPlace
<1>4. CASE AcquireOut(t)
  <2>1. \/ pc[t] = "put" /\ pc' = [pc EXCEPT ![t] = "putLocked"]
           /\ value[OutLock] > 0 /\ value'[OutLock] = value[OutLock] - 1
           /\ value'[OutDone] = value[OutDone] /\ putBusy' = putBusy
        \/ UNCHANGED <<pc, value, putBusy>>
    BY <1>1, <1>4, PTouches DEF AcquireOut, Touches, consoleVars
  <2>2. CASE ~ UNCHANGED <<pc, value, putBusy>>
    <3>1. DisplayPlace[t] = "outside" /\ DisplayPlace' = [DisplayPlace EXCEPT ![t] = "locked"]
      BY <1>1, <1>2, <2>1, <2>2, DisplayMoves
    <3>2. Display!Acquire(t)
      BY <2>1, <2>2, <3>1 DEF Display!Acquire
    <3> QED BY <3>2 DEF Display!Next
  <2> QED BY <1>3, <2>2
<1>5. CASE PutChar(t)
  <2>1. /\ pc[t] = "putLocked" /\ value'[OutLock] = value[OutLock]
        /\ \/ pc' = [pc EXCEPT ![t] = "putDone"]
              /\ value[OutDone] > 0 /\ value'[OutDone] = value[OutDone] - 1
           \/ pc' = [pc EXCEPT ![t] = "putWait"]
              /\ value[OutDone] = 0 /\ value'[OutDone] = 0
    BY <1>1, <1>5, StartTouches DEF PutChar, Touches
  <2>2. putBusy' = TRUE
    BY <1>5, Zenon DEF PutChar
  <2>3. \/ DisplayPlace' = [DisplayPlace EXCEPT ![t] = "answered"]
           /\ value[OutDone] > 0 /\ value'[OutDone] = value[OutDone] - 1
        \/ DisplayPlace' = [DisplayPlace EXCEPT ![t] = "waiting"]
           /\ value[OutDone] = 0 /\ value'[OutDone] = value[OutDone]
    BY <1>1, <2>1, DisplayMoves
  <2>4. DisplayPlace[t] = "locked"
    BY <1>1, <1>2, <2>1
  <2>5. Display!Request(t)
    BY <2>1, <2>2, <2>3, <2>4 DEF Display!Request
  <2> QED BY <2>5 DEF Display!Next
<1>6. CASE AwaitOut(t)
  <2>1. \/ pc[t] = "putWait" /\ pc' = [pc EXCEPT ![t] = "putDone"]
           /\ value[OutDone] > 0 /\ value'[OutDone] = value[OutDone] - 1
           /\ value'[OutLock] = value[OutLock] /\ putBusy' = putBusy
        \/ UNCHANGED <<pc, value, putBusy>>
    BY <1>1, <1>6, PTouches DEF AwaitOut, Touches, consoleVars
  <2>2. CASE ~ UNCHANGED <<pc, value, putBusy>>
    <3>1. DisplayPlace[t] = "waiting" /\ DisplayPlace' = [DisplayPlace EXCEPT ![t] = "answered"]
      BY <1>1, <1>2, <2>1, <2>2, DisplayMoves
    <3>2. Display!Answered(t)
      BY <2>1, <2>2, <3>1 DEF Display!Answered
    <3> QED BY <3>2 DEF Display!Next
  <2> QED BY <1>3, <2>2
<1>7. CASE ReleaseOut(t)
  <2>1. /\ pc[t] = "putDone" /\ pc' = [pc EXCEPT ![t] = "outside"]
        /\ value'[OutLock] = value[OutLock] + 1
        /\ value'[OutDone] = value[OutDone] /\ putBusy' = putBusy
    BY <1>1, <1>7, ReleaseTouches DEF ReleaseOut, Touches, consoleVars
  <2>2. DisplayPlace' = [DisplayPlace EXCEPT ![t] = PlaceAmong("outside", "putLocked", "putWait", "putDone")]
    BY <2>1, DisplayMoves
  <2>3. DisplayPlace[t] = "answered"
    BY <1>1, <1>2, <2>1
  <2>4. Display!Release(t)
    BY <1>1, <2>1, <2>2, <2>3 DEF Display!Release
  <2> QED BY <2>4 DEF Display!Next
<1>8. CASE ConsoleWriteInt
  <2>1. /\ value'[OutDone] = value[OutDone] + 1 /\ value'[OutLock] = value[OutLock]
        /\ DisplayPlace' = DisplayPlace
    BY <1>8, VTouches DEF ConsoleWriteInt, Touches, DisplayPlace
  <2>2. putBusy /\ putBusy' = FALSE
    BY <1>8, Zenon DEF ConsoleWriteInt
  <2>3. Display!Interrupt
    BY <2>1, <2>2 DEF Display!Interrupt
  <2> QED BY <2>3 DEF Display!Next
<1> QED BY <1>4, <1>5, <1>6, <1>7, <1>8

(* PostOfficeOutput and the network. *)
LEMMA NetMoves ==
  ASSUME DriverTypeOK, NEW t \in Thread, NEW to, pc' = [pc EXCEPT ![t] = to]
  PROVE  NetPlace' = [NetPlace EXCEPT ![t] = PlaceAmong(to, "sendLocked", "sendWait", "sendDone")]
BY DEF NetPlace, DriverTypeOK

(* The steps of the driver and of the device are steps of the protocol.                     *)
LEMMA NetProtocol ==
  ASSUME DriverTypeOK, NEW t \in Thread,
         AcquireSend(t) \/ NetworkSend(t) \/ AwaitSend(t) \/ ReleaseSend(t) \/ NetworkSendInt
  PROVE  [Net!Next]_(Net!vars)
<1> USE Distinct DEF Net!Move
<1>1. /\ {"send", "sendLocked", "sendWait", "sendDone", "outside"} \subseteq Labels
      /\ PlaceAmong("send", "sendLocked", "sendWait", "sendDone") = "outside"
      /\ PlaceAmong("outside", "sendLocked", "sendWait", "sendDone") = "outside"
      /\ PlaceAmong("sendLocked", "sendLocked", "sendWait", "sendDone") = "locked"
      /\ PlaceAmong("sendWait", "sendLocked", "sendWait", "sendDone") = "waiting"
      /\ PlaceAmong("sendDone", "sendLocked", "sendWait", "sendDone") = "answered"
  BY DEF Labels, PlaceAmong
<1>2. NetPlace[t] = PlaceAmong(pc[t], "sendLocked", "sendWait", "sendDone")
  BY DEF NetPlace
<1>3. UNCHANGED <<pc, value, sending>> => UNCHANGED Net!vars
  BY DEF Net!vars, NetPlace
<1>4. CASE AcquireSend(t)
  <2>1. \/ pc[t] = "send" /\ pc' = [pc EXCEPT ![t] = "sendLocked"]
           /\ value[SendLock] > 0 /\ value'[SendLock] = value[SendLock] - 1
           /\ value'[MessageSent] = value[MessageSent] /\ sending' = sending
        \/ UNCHANGED <<pc, value, sending>>
    BY <1>1, <1>4, PTouches DEF AcquireSend, Touches, postVars
  <2>2. CASE ~ UNCHANGED <<pc, value, sending>>
    <3>1. NetPlace[t] = "outside" /\ NetPlace' = [NetPlace EXCEPT ![t] = "locked"]
      BY <1>1, <1>2, <2>1, <2>2, NetMoves
    <3>2. Net!Acquire(t)
      BY <2>1, <2>2, <3>1 DEF Net!Acquire
    <3> QED BY <3>2 DEF Net!Next
  <2> QED BY <1>3, <2>2
<1>5. CASE NetworkSend(t)
  <2>1. /\ pc[t] = "sendLocked" /\ value'[SendLock] = value[SendLock]
        /\ \/ pc' = [pc EXCEPT ![t] = "sendDone"]
              /\ value[MessageSent] > 0 /\ value'[MessageSent] = value[MessageSent] - 1
           \/ pc' = [pc EXCEPT ![t] = "sendWait"]
              /\ value[MessageSent] = 0 /\ value'[MessageSent] = 0
    BY <1>1, <1>5, StartTouches DEF NetworkSend, Touches
  <2>2. sending' = TRUE
    BY <1>5, Zenon DEF NetworkSend
  <2>3. \/ NetPlace' = [NetPlace EXCEPT ![t] = "answered"]
           /\ value[MessageSent] > 0 /\ value'[MessageSent] = value[MessageSent] - 1
        \/ NetPlace' = [NetPlace EXCEPT ![t] = "waiting"]
           /\ value[MessageSent] = 0 /\ value'[MessageSent] = value[MessageSent]
    BY <1>1, <2>1, NetMoves
  <2>4. NetPlace[t] = "locked"
    BY <1>1, <1>2, <2>1
  <2>5. Net!Request(t)
    BY <2>1, <2>2, <2>3, <2>4 DEF Net!Request
  <2> QED BY <2>5 DEF Net!Next
<1>6. CASE AwaitSend(t)
  <2>1. \/ pc[t] = "sendWait" /\ pc' = [pc EXCEPT ![t] = "sendDone"]
           /\ value[MessageSent] > 0 /\ value'[MessageSent] = value[MessageSent] - 1
           /\ value'[SendLock] = value[SendLock] /\ sending' = sending
        \/ UNCHANGED <<pc, value, sending>>
    BY <1>1, <1>6, PTouches DEF AwaitSend, Touches, postVars
  <2>2. CASE ~ UNCHANGED <<pc, value, sending>>
    <3>1. NetPlace[t] = "waiting" /\ NetPlace' = [NetPlace EXCEPT ![t] = "answered"]
      BY <1>1, <1>2, <2>1, <2>2, NetMoves
    <3>2. Net!Answered(t)
      BY <2>1, <2>2, <3>1 DEF Net!Answered
    <3> QED BY <3>2 DEF Net!Next
  <2> QED BY <1>3, <2>2
<1>7. CASE ReleaseSend(t)
  <2>1. /\ pc[t] = "sendDone" /\ pc' = [pc EXCEPT ![t] = "outside"]
        /\ value'[SendLock] = value[SendLock] + 1
        /\ value'[MessageSent] = value[MessageSent] /\ sending' = sending
    BY <1>1, <1>7, ReleaseTouches DEF ReleaseSend, Touches, postVars
  <2>2. NetPlace' = [NetPlace EXCEPT ![t] = PlaceAmong("outside", "sendLocked", "sendWait", "sendDone")]
    BY <2>1, NetMoves
  <2>3. NetPlace[t] = "answered"
    BY <1>1, <1>2, <2>1
  <2>4. Net!Release(t)
    BY <1>1, <2>1, <2>2, <2>3 DEF Net!Release
  <2> QED BY <2>4 DEF Net!Next
<1>8. CASE NetworkSendInt
  <2>1. /\ value'[MessageSent] = value[MessageSent] + 1 /\ value'[SendLock] = value[SendLock]
        /\ NetPlace' = NetPlace
    BY <1>8, VTouches DEF NetworkSendInt, Touches, NetPlace
  <2>2. sending /\ sending' = FALSE
    BY <1>8, Zenon DEF NetworkSendInt
  <2>3. Net!Interrupt
    BY <2>1, <2>2 DEF Net!Interrupt
  <2> QED BY <2>3 DEF Net!Next
<1> QED BY <1>4, <1>5, <1>6, <1>7, <1>8

-----------------------------------------------------------------------------
(* A step of one driver, or of none, leaves the protocol of another where it was.           *)
LEMMA ElsewhereIsQuiet ==
  ASSUME NEW labels, NEW semaphores, Touches(labels, semaphores)
  PROVE  /\ /\ {"diskLocked", "diskWait", "diskDone"} \cap labels = {}
            /\ {DiskLock, DiskDone} \cap semaphores = {} /\ UNCHANGED active
            => UNCHANGED Disk!vars
         /\ /\ {"putLocked", "putWait", "putDone"} \cap labels = {}
            /\ {OutLock, OutDone} \cap semaphores = {} /\ UNCHANGED putBusy
            => UNCHANGED Display!vars
         /\ /\ {"sendLocked", "sendWait", "sendDone"} \cap labels = {}
            /\ {SendLock, MessageSent} \cap semaphores = {} /\ UNCHANGED sending
            => UNCHANGED Net!vars
<1>1. /\ {"diskLocked", "diskWait", "diskDone"} \cap labels = {} => DiskPlace' = DiskPlace
      /\ {"putLocked", "putWait", "putDone"} \cap labels = {} => DisplayPlace' = DisplayPlace
      /\ {"sendLocked", "sendWait", "sendDone"} \cap labels = {} => NetPlace' = NetPlace
  BY DEF Touches, DiskPlace, DisplayPlace, NetPlace, PlaceAmong
<1>2. \A s \in Semaphore : s \notin semaphores => value'[s] = value[s]
  BY DEF Touches
<1>3. {DiskLock, DiskDone, OutLock, OutDone, SendLock, MessageSent} \subseteq Semaphore
  BY Distinct
<1> QED BY <1>1, <1>2, <1>3 DEF Disk!vars, Display!vars, Net!vars

(* The steps of the kernel, by the part they belong to.                                     *)
DiskSide(t) == (DiskStep(t) \/ DiskInterrupt) /\ UNCHANGED <<consoleVars, postVars>>
DisplaySide(t) ==
  /\ AcquireOut(t) \/ PutChar(t) \/ AwaitOut(t) \/ ReleaseOut(t) \/ ConsoleWriteInt
  /\ UNCHANGED <<active, postVars>>
KeyboardSide(t) ==
  /\ AcquireIn(t) \/ AwaitIn(t) \/ GetChar(t) \/ ConsoleReadInt \/ ConsoleReadEnd
  /\ UNCHANGED <<active, postVars>>
SendSide(t) ==
  /\ AcquireSend(t) \/ NetworkSend(t) \/ AwaitSend(t) \/ ReleaseSend(t) \/ NetworkSendInt
  /\ UNCHANGED <<active, consoleVars>>
ReceiveSide(t) ==
  /\ (\E b \in Box : Receive(t, b)) \/ NetworkRecvInt \/ Deliver
  /\ UNCHANGED <<active, consoleVars>>

(* There are no other steps.                                                                *)
LEMMA Sides ==
  ASSUME Next
  PROVE  \E t \in Thread : \/ DiskSide(t) \/ DisplaySide(t) \/ KeyboardSide(t)
                           \/ SendSide(t) \/ ReceiveSide(t) \/ Call(t)
<1>1. Worker \in Thread
  BY PostOfficeAssumption
<1>2. ASSUME NEW t \in Thread, Step(t)
      PROVE  DiskSide(t) \/ DisplaySide(t) \/ KeyboardSide(t) \/ SendSide(t) \/ ReceiveSide(t)
  BY <1>2, Zenon DEF Step, ConsoleStep, PostStep, DiskSide, DisplaySide, KeyboardSide, SendSide, ReceiveSide
<1>3. ASSUME DiskInt \/ DisplayInt \/ KeyInt \/ KeyEnd \/ SendInt \/ RecvInt \/ WorkerStep
      PROVE  \/ DiskSide(Worker) \/ DisplaySide(Worker) \/ KeyboardSide(Worker)
             \/ SendSide(Worker) \/ ReceiveSide(Worker)
  BY <1>3, Zenon DEF DiskInt, DisplayInt, KeyInt, KeyEnd, SendInt, RecvInt, WorkerStep,
                     DiskSide, DisplaySide, KeyboardSide, SendSide, ReceiveSide
<1> QED BY <1>1, <1>2, <1>3 DEF Next

(* Every step of the kernel is one of each protocol, or none.                               *)
LEMMA FollowsProtocols ==
  ASSUME DriverTypeOK, [Next]_vars
  PROVE  /\ DriverTypeOK'
         /\ [Disk!Next]_(Disk!vars) /\ [Display!Next]_(Display!vars) /\ [Net!Next]_(Net!vars)
<1> USE Distinct
<1>1. ASSUME NEW t \in Thread, DiskSide(t)
      PROVE  /\ DriverTypeOK'
             /\ [Disk!Next]_(Disk!vars) /\ UNCHANGED Display!vars /\ UNCHANGED Net!vars
  <2>1. Touches(DiskLabels, {DiskLock, DiskDone}) /\ active' \in BOOLEAN
    BY <1>1, DiskTouches DEF DiskSide
  <2>2. UNCHANGED <<putBusy, polling, ended, sending>>
    BY <1>1 DEF DiskSide, consoleVars, postVars
  <2>3. UNCHANGED Display!vars /\ UNCHANGED Net!vars
    BY <2>1, <2>2, ElsewhereIsQuiet DEF DiskLabels
  <2>4. [Disk!Next]_(Disk!vars)
    BY <1>1, DiskProtocol DEF DiskSide, DiskStep
  <2>5. DriverTypeOK'
    BY <2>1, <2>2 DEF DriverTypeOK, Touches
  <2> QED BY <2>3, <2>4, <2>5
<1>2. ASSUME NEW t \in Thread, DisplaySide(t)
      PROVE  /\ DriverTypeOK'
             /\ UNCHANGED Disk!vars /\ [Display!Next]_(Display!vars) /\ UNCHANGED Net!vars
  <2>1. Touches(PutLabels, {OutLock, OutDone}) /\ putBusy' \in BOOLEAN /\ UNCHANGED <<polling, ended>>
    BY <1>2, DisplayTouches DEF DisplaySide
  <2>2. UNCHANGED <<active, sending>>
    BY <1>2 DEF DisplaySide, postVars
  <2>3. UNCHANGED Disk!vars /\ UNCHANGED Net!vars
    BY <2>1, <2>2, ElsewhereIsQuiet DEF PutLabels
  <2>4. [Display!Next]_(Display!vars)
    BY <1>2, DisplayProtocol DEF DisplaySide
  <2>5. DriverTypeOK'
    BY <2>1, <2>2 DEF DriverTypeOK, Touches
  <2> QED BY <2>3, <2>4, <2>5
<1>3. ASSUME NEW t \in Thread, KeyboardSide(t)
      PROVE  /\ DriverTypeOK'
             /\ UNCHANGED Disk!vars /\ UNCHANGED Display!vars /\ UNCHANGED Net!vars
  <2>1. Touches(GetLabels, {InLock, InAvail}) /\ {polling', ended'} \subseteq BOOLEAN /\ UNCHANGED putBusy
    BY <1>3, KeyboardTouches DEF KeyboardSide
  <2>2. UNCHANGED <<active, sending>>
    BY <1>3 DEF KeyboardSide, postVars
  <2>3. UNCHANGED Disk!vars /\ UNCHANGED Display!vars /\ UNCHANGED Net!vars
    BY <2>1, <2>2, ElsewhereIsQuiet DEF GetLabels
  <2>4. DriverTypeOK'
    BY <2>1, <2>2 DEF DriverTypeOK, Touches
  <2> QED BY <2>3, <2>4
<1>4. ASSUME NEW t \in Thread, SendSide(t)
      PROVE  /\ DriverTypeOK'
             /\ UNCHANGED Disk!vars /\ UNCHANGED Display!vars /\ [Net!Next]_(Net!vars)
  <2>1. Touches(PostLabels, {SendLock, MessageSent}) /\ sending' \in BOOLEAN
    BY <1>4, SendTouches DEF SendSide
  <2>2. UNCHANGED <<active, putBusy, polling, ended>>
    BY <1>4 DEF SendSide, consoleVars
  <2>3. UNCHANGED Disk!vars /\ UNCHANGED Display!vars
    BY <2>1, <2>2, ElsewhereIsQuiet DEF PostLabels
  <2>4. [Net!Next]_(Net!vars)
    BY <1>4, NetProtocol DEF SendSide
  <2>5. DriverTypeOK'
    BY <2>1, <2>2 DEF DriverTypeOK, Touches
  <2> QED BY <2>3, <2>4, <2>5
<1>5. ASSUME NEW t \in Thread, ReceiveSide(t)
      PROVE  /\ DriverTypeOK'
             /\ UNCHANGED Disk!vars /\ UNCHANGED Display!vars /\ UNCHANGED Net!vars
  <2>1. Touches(ReceiveLabels, {MessageAvailable}) /\ UNCHANGED sending
    BY <1>5, ReceiveTouches DEF ReceiveSide
  <2>2. UNCHANGED <<active, putBusy, polling, ended>>
    BY <1>5 DEF ReceiveSide, consoleVars
  <2>3. UNCHANGED Disk!vars /\ UNCHANGED Display!vars /\ UNCHANGED Net!vars
    BY <2>1, <2>2, ElsewhereIsQuiet DEF ReceiveLabels
  <2>4. DriverTypeOK'
    BY <2>1, <2>2 DEF DriverTypeOK, Touches
  <2> QED BY <2>3, <2>4
<1>6. ASSUME NEW t \in Thread, Call(t)
      PROVE  /\ DriverTypeOK'
             /\ UNCHANGED Disk!vars /\ UNCHANGED Display!vars /\ UNCHANGED Net!vars
  <2>1. Touches(CallLabels, {})
    BY <1>6, CallTouches
  <2>2. UNCHANGED <<active, putBusy, polling, ended, sending>>
    BY <1>6 DEF Call, consoleVars, postVars
  <2>3. UNCHANGED Disk!vars /\ UNCHANGED Display!vars /\ UNCHANGED Net!vars
    BY <2>1, <2>2, ElsewhereIsQuiet DEF CallLabels
  <2>4. DriverTypeOK'
    BY <2>1, <2>2 DEF DriverTypeOK, Touches
  <2> QED BY <2>3, <2>4
<1>7. CASE UNCHANGED vars
  <2>1. UNCHANGED <<value, pc, active, putBusy, polling, ended, sending>>
    BY <1>7 DEF vars, semaphoreVars, consoleVars, postVars
  <2>2. UNCHANGED Disk!vars /\ UNCHANGED Display!vars /\ UNCHANGED Net!vars
    BY <2>1 DEF Disk!vars, Display!vars, Net!vars, DiskPlace, DisplayPlace, NetPlace
  <2>3. DriverTypeOK'
    BY <2>1 DEF DriverTypeOK
  <2> QED BY <2>2, <2>3
<1> QED BY <1>1, <1>2, <1>3, <1>4, <1>5, <1>6, <1>7, Sides

-----------------------------------------------------------------------------
(* The keyboard. *)
Reader(t) == pc[t] \in {"getLocked", "getDone"}
NobodyReads == \A t \in Thread : pc[t] # "getDone"

(* One reader at a time; a poll, a unit or a character being fetched, and no two of them;   *)
(* none only when the input has ended.                                                      *)
KeyboardInv ==
  /\ \A t, u \in Thread : Reader(t) /\ Reader(u) => t = u
  /\ value[InLock] <= 1 /\ \A t \in Thread : Reader(t) => value[InLock] = 0
  /\ value[InAvail] <= 1
  /\ value[InAvail] = 1 => NobodyReads /\ polling = FALSE
  /\ polling = TRUE => value[InAvail] = 0 /\ NobodyReads /\ incoming = EOF
  /\ polling = FALSE /\ value[InAvail] = 0 /\ NobodyReads => ended = TRUE
  /\ polling = FALSE /\ incoming = EOF => ended = TRUE

(* The steps of the others do not touch it. *)
LEMMA KeyboardUntouched ==
  ASSUME KeyboardInv, NEW labels, NEW semaphores, Touches(labels, semaphores),
         {"getLocked", "getDone"} \cap labels = {}, {InLock, InAvail} \cap semaphores = {},
         UNCHANGED <<polling, incoming, ended>>
  PROVE  KeyboardInv'
<1>1. value'[InLock] = value[InLock] /\ value'[InAvail] = value[InAvail]
  BY Distinct DEF Touches
<1>2. \A t \in Thread : /\ pc'[t] \in {"getLocked", "getDone"} <=> pc[t] \in {"getLocked", "getDone"}
                        /\ pc'[t] = "getDone" <=> pc[t] = "getDone"
  BY DEF Touches
<1>3. \A t \in Thread : Reader(t)' <=> Reader(t)
  BY <1>2, Zenon DEF Reader
<1>4. NobodyReads' <=> NobodyReads
  BY <1>2, Zenon DEF NobodyReads
<1>5. polling' = polling /\ incoming' = incoming /\ ended' = ended
  OBVIOUS
<1> HIDE DEF Reader, NobodyReads
<1> QED BY <1>1, <1>3, <1>4, <1>5 DEF KeyboardInv

(* Its own steps keep it.                                                                   *)
LEMMA KeyboardKeeps ==
  ASSUME DriverTypeOK, KeyboardInv, NEW t \in Thread, KeyboardSide(t)
  PROVE  KeyboardInv'
<1> USE Distinct DEF KeyboardInv, Reader, NobodyReads
<1>1. {"get", "getLocked", "getDone", "outside"} \subseteq Labels
  BY DEF Labels
<1>2. /\ pc \in [Thread -> Labels] /\ value[InLock] \in Nat /\ value[InAvail] \in Nat
      /\ polling \in {TRUE, FALSE}
  BY DEF DriverTypeOK
<1>3. CASE AcquireIn(t)
  <2>1. UNCHANGED <<polling, incoming, ended>>
    BY <1>3 DEF AcquireIn, consoleVars
  <2>2. \/ /\ pc[t] = "get" /\ pc' = [pc EXCEPT ![t] = "getLocked"]
           /\ value[InLock] > 0 /\ value'[InLock] = value[InLock] - 1
           /\ value'[InAvail] = value[InAvail]
        \/ UNCHANGED <<pc, value>>
    BY <1>1, <1>3, PTouches DEF AcquireIn, Touches
  <2> QED BY <1>2, <2>1, <2>2
<1>4. CASE AwaitIn(t)
  <2>1. UNCHANGED <<polling, incoming, ended>>
    BY <1>4 DEF AwaitIn, consoleVars
  <2>2. \/ /\ pc[t] = "getLocked" /\ pc' = [pc EXCEPT ![t] = "getDone"]
           /\ value[InAvail] > 0 /\ value'[InAvail] = value[InAvail] - 1
           /\ value'[InLock] = value[InLock]
        \/ UNCHANGED <<pc, value>>
    BY <1>1, <1>4, PTouches DEF AwaitIn, Touches
  <2> QED BY <1>2, <2>1, <2>2
<1>5. CASE GetChar(t)
  <2>1. /\ pc[t] = "getDone" /\ pc' = [pc EXCEPT ![t] = "outside"]
        /\ value'[InLock] = value[InLock] + 1 /\ value'[InAvail] = value[InAvail]
    BY <1>1, <1>5, ReleaseTouches DEF GetChar, Touches
  <2>2. incoming' = EOF /\ ended' = ended
    BY <1>5 DEF GetChar
  <2>3. (polling' = TRUE /\ incoming # EOF) \/ (polling' = FALSE /\ incoming = EOF)
    BY <1>5, Zenon DEF GetChar, PollAgain
  <2>4. polling = FALSE /\ value[InAvail] = 0
    BY <1>2, <2>1
  <2>5. \A u \in Thread : pc'[u] \notin {"getLocked", "getDone"}
    BY <1>2, <2>1
  <2>6. value[InLock] = 0
    BY <2>1
  <2> QED BY <2>1, <2>2, <2>3, <2>4, <2>5, <2>6
<1>6. CASE ConsoleReadInt
  <2>1. value'[InAvail] = value[InAvail] + 1 /\ value'[InLock] = value[InLock] /\ pc' = pc
    BY <1>6, VTouches DEF ConsoleReadInt, Touches
  <2>2. polling = TRUE /\ polling' = FALSE
    BY <1>2, <1>6, Zenon DEF ConsoleReadInt
  <2>3. incoming' = EOF => ended' = TRUE
    BY <1>6, Zenon DEF ConsoleReadInt
  <2> QED BY <1>2, <2>1, <2>2, <2>3
<1>7. CASE ConsoleReadEnd
  <2>1. value'[InAvail] = value[InAvail] + 1 /\ value'[InLock] = value[InLock] /\ pc' = pc
    BY <1>7, VTouches DEF ConsoleReadEnd, Touches
  <2>2. polling = TRUE /\ polling' = FALSE /\ ended' = TRUE
    BY <1>2, <1>7, Zenon DEF ConsoleReadEnd
  <2> QED BY <1>2, <2>1, <2>2
<1> QED BY <1>3, <1>4, <1>5, <1>6, <1>7 DEF KeyboardSide

-----------------------------------------------------------------------------
DriversInv == DriverTypeOK /\ KeyboardInv

(* At the start nobody is in a driver, and the keyboard is polled.                          *)
LEMMA InitDrivers == Init => DriversInv /\ Disk!Init /\ Display!Init /\ Net!Init
<1> SUFFICES ASSUME Init PROVE DriversInv /\ Disk!Init /\ Display!Init /\ Net!Init
  OBVIOUS
<1>1. /\ value = InitialValue /\ InitialValue \in [Semaphore -> Nat]
      /\ value[DiskLock] = 1 /\ value[InLock] = 1 /\ value[OutLock] = 1 /\ value[SendLock] = 1
      /\ value[DiskDone] = 0 /\ value[InAvail] = 0 /\ value[OutDone] = 0 /\ value[MessageSent] = 0
  BY DevicesAssumption, SemaphoreAssumption DEF Init, SemaphoreInit
<1>2. pc = [t \in Thread |-> IF t = Worker THEN "worker" ELSE "outside"]
  BY DEF Init
<1>3. /\ active = FALSE /\ putBusy = FALSE /\ polling = TRUE /\ ended = FALSE /\ sending = FALSE
      /\ incoming = EOF
  BY DEF Init, DiskInit, ConsoleInit, PostInit
<1>4. DriverTypeOK
  BY <1>1, <1>2, <1>3 DEF DriverTypeOK, Labels
<1>5. KeyboardInv
  BY <1>1, <1>2, <1>3 DEF KeyboardInv, Reader, NobodyReads
<1>6. /\ DiskPlace = [t \in Thread |-> "outside"]
      /\ DisplayPlace = [t \in Thread |-> "outside"]
      /\ NetPlace = [t \in Thread |-> "outside"]
  BY <1>2 DEF DiskPlace, DisplayPlace, NetPlace, PlaceAmong
<1> QED BY <1>1, <1>3, <1>4, <1>5, <1>6 DEF DriversInv, Disk!Init, Display!Init, Net!Init

(* Every step keeps the keyboard in order. *)
LEMMA NextDrivers == DriversInv /\ [Next]_vars => DriversInv'
<1> SUFFICES ASSUME DriversInv, [Next]_vars PROVE DriversInv'
  OBVIOUS
<1> USE Distinct DEF DriversInv
<1>1. DriverTypeOK'
  BY FollowsProtocols
<1>2. ASSUME NEW t \in Thread, DiskSide(t) PROVE KeyboardInv'
  <2>1. Touches(DiskLabels, {DiskLock, DiskDone}) /\ UNCHANGED <<polling, incoming, ended>>
    BY <1>2, DiskTouches DEF DiskSide, consoleVars
  <2> QED BY <2>1, KeyboardUntouched DEF DiskLabels
<1>3. ASSUME NEW t \in Thread, DisplaySide(t) PROVE KeyboardInv'
  <2>1. Touches(PutLabels, {OutLock, OutDone}) /\ UNCHANGED <<polling, incoming, ended>>
    BY <1>3, DisplayTouches DEF DisplaySide
  <2> QED BY <2>1, KeyboardUntouched DEF PutLabels
<1>4. ASSUME NEW t \in Thread, KeyboardSide(t) PROVE KeyboardInv'
  BY <1>4, KeyboardKeeps
<1>5. ASSUME NEW t \in Thread, SendSide(t) PROVE KeyboardInv'
  <2>1. Touches(PostLabels, {SendLock, MessageSent}) /\ UNCHANGED <<polling, incoming, ended>>
    BY <1>5, SendTouches DEF SendSide, consoleVars
  <2> QED BY <2>1, KeyboardUntouched DEF PostLabels
<1>6. ASSUME NEW t \in Thread, ReceiveSide(t) PROVE KeyboardInv'
  <2>1. Touches(ReceiveLabels, {MessageAvailable}) /\ UNCHANGED <<polling, incoming, ended>>
    BY <1>6, ReceiveTouches DEF ReceiveSide, consoleVars
  <2> QED BY <2>1, KeyboardUntouched DEF ReceiveLabels
<1>7. ASSUME NEW t \in Thread, Call(t) PROVE KeyboardInv'
  <2>1. Touches(CallLabels, {}) /\ UNCHANGED <<polling, incoming, ended>>
    BY <1>7, CallTouches DEF Call, consoleVars
  <2> QED BY <2>1, KeyboardUntouched DEF CallLabels
<1>8. CASE UNCHANGED vars
  <2>1. UNCHANGED <<pc, value, polling, incoming, ended>>
    BY <1>8 DEF vars, semaphoreVars, consoleVars
  <2> QED BY <1>1, <2>1 DEF KeyboardInv, Reader, NobodyReads
<1> QED BY <1>1, <1>2, <1>3, <1>4, <1>5, <1>6, <1>7, <1>8, Sides

(* SynchDisk, SynchConsoleOutput and PostOfficeOutput implement RequestReply.               *)
THEOREM DriversFollowProtocol == Spec => Disk!Spec /\ Display!Spec /\ Net!Spec
<1>1. DriversInv /\ [Next]_vars =>
        [Disk!Next]_(Disk!vars) /\ [Display!Next]_(Display!vars) /\ [Net!Next]_(Net!vars)
  BY FollowsProtocols DEF DriversInv
<1> QED BY <1>1, InitDrivers, NextDrivers, PTL DEF Spec, Disk!Spec, Display!Spec, Net!Spec

(* The number of readers that fetch a character. *)
LEMMA KeyboardSafe == DriversInv => OneKeystroke
<1> SUFFICES ASSUME DriversInv PROVE OneKeystroke
  OBVIOUS
<1> DEFINE fetching == {t \in Thread : pc[t] = "getDone"}
<1>1. value[InAvail] \in Nat /\ polling \in {TRUE, FALSE}
  BY Distinct DEF DriversInv, DriverTypeOK
<1>2. CASE NobodyReads
  <2>1. Cardinality(fetching) = 0
    BY <1>2, FS_EmptySet DEF NobodyReads
  <2> QED BY <1>1, <1>2, <2>1 DEF OneKeystroke, KeyboardTokens, DriversInv, KeyboardInv
<1>3. ASSUME NEW t \in Thread, pc[t] = "getDone" PROVE OneKeystroke
  <2>1. fetching = {t}
    BY <1>3 DEF DriversInv, KeyboardInv, Reader
  <2>2. Cardinality(fetching) = 1
    BY <2>1, FS_Singleton
  <2> QED BY <1>1, <1>3, <2>2 DEF OneKeystroke, KeyboardTokens, DriversInv, KeyboardInv, NobodyReads
<1> QED BY <1>2, <1>3 DEF NobodyReads

-----------------------------------------------------------------------------
(* What RequestReply promises holds for each driver: one caller at a time is inside, and    *)
(* the request that is under way, or its answer, is the one it waits for.                   *)

(* Nobody is inside at the start. *)
LEMMA ProtocolInit ==
  (Disk!Init => Disk!IInv) /\ (Display!Init => Display!IInv) /\ (Net!Init => Net!IInv)
<1>1. Disk!Init => Disk!IInv
  <2> SUFFICES ASSUME Disk!Init PROVE Disk!IInv
    OBVIOUS
  <2>1. active \in BOOLEAN
    BY Zenon DEF Disk!Init
  <2>2. Disk!TypeOK
    BY <2>1 DEF Disk!Init, Disk!TypeOK
  <2>3. \A t \in Thread : ~Disk!Inside(t)
    BY DEF Disk!Init, Disk!Inside
  <2>4. value[DiskLock] = 1 /\ value[DiskDone] = 0 /\ ~active
    BY DEF Disk!Init
  <2> QED BY <2>2, <2>3, <2>4 DEF Disk!IInv
<1>2. Display!Init => Display!IInv
  <2> SUFFICES ASSUME Display!Init PROVE Display!IInv
    OBVIOUS
  <2>1. putBusy \in BOOLEAN
    BY Zenon DEF Display!Init
  <2>2. Display!TypeOK
    BY <2>1 DEF Display!Init, Display!TypeOK
  <2>3. \A t \in Thread : ~Display!Inside(t)
    BY DEF Display!Init, Display!Inside
  <2>4. value[OutLock] = 1 /\ value[OutDone] = 0 /\ ~putBusy
    BY DEF Display!Init
  <2> QED BY <2>2, <2>3, <2>4 DEF Display!IInv
<1>3. Net!Init => Net!IInv
  <2> SUFFICES ASSUME Net!Init PROVE Net!IInv
    OBVIOUS
  <2>1. sending \in BOOLEAN
    BY Zenon DEF Net!Init
  <2>2. Net!TypeOK
    BY <2>1 DEF Net!Init, Net!TypeOK
  <2>3. \A t \in Thread : ~Net!Inside(t)
    BY DEF Net!Init, Net!Inside
  <2>4. value[SendLock] = 1 /\ value[MessageSent] = 0 /\ ~sending
    BY DEF Net!Init
  <2> QED BY <2>2, <2>3, <2>4 DEF Net!IInv
<1> QED BY <1>1, <1>2, <1>3

(* The disk: who enters finds the lock free, so that nobody is inside; what is under way, or
   its answer, has the one inside waiting for it.                                           *)
LEMMA DiskNext == Disk!IInv /\ [Disk!Next]_(Disk!vars) => Disk!IInv'
<1> SUFFICES ASSUME Disk!IInv, [Disk!Next]_(Disk!vars) PROVE Disk!IInv'
  OBVIOUS
<1> USE DEF Disk!IInv, Disk!TypeOK, Disk!Inside, Disk!Move
<1>1. ASSUME NEW t \in Thread, Disk!Acquire(t) PROVE Disk!IInv'
  BY <1>1 DEF Disk!Acquire
<1>2. ASSUME NEW t \in Thread, Disk!Request(t) PROVE Disk!IInv'
  BY <1>2 DEF Disk!Request
<1>3. ASSUME NEW t \in Thread, Disk!Answered(t) PROVE Disk!IInv'
  BY <1>3 DEF Disk!Answered
<1>4. ASSUME NEW t \in Thread, Disk!Release(t) PROVE Disk!IInv'
  BY <1>4 DEF Disk!Release
<1>5. CASE Disk!Interrupt
  <2>1. active /\ ~active' /\ active' \in BOOLEAN
    BY <1>5, Zenon DEF Disk!Interrupt
  <2>2. /\ value[DiskDone] = 0 /\ value[DiskDone]' = 1 /\ value[DiskLock]' = value[DiskLock]
        /\ DiskPlace' = DiskPlace
    BY <1>5, <2>1 DEF Disk!Interrupt
  <2> QED BY <2>1, <2>2
<1>6. CASE UNCHANGED Disk!vars
  BY <1>6 DEF Disk!vars
<1> QED BY <1>1, <1>2, <1>3, <1>4, <1>5, <1>6 DEF Disk!Next

(* The display: who enters finds the lock free, so that nobody is inside; what is under way, or
   its answer, has the one inside waiting for it.                                           *)
LEMMA DisplayNext == Display!IInv /\ [Display!Next]_(Display!vars) => Display!IInv'
<1> SUFFICES ASSUME Display!IInv, [Display!Next]_(Display!vars) PROVE Display!IInv'
  OBVIOUS
<1> USE DEF Display!IInv, Display!TypeOK, Display!Inside, Display!Move
<1>1. ASSUME NEW t \in Thread, Display!Acquire(t) PROVE Display!IInv'
  BY <1>1 DEF Display!Acquire
<1>2. ASSUME NEW t \in Thread, Display!Request(t) PROVE Display!IInv'
  BY <1>2 DEF Display!Request
<1>3. ASSUME NEW t \in Thread, Display!Answered(t) PROVE Display!IInv'
  BY <1>3 DEF Display!Answered
<1>4. ASSUME NEW t \in Thread, Display!Release(t) PROVE Display!IInv'
  BY <1>4 DEF Display!Release
<1>5. CASE Display!Interrupt
  <2>1. putBusy /\ ~putBusy' /\ putBusy' \in BOOLEAN
    BY <1>5, Zenon DEF Display!Interrupt
  <2>2. /\ value[OutDone] = 0 /\ value[OutDone]' = 1 /\ value[OutLock]' = value[OutLock]
        /\ DisplayPlace' = DisplayPlace
    BY <1>5, <2>1 DEF Display!Interrupt
  <2> QED BY <2>1, <2>2
<1>6. CASE UNCHANGED Display!vars
  BY <1>6 DEF Display!vars
<1> QED BY <1>1, <1>2, <1>3, <1>4, <1>5, <1>6 DEF Display!Next

(* The network: who enters finds the lock free, so that nobody is inside; what is under way, or
   its answer, has the one inside waiting for it.                                           *)
LEMMA NetNext == Net!IInv /\ [Net!Next]_(Net!vars) => Net!IInv'
<1> SUFFICES ASSUME Net!IInv, [Net!Next]_(Net!vars) PROVE Net!IInv'
  OBVIOUS
<1> USE DEF Net!IInv, Net!TypeOK, Net!Inside, Net!Move
<1>1. ASSUME NEW t \in Thread, Net!Acquire(t) PROVE Net!IInv'
  BY <1>1 DEF Net!Acquire
<1>2. ASSUME NEW t \in Thread, Net!Request(t) PROVE Net!IInv'
  BY <1>2 DEF Net!Request
<1>3. ASSUME NEW t \in Thread, Net!Answered(t) PROVE Net!IInv'
  BY <1>3 DEF Net!Answered
<1>4. ASSUME NEW t \in Thread, Net!Release(t) PROVE Net!IInv'
  BY <1>4 DEF Net!Release
<1>5. CASE Net!Interrupt
  <2>1. sending /\ ~sending' /\ sending' \in BOOLEAN
    BY <1>5, Zenon DEF Net!Interrupt
  <2>2. /\ value[MessageSent] = 0 /\ value[MessageSent]' = 1 /\ value[SendLock]' = value[SendLock]
        /\ NetPlace' = NetPlace
    BY <1>5, <2>1 DEF Net!Interrupt
  <2> QED BY <2>1, <2>2
<1>6. CASE UNCHANGED Net!vars
  BY <1>6 DEF Net!vars
<1> QED BY <1>1, <1>2, <1>3, <1>4, <1>5, <1>6 DEF Net!Next

(* No request while another is under way, and each caller gets its own answer. *)
LEMMA ProtocolExclusive ==
  /\ Disk!Spec => []Disk!OneAtATime
  /\ Display!Spec => []Display!OneAtATime
  /\ Net!Spec => []Net!OneAtATime
<1>1. Disk!IInv => Disk!OneAtATime
  BY DEF Disk!IInv, Disk!OneAtATime, Disk!TypeOK, Disk!Inside
<1>2. Display!IInv => Display!OneAtATime
  BY DEF Display!IInv, Display!OneAtATime, Display!TypeOK, Display!Inside
<1>3. Net!IInv => Net!OneAtATime
  BY DEF Net!IInv, Net!OneAtATime, Net!TypeOK, Net!Inside
<1>4. Disk!Spec => []Disk!OneAtATime
  BY <1>1, ProtocolInit, DiskNext, PTL DEF Disk!Spec
<1>5. Display!Spec => []Display!OneAtATime
  BY <1>2, ProtocolInit, DisplayNext, PTL DEF Display!Spec
<1>6. Net!Spec => []Net!OneAtATime
  BY <1>3, ProtocolInit, NetNext, PTL DEF Net!Spec
<1> QED BY <1>4, <1>5, <1>6

(* The assertions of the disk, the display and the keyboard hold, whatever the order of     *)
(* calls and interrupts: one request at a time, each answer to whom it is for, and no       *)
(* keystroke read over another.                                                             *)
THEOREM RequestsAreExclusive == Spec => []OneRequestAtATime
<1>1. /\ Disk!OneAtATime => DiskOneAtATime
      /\ Display!OneAtATime => DisplayOneAtATime
      /\ Net!OneAtATime => SendOneAtATime
  BY DEF Disk!OneAtATime, Display!OneAtATime, Net!OneAtATime, DiskPlace, DisplayPlace, NetPlace,
         PlaceAmong, DiskOneAtATime, DisplayOneAtATime, SendOneAtATime
<1>2. Disk!OneAtATime /\ Display!OneAtATime /\ Net!OneAtATime /\ DriversInv => OneRequestAtATime
  BY <1>1, KeyboardSafe DEF OneRequestAtATime
<1>3. Spec => []DriversInv
  BY InitDrivers, NextDrivers, PTL DEF Spec
<1> QED BY <1>2, <1>3, ProtocolExclusive, DriversFollowProtocol, PTL

-----------------------------------------------------------------------------
(* P and V in the drivers are those of Semaphores. *)
LEMMA SemaphoreStep == DriverTypeOK /\ [Next]_vars => [SemaphoreNext]_semaphoreVars
<1> SUFFICES ASSUME DriverTypeOK, [Next]_vars PROVE [SemaphoreNext]_semaphoreVars
  OBVIOUS
<1> USE Distinct
<1>1. ASSUME NEW t \in Thread, NEW s \in Semaphore, NEW from, NEW to,
             \/ PFromTo(t, s, from, to) \/ StartP(t, s, from, to) \/ ReleaseAndReturn(t, s, from) \/ V(s)
      PROVE  SemaphoreNext
  BY <1>1 DEF PFromTo, StartP, ReleaseAndReturn, InOrCallingP, P, Recheck, TakeOrWait, SemaphoreNext
<1>2. ASSUME NEW t \in Thread, DiskSide(t) PROVE SemaphoreNext
  BY <1>1, <1>2 DEF DiskSide, DiskStep, AcquireDisk, DiskRequest, AwaitDisk, ReleaseDisk, DiskInterrupt
<1>3. ASSUME NEW t \in Thread, DisplaySide(t) PROVE SemaphoreNext
  BY <1>1, <1>3 DEF DisplaySide, AcquireOut, PutChar, AwaitOut, ReleaseOut, ConsoleWriteInt
<1>4. ASSUME NEW t \in Thread, KeyboardSide(t) PROVE SemaphoreNext
  BY <1>1, <1>4 DEF KeyboardSide, AcquireIn, AwaitIn, GetChar, ConsoleReadInt, ConsoleReadEnd
<1>5. ASSUME NEW t \in Thread, SendSide(t) PROVE SemaphoreNext
  BY <1>1, <1>5 DEF SendSide, AcquireSend, NetworkSend, AwaitSend, ReleaseSend, NetworkSendInt
<1>6. ASSUME NEW t \in Thread, ReceiveSide(t) PROVE SemaphoreNext \/ UNCHANGED semaphoreVars
  BY <1>1, <1>6, PostOfficeAssumption
     DEF ReceiveSide, Receive, NetworkRecvInt, Deliver, AwaitPacket, NetworkReceive, Put
<1>7. ASSUME NEW t \in Thread, Call(t) PROVE UNCHANGED semaphoreVars
  BY <1>7 DEF Call
<1>8. UNCHANGED vars => UNCHANGED semaphoreVars
  BY DEF vars
<1> QED BY <1>2, <1>3, <1>4, <1>5, <1>6, <1>7, <1>8, Sides

(* No wake-up is lost in a driver: what is proved of the semaphores holds of theirs.        *)
THEOREM DriversLoseNoWakeup == Spec => []NoLostWakeup
<1>1. Spec => []DriversInv
  BY InitDrivers, NextDrivers, PTL DEF Spec
<1>2. DriversInv /\ [Next]_vars => [SemaphoreNext]_semaphoreVars
  BY SemaphoreStep DEF DriversInv
<1>3. Init => SemaphoreInit
  BY DEF Init
<1>4. Spec => SemaphoreSpec
  BY <1>1, <1>2, <1>3, PTL DEF Spec, SemaphoreSpec
<1>5. SemaphoreInv => NoLostWakeup
  BY DEF SemaphoreInv
<1> QED BY <1>4, <1>5, SemaphoresAreSafe, PTL

-----------------------------------------------------------------------------
(* The mail.  Sequences are known by their elements.                                        *)
LEMMA AppendAt ==
  ASSUME NEW S, NEW q \in Seq(S), NEW e \in S
  PROVE  /\ Len(q) \in Nat /\ DOMAIN q = 1 .. Len(q) /\ DOMAIN Append(q, e) = 1 .. Len(q) + 1
         /\ \A i \in 1 .. Len(q) : Append(q, e)[i] = q[i]
         /\ Append(q, e)[Len(q) + 1] = e
OBVIOUS

LEMMA TailAt ==
  ASSUME NEW S, NEW q \in Seq(S), q # <<>>
  PROVE  /\ Len(q) \in Nat /\ Len(q) > 0 /\ DOMAIN q = 1 .. Len(q)
         /\ Head(q) = q[1] /\ Head(q) \in S /\ DOMAIN Tail(q) = 1 .. Len(q) - 1
         /\ \A i \in 1 .. Len(q) - 1 : Tail(q)[i] = q[i + 1]
OBVIOUS

LEMMA ElementFacts ==
  ASSUME NEW S
  PROVE  /\ Elements(<<>>) = {}
         /\ \A e \in S : Elements(<<e>>) = {e}
         /\ \A q \in Seq(S) : Elements(q) \subseteq S
         /\ \A q \in Seq(S), e \in S : Elements(Append(q, e)) = Elements(q) \cup {e}
         /\ \A q \in Seq(S) : q # <<>> => Elements(q) = {Head(q)} \cup Elements(Tail(q))
<1>1. ASSUME NEW q \in Seq(S), q # <<>>
      PROVE  Elements(q) = {Head(q)} \cup Elements(Tail(q))
  <2>1. /\ Len(q) \in Nat /\ Len(q) > 0 /\ DOMAIN q = 1 .. Len(q)
        /\ Head(q) = q[1] /\ DOMAIN Tail(q) = 1 .. Len(q) - 1
        /\ \A i \in 1 .. Len(q) - 1 : Tail(q)[i] = q[i + 1]
    BY <1>1, TailAt
  <2>2. ASSUME NEW i \in 1 .. Len(q) PROVE q[i] \in {Head(q)} \cup Elements(Tail(q))
    <3>1. CASE i = 1
      BY <2>1, <3>1
    <3>2. CASE i # 1
      <4>1. i - 1 \in 1 .. Len(q) - 1 /\ Tail(q)[i - 1] = q[i]
        BY <2>1, <3>2
      <4> QED BY <2>1, <4>1 DEF Elements
    <3> QED BY <3>1, <3>2
  <2>3. ASSUME NEW i \in 1 .. Len(q) - 1 PROVE Tail(q)[i] \in Elements(q)
    BY <2>1 DEF Elements
  <2>4. Head(q) \in Elements(q)
    BY <2>1 DEF Elements
  <2> QED BY <2>1, <2>2, <2>3, <2>4 DEF Elements
<1>2. ASSUME NEW q \in Seq(S), NEW e \in S PROVE Elements(Append(q, e)) = Elements(q) \cup {e}
  <2>1. /\ Len(q) \in Nat /\ DOMAIN q = 1 .. Len(q) /\ DOMAIN Append(q, e) = 1 .. Len(q) + 1
        /\ \A i \in 1 .. Len(q) : Append(q, e)[i] = q[i]
        /\ Append(q, e)[Len(q) + 1] = e
    BY AppendAt
  <2>2. \A i \in 1 .. Len(q) + 1 : i \in 1 .. Len(q) \/ i = Len(q) + 1
    BY <2>1
  <2> QED BY <2>1, <2>2 DEF Elements
<1>3. \A e \in S : Elements(<<e>>) = {e}
  BY DEF Elements
<1>4. \A q \in Seq(S) : Elements(q) \subseteq S
  BY DEF Elements
<1>5. Elements(<<>>) = {}
  BY DEF Elements
<1> QED BY <1>1, <1>2, <1>3, <1>4, <1>5

Numbers(q)  == {m.number : m \in Elements(q)}
Below(A, B) == \A m \in A, n \in B : m < n

MailTypeOK ==
  /\ wire \in Seq(Packet) /\ inbox \in Seq(Packet) /\ hand \in Seq(Packet)
  /\ boxes \in [Box -> Seq(1 .. MaxMail)]
  /\ sent \in 0 .. MaxMail

(* A packet is in the buffer of NetworkInput as long as its V has not been taken or the     *)
(* postal worker has not fetched it, and in the worker's hand until it is delivered.        *)
HandoverInv ==
  /\ pc[Worker] \in {"worker", "packet", "deliver"}
  /\ value[MessageAvailable] <= 1
  /\ Len(inbox) <= 1 /\ Len(hand) <= 1
  /\ inbox # <<>> <=> value[MessageAvailable] = 1 \/ pc[Worker] = "packet"
  /\ ~(value[MessageAvailable] = 1 /\ pc[Worker] = "packet")
  /\ hand # <<>> <=> pc[Worker] = "deliver"

(* What is further on its way was sent earlier. *)
Delivered == UNION {Elements(boxes[b]) : b \in Box}
OrderInv ==
  /\ \A b \in Box : \A i, j \in DOMAIN boxes[b] : i < j => boxes[b][i] < boxes[b][j]
  /\ \A b, c \in Box : b # c => Elements(boxes[b]) \cap Elements(boxes[c]) = {}
  /\ \A i, j \in DOMAIN wire : i < j => wire[i].number < wire[j].number
  /\ Below(Delivered, Numbers(hand) \cup Numbers(inbox) \cup Numbers(wire))
  /\ Below(Numbers(hand), Numbers(inbox) \cup Numbers(wire))
  /\ Below(Numbers(inbox), Numbers(wire))
  /\ Delivered \cup Numbers(hand) \cup Numbers(inbox) \cup Numbers(wire) \subseteq 1 .. sent

MailInv == MailTypeOK /\ HandoverInv /\ OrderInv

Channel == [b \in Box |-> Elements(boxes[b]) \cup NumbersFor(b, hand)
                            \cup NumbersFor(b, inbox) \cup NumbersFor(b, wire)]

LEMMA MailInit == Init => MailInv /\ Mail!Init
<1> SUFFICES ASSUME Init PROVE MailInv /\ Mail!Init
  OBVIOUS
<1>1. /\ wire = <<>> /\ inbox = <<>> /\ hand = <<>> /\ boxes = [b \in Box |-> <<>>]
      /\ sent = 0 /\ received = 0
  BY DEF Init, PostInit
<1>2. MailTypeOK
  BY <1>1, PostOfficeAssumption DEF MailTypeOK
<1>3. pc[Worker] = "worker" /\ value[MessageAvailable] = 0
  BY Distinct, DevicesAssumption, PostOfficeAssumption DEF Init, SemaphoreInit
<1>4. HandoverInv
  BY <1>1, <1>3 DEF HandoverInv
<1>5. Elements(<<>>) = {}
  BY ElementFacts
<1>6. OrderInv
  BY <1>1, <1>5 DEF OrderInv, Below, Delivered, Numbers
<1>7. Mail!Init
  BY <1>1, <1>5 DEF Mail!Init, NumbersFor
<1> QED BY <1>2, <1>4, <1>6, <1>7 DEF MailInv

(* A step that does not touch the mail. *)
LEMMA MailQuiet ==
  ASSUME MailInv, NEW labels, NEW semaphores, Touches(labels, semaphores),
         {"worker", "packet", "deliver"} \cap labels = {}, MessageAvailable \notin semaphores,
         UNCHANGED <<sent, wire, inbox, hand, boxes, received>>
  PROVE  MailInv' /\ UNCHANGED Mail!vars
<1>1. pc'[Worker] = pc[Worker] /\ value'[MessageAvailable] = value[MessageAvailable]
  BY Distinct, PostOfficeAssumption DEF Touches, MailInv, HandoverInv
<1>2. HandoverInv'
  BY <1>1 DEF MailInv, HandoverInv
<1>3. MailTypeOK' /\ OrderInv'
  BY DEF MailInv, MailTypeOK, OrderInv, Delivered
<1>4. UNCHANGED Mail!vars
  BY DEF Mail!vars
<1> QED BY <1>2, <1>3, <1>4 DEF MailInv

(* A packet is sent: it is lost, or goes to the end of the socket.                          *)
LEMMA MailSent ==
  ASSUME MailInv, NEW t \in Thread, NetworkSend(t), Touches(PostLabels, {SendLock, MessageSent})
  PROVE  MailInv' /\ Mail!Next
<1>1. /\ sent < MaxMail /\ sent' = sent + 1 /\ sent \in Nat
      /\ UNCHANGED <<inbox, hand, boxes, received>>
  BY DEF NetworkSend, MailInv, MailTypeOK
<1>2. pc'[Worker] = pc[Worker] /\ value'[MessageAvailable] = value[MessageAvailable]
  BY Distinct, PostOfficeAssumption DEF Touches, MailInv, HandoverInv, PostLabels
<1>3. HandoverInv'
  BY <1>1, <1>2 DEF MailInv, HandoverInv
<1>4. 1 .. sent \subseteq 1 .. sent' /\ sent' \in 0 .. MaxMail /\ sent' \in 1 .. MaxMail
  BY <1>1, PostOfficeAssumption
<1>5. CASE wire' = wire
  <2>1. MailTypeOK' /\ OrderInv'
    BY <1>1, <1>4, <1>5 DEF MailInv, MailTypeOK, OrderInv, Delivered
  <2>2. Mail!Lose
    BY <1>1, <1>5 DEF Mail!Lose
  <2> QED BY <1>3, <2>1, <2>2 DEF MailInv, Mail!Next
<1>6. ASSUME NEW b \in Box, wire' = Append(wire, [number |-> sent', to |-> b])
      PROVE  MailInv' /\ Mail!Next
  <2> DEFINE m == [number |-> sent', to |-> b]
  <2>1. m \in Packet /\ wire \in Seq(Packet) /\ m.number = sent' /\ m.to = b
    BY <1>4 DEF Packet, MailInv, MailTypeOK
  <2> HIDE DEF m
  <2>2. wire' = Append(wire, m)
    BY <1>6 DEF m
  <2>3. Elements(wire') = Elements(wire) \cup {m} /\ wire' \in Seq(Packet)
    BY <2>1, <2>2, ElementFacts
  <2>4. Numbers(wire') = Numbers(wire) \cup {sent'}
    BY <2>1, <2>3 DEF Numbers
  <2>5. \A c \in Box : NumbersFor(c, wire') = IF c = b THEN NumbersFor(c, wire) \cup {sent'}
                                               ELSE NumbersFor(c, wire)
    BY <2>1, <2>3 DEF NumbersFor
  <2>6. MailTypeOK'
    BY <1>1, <1>4, <2>3 DEF MailInv, MailTypeOK
  <2>7. \A n \in 1 .. sent : n < sent'
    BY <1>1
  <2>8. \A i, j \in DOMAIN wire' : i < j => wire'[i].number < wire'[j].number
    <3>1. /\ Len(wire) \in Nat /\ DOMAIN wire = 1 .. Len(wire) /\ DOMAIN wire' = 1 .. Len(wire) + 1
          /\ \A i \in 1 .. Len(wire) : wire'[i] = wire[i]
          /\ wire'[Len(wire) + 1] = m
      BY <2>1, <2>2
    <3>2. \A i \in 1 .. Len(wire) : wire[i].number \in 1 .. sent
      BY <3>1 DEF MailInv, OrderInv, Numbers, Elements
    <3>3. ASSUME NEW i \in DOMAIN wire', NEW j \in DOMAIN wire', i < j
          PROVE  wire'[i].number < wire'[j].number
      <4>1. i \in 1 .. Len(wire) /\ (j \in 1 .. Len(wire) \/ j = Len(wire) + 1)
        BY <3>1, <3>3
      <4>2. CASE j \in 1 .. Len(wire)
        BY <3>1, <3>3, <4>1, <4>2 DEF MailInv, OrderInv
      <4>3. CASE j = Len(wire) + 1
        BY <2>1, <2>7, <3>1, <3>2, <4>1, <4>3
      <4> QED BY <4>1, <4>2, <4>3
    <3> QED BY <3>3
  <2>9. OrderInv'
    <3>1. Delivered' = Delivered
      BY <1>1 DEF Delivered
    <3>2. Numbers(hand)' = Numbers(hand) /\ Numbers(inbox)' = Numbers(inbox)
          /\ Numbers(wire)' = Numbers(wire) \cup {sent'}
      BY <1>1, <2>4
    <3>3. Delivered \cup Numbers(hand) \cup Numbers(inbox) \cup Numbers(wire) \subseteq 1 .. sent
      BY DEF MailInv, OrderInv
    <3>4. Below(Delivered, {sent'}) /\ Below(Numbers(hand), {sent'}) /\ Below(Numbers(inbox), {sent'})
      BY <2>7, <3>3 DEF Below
    <3>5. Below(Delivered, Numbers(hand) \cup Numbers(inbox) \cup Numbers(wire) \cup {sent'})
          /\ Below(Numbers(hand), Numbers(inbox) \cup Numbers(wire) \cup {sent'})
          /\ Below(Numbers(inbox), Numbers(wire) \cup {sent'})
      BY <3>4 DEF MailInv, OrderInv, Below
    <3>6. sent' \in 1 .. sent'
      BY <1>1
    <3>7. Delivered \cup Numbers(hand) \cup Numbers(inbox) \cup Numbers(wire) \cup {sent'} \subseteq 1 .. sent'
      BY <1>4, <3>3, <3>6
    <3>8. /\ \A c \in Box : \A i, j \in DOMAIN boxes'[c] : i < j => boxes'[c][i] < boxes'[c][j]
          /\ \A c, d \in Box : c # d => Elements(boxes'[c]) \cap Elements(boxes'[d]) = {}
      BY <1>1 DEF MailInv, OrderInv
    <3> HIDE DEF Delivered, Numbers
    <3> QED BY <2>8, <3>1, <3>2, <3>5, <3>7, <3>8 DEF OrderInv
  <2>10. Mail!Send(b)
    <3>1. Channel' = [Channel EXCEPT ![b] = @ \cup {sent'}]
      BY <1>1, <2>5 DEF Channel
    <3> QED BY <1>1, <3>1 DEF Mail!Send, Channel
  <2> QED BY <1>3, <2>6, <2>9, <2>10 DEF MailInv, Mail!Next
<1>7. wire' \in {wire} \cup {Append(wire, [number |-> sent', to |-> b]) : b \in Box}
  BY DEF NetworkSend
<1> QED BY <1>5, <1>6, <1>7

(* NetworkInput reads a packet: nothing was buffered. *)
LEMMA MailBuffered ==
  ASSUME MailInv, NetworkRecvInt, Touches({}, {MessageAvailable}),
         value'[MessageAvailable] = value[MessageAvailable] + 1, value[MessageAvailable] \in Nat
  PROVE  MailInv' /\ UNCHANGED Mail!vars
<1>1. /\ inbox = <<>> /\ wire # <<>> /\ inbox' = <<Head(wire)>> /\ wire' = Tail(wire)
      /\ UNCHANGED <<sent, hand, boxes, received>> /\ pc' = pc
  BY DEF NetworkRecvInt, BufferFree
<1>2. wire \in Seq(Packet) /\ Head(wire) \in Packet /\ wire' \in Seq(Packet) /\ inbox' \in Seq(Packet)
  BY <1>1 DEF MailInv, MailTypeOK
<1>3. /\ Elements(wire) = {Head(wire)} \cup Elements(wire') /\ Elements(inbox) = {}
      /\ Elements(inbox') = {Head(wire)}
  BY <1>1, <1>2, ElementFacts
<1>4. MailTypeOK'
  BY <1>1, <1>2 DEF MailInv, MailTypeOK
<1>5. HandoverInv'
  BY <1>1 DEF MailInv, HandoverInv
<1>6. /\ Numbers(wire) = {Head(wire).number} \cup Numbers(wire') /\ Numbers(inbox) = {}
      /\ Numbers(inbox') = {Head(wire).number}
  BY <1>3 DEF Numbers
<1>7. \A b \in Box : NumbersFor(b, wire) \cup NumbersFor(b, inbox)
                       = NumbersFor(b, wire') \cup NumbersFor(b, inbox')
  BY <1>3 DEF NumbersFor
<1>8. UNCHANGED Mail!vars
  <2>1. Channel' = Channel
    BY <1>1, <1>7 DEF Channel
  <2> QED BY <1>1, <2>1 DEF Mail!vars, Channel
<1>9. OrderInv'
  <2>1. /\ Len(wire) \in Nat /\ Len(wire) > 0 /\ DOMAIN wire = 1 .. Len(wire) /\ Head(wire) = wire[1]
        /\ DOMAIN wire' = 1 .. Len(wire) - 1
        /\ \A i \in 1 .. Len(wire) - 1 : wire'[i] = wire[i + 1]
    BY <1>1, <1>2
  <2>2. \A i, j \in DOMAIN wire : i < j => wire[i].number < wire[j].number
    BY DEF MailInv, OrderInv
  <2>3. \A i, j \in DOMAIN wire' : i < j => wire'[i].number < wire'[j].number
    <3> SUFFICES ASSUME NEW i \in 1 .. Len(wire) - 1, NEW j \in 1 .. Len(wire) - 1, i < j
                 PROVE  wire'[i].number < wire'[j].number
      BY <2>1
    <3>1. i + 1 \in DOMAIN wire /\ j + 1 \in DOMAIN wire /\ i + 1 < j + 1
      BY <2>1
    <3> QED BY <2>1, <2>2, <3>1
  <2>4. Below(Numbers(inbox'), Numbers(wire'))
    <3>1. ASSUME NEW i \in 1 .. Len(wire) - 1 PROVE Head(wire).number < wire'[i].number
      <4>1. 1 \in DOMAIN wire /\ i + 1 \in DOMAIN wire /\ 1 < i + 1
        BY <2>1
      <4> QED BY <2>1, <2>2, <4>1
    <3>2. \A m \in Elements(wire') : Head(wire).number < m.number
      BY <2>1, <3>1 DEF Elements
    <3>3. \A n \in Numbers(wire') : Head(wire).number < n
      BY <3>2 DEF Numbers
    <3> HIDE DEF Numbers
    <3> QED BY <1>6, <3>3 DEF Below
  <2>5. Delivered' = Delivered /\ Numbers(hand)' = Numbers(hand)
        /\ Numbers(inbox)' = {Head(wire).number} /\ Numbers(wire)' = Numbers(wire')
    BY <1>1, <1>6 DEF Delivered
  <2>6. Numbers(inbox') \cup Numbers(wire') = Numbers(inbox) \cup Numbers(wire)
    BY <1>6
  <2>7. /\ \A c \in Box : \A i, j \in DOMAIN boxes'[c] : i < j => boxes'[c][i] < boxes'[c][j]
        /\ \A c, d \in Box : c # d => Elements(boxes'[c]) \cap Elements(boxes'[d]) = {}
    BY <1>1 DEF MailInv, OrderInv
  <2>8. /\ Below(Delivered, Numbers(hand) \cup Numbers(inbox') \cup Numbers(wire'))
        /\ Below(Numbers(hand), Numbers(inbox') \cup Numbers(wire'))
        /\ Delivered \cup Numbers(hand) \cup Numbers(inbox') \cup Numbers(wire') \subseteq 1 .. sent
    BY <2>6 DEF MailInv, OrderInv, Below
  <2> HIDE DEF Delivered, Numbers
  <2> QED BY <1>1, <1>6, <2>3, <2>4, <2>5, <2>7, <2>8 DEF OrderInv
<1> QED BY <1>4, <1>5, <1>8, <1>9 DEF MailInv

(* The postal worker waits for a packet, *)
LEMMA MailAwaited ==
  ASSUME MailInv, DriverTypeOK, AwaitPacket
  PROVE  MailInv' /\ UNCHANGED Mail!vars
<1>1. UNCHANGED <<sent, wire, inbox, hand, boxes, received>>
  BY DEF AwaitPacket, postVars
<1>2. Worker \in Thread /\ MessageAvailable \in Semaphore /\ {"worker", "packet"} \subseteq Labels
  BY Distinct, PostOfficeAssumption DEF Labels
<1>3. \/ /\ pc[Worker] = "worker" /\ pc' = [pc EXCEPT ![Worker] = "packet"]
         /\ value[MessageAvailable] > 0 /\ value'[MessageAvailable] = value[MessageAvailable] - 1
      \/ UNCHANGED pc /\ UNCHANGED value
  BY <1>2, PTouches DEF AwaitPacket
<1>4. value[MessageAvailable] \in Nat /\ pc \in [Thread -> Labels]
  BY <1>2 DEF DriverTypeOK
<1>5. HandoverInv'
  BY <1>1, <1>2, <1>3, <1>4 DEF MailInv, HandoverInv
<1>6. MailTypeOK' /\ OrderInv'
  BY <1>1 DEF MailInv, MailTypeOK, OrderInv, Delivered
<1>7. UNCHANGED Mail!vars
  BY <1>1 DEF Mail!vars
<1> QED BY <1>5, <1>6, <1>7 DEF MailInv

(* fetches it, *)
LEMMA MailFetched ==
  ASSUME MailInv, DriverTypeOK, NetworkReceive
  PROVE  MailInv' /\ UNCHANGED Mail!vars
<1>1. /\ pc[Worker] = "packet" /\ pc' = [pc EXCEPT ![Worker] = "deliver"] /\ value' = value
      /\ hand' = inbox /\ inbox' = <<>> /\ UNCHANGED <<sent, wire, boxes, received>>
  BY DEF NetworkReceive, Goto, semaphoreVars
<1>2. pc'[Worker] = "deliver" /\ value[MessageAvailable] \in Nat
  BY <1>1, Distinct, PostOfficeAssumption DEF DriverTypeOK
<1>3. hand = <<>> /\ inbox # <<>>
  BY <1>1 DEF MailInv, HandoverInv
<1>4. HandoverInv'
  BY <1>1, <1>2, <1>3 DEF MailInv, HandoverInv
<1>5. Elements(<<>>) = {}
  BY ElementFacts
<1>6. MailTypeOK'
  BY <1>1 DEF MailInv, MailTypeOK
<1>7. Numbers(<<>>) = {} /\ \A b \in Box : NumbersFor(b, <<>>) = {}
  BY <1>5 DEF Numbers, NumbersFor
<1>8. OrderInv'
  <2>1. Delivered' = Delivered
    BY <1>1 DEF Delivered
  <2>2. /\ \A c \in Box : \A i, j \in DOMAIN boxes'[c] : i < j => boxes'[c][i] < boxes'[c][j]
        /\ \A c, d \in Box : c # d => Elements(boxes'[c]) \cap Elements(boxes'[d]) = {}
        /\ \A i, j \in DOMAIN wire' : i < j => wire'[i].number < wire'[j].number
    BY <1>1 DEF MailInv, OrderInv
  <2>3. /\ Below(Delivered, Numbers(inbox) \cup Numbers(wire))
        /\ Below(Numbers(inbox), Numbers(wire))
        /\ Delivered \cup Numbers(inbox) \cup Numbers(wire) \subseteq 1 .. sent
    BY DEF MailInv, OrderInv, Below
  <2>4. Numbers(hand)' = Numbers(inbox) /\ Numbers(inbox)' = {} /\ Numbers(wire)' = Numbers(wire)
    BY <1>1, <1>7
  <2>5. Below({}, Numbers(wire)) /\ Numbers(inbox) \cup {} \cup Numbers(wire) = Numbers(inbox) \cup Numbers(wire)
    BY DEF Below
  <2> HIDE DEF Delivered, Numbers, Below
  <2> QED BY <1>1, <2>1, <2>2, <2>3, <2>4, <2>5 DEF OrderInv
<1>9. UNCHANGED Mail!vars
  <2>1. Channel' = Channel
    BY <1>1, <1>3, <1>7 DEF Channel
  <2> QED BY <1>1, <2>1 DEF Mail!vars, Channel
<1> QED BY <1>4, <1>6, <1>8, <1>9 DEF MailInv

(* and puts it into its box, after all that was put there before. *)
LEMMA MailPut ==
  ASSUME MailInv, DriverTypeOK, Put
  PROVE  MailInv' /\ UNCHANGED Mail!vars
<1> DEFINE m == hand[1]
<1>1. /\ pc[Worker] = "deliver" /\ pc' = [pc EXCEPT ![Worker] = "worker"] /\ value' = value
      /\ boxes' = [boxes EXCEPT ![m.to] = Append(@, m.number)]
      /\ hand' = <<>> /\ UNCHANGED <<sent, wire, inbox, received>>
  BY DEF Put, Goto, semaphoreVars
<1>2. pc'[Worker] = "worker" /\ value[MessageAvailable] \in Nat
  BY <1>1, Distinct, PostOfficeAssumption DEF DriverTypeOK
<1>3. hand # <<>> /\ Len(hand) <= 1 /\ hand \in Seq(Packet)
  BY <1>1 DEF MailInv, HandoverInv, MailTypeOK
<1>4. Len(hand) = 1 /\ m \in Packet /\ Elements(hand) = {m}
  <2>1. /\ Len(hand) \in Nat /\ Len(hand) > 0 /\ DOMAIN hand = 1 .. Len(hand)
        /\ Head(hand) = hand[1] /\ Head(hand) \in Packet
    <3> HIDE DEF m
    <3> QED BY <1>3, TailAt
  <2>2. Len(hand) = 1
    BY <1>3, <2>1
  <2>3. DOMAIN hand = {1}
    BY <2>2
  <2> QED BY <2>1, <2>2, <2>3 DEF Elements
<1>5. m.number \in 1 .. MaxMail /\ m.to \in Box
  BY <1>4 DEF Packet
<1> HIDE DEF m
<1>6. Numbers(hand) = {m.number} /\ Numbers(<<>>) = {}
  BY <1>4, ElementFacts DEF Numbers
<1>7. \A b \in Box : /\ NumbersFor(b, hand) = IF b = m.to THEN {m.number} ELSE {}
                     /\ NumbersFor(b, <<>>) = {}
  BY <1>4, ElementFacts DEF NumbersFor
<1>8. \A b \in Box : boxes[b] \in Seq(1 .. MaxMail)
  BY DEF MailInv, MailTypeOK
<1>9. \A b \in Box : boxes'[b] = IF b = m.to THEN Append(boxes[b], m.number) ELSE boxes[b]
  BY <1>1, <1>5 DEF MailInv, MailTypeOK
<1>10. \A b \in Box : Elements(boxes'[b]) = IF b = m.to THEN Elements(boxes[b]) \cup {m.number}
                                            ELSE Elements(boxes[b])
  <2>1. ASSUME NEW q \in Seq(1 .. MaxMail) PROVE Elements(Append(q, m.number)) = Elements(q) \cup {m.number}
    <3> DEFINE T == 1 .. MaxMail
    <3>1. q \in Seq(T) /\ m.number \in T
      BY <1>5, <2>1
    <3> HIDE DEF T
    <3>2. \A e \in T : Elements(Append(q, e)) = Elements(q) \cup {e}
      BY <3>1, ElementFacts
    <3> QED BY <3>1, <3>2
  <2> SUFFICES ASSUME NEW b \in Box
               PROVE  Elements(boxes'[b]) = IF b = m.to THEN Elements(boxes[b]) \cup {m.number}
                                            ELSE Elements(boxes[b])
    OBVIOUS
  <2>2. CASE b = m.to
    <3>1. boxes'[b] = Append(boxes[b], m.number) /\ boxes[b] \in Seq(1 .. MaxMail)
      BY <1>8, <1>9, <2>2
    <3> QED BY <2>1, <2>2, <3>1
  <2>3. CASE b # m.to
    BY <1>9, <2>3
  <2> QED BY <2>2, <2>3
<1>11. MailTypeOK'
  BY <1>1, <1>5 DEF MailInv, MailTypeOK
<1>12. HandoverInv'
  BY <1>1, <1>2 DEF MailInv, HandoverInv
<1>13. UNCHANGED Mail!vars
  <2>1. Channel' = Channel
    BY <1>1, <1>7, <1>10 DEF Channel
  <2> QED BY <1>1, <2>1 DEF Mail!vars, Channel
<1>14. OrderInv'
  <2>1. Below(Delivered, {m.number}) /\ m.number \notin Delivered
    <3>1. Below(Delivered, {m.number})
      BY <1>6 DEF MailInv, OrderInv, Below
    <3> QED BY <1>5, <3>1 DEF Below
  <2>2. ASSUME NEW b \in Box, NEW i \in DOMAIN boxes'[b], NEW j \in DOMAIN boxes'[b], i < j
        PROVE  boxes'[b][i] < boxes'[b][j]
    <3>1. CASE b # m.to
      BY <1>9, <2>2, <3>1 DEF MailInv, OrderInv
    <3>2. CASE b = m.to
      <4>1. /\ Len(boxes[b]) \in Nat /\ DOMAIN boxes[b] = 1 .. Len(boxes[b])
            /\ DOMAIN boxes'[b] = 1 .. Len(boxes[b]) + 1
            /\ \A k \in 1 .. Len(boxes[b]) : boxes'[b][k] = boxes[b][k]
            /\ boxes'[b][Len(boxes[b]) + 1] = m.number
        <5>1. boxes'[b] = Append(boxes[b], m.number) /\ boxes[b] \in Seq(1 .. MaxMail)
          BY <1>8, <1>9, <3>2
        <5> QED BY <1>5, <5>1, AppendAt
      <4>2. i \in 1 .. Len(boxes[b]) /\ (j \in 1 .. Len(boxes[b]) \/ j = Len(boxes[b]) + 1)
        BY <2>2, <4>1
      <4>3. CASE j \in 1 .. Len(boxes[b])
        BY <2>2, <4>1, <4>2, <4>3 DEF MailInv, OrderInv
      <4>4. CASE j = Len(boxes[b]) + 1
        <5>1. boxes[b][i] \in Delivered
          BY <4>1, <4>2 DEF Delivered, Elements
        <5> QED BY <2>1, <4>1, <4>2, <4>4, <5>1 DEF Below
      <4> QED BY <4>2, <4>3, <4>4
    <3> QED BY <3>1, <3>2
  <2>3. \A b, c \in Box : b # c => Elements(boxes'[b]) \cap Elements(boxes'[c]) = {}
    <3>1. \A b \in Box : m.number \notin Elements(boxes[b])
      BY <2>1 DEF Delivered
    <3>2. \A b, c \in Box : b # c => Elements(boxes[b]) \cap Elements(boxes[c]) = {}
      BY DEF MailInv, OrderInv
    <3> QED BY <1>10, <3>1, <3>2
  <2>4. Delivered' = Delivered \cup {m.number}
    BY <1>5, <1>10 DEF Delivered
  <2>5. /\ Below(Delivered, Numbers(hand) \cup Numbers(inbox) \cup Numbers(wire))
        /\ Below(Numbers(hand), Numbers(inbox) \cup Numbers(wire))
        /\ Below(Numbers(inbox), Numbers(wire))
        /\ Delivered \cup Numbers(hand) \cup Numbers(inbox) \cup Numbers(wire) \subseteq 1 .. sent
        /\ \A i, j \in DOMAIN wire : i < j => wire[i].number < wire[j].number
    BY DEF MailInv, OrderInv
  <2>6. /\ Below(Delivered \cup {m.number}, {} \cup Numbers(inbox) \cup Numbers(wire))
        /\ Below({}, Numbers(inbox) \cup Numbers(wire))
        /\ (Delivered \cup {m.number}) \cup {} \cup Numbers(inbox) \cup Numbers(wire) \subseteq 1 .. sent
    BY <1>6, <2>5 DEF Below
  <2>7. Numbers(hand)' = {} /\ Numbers(inbox)' = Numbers(inbox) /\ Numbers(wire)' = Numbers(wire)
    BY <1>1, <1>6
  <2> HIDE DEF Delivered, Numbers, Below
  <2> QED BY <1>1, <2>2, <2>3, <2>4, <2>5, <2>6, <2>7 DEF OrderInv
<1> QED BY <1>11, <1>12, <1>13, <1>14 DEF MailInv

(* Receive takes the message that was sent first of those for its box. *)
LEMMA MailReceived ==
  ASSUME MailInv, DriverTypeOK, NEW t \in Thread, NEW b \in Box, Receive(t, b)
  PROVE  MailInv' /\ Mail!Next
<1> DEFINE m == Head(boxes[b])
<1>1. /\ pc[t] = "receive" /\ pc' = [pc EXCEPT ![t] = "outside"] /\ value' = value
      /\ boxes[b] # <<>> /\ boxes' = [boxes EXCEPT ![b] = Tail(@)] /\ received' = received + 1
      /\ UNCHANGED <<sent, wire, inbox, hand>>
  BY DEF Receive, Goto, semaphoreVars
<1>2. pc'[Worker] = pc[Worker]
  BY <1>1, PostOfficeAssumption DEF DriverTypeOK, MailInv, HandoverInv
<1>3. HandoverInv'
  BY <1>1, <1>2 DEF MailInv, HandoverInv
<1>4. boxes[b] \in Seq(1 .. MaxMail) /\ boxes'[b] = Tail(boxes[b])
  BY <1>1 DEF MailInv, MailTypeOK
<1>5. MailTypeOK'
  BY <1>1, <1>4 DEF MailInv, MailTypeOK
<1>6. /\ Len(boxes[b]) \in Nat /\ Len(boxes[b]) > 0 /\ DOMAIN boxes[b] = 1 .. Len(boxes[b])
      /\ m = boxes[b][1] /\ m \in 1 .. MaxMail /\ DOMAIN boxes'[b] = 1 .. Len(boxes[b]) - 1
      /\ \A i \in 1 .. Len(boxes[b]) - 1 : boxes'[b][i] = boxes[b][i + 1]
  BY <1>1, <1>4, TailAt
<1>7. Elements(boxes[b]) = {m} \cup Elements(boxes'[b])
  BY <1>1, <1>4, ElementFacts
<1>8. \A i, j \in DOMAIN boxes[b] : i < j => boxes[b][i] < boxes[b][j]
  BY DEF MailInv, OrderInv
<1>9. Below({m}, Elements(boxes'[b]))
  <2>1. ASSUME NEW i \in 1 .. Len(boxes[b]) - 1 PROVE m < boxes'[b][i]
    <3>1. 1 \in DOMAIN boxes[b] /\ i + 1 \in DOMAIN boxes[b] /\ 1 < i + 1
      BY <1>6
    <3> QED BY <1>6, <1>8, <3>1
  <2> QED BY <1>6, <2>1 DEF Below, Elements
<1>10. m \in Delivered /\ Delivered' \subseteq Delivered
  BY <1>1, <1>4, <1>7 DEF Delivered, MailInv, MailTypeOK
<1>11. Below({m}, Numbers(hand) \cup Numbers(inbox) \cup Numbers(wire))
  BY <1>10 DEF MailInv, OrderInv, Below
<1>12. OrderInv'
  <2>1. \A i, j \in DOMAIN boxes'[b] : i < j => boxes'[b][i] < boxes'[b][j]
    <3> SUFFICES ASSUME NEW i \in 1 .. Len(boxes[b]) - 1, NEW j \in 1 .. Len(boxes[b]) - 1, i < j
                 PROVE  boxes'[b][i] < boxes'[b][j]
      BY <1>6
    <3>1. i + 1 \in DOMAIN boxes[b] /\ j + 1 \in DOMAIN boxes[b] /\ i + 1 < j + 1
      BY <1>6
    <3> QED BY <1>6, <1>8, <3>1
  <2>2. \A c \in Box : c # b => boxes'[c] = boxes[c]
    BY <1>1 DEF MailInv, MailTypeOK
  <2>3. \A c \in Box : \A i, j \in DOMAIN boxes'[c] : i < j => boxes'[c][i] < boxes'[c][j]
    BY <2>1, <2>2 DEF MailInv, OrderInv
  <2>4. \A c \in Box : Elements(boxes'[c]) \subseteq Elements(boxes[c])
    BY <1>7, <2>2
  <2>5. \A c, d \in Box : c # d => Elements(boxes'[c]) \cap Elements(boxes'[d]) = {}
    BY <2>4 DEF MailInv, OrderInv
  <2>6. /\ Below(Delivered', Numbers(hand) \cup Numbers(inbox) \cup Numbers(wire))
        /\ Delivered' \cup Numbers(hand) \cup Numbers(inbox) \cup Numbers(wire) \subseteq 1 .. sent
    BY <1>10 DEF MailInv, OrderInv, Below
  <2> HIDE DEF Delivered, Numbers, Below
  <2> QED BY <1>1, <2>3, <2>5, <2>6 DEF MailInv, OrderInv
<1>13. Mail!Receive(b)
  <2>1. \A n \in Channel[b] : m <= n
    <3>1. NumbersFor(b, hand) \subseteq Numbers(hand) /\ NumbersFor(b, inbox) \subseteq Numbers(inbox)
          /\ NumbersFor(b, wire) \subseteq Numbers(wire)
      BY DEF NumbersFor, Numbers
    <3>2. \A n \in Elements(boxes'[b]) \cup Numbers(hand) \cup Numbers(inbox) \cup Numbers(wire) : m < n
      BY <1>9, <1>11 DEF Below
    <3>3. Delivered \cup Numbers(hand) \cup Numbers(inbox) \cup Numbers(wire) \subseteq 1 .. sent /\ sent \in Nat
      BY DEF MailInv, OrderInv, MailTypeOK
    <3>4. \A n \in Channel[b] : n = m \/ m < n
      BY <1>7, <3>1, <3>2 DEF Channel
    <3>5. Channel[b] \subseteq 1 .. sent
      <4>1. Elements(boxes[b]) \subseteq Delivered
        BY DEF Delivered
      <4> QED BY <3>1, <3>3, <4>1 DEF Channel
    <3> QED BY <1>6, <3>4, <3>5
  <2>2. m \in Channel[b]
    BY <1>7 DEF Channel
  <2>3. m \notin Elements(boxes'[b]) /\ m \notin NumbersFor(b, hand)
        /\ m \notin NumbersFor(b, inbox) /\ m \notin NumbersFor(b, wire)
    <3>1. ~(m < m)
      BY <1>6
    <3> QED BY <1>9, <1>11, <3>1 DEF Below, NumbersFor, Numbers
  <2>4. Channel' = [Channel EXCEPT ![b] = @ \ {m}]
    <3>1. \A c \in Box : c # b => boxes'[c] = boxes[c]
      BY <1>1 DEF MailInv, MailTypeOK
    <3>2. Channel'[b] = Channel[b] \ {m}
      BY <1>1, <1>7, <2>3 DEF Channel
    <3> QED BY <1>1, <3>1, <3>2 DEF Channel
  <2> HIDE DEF m
  <2> QED BY <1>1, <2>1, <2>2, <2>4 DEF Mail!Receive, Channel
<1> QED BY <1>3, <1>5, <1>12, <1>13 DEF MailInv, Mail!Next

(* Every step is one of the mail's promise, or none.                                        *)
LEMMA MailStep ==
  ASSUME MailInv, DriverTypeOK, [Next]_vars
  PROVE  MailInv' /\ [Mail!Next]_(Mail!vars)
<1> USE Distinct
<1>1. ASSUME NEW t \in Thread, DiskSide(t) PROVE MailInv' /\ UNCHANGED Mail!vars
  BY <1>1, DiskTouches, MailQuiet DEF DiskSide, DiskLabels, postVars
<1>2. ASSUME NEW t \in Thread, DisplaySide(t) PROVE MailInv' /\ UNCHANGED Mail!vars
  BY <1>2, DisplayTouches, MailQuiet DEF DisplaySide, PutLabels, postVars
<1>3. ASSUME NEW t \in Thread, KeyboardSide(t) PROVE MailInv' /\ UNCHANGED Mail!vars
  BY <1>3, KeyboardTouches, MailQuiet DEF KeyboardSide, GetLabels, postVars
<1>4. ASSUME NEW t \in Thread, SendSide(t) PROVE MailInv' /\ [Mail!Next]_(Mail!vars)
  <2>1. Touches(PostLabels, {SendLock, MessageSent})
    BY <1>4, SendTouches DEF SendSide
  <2>2. CASE NetworkSend(t)
    BY <2>1, <2>2, MailSent
  <2>3. CASE ~NetworkSend(t)
    <3>1. UNCHANGED <<sent, wire, inbox, hand, boxes, received>>
      BY <1>4, <2>3 DEF SendSide, AcquireSend, AwaitSend, ReleaseSend, NetworkSendInt, postVars
    <3> QED BY <2>1, <3>1, MailQuiet DEF PostLabels
  <2> QED BY <2>2, <2>3
<1>5. ASSUME NEW t \in Thread, ReceiveSide(t) PROVE MailInv' /\ [Mail!Next]_(Mail!vars)
  <2>1. CASE NetworkRecvInt
    <3>1. /\ Touches({}, {MessageAvailable}) /\ value'[MessageAvailable] = value[MessageAvailable] + 1
          /\ value[MessageAvailable] \in Nat
      BY <2>1, VTouches DEF NetworkRecvInt, DriverTypeOK
    <3> QED BY <2>1, <3>1, MailBuffered
  <2> QED BY <1>5, <2>1, MailAwaited, MailFetched, MailPut, MailReceived DEF ReceiveSide, Deliver
<1>6. ASSUME NEW t \in Thread, Call(t) PROVE MailInv' /\ UNCHANGED Mail!vars
  BY <1>6, CallTouches, MailQuiet DEF Call, CallLabels, postVars
<1>7. CASE UNCHANGED vars
  <2>1. Touches({}, {})
    BY <1>7 DEF vars, semaphoreVars, DriverTypeOK, Touches
  <2>2. UNCHANGED <<sent, wire, inbox, hand, boxes, received>>
    BY <1>7 DEF vars, postVars
  <2> QED BY <2>1, <2>2, MailQuiet
<1> QED BY <1>1, <1>2, <1>3, <1>4, <1>5, <1>6, <1>7, Sides

(* The post office keeps its promise, whatever packets are lost and whoever overtakes whom: *)
(* what arrives in a box arrives once and in the order it was sent.                         *)
THEOREM MailArrivesInOrder == Spec => ImplementsMailChannel
<1>1. Init => MailInv /\ DriversInv /\ Mail!Init
  BY MailInit, InitDrivers
<1>2. MailInv /\ DriversInv /\ [Next]_vars => MailInv' /\ DriversInv' /\ [Mail!Next]_(Mail!vars)
  BY MailStep, NextDrivers DEF DriversInv
<1> QED BY <1>1, <1>2, PTL DEF Spec, ImplementsMailChannel, Mail!Spec

(* No message is in two boxes, and none is received that was not sent: those received and   *)
(* those under way are not more than those sent.                                            *)
Under == UNION {Channel[b] : b \in Box}
OnceEach ==
  /\ sent \in Nat /\ received \in Nat
  /\ Channel \in [Box -> SUBSET (1 .. sent)]
  /\ \A b, c \in Box : b # c => Channel[b] \cap Channel[c] = {}
  /\ received + Cardinality(Under) <= sent

(* Whoever follows MailChannel keeps this. *)
LEMMA MailOnce == Mail!Spec => []OnceEach
<1>1. Mail!Init => OnceEach
  <2> SUFFICES ASSUME Mail!Init PROVE OnceEach
    OBVIOUS
  <2>1. sent = 0 /\ received = 0 /\ Channel = [b \in Box |-> {}]
    BY DEF Mail!Init, Channel
  <2>2. Under = {}
    BY <2>1 DEF Under
  <2>3. Cardinality(Under) = 0
    BY <2>2, FS_EmptySet
  <2>4. Channel \in [Box -> SUBSET (1 .. sent)] /\ \A b, c \in Box : Channel[b] \cap Channel[c] = {}
    BY <2>1
  <2>5. received + Cardinality(Under) <= sent
    BY <2>1, <2>3
  <2> QED BY <2>1, <2>4, <2>5 DEF OnceEach
<1>2. OnceEach /\ [Mail!Next]_(Mail!vars) => OnceEach'
  <2> SUFFICES ASSUME OnceEach, [Mail!Next]_(Mail!vars) PROVE OnceEach'
    OBVIOUS
  <2>1. /\ sent \in Nat /\ received \in Nat /\ Channel \in [Box -> SUBSET (1 .. sent)]
        /\ \A b, c \in Box : b # c => Channel[b] \cap Channel[c] = {}
        /\ received + Cardinality(Under) <= sent
    BY DEF OnceEach
  <2>2. Under \subseteq 1 .. sent /\ IsFiniteSet(Under) /\ Cardinality(Under) \in Nat
    <3>1. Under \subseteq 1 .. sent
      BY <2>1 DEF Under
    <3>2. IsFiniteSet(1 .. sent)
      BY <2>1, FS_Interval
    <3> QED BY <3>1, <3>2, FS_Subset, FS_CardinalityType
  <2>3. CASE Mail!Lose
    <3>1. sent' = sent + 1 /\ received' = received /\ Channel' = Channel
      BY <2>3 DEF Mail!Lose, Channel
    <3>2. 1 .. sent \subseteq 1 .. sent'
      BY <2>1, <3>1
    <3>3. Under' = Under /\ Channel' \in [Box -> SUBSET (1 .. sent')]
          /\ \A b, c \in Box : b # c => Channel'[b] \cap Channel'[c] = {}
      BY <2>1, <3>1, <3>2 DEF Under
    <3>4. received' + Cardinality(Under)' <= sent'
      BY <2>1, <2>2, <3>1, <3>3
    <3> QED BY <2>1, <3>1, <3>3, <3>4 DEF OnceEach
  <2>4. ASSUME NEW b \in Box, Mail!Send(b) PROVE OnceEach'
    <3>1. sent' = sent + 1 /\ received' = received /\ Channel' = [Channel EXCEPT ![b] = @ \cup {sent'}]
      BY <2>4 DEF Mail!Send, Channel
    <3>2. 1 .. sent \subseteq 1 .. sent' /\ sent' \in 1 .. sent' /\ sent' \notin 1 .. sent
      BY <2>1, <3>1
    <3>3. Under' = Under \cup {sent'} /\ sent' \notin Under
      BY <2>1, <2>2, <3>1, <3>2 DEF Under
    <3>4. /\ Channel' \in [Box -> SUBSET (1 .. sent')]
          /\ \A c, d \in Box : c # d => Channel'[c] \cap Channel'[d] = {}
      BY <2>1, <3>1, <3>2
    <3>5. Cardinality(Under') = Cardinality(Under) + 1
      BY <2>2, <3>3, FS_AddElement
    <3>6. received' + Cardinality(Under') <= sent'
      BY <2>1, <2>2, <3>1, <3>5
    <3> QED BY <2>1, <3>1, <3>4, <3>6 DEF OnceEach
  <2>5. ASSUME NEW b \in Box, Mail!Receive(b) PROVE OnceEach'
    <3>1. PICK m \in Channel[b] : /\ Channel' = [Channel EXCEPT ![b] = @ \ {m}]
                                 /\ received' = received + 1 /\ sent' = sent
      BY <2>5 DEF Mail!Receive, Channel
    <3>2. \A c \in Box : c # b => m \notin Channel[c]
      BY <2>1
    <3>3. Under' = Under \ {m} /\ m \in Under
      BY <2>1, <3>1, <3>2 DEF Under
    <3>4. /\ Channel' \in [Box -> SUBSET (1 .. sent')]
          /\ \A c, d \in Box : c # d => Channel'[c] \cap Channel'[d] = {}
      BY <2>1, <3>1
    <3>5. Cardinality(Under') = Cardinality(Under) - 1
      BY <2>2, <3>3, FS_RemoveElement
    <3>6. received' + Cardinality(Under') <= sent'
      BY <2>1, <2>2, <3>1, <3>5
    <3> QED BY <2>1, <3>1, <3>4, <3>6 DEF OnceEach
  <2>6. CASE UNCHANGED Mail!vars
    <3>1. sent' = sent /\ received' = received /\ Channel' = Channel
      BY <2>6 DEF Mail!vars, Channel
    <3>2. Under' = Under
      BY <3>1 DEF Under
    <3> QED BY <3>1, <3>2 DEF OnceEach
  <2> QED BY <2>3, <2>4, <2>5, <2>6 DEF Mail!Next
<1> QED BY <1>1, <1>2, PTL DEF Mail!Spec

-----------------------------------------------------------------------------
(* The characters of the console. *)
TypedOK == incoming \in Char /\ typed \in 0 .. MaxInput

LEMMA TypedStep == TypedOK /\ [Next]_vars => TypedOK'
<1> SUFFICES ASSUME TypedOK, [Next]_vars PROVE TypedOK'
  OBVIOUS
<1> USE ConsoleAssumption DEF TypedOK
<1>1. ASSUME NEW t \in Thread, DisplaySide(t) \/ KeyboardSide(t) PROVE TypedOK'
  BY <1>1 DEF DisplaySide, KeyboardSide, AcquireOut, PutChar, AwaitOut, ReleaseOut, ConsoleWriteInt,
              AcquireIn, AwaitIn, GetChar, ConsoleReadInt, ConsoleReadEnd, consoleVars
<1>2. ASSUME NEW t \in Thread, DiskSide(t) \/ SendSide(t) \/ ReceiveSide(t) \/ Call(t) PROVE TypedOK'
  BY <1>2 DEF DiskSide, SendSide, ReceiveSide, Call, consoleVars
<1>3. CASE UNCHANGED vars
  BY <1>3 DEF vars, consoleVars
<1> QED BY <1>1, <1>2, <1>3, Sides

(* Every variable keeps its type; that no more messages are received than sent is no matter *)
(* of types, and follows from MailChannel.                                                  *)
THEOREM TypeCorrect == Spec => []TypeOK
<1>1. Spec => []DriversInv
  BY InitDrivers, NextDrivers, PTL DEF Spec
<1>2. Spec => []MailInv
  <2>1. MailInv /\ DriversInv /\ [Next]_vars => MailInv'
    BY MailStep DEF DriversInv
  <2> QED BY <1>1, <2>1, MailInit, PTL DEF Spec
<1>3. Spec => []TypedOK
  <2>1. Init => TypedOK
    BY ConsoleAssumption DEF Init, ConsoleInit, TypedOK
  <2> QED BY <2>1, TypedStep, PTL DEF Spec
<1>4. Spec => []SemaphoreInv
  <2>1. DriversInv /\ [Next]_vars => [SemaphoreNext]_semaphoreVars
    BY SemaphoreStep DEF DriversInv
  <2>2. Init => SemaphoreInit
    BY DEF Init
  <2>3. Spec => SemaphoreSpec
    BY <1>1, <2>1, <2>2, PTL DEF Spec, SemaphoreSpec
  <2> QED BY <2>3, SemaphoresAreSafe, PTL
<1>5. Spec => []OnceEach
  BY MailArrivesInOrder, MailOnce, PTL DEF ImplementsMailChannel
<1>6. DriversInv /\ MailInv /\ TypedOK /\ SemaphoreInv /\ OnceEach => TypeOK
  <2> SUFFICES ASSUME DriversInv, MailInv, TypedOK, SemaphoreInv, OnceEach PROVE TypeOK
    OBVIOUS
  <2>1. received \in 0 .. MaxMail
    <3>1. received \in Nat /\ received + Cardinality(Under) <= sent /\ sent \in 0 .. MaxMail
      BY DEF OnceEach, MailInv, MailTypeOK
    <3>2. Cardinality(Under) \in Nat
      <4>1. Under \subseteq 1 .. sent
        BY DEF OnceEach, Under
      <4>2. IsFiniteSet(1 .. sent)
        BY <3>1, FS_Interval
      <4> QED BY <4>1, <4>2, FS_Subset, FS_CardinalityType
    <3> QED BY <3>1, <3>2, PostOfficeAssumption
  <2>2. SemaphoreTypeOK
    BY DEF SemaphoreInv
  <2>3. pc \in [Thread -> Labels] /\ {active, putBusy, polling, ended, sending} \subseteq BOOLEAN
    BY DEF DriversInv, DriverTypeOK
  <2> QED BY <2>1, <2>2, <2>3 DEF TypeOK, TypedOK, MailInv, MailTypeOK, Labels
<1> QED BY <1>1, <1>2, <1>3, <1>4, <1>5, <1>6, PTL
=============================================================================

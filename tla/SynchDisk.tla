------------------------------ MODULE SynchDisk ------------------------------
(***************************************************************************)
(* The disk device (machine/disk.cc) and its driver (filesys/synchdisk.cc).*)
(* A request moves the data at once and reports by an interrupt later; how *)
(* much later (ComputeLatency) is left open.                               *)
(***************************************************************************)
EXTENDS DeviceCalls

CONSTANTS DiskLock, DiskDone   \* the semaphore inside `lock`, and `semaphore`

VARIABLE active   \* disk->active: a request is under way, its interrupt pending

DiskInit == active = FALSE

(* Mutant: ReadSector does not take the lock. *)
AcquireDiskOmitted(t) ==
  /\ pc[t] = "disk" /\ Goto(t, "diskLocked")
  /\ UNCHANGED <<semaphoreVars, active>>
AcquireDisk(t) == PFromTo(t, DiskLock, "disk", "diskLocked") /\ UNCHANGED active

(* ReadRequest or WriteRequest, and the P that follows. *)
DiskRequest(t) ==
  /\ pc[t] = "diskLocked"
  /\ active' = TRUE
  /\ StartP(t, DiskDone, "diskWait", "diskDone")

AwaitDisk(t) == PFromTo(t, DiskDone, "diskWait", "diskDone") /\ UNCHANGED active

ReleaseDisk(t) == ReleaseAndReturn(t, DiskLock, "diskDone") /\ UNCHANGED active

DiskStep(t) == AcquireDisk(t) \/ DiskRequest(t) \/ AwaitDisk(t) \/ ReleaseDisk(t)

(* Mutant: the handler of the driver is not called. *)
DiskInterruptUnheard ==
  /\ active
  /\ active' = FALSE
  /\ UNCHANGED <<semaphoreVars, pc>>
(* Disk::CallBack, and SynchDisk::CallBack from it. *)
DiskInterrupt ==
  /\ active
  /\ active' = FALSE
  /\ V(DiskDone)
  /\ UNCHANGED pc

(* The disk takes one request at a time (ASSERT(!active)), and who leaves P does so for    *)
(* the interrupt of its own request: none is under way, and no unit is left behind.        *)
DiskOneAtATime ==
  /\ \A t \in Thread : pc[t] = "diskLocked" => ~active
  /\ \A t \in Thread : pc[t] = "diskDone" => ~active /\ value[DiskDone] = 0
=============================================================================

----------------------------- MODULE MCDevices -----------------------------
(* Instances of Devices for TLC. *)
EXTENDS Devices

MCInitialValue ==
  [s \in Semaphore |-> IF s \in {DiskLock, InLock, OutLock, SendLock} THEN 1 ELSE 0]
=============================================================================

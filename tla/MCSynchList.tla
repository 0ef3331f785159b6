---------------------------- MODULE MCSynchList ----------------------------
(* Instances of SynchList for TLC. *)
EXTENDS SynchList, TLC

CONSTANTS t1, t2, t3, w1, w2, w3

MCInitialValue == [s \in Semaphore |-> IF s = ListLock THEN 1 ELSE 0]
MCWaiterOf == t1 :> w1 @@ t2 :> w2 @@ t3 :> w3
=============================================================================

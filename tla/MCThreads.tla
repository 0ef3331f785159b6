----------------------------- MODULE MCThreads -----------------------------
(* Instances of Threads for TLC. *)
EXTENDS Threads, TLC

CONSTANTS
  lock,       \* a semaphore of threads, initially 1 like that of a Lock
  disk        \* a semaphore an interrupt handler V's, initially 0 like that of SynchDisk

MCInitialValue == lock :> 1 @@ disk :> 0
=============================================================================

-------------------------- MODULE MCVirtualMemory --------------------------
(* Instances of VirtualMemory for TLC. *)
EXTENDS VirtualMemory, TLC

CONSTANTS
  t1, t2,               \* the threads, as model values
  PagesOfT1, PagesOfT2  \* the sizes of their programs, in pages

MCNumPages == t1 :> PagesOfT1 @@ t2 :> PagesOfT2
=============================================================================

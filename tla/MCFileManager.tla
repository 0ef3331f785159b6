--------------------------- MODULE MCFileManager ---------------------------
(* Instances of FileManager for TLC. *)
EXTENDS FileManager, TLC

CONSTANTS
  wwww, File1,           \* the files, as model values
  CallsOnWwww, CallsOnFile1

MCCallsOn == wwww :> CallsOnWwww @@ File1 :> CallsOnFile1
MCSemaphore == {"W", "R"} \X File \X Generation
MCInitialValue == [s \in Semaphore |-> 1]
=============================================================================

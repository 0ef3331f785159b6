---------------------------- MODULE FileManager ----------------------------
(***************************************************************************)
(* FileManager of the final kernel (threads/filemanager.cc): two           *)
(* semaphores per file that are meant to let threads read and write the    *)
(* same file at the same time, and its callers - the system calls Read,    *)
(* ReadTo, Write and WriteTo, the server Listening (userprog/exception.cc) *)
(* and the tests FileTest and DeleteIt (threads/threadtest.cc).            *)
(*                                                                         *)
(* numOfReader is not modelled: its first test is an assignment and its    *)
(* second guards an empty statement, so nothing depends on it.  The table  *)
(* of names never changes once a file is created, because DeleteFile       *)
(* compares where it should assign.                                        *)
(*                                                                         *)
(* Granularity as in SynchList: a step ends where P or V turns interrupts  *)
(* on.  Reading and writing the file waits for the disk, so it is begun in *)
(* one step and ended in another.                                          *)
(***************************************************************************)
EXTENDS Semaphores

CONSTANTS
  File,
  CallsOn,     \* CallsOn[f]: the operations the threads perform on file f, see Operation
  MaxDeletes,  \* bound: a file is deleted at most so many times
  MaxUnits     \* bound: ReleaseReadAt brings semaphoreW to no more than this value

Operation == {"FileTest",  \* RequestWriteAt, write, ReleaseWriteAt: FileTest, Listening
              "WriteTo",   \* RequestWriteAt, write, ReleaseReadAt: the call WriteTo
              "Read",      \* RequestReadAt, read, ReleaseReadAt: Read, ReadTo, Listening
              "Write",     \* RequestReadAt, write, ReleaseReadAt: the call Write
              "DeleteIt"}  \* DeleteAt, Remove

Generation == 0 .. MaxDeletes

ASSUME FileManagerAssumption ==
  /\ CallsOn \in [File -> SUBSET Operation]
  /\ MaxDeletes \in Nat /\ MaxUnits \in Nat
  /\ Semaphore = {"W", "R"} \X File \X Generation
  /\ \A s \in Semaphore : InitialValue[s] = 1
  /\ None \notin File

VARIABLES
  deleted,  \* deleted[f]: how many times DeleteAt has replaced the semaphores of f
  pc,       \* pc[t]: the point of the code t is at
  op,       \* op[t]: the operation t performs, or None
  file      \* file[t]: its file, or None

fileVars == <<deleted, pc, op, file>>
vars == <<semaphoreVars, fileVars>>

PC == {"outside", "requestW", "requestR", "replace", "writing", "reading", "removing", "releaseR"}

(* The objects semaphoreW[i] and semaphoreR[i] point to now. *)
semaphoreW(f) == <<"W", f, deleted[f]>>
semaphoreR(f) == <<"R", f, deleted[f]>>

Init ==
  /\ SemaphoreInit
  /\ deleted = [f \in File |-> 0]
  /\ pc = [t \in Thread |-> "outside"]
  /\ op = [t \in Thread |-> None]
  /\ file = [t \in Thread |-> None]

-----------------------------------------------------------------------------
Goto(t, l) == pc' = [pc EXCEPT ![t] = l]

(* RequestReadAt does nothing that counts: its caller is reading, or writing, at once. *)
FirstPC(o) == CASE o = "Read"  -> "reading"
                [] o = "Write" -> "writing"
                [] OTHER       -> "requestW"

Pending(o, f) == Cardinality({t \in Thread : op[t] = o /\ file[t] = f /\ pc[t] # "removing"})
WithinBounds(o, f) ==
  /\ o = "DeleteIt" => deleted[f] + Pending("DeleteIt", f) < MaxDeletes
  /\ o \in {"Read", "Write"} =>
       value[semaphoreW(f)] + Pending("Read", f) + Pending("Write", f) < MaxUnits

Call(t) ==
  /\ pc[t] = "outside"
  /\ \E f \in File : \E o \in CallsOn[f] :
       /\ WithinBounds(o, f)
       /\ op' = [op EXCEPT ![t] = o]
       /\ file' = [file EXCEPT ![t] = f]
       /\ Goto(t, FirstPC(o))
  /\ UNCHANGED <<semaphoreVars, deleted>>

(* P of the semaphore that `current` names when P is called; a thread woken in P tests the *)
(* object it was called on, whatever the table names by then.                              *)
Tested(t, current) == IF inP[t] = None THEN current ELSE inP[t]

PFromTo(t, current, from, to) ==
  /\ pc[t] = from
  /\ InOrCallingP(t, Tested(t, current))
  /\ \/ Take(t, Tested(t, current)) /\ Goto(t, to)
     \/ Wait(t, Tested(t, current)) /\ UNCHANGED pc
  /\ UNCHANGED <<deleted, op, file>>

AfterRequest(t) == IF op[t] = "DeleteIt" THEN "replace" ELSE "writing"

(* Mutant: DeleteAt replaces the semaphores without waiting for them. *)
DeleteAtOnce(t) ==
  IF op[t] = "DeleteIt"
    THEN /\ pc[t] = "requestW" /\ Goto(t, "replace")
         /\ UNCHANGED <<semaphoreVars, deleted, op, file>>
    ELSE \/ PFromTo(t, semaphoreW(file[t]), "requestW", "requestR")
         \/ PFromTo(t, semaphoreR(file[t]), "requestR", AfterRequest(t))

(* Mutant: the two semaphores in one order in DeleteAt, in the other in RequestWriteAt. *)
RequestInTwoOrders(t) ==
  IF op[t] = "DeleteIt"
    THEN \/ PFromTo(t, semaphoreR(file[t]), "requestW", "requestR")
         \/ PFromTo(t, semaphoreW(file[t]), "requestR", AfterRequest(t))
    ELSE \/ PFromTo(t, semaphoreW(file[t]), "requestW", "requestR")
         \/ PFromTo(t, semaphoreR(file[t]), "requestR", AfterRequest(t))

(* RequestWriteAt, and the beginning of DeleteAt. *)
RequestWriteAt(t) ==
  \/ PFromTo(t, semaphoreW(file[t]), "requestW", "requestR")
  \/ PFromTo(t, semaphoreR(file[t]), "requestR", AfterRequest(t))

Return(t) ==
  /\ Goto(t, "outside")
  /\ op' = [op EXCEPT ![t] = None]
  /\ file' = [file EXCEPT ![t] = None]

(* ReleaseWriteAt. *)
ReleaseWriteAt(t) ==
  \/ /\ pc[t] = "writing" /\ op[t] = "FileTest"
     /\ V(semaphoreW(file[t]))
     /\ Goto(t, "releaseR")
     /\ UNCHANGED <<deleted, op, file>>
  \/ /\ pc[t] = "releaseR"
     /\ V(semaphoreR(file[t]))
     /\ Return(t)
     /\ UNCHANGED deleted

(* ReleaseReadAt, whoever calls it: it always V's semaphoreW. *)
ReleaseReadAt(t) ==
  /\ pc[t] \in {"reading", "writing"} /\ op[t] # "FileTest"
  /\ V(semaphoreW(file[t]))
  /\ Return(t)
  /\ UNCHANGED deleted

(* The end of DeleteAt: new semaphores; the old ones keep the threads asleep in them. *)
ReplaceSemaphores(t) ==
  /\ pc[t] = "replace"
  /\ deleted' = [deleted EXCEPT ![file[t]] = @ + 1]
  /\ Goto(t, "removing")
  /\ UNCHANGED <<semaphoreVars, op, file>>

(* fileSystem->Remove has run. *)
Removed(t) ==
  /\ pc[t] = "removing"
  /\ Return(t)
  /\ UNCHANGED <<semaphoreVars, deleted>>

Step(t) == \/ RequestWriteAt(t) \/ ReleaseWriteAt(t) \/ ReleaseReadAt(t)
           \/ ReplaceSemaphores(t) \/ Removed(t)

Next == \E t \in Thread : Call(t) \/ Step(t)

Spec == Init /\ [][Next]_vars

(* Every ready thread gets the processor (ReadyRuns of Threads). *)
FairSpec == Spec /\ \A t \in Thread : WF_vars(Step(t))

-----------------------------------------------------------------------------
TypeOK ==
  /\ SemaphoreTypeOK
  /\ deleted \in [File -> Generation]
  /\ pc \in [Thread -> PC]
  /\ op \in [Thread -> Operation \cup {None}]
  /\ file \in [Thread -> File \cup {None}]

Doing(l, f) == {t \in Thread : pc[t] = l /\ file[t] = f}

(* The files whose users all keep to the protocol of FileTest and DeleteIt. *)
OrderlyFile == {f \in File : CallsOn[f] \subseteq {"FileTest", "DeleteIt"}}

(* Two threads never write an orderly file at the same time. *)
WriteExclusion == \A f \in OrderlyFile : Cardinality(Doing("writing", f)) <= 1

(* DeleteAt waits for the writer: when it replaces the semaphores, nobody writes the file,  *)
(* no second DeleteAt is about to do the same, and nobody holds a unit of what it drops.    *)
DeleteWaitsForWriter ==
  \A f \in OrderlyFile : Doing("replace", f) # {} =>
    /\ Cardinality(Doing("replace", f)) = 1
    /\ Doing("writing", f) = {}
    /\ value[semaphoreW(f)] + value[semaphoreR(f)] = 0

(* A call that waits on the semaphores the table names is served in its turn.  Nothing is   *)
(* promised to a call that waits on semaphores a DeleteAt has dropped, nor while others     *)
(* keep calling and overtake it.                                                            *)
CallsForEver == []<><<\E t \in Thread : Call(t)>>_vars
OnCurrent(t) == inP[t] \in {semaphoreW(file[t]), semaphoreR(file[t])}
WaiterIsServed ==
  CallsForEver \/ \A t \in Thread :
    (inP[t] # None /\ OnCurrent(t)) ~> (inP[t] = None \/ ~OnCurrent(t))

(* "multiple thread read and write same file at same time": every call returns, once no     *)
(* more calls arrive.                                                                       *)
CallsReturn == CallsForEver \/ \A t \in Thread : (pc[t] # "outside") ~> (pc[t] = "outside")

=============================================================================

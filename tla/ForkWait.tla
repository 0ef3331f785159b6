------------------------------ MODULE ForkWait ------------------------------
(***************************************************************************)
(* The system calls Fork_POS, Wait_POS and Exit of Project2 (userprog/     *)
(* exception.cc) and what a forked thread does when it ends (Exit_POS).    *)
(* A user program forks kernel threads, each with an ID the program        *)
(* chooses, and sleeps until the child with a given ID has ended.          *)
(*                                                                         *)
(* Granularity.  Parent and children interleave at ticks.  The handler of  *)
(* Wait_POS contains none between looking at the children and going to     *)
(* sleep, and Exit_POS none between looking at the parent and waking it;   *)
(* but there is one between waking it and leaving its child list.  Which   *)
(* ready thread runs next is left open.                                    *)
(*                                                                         *)
(* A program may end before its children.  Its Thread object is then       *)
(* freed while they still point to it.  They find what it held last, a     *)
(* childID of -1 and its child list, or the run crashes.                   *)
(***************************************************************************)
EXTENDS Naturals, FiniteSets

CONSTANTS
  Program,    \* the user programs
  Child,      \* bound: the threads Fork_POS can create
  ID,         \* the IDs a program forks children under: 1, 2 and 3
  OncePerID,  \* TRUE: a program forks one child under an ID and waits for it once, as the
              \* programs prog1, prog2 and prog3 of the tests do
  Nil        \* no program, no ID (childID -1), no reason to stop

(* exit(-1) twice, a failed assertion, a crash. *)
Halt == {"invalid child", "parent not waiting", "already on the ready list", "freed parent"}

ASSUME ForkWaitAssumption ==
  /\ IsFiniteSet(Child)
  /\ Nil \notin Program /\ Nil \notin ID /\ Nil \notin Halt
  /\ OncePerID \in BOOLEAN

VARIABLES
  program,   \* program[p]: "running", "asleep" in Wait_POS, "woken" (ready), "finished"
  childID,   \* childID[p]: the ID p waits for, or Nil
  children,  \* children[p]: the child list of p
  owed,      \* owed[p]: the IDs p has forked and not waited for since
  child,     \* child[c]: "unborn", "running", "leaving" (has woken its parent), "ended"
  parent,    \* parent[c]
  threadID,  \* threadID[c]
  halted     \* why Nachos has stopped, or Nil

forkWaitVars == <<program, childID, children, owed, child, parent, threadID, halted>>

ForkWaitInit ==
  /\ program = [p \in Program |-> "running"]
  /\ childID = [p \in Program |-> Nil]
  /\ children = [p \in Program |-> {}]
  /\ owed = [p \in Program |-> {}]
  /\ child = [c \in Child |-> "unborn"]
  /\ parent = [c \in Child |-> Nil]
  /\ threadID = [c \in Child |-> Nil]
  /\ halted = Nil

-----------------------------------------------------------------------------
Named(p, i) == {c \in children[p] : threadID[c] = i}

Fork_POS(p, i) ==
  /\ halted = Nil /\ program[p] = "running"
  /\ OncePerID => \A c \in Child : ~(parent[c] = p /\ threadID[c] = i)
  /\ \E c \in Child :
       /\ child[c] = "unborn"
       /\ child' = [child EXCEPT ![c] = "running"]
       /\ parent' = [parent EXCEPT ![c] = p]
       /\ threadID' = [threadID EXCEPT ![c] = i]
       /\ children' = [children EXCEPT ![p] = @ \cup {c}]
  /\ owed' = [owed EXCEPT ![p] = @ \cup {i}]
  /\ UNCHANGED <<program, childID, halted>>

(* Mutant: childID is noted, and the program goes to sleep whatever the list says. *)
IsInListOmitted(p, i) == TRUE
IsInList(p, i) == Named(p, i) # {}

Wait_POS(p, i) ==
  /\ halted = Nil /\ program[p] = "running"
  /\ OncePerID => i \in owed[p]
  /\ owed' = [owed EXCEPT ![p] = @ \ {i}]
  /\ IF IsInList(p, i)
       THEN /\ program' = [program EXCEPT ![p] = "asleep"]
            /\ childID' = [childID EXCEPT ![p] = i]
            /\ UNCHANGED halted
       ELSE /\ halted' = "invalid child"
            /\ UNCHANGED <<program, childID>>
  /\ UNCHANGED <<children, child, parent, threadID>>

(* Mutant: childID is reset to 0. *)
WaitReturnsToZero(p) ==
  /\ halted = Nil /\ program[p] = "woken"
  /\ program' = [program EXCEPT ![p] = "running"]
  /\ childID' = [childID EXCEPT ![p] = 0]
  /\ UNCHANGED <<children, owed, child, parent, threadID, halted>>

(* The woken program is dispatched: Sleep returns in Wait_POS. *)
WaitReturns(p) ==
  /\ halted = Nil /\ program[p] = "woken"
  /\ program' = [program EXCEPT ![p] = "running"]
  /\ childID' = [childID EXCEPT ![p] = Nil]
  /\ UNCHANGED <<children, owed, child, parent, threadID, halted>>

(* Exit: the program's thread finishes and is deleted. *)
Exit(p) ==
  /\ halted = Nil /\ program[p] = "running"
  /\ program' = [program EXCEPT ![p] = "finished"]
  /\ UNCHANGED <<childID, children, owed, child, parent, threadID, halted>>

(* Mutant: the thread stays on the child list. *)
StaysListed(c) == UNCHANGED children
RemoveFromParent(c) == children' = [children EXCEPT ![parent[c]] = @ \ {c}]

(* Mutant: the parent is woken by whichever child ends first. *)
IsAwaitedAny(c) == childID[parent[c]] # Nil
(* Exit_POS compares childID with its own ID. *)
IsAwaited(c) == childID[parent[c]] = threadID[c]

(* Exit_POS when the parent waits for this ID: it is made ready, and interrupts go on.      *)
(* ReadyToRun of a parent that is already ready is refused by the assertion in List::Append.*)
WakeParent(c) ==
  LET p == parent[c] IN
  /\ halted = Nil /\ child[c] = "running" /\ IsAwaited(c)
  /\ IF program[p] = "asleep"
       THEN /\ program' = [program EXCEPT ![p] = "woken"]
            /\ child' = [child EXCEPT ![c] = "leaving"]
            /\ UNCHANGED halted
       ELSE /\ halted' = "already on the ready list"
            /\ UNCHANGED <<program, child>>
  /\ UNCHANGED <<childID, children, owed, parent, threadID>>

(* ... and when it waits for another one. *)
EndUnawaited(c) ==
  /\ halted = Nil /\ child[c] = "running"
  /\ ~IsAwaited(c) /\ childID[parent[c]] # Nil
  /\ child' = [child EXCEPT ![c] = "ended"]
  /\ RemoveFromParent(c)
  /\ UNCHANGED <<program, childID, owed, parent, threadID, halted>>

(* ... and when it waits for none, or is freed: Nachos stops. *)
EndUnexpected(c) ==
  /\ halted = Nil /\ child[c] = "running" /\ childID[parent[c]] = Nil
  /\ \/ halted' = "parent not waiting"
     \/ program[parent[c]] = "finished" /\ halted' = "freed parent"
  /\ UNCHANGED <<program, childID, children, owed, child, parent, threadID>>

(* The end of Exit_POS after WakeParent. *)
Leave(c) ==
  /\ halted = Nil /\ child[c] = "leaving"
  /\ child' = [child EXCEPT ![c] = "ended"]
  /\ \/ RemoveFromParent(c) /\ UNCHANGED halted
     \/ program[parent[c]] = "finished" /\ halted' = "freed parent" /\ UNCHANGED children
  /\ UNCHANGED <<program, childID, owed, parent, threadID>>

Exit_POS(c) == WakeParent(c) \/ EndUnawaited(c) \/ EndUnexpected(c) \/ Leave(c)

ForkWaitNext ==
  \/ \E p \in Program : WaitReturns(p) \/ Exit(p)
  \/ \E p \in Program, i \in ID : Fork_POS(p, i) \/ Wait_POS(p, i)
  \/ \E c \in Child : Exit_POS(c)

ForkWaitSpec == ForkWaitInit /\ [][ForkWaitNext]_forkWaitVars

(* The round-robin scheduler runs every ready thread; ForkTest1, 2 and 3 end. *)
ForkWaitFairSpec ==
  /\ ForkWaitSpec
  /\ \A c \in Child : WF_forkWaitVars(Exit_POS(c))
  /\ \A p \in Program : WF_forkWaitVars(WaitReturns(p))

-----------------------------------------------------------------------------
ForkWaitTypeOK ==
  /\ program \in [Program -> {"running", "asleep", "woken", "finished"}]
  /\ childID \in [Program -> ID \cup {Nil}]
  /\ children \in [Program -> SUBSET Child]
  /\ owed \in [Program -> SUBSET ID]
  /\ child \in [Child -> {"unborn", "running", "leaving", "ended"}]
  /\ parent \in [Child -> Program \cup {Nil}]
  /\ threadID \in [Child -> ID \cup {Nil}]
  /\ halted \in Halt \cup {Nil}

(* Wait_POS walks a list of Thread pointers: the list of a program holds exactly its        *)
(* children that have not ended, so it never reaches a thread that is deleted.              *)
ChildrenAreAlive ==
  halted = Nil =>
    \A p \in Program :
      children[p] = {c \in Child : parent[c] = p /\ child[c] \in {"running", "leaving"}}

(* No lost wake-up: a program asleep in Wait_POS has a live child that will wake it; and a  *)
(* program that runs waits for nobody, so that it is not "woken" again.                     *)
SleeperHasChild ==
  \A p \in Program :
    /\ program[p] = "asleep" => \E c \in Named(p, childID[p]) : child[c] = "running"
    /\ childID[p] # Nil <=> program[p] \in {"asleep", "woken"}

(* List::Append asserts that a thread made ready is not on the ready list: the one child     *)
(* that could wake the parent a second time has ended.                                      *)
NeverReadyTwice == halted # "already on the ready list"

(* A program that waits goes on once its child has ended, unless somebody's error has       *)
(* stopped Nachos.                                                                          *)
WaitEnds ==
  \A p \in Program : (program[p] = "asleep") ~> (program[p] = "running" \/ halted # Nil)

=============================================================================

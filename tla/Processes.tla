------------------------------ MODULE Processes ------------------------------
(***************************************************************************)
(* The process layer of Project1 (threads/process.cc) with its scheduler:  *)
(* processes by priority and, among equals, in turn with a time quantum;   *)
(* the threads of a process one after the other.  The main program sets    *)
(* processes up as ThreadTest does, then ends; every thread prints some    *)
(* lines, as SimpleTest does, and ends in myFinish.                        *)
(*                                                                         *)
(* Granularity: a step is the code of one thread from one tick to the      *)
(* next.  Ticks are where SetLevel turns interrupts on: in Begin, in each  *)
(* Print, at the end of Yield and of myFinish.                             *)
(***************************************************************************)
EXTENDS Integers, Sequences, FiniteSets

CONSTANTS
  MaxProcess,   \* bound: processes created
  MaxRandom,    \* bound: the same, with timer interrupts at random
  MaxThread,    \* bound: threads per process
  Priority,     \* bound: priorities of processes
  Lines,        \* what a thread prints before it ends (20)
  TimeQuantum   \* TIME_QUANTUM: -quantum (10)

ASSUME ProcessAssumption ==
  /\ {MaxProcess, MaxRandom, MaxThread, Lines, TimeQuantum} \subseteq Nat \ {0}
  /\ MaxRandom <= MaxProcess
  /\ Priority \subseteq Nat

VARIABLES
  process,      \* process[p]: the fields of Process p
  left,         \* left[p][i]: the lines thread i of p has still to print
  ready,        \* readyList of the scheduler, which Insert keeps sorted
  current,      \* currentProcess
  at,           \* where the running thread is
  due,          \* the next tick finds a timer interrupt due
  randomSlice   \* -rs: timer interrupts come at random

vars == <<process, left, ready, current, at, due, randomSlice>>

Main   == 0
NoParent == -1
Pid    == 1 .. MaxProcess
Bound  == IF randomSlice THEN MaxRandom ELSE MaxProcess
Thread == 1 .. MaxThread

(* The threads of a process are known by their order; its list is sorted by it, so that a  *)
(* set will do.  `done` are the threads with `finish`, deleted is set by ~Process.         *)
New(prior, parent, n) ==
  [priority |-> prior, parent |-> parent, executeTime |-> 0, waiting |-> FALSE,
   children |-> 0, finishedChildren |-> 0,
   threads |-> n, list |-> 1 .. n, done |-> {}, hasThreadFinished |-> FALSE,
   thread |-> 1, deleted |-> FALSE]

created == DOMAIN process \ {Main}
Running == process[current]
allFinished(p) == Cardinality(process[p].done) = process[p].threads

(* Mutant: a process goes to the end of the list, whatever its priority. *)
InsertLast(s, q, p) == Append(q, p)
(* readyList->Insert: before the first process of lower priority, or at the end. *)
Insert(s, q, p) ==
  LET lower(i) == i <= Len(q) => s[q[i]].priority < s[p].priority
      first == CHOOSE i \in 1 .. Len(q) + 1 :
                 lower(i) /\ \A j \in 1 .. i - 1 : ~lower(j)
  IN [i \in 1 .. Len(q) + 1 |-> IF i < first THEN q[i] ELSE IF i = first THEN p ELSE q[i - 1]]

Init ==
  /\ process = [p \in {Main} |-> New(5, NoParent, 0)]
  /\ left = [p \in Pid |-> [i \in Thread |-> Lines]]
  /\ ready = <<>>
  /\ current = Main
  /\ at = "main"
  /\ due = TRUE
  /\ randomSlice \in BOOLEAN

-----------------------------------------------------------------------------
(* The main program: one process after the other with its threads and then its children,   *)
(* and at last the joins.  ForkThread turns interrupts off and leaves them so: there is no *)
(* tick before the end.                                                                    *)

Create(p, new) == [q \in DOMAIN process \cup {p} |-> IF q = p THEN new ELSE process[q]]

NextPid == Cardinality(created) + 1
SetUp   == \A p \in created : process[p].threads > 0 /\ ~process[p].waiting
Newest(p) == \A q \in created : process[q].parent = NoParent => q <= p

NewProcess ==
  /\ current = Main /\ at = "main" /\ NextPid <= Bound /\ SetUp
  /\ \E prior \in Priority : process' = Create(NextPid, New(prior, NoParent, 0))
  /\ UNCHANGED <<left, ready, current, at, due, randomSlice>>

ForkThread(p) ==
  /\ current = Main /\ at = "main"
  /\ process[p].threads < MaxThread /\ p = NextPid - 1 /\ process[p].parent = NoParent
  /\ process' = [process EXCEPT ![p].threads = @ + 1,
                                ![p].list = @ \cup {process[p].threads + 1}]
  /\ ready' = IF process[p].threads = 0 THEN Insert(process, ready, p) ELSE ready
  /\ UNCHANGED <<left, current, at, due, randomSlice>>

(* The child gets the priority and the ready threads of its parent. *)
ForkProcess(p) ==
  LET child == New(process[p].priority, p, Cardinality(process[p].list))
  IN /\ current = Main /\ at = "main"
     /\ NextPid <= Bound /\ SetUp /\ process[p].parent = NoParent /\ Newest(p)
     /\ process' = [Create(NextPid, child) EXCEPT ![p].children = @ + 1]
     /\ ready' = Insert(process', ready, NextPid)
     /\ UNCHANGED <<left, current, at, due, randomSlice>>

(* Join only marks the process: it goes on until it yields. *)
Join(p) ==
  /\ current = Main /\ at = "main"
  /\ process[p].children > 0 /\ \A q \in created : process[q].waiting => q < p
  /\ process' = [process EXCEPT ![p].waiting = TRUE]
  /\ UNCHANGED <<left, ready, current, at, due, randomSlice>>

-----------------------------------------------------------------------------
(* findNextThreadRun *)
FrontThread(s, p) == CHOOSE i \in s[p].list : \A j \in s[p].list : i <= j

(* Run(next, FALSE), with the fields of the processes as s: the running thread goes back   *)
(* to its list unless it has finished.                                                     *)
PutBack(s) ==
  IF Running.thread \in s[current].done THEN s
  ELSE [s EXCEPT ![current].list = @ \cup {Running.thread}]
Run(s, next) ==
  LET back == PutBack(s)
      front == FrontThread(back, next)
  IN /\ process' = [back EXCEPT ![next].list = @ \ {front}, ![next].thread = front]
     /\ current' = next
     /\ at' = "pending"

(* FindNextToRun and Run(next, TRUE): the whole process is deleted, and with it the threads*)
(* on its list.  With no process ready the machine idles, and nobody will end that.        *)
RunFinishing(s, q, quantum) ==
  IF q = <<>>
    THEN /\ process' = s /\ at' = "idle"
         /\ UNCHANGED <<ready, current>>
    ELSE /\ Run([s EXCEPT ![current].deleted = TRUE,
                          ![Head(q)].executeTime = IF quantum THEN -1 ELSE @], Head(q))
         /\ ready' = Tail(q)

(* Thread::Finish: of the main program, or of a thread whose function has returned.        *)
Finish ==
  /\ at \in {"main", "returned"}
  /\ RunFinishing(process, ready, FALSE)
  /\ UNCHANGED <<left, due, randomSlice>>

-----------------------------------------------------------------------------
(* A tick *)

ToPrint == left[current][Running.thread]

(* The running thread comes to a tick: in Begin or at the end of Yield, in Print, or at    *)
(* the end of myFinish.                                                                    *)
Tick ==
  /\ \/ at \in {"pending", "ended"} /\ UNCHANGED left
     \/ /\ at = "code" /\ ToPrint > 0
        /\ left' = [left EXCEPT ![current][Running.thread] = @ - 1]
  /\ due' \in (IF randomSlice THEN BOOLEAN ELSE {~due})   \* TimerTicks is two ticks
  /\ UNCHANGED randomSlice

TickOnly ==
  /\ ~due /\ Tick
  /\ at' = IF at = "ended" THEN "returned" ELSE "code"
  /\ UNCHANGED <<process, ready, current>>

executeTime == Running.executeTime + 1   \* after Alarm::CallBack
(* Mutant: the quantum is one interrupt too long. *)
QuantumExceeded == executeTime > TimeQuantum
QuantumUsed == executeTime >= TimeQuantum

Yields ==
  /\ ready # <<>>
  /\ \/ Running.waiting
     \/ process[Head(ready)].priority > Running.priority
     \/ QuantumUsed /\ process[Head(ready)].priority = Running.priority

(* The timer is due: Alarm::CallBack, then Process::Yield. *)
YieldToProcess ==
  LET s == [process EXCEPT ![current].executeTime = 0]
  IN /\ due /\ Tick
     /\ Yields
     /\ ready' = IF Running.waiting THEN Tail(ready) ELSE Insert(s, Tail(ready), current)
     /\ Run(s, Head(ready))

NextQuantum == [process EXCEPT ![current].executeTime = IF QuantumUsed THEN 0 ELSE executeTime]

YieldToThread ==
  /\ due /\ Tick
  /\ ~Yields /\ Running.hasThreadFinished
  /\ Run([NextQuantum EXCEPT ![current].hasThreadFinished = FALSE], current)
  /\ UNCHANGED ready

YieldToNobody ==
  /\ due /\ Tick
  /\ ~Yields /\ ~Running.hasThreadFinished
  /\ process' = NextQuantum
  /\ at' = "pending"
  /\ UNCHANGED <<ready, current>>

-----------------------------------------------------------------------------
(* myFinish *)

FinishThread ==
  [process EXCEPT ![current].done = @ \cup {Running.thread},
                  ![current].hasThreadFinished = TRUE]

MyFinish ==
  /\ at = "code" /\ ToPrint = 0
  /\ Cardinality(Running.done) + 1 < Running.threads
  /\ process' = FinishThread
  /\ at' = "ended"
  /\ UNCHANGED <<left, ready, current, due, randomSlice>>

(* Mutant: a child is counted only after the test. *)
CountLate(s, parent) == s[parent].finishedChildren = s[parent].children
LastChild(s, parent) == s[parent].finishedChildren + 1 = s[parent].children

(* The last thread of the process: Termination.  Only a parent that waits counts the       *)
(* child.  A parent may be deleted by then: its fields are read as they were, but it cannot*)
(* run again.                                                                              *)
Terminate ==
  LET s == FinishThread
      parent == Running.parent
      counted == parent # NoParent /\ process[parent].waiting
      last == counted /\ LastChild(s, parent)
      s1 == IF counted THEN [s EXCEPT ![parent].finishedChildren = @ + 1] ELSE s
      s2 == IF last THEN [s1 EXCEPT ![parent].executeTime = -1, ![parent].waiting = FALSE] ELSE s1
  IN /\ at = "code" /\ ToPrint = 0
     /\ Cardinality(Running.done) + 1 = Running.threads
     /\ IF last /\ process[parent].deleted
          THEN at' = "crashed" /\ UNCHANGED <<process, ready, current>>
          ELSE RunFinishing(s2, IF last THEN Insert(s2, ready, parent) ELSE ready, TRUE)
     /\ UNCHANGED <<left, due, randomSlice>>

-----------------------------------------------------------------------------
Next ==
  \/ NewProcess
  \/ \E p \in created : ForkThread(p) \/ ForkProcess(p) \/ Join(p)
  \/ Finish
  \/ TickOnly \/ YieldToProcess \/ YieldToThread \/ YieldToNobody
  \/ MyFinish \/ Terminate

Spec == Init /\ [][Next]_vars

(* The processor always goes on. *)
FairSpec == Spec /\ WF_vars(Finish) /\ WF_vars(TickOnly) /\ WF_vars(YieldToProcess)
                 /\ WF_vars(YieldToThread) /\ WF_vars(YieldToNobody)
                 /\ WF_vars(MyFinish) /\ WF_vars(Terminate)

-----------------------------------------------------------------------------
TypeOK ==
  /\ created = 1 .. Cardinality(created)
  /\ \A p \in DOMAIN process :
       /\ process[p].parent \in created \cup {NoParent}
       /\ process[p].executeTime \in -1 .. TimeQuantum - 1
       /\ process[p].list \cup process[p].done \subseteq Thread
       /\ process[p].finishedChildren \in 0 .. process[p].children
  /\ left \in [Pid -> [Thread -> 0 .. Lines]]
  /\ ready \in Seq(created)
  /\ current \in DOMAIN process
  /\ at \in {"main", "pending", "code", "ended", "returned", "idle", "crashed"}
  /\ {due, randomSlice} \subseteq BOOLEAN

(* "Add priority round robin scheduling" (README.md:7).  Whoever runs, no process that     *)
(* waits for the processor has a higher priority, through every wake-up, quantum and end.  *)
HighestPriorityRuns ==
  current # Main => \A i \in DOMAIN ready : process[ready[i]].priority <= Running.priority

(* No process is ready twice (List::Insert asserts it) or ready while it runs, and a       *)
(* process that is neither has ended or waits for children, each of which is still to come *)
(* and will be counted.                                                                    *)
Stranded(p) == p # current /\ p \notin {ready[i] : i \in DOMAIN ready}
Placement ==
  /\ \A i, j \in DOMAIN ready : ready[i] = ready[j] => i = j
  /\ \A i \in DOMAIN ready : ready[i] # current /\ ~process[ready[i]].deleted
  /\ ~randomSlice => \A p \in created :
       Stranded(p) /\ ~allFinished(p) =>
         /\ process[p].waiting /\ process[p].finishedChildren < process[p].children
         /\ Cardinality({c \in created : process[c].parent = p /\ ~allFinished(c)})
              = process[p].children - process[p].finishedChildren

(* Every thread of every process gets to its end, and every join is answered.  With timer  *)
(* interrupts at fixed intervals: at random ones myFinish can return, and Thread::Finish   *)
(* then deletes the process with the threads it still has.                                 *)
EverybodyEnds ==
  ~randomSlice /\ at # "main" ~> \A p \in created : allFinished(p)
=============================================================================

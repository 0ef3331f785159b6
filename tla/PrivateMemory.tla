--------------------------- MODULE PrivateMemory ---------------------------
(***************************************************************************)
(* What the demand-paged memory of Project2 promises to user programs:     *)
(* every program sees a memory of its own, as large as its address space,  *)
(* in which an instruction reads what the program last wrote.  Frames,     *)
(* page faults, eviction and the other programs are invisible.             *)
(*                                                                         *)
(* This is the abstract specification that VirtualMemory refines; it       *)
(* models no code of its own.                                              *)
(***************************************************************************)
EXTENDS Naturals, Sequences

CONSTANTS
  Thread,     \* the threads of the kernel; those that load a program own a memory
  NumPages,   \* NumPages[t]: size of the address space of t, in pages
  Value       \* the contents of a page

Page == UNION {{t} \X (0 .. NumPages[t] - 1) : t \in Thread}

VARIABLES
  contents,   \* contents[p]: what the program of thread p[1] stored in its page p[2]
  running,    \* the threads whose program is loaded and has not exited
  store,      \* what the instruction under way will overwrite, <<page, value>>, or <<>>
  result      \* what an instruction that has done all its reading saw, else <<>>

vars == <<contents, running, store, result>>

Reading(t) == [page : {t} \X (0 .. NumPages[t] - 1), value : Value]

(* Nothing but the memory of t changes. *)
OnlyMemoryOf(t) ==
  /\ contents' \in [Page -> Value]
  /\ \A p \in Page : p[1] # t => contents'[p] = contents[p]

Init ==
  /\ contents \in [Page -> Value]
  /\ running = {}
  /\ store = <<>>
  /\ result = <<>>

(* A thread loads a program, which determines the initial image of its memory. *)
Load(t) ==
  /\ t \notin running
  /\ running' = running \cup {t}
  /\ OnlyMemoryOf(t)
  /\ UNCHANGED <<store, result>>

(* An instruction of t reads some of its pages, all at one instant. *)
Read(t) ==
  /\ t \in running
  /\ result = <<>>
  /\ result' \in Seq(Reading(t)) \ {<<>>}
  /\ \A i \in DOMAIN result' : result'[i].value = contents[result'[i].page]
  /\ UNCHANGED <<contents, running, store>>

(* The instruction takes what it read into registers, or to the console. *)
Deliver ==
  /\ result' = <<>>
  /\ UNCHANGED <<contents, running, store>>

(* An instruction of t that stores into one of its own pages begins ... *)
Issue(t) ==
  /\ t \in running
  /\ store = <<>>
  /\ \E v \in 0 .. NumPages[t] - 1, x \in Value : store' = <<<<t, v>>, x>>
  /\ UNCHANGED <<contents, running, result>>

(* ... and overwrites that page, and nothing else. *)
Write(t) ==
  /\ t \in running
  /\ store # <<>> /\ store[1][1] = t
  /\ contents' = [contents EXCEPT ![store[1]] = store[2]]
  /\ store' = <<>>
  /\ UNCHANGED <<running, result>>

(* The program of t exits; nobody looks at its memory again. *)
Exit(t) ==
  /\ t \in running
  /\ running' = running \ {t}
  /\ OnlyMemoryOf(t)
  /\ UNCHANGED <<store, result>>

Next == Deliver \/ \E t \in Thread : Load(t) \/ Read(t) \/ Issue(t) \/ Write(t) \/ Exit(t)

Spec == Init /\ [][Next]_vars
=============================================================================

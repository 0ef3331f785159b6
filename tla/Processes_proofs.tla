-------------------------- MODULE Processes_proofs --------------------------
(***************************************************************************)
(* Proofs about Processes, for any number of processes, threads and        *)
(* priorities and any time quantum: the types; nobody of higher priority   *)
(* waits while a process runs; every process is ready once, runs, has      *)
(* ended, or waits for children that will all be counted.                  *)
(***************************************************************************)
EXTENDS Processes, FiniteSetTheorems, WellFoundedInduction, TLAPS

-----------------------------------------------------------------------------
(* The inductive invariant.  Queues are described by what they hold and in which order.     *)
In(q)       == {q[i] : i \in 1 .. Len(q)}
Once(q)     == \A i, j \in 1 .. Len(q) : q[i] = q[j] => i = j
Sorted(s, q) == \A i, j \in 1 .. Len(q) : i < j => s[q[j]].priority <= s[q[i]].priority
Before(q, x, y) == \E i, j \in 1 .. Len(q) : i < j /\ q[i] = x /\ q[j] = y

Field ==
  [priority : Nat, parent : Pid \cup {NoParent}, executeTime : -1 .. TimeQuantum - 1,
   waiting : BOOLEAN, children : Nat, finishedChildren : Nat, threads : 0 .. MaxThread,
   list : SUBSET Thread, done : SUBSET Thread, hasThreadFinished : BOOLEAN,
   thread : Thread, deleted : BOOLEAN]

FieldsOK(s) ==
  /\ s \in [created \cup {Main} -> Field]
  /\ \A p \in created \cup {Main} :
       /\ s[p].parent \in created \cup {NoParent}
       /\ s[p].finishedChildren <= s[p].children
       /\ s[p].waiting => s[p].finishedChildren < s[p].children

TypeInv ==
  /\ FieldsOK(process)
  /\ Cardinality(created) \in Nat /\ Cardinality(created) <= MaxProcess
  /\ created = 1 .. Cardinality(created)
  /\ left \in [Pid -> [Thread -> 0 .. Lines]]
  /\ ready \in Seq(created)
  /\ current \in created \cup {Main}
  /\ at \in {"main", "pending", "code", "ended", "returned", "idle", "crashed"}
  /\ due \in BOOLEAN /\ randomSlice \in BOOLEAN

(* The threads of a process that is not deleted: on its list, done or running.  A process   *)
(* that does not run has one on its list.                                                   *)
ThreadsOf(f, running) ==
  ~f.deleted =>
    /\ f.list \cap f.done = {}
    /\ f.list \cup f.done \cup (IF running THEN {f.thread} ELSE {}) = 1 .. f.threads
    /\ IF running THEN f.thread \notin f.list ELSE f.threads > 0 => f.list # {}
ThreadInv == \A p \in created : ThreadsOf(process[p], p = current)

(* The running thread.  Between myFinish and the next tick another one is on the list.      *)
RunningInv ==
  /\ at = "main" => current = Main
  /\ at \in {"pending", "code", "ended", "returned"} => current \in created /\ ~Running.deleted
  /\ at \in {"pending", "code"} => Running.thread \notin Running.done
  /\ at \in {"ended", "returned"} => Running.thread \in Running.done
  /\ at = "ended" => Running.hasThreadFinished /\ Running.list # {}

(* The main program: nothing has run yet. *)
MainInv ==
  at = "main" =>
    \A p \in created :
      /\ process[p].done = {} /\ process[p].list = 1 .. process[p].threads
      /\ process[p].finishedChildren = 0 /\ ~process[p].deleted
      /\ process[p].threads > 0 => p \in In(ready)

Children(s, p)   == {c \in DOMAIN s \ {Main} : s[c].parent = p}
Unfinished(s, p) == {c \in Children(s, p) : Cardinality(s[c].done) # s[c].threads}

(* Families: who waits has as many children to come as are not counted.                     *)
FamilyOK(s) ==
  \A p \in created :
    /\ s[p].parent # p
    /\ s[p].parent # NoParent => s[p].threads > 0 /\ s[s[p].parent].threads > 0
    /\ s[p].children = Cardinality(Children(s, p))
    /\ s[p].waiting => Cardinality(Unfinished(s, p)) = s[p].children - s[p].finishedChildren
FamilyInv == FamilyOK(process)

(* The ready list. *)
ReadyInv ==
  /\ Once(ready) /\ Sorted(process, ready)
  /\ \A p \in In(ready) : p # current /\ ~process[p].deleted /\ process[p].threads > 0
  /\ HighestPriorityRuns

(* A process that is marked as waiting while it is still ready will run before its children, *)
(* so that it is off the list when the last of them ends.                                   *)
ParentFirst ==
  \A p \in In(ready) : at = "main" \/ process[p].waiting =>
    \A c \in Children(process, p) : Before(ready, p, c)

(* With timer interrupts at fixed intervals one is due whenever a thread is in its code, so *)
(* that myFinish never returns; and nobody is stranded but those who wait.                  *)
FixedSliceInv ==
  ~randomSlice =>
    /\ at \in {"code", "ended"} => due
    /\ at # "returned"
    /\ \A p \in created : p = current \/ p \in In(ready) \/ allFinished(p) \/ process[p].waiting

IInv == /\ TypeInv /\ ThreadInv /\ RunningInv /\ MainInv /\ FamilyInv
        /\ ReadyInv /\ ParentFirst /\ FixedSliceInv

-----------------------------------------------------------------------------
(* Queues                                                                                   *)

LEMMA LeastElement ==
  ASSUME NEW T, T \subseteq Nat, T # {}
  PROVE  \E x \in T : \A y \in T : x <= y
<1>1. IsWellFoundedOn(OpToRel(<, Nat), Nat)
  BY NatLessThanWellFounded
<1>2. PICK x \in T : \A y \in T : ~(<<y, x>> \in OpToRel(<, Nat))
  <2> HIDE DEF OpToRel
  <2> QED BY <1>1, WFMin
<1>3. \A y \in T : ~(y < x)
  BY <1>2 DEF OpToRel
<1> QED BY <1>3

(* The place in front of the first process of lower priority. *)
LEMMA InsertAt ==
  ASSUME NEW s, NEW S, NEW q \in Seq(S), NEW p \in S, \A r \in S : s[r].priority \in Nat
  PROVE  \E k \in 1 .. Len(q) + 1 :
           /\ Insert(s, q, p) =
                [i \in 1 .. Len(q) + 1 |-> IF i < k THEN q[i] ELSE IF i = k THEN p ELSE q[i - 1]]
           /\ \A j \in 1 .. k - 1 : s[p].priority <= s[q[j]].priority
           /\ k <= Len(q) => s[q[k]].priority < s[p].priority
<1> DEFINE lower(i) == i <= Len(q) => s[q[i]].priority < s[p].priority
           T == {i \in 1 .. Len(q) + 1 : lower(i)}
           first == CHOOSE i \in 1 .. Len(q) + 1 : lower(i) /\ \A j \in 1 .. i - 1 : ~lower(j)
<1>1. Len(q) \in Nat
  OBVIOUS
<1>2. Len(q) + 1 \in T /\ T \subseteq Nat
  BY <1>1
<1>3. PICK k \in T : \A j \in T : k <= j
  <2> HIDE DEF T
  <2> QED BY <1>2, LeastElement
<1>4. lower(k) /\ k \in 1 .. Len(q) + 1
  OBVIOUS
<1>5. ASSUME NEW j \in 1 .. k - 1 PROVE ~lower(j)
  <2>1. j \in 1 .. Len(q) + 1 /\ ~(k <= j)
    BY <1>1, <1>4
  <2> QED BY <2>1, <1>3
<1>6. first \in 1 .. Len(q) + 1 /\ lower(first) /\ \A j \in 1 .. first - 1 : ~lower(j)
  <2> HIDE DEF lower
  <2> QED BY <1>4, <1>5
<1>7. Insert(s, q, p) =
       [i \in 1 .. Len(q) + 1 |-> IF i < first THEN q[i] ELSE IF i = first THEN p ELSE q[i - 1]]
  BY DEF Insert
<1> HIDE DEF first
<1>8. ASSUME NEW j \in 1 .. first - 1 PROVE s[p].priority <= s[q[j]].priority
  <2>1. ~lower(j) /\ j \in 1 .. Len(q)
    BY <1>1, <1>6
  <2>2. q[j] \in S
    BY <2>1
  <2> QED BY <2>1, <2>2
<1> QED BY <1>6, <1>7, <1>8

(* What Insert does to a sorted queue that p is not on. *)
LEMMA InsertQueue ==
  ASSUME NEW s, NEW S, NEW q, NEW p, NEW r, q \in Seq(S), p \in S,
         \A x \in S : s[x].priority \in Nat,
         Once(q), Sorted(s, q), p \notin In(q), r = Insert(s, q, p)
  PROVE  /\ r \in Seq(S) /\ Len(r) = Len(q) + 1
         /\ Once(r) /\ Sorted(s, r) /\ In(r) = In(q) \cup {p}
         /\ \A x, y : Before(q, x, y) => Before(r, x, y)
         /\ \A x \in In(q) : s[p].priority <= s[x].priority => Before(r, x, p)
<1>1. PICK k \in 1 .. Len(q) + 1 :
           /\ r = [i \in 1 .. Len(q) + 1 |-> IF i < k THEN q[i] ELSE IF i = k THEN p ELSE q[i - 1]]
           /\ \A j \in 1 .. k - 1 : s[p].priority <= s[q[j]].priority
           /\ k <= Len(q) => s[q[k]].priority < s[p].priority
  BY InsertAt
<1>2. Len(q) \in Nat /\ \A i \in 1 .. Len(q) : q[i] \in S /\ q[i] # p
  BY DEF In
<1>3. \A i \in 1 .. Len(q) + 1 :
        /\ i < k => i \in 1 .. Len(q) /\ r[i] = q[i]
        /\ i = k => r[i] = p
        /\ i > k => i - 1 \in 1 .. Len(q) /\ r[i] = q[i - 1]
  BY <1>1, <1>2
<1>4. \A i \in 1 .. Len(q) :
        /\ i < k => i \in 1 .. Len(q) + 1 /\ r[i] = q[i]
        /\ i >= k => i + 1 \in 1 .. Len(q) + 1 /\ r[i + 1] = q[i]
  BY <1>1, <1>2
<1>5. r \in Seq(S) /\ Len(r) = Len(q) + 1
  <2>1. \A i \in 1 .. Len(q) + 1 : r[i] \in S
    BY <1>2, <1>3
  <2>2. r \in [1 .. Len(q) + 1 -> S]
    BY <1>1, <2>1
  <2> QED BY <2>2, <1>2
<1>6. Once(r)
  <2> SUFFICES ASSUME NEW i \in 1 .. Len(q) + 1, NEW j \in 1 .. Len(q) + 1, i < j, r[i] = r[j]
               PROVE  FALSE
    BY <1>2, <1>5 DEF Once
  <2>1. PICK m, n \in 1 .. Len(q) : m # n /\ r[i] = q[m] /\ r[j] = q[n]
    <3>1. i # k /\ j # k
      BY <1>2, <1>3
    <3>2. CASE j < k
      BY <3>2, <1>3
    <3>3. CASE i < k /\ j > k
      <4>1. i \in 1 .. Len(q) /\ j - 1 \in 1 .. Len(q) /\ r[i] = q[i] /\ r[j] = q[j - 1] /\ i # j - 1
        BY <3>3, <1>2, <1>3
      <4> QED BY <4>1
    <3>4. CASE i > k
      <4>1. i - 1 \in 1 .. Len(q) /\ j - 1 \in 1 .. Len(q) /\ r[i] = q[i - 1] /\ r[j] = q[j - 1]
              /\ i - 1 # j - 1
        BY <3>4, <1>3
      <4> QED BY <4>1
    <3> QED BY <3>1, <3>2, <3>3, <3>4
  <2> QED BY <2>1 DEF Once
<1>7. \A i, j \in 1 .. Len(q) : i <= j => s[q[j]].priority <= s[q[i]].priority
  <2>1. \A i \in 1 .. Len(q) : s[q[i]].priority \in Nat
    BY <1>2
  <2> QED BY <2>1 DEF Sorted
<1>8. Sorted(s, r)
  <2> SUFFICES ASSUME NEW i \in 1 .. Len(q) + 1, NEW j \in 1 .. Len(q) + 1, i < j
               PROVE  s[r[j]].priority <= s[r[i]].priority
    BY <1>5 DEF Sorted
  <2>1. CASE j < k
    BY <2>1, <1>1, <1>2, <1>3, <1>7
  <2>2. CASE j = k
    BY <2>2, <1>1, <1>2, <1>3
  <2>3. CASE j > k
    <3>1. r[j] = q[j - 1] /\ j - 1 \in 1 .. Len(q)
      BY <2>3, <1>1, <1>2, <1>3
    <3>2. CASE i < k
      BY <3>1, <3>2, <2>3, <1>1, <1>2, <1>3, <1>7
    <3>3. CASE i = k
      <4>1. r[i] = p /\ k <= Len(q)
        BY <3>3, <2>3, <1>1, <1>2, <1>3
      <4>2. s[q[k]].priority < s[p].priority /\ k \in 1 .. Len(q)
        BY <4>1, <1>1
      <4>3. s[q[j - 1]].priority <= s[q[k]].priority
        BY <4>2, <3>1, <2>3, <1>7, <1>2
      <4>4. s[p].priority \in Nat /\ s[q[k]].priority \in Nat /\ s[q[j - 1]].priority \in Nat
        BY <4>2, <3>1, <1>2
      <4> QED BY <4>1, <4>2, <4>3, <4>4, <3>1
    <3>4. CASE i > k
      <4>1. r[i] = q[i - 1] /\ i - 1 \in 1 .. Len(q)
        BY <3>4, <1>3
      <4> QED BY <3>1, <4>1, <1>7
    <3> QED BY <3>2, <3>3, <3>4, <1>1
  <2> QED BY <2>1, <2>2, <2>3, <1>1
<1>9. In(r) = In(q) \cup {p}
  <2>1. ASSUME NEW i \in 1 .. Len(q) + 1 PROVE r[i] \in In(q) \cup {p}
    <3>1. i < k \/ i = k \/ i > k
      OBVIOUS
    <3> QED BY <3>1, <1>3 DEF In
  <2>2. ASSUME NEW i \in 1 .. Len(q) PROVE q[i] \in In(r)
    <3>1. i < k \/ i >= k
      OBVIOUS
    <3> QED BY <3>1, <1>4, <1>5 DEF In
  <2>3. p \in In(r)
    BY <1>3, <1>5 DEF In
  <2> QED BY <2>1, <2>2, <2>3, <1>5 DEF In
<1>10. ASSUME NEW x, NEW y, Before(q, x, y) PROVE Before(r, x, y)
  <2>1. PICK i, j \in 1 .. Len(q) : i < j /\ q[i] = x /\ q[j] = y
    BY <1>10 DEF Before
  <2>2. PICK m, n \in 1 .. Len(q) + 1 : m < n /\ r[m] = q[i] /\ r[n] = q[j]
    <3>1. CASE j < k
      BY <3>1, <2>1, <1>1, <1>2, <1>4
    <3>2. CASE i < k /\ j >= k
      <4>1. i < j + 1 /\ r[i] = q[i] /\ r[j + 1] = q[j]
              /\ i \in 1 .. Len(q) + 1 /\ j + 1 \in 1 .. Len(q) + 1
        BY <3>2, <2>1, <1>4
      <4> QED BY <4>1
    <3>3. CASE i >= k
      <4>1. i + 1 < j + 1 /\ r[i + 1] = q[i] /\ r[j + 1] = q[j]
              /\ i + 1 \in 1 .. Len(q) + 1 /\ j + 1 \in 1 .. Len(q) + 1
        BY <3>3, <2>1, <1>1, <1>2, <1>4
      <4> QED BY <4>1
    <3> QED BY <3>1, <3>2, <3>3, <2>1, <1>1
  <2> QED BY <2>1, <2>2, <1>5 DEF Before
<1>11. ASSUME NEW x \in In(q), s[p].priority <= s[x].priority PROVE Before(r, x, p)
  <2>1. PICK i \in 1 .. Len(q) : q[i] = x
    BY DEF In
  <2>2. i < k
    <3>1. SUFFICES ASSUME i >= k PROVE FALSE
      BY <1>1, <2>1
    <3>2. k \in 1 .. Len(q) /\ s[q[k]].priority < s[p].priority
      BY <3>1, <1>1, <2>1
    <3>3. s[q[i]].priority <= s[q[k]].priority
      BY <3>1, <3>2, <2>1, <1>7
    <3>4. s[p].priority \in Nat /\ s[q[k]].priority \in Nat /\ s[q[i]].priority \in Nat
      BY <3>2, <1>2
    <3> QED BY <3>2, <3>3, <3>4, <1>11, <2>1
  <2>3. r[i] = x /\ r[k] = p /\ i \in 1 .. Len(r) /\ k \in 1 .. Len(r)
    BY <2>1, <2>2, <1>1, <1>2, <1>3, <1>5
  <2> QED BY <2>2, <2>3 DEF Before
<1> QED BY <1>5, <1>6, <1>8, <1>9, <1>10, <1>11

(* What RemoveFront does. *)
LEMMA TailQueue ==
  ASSUME NEW s, NEW S, NEW q \in Seq(S), q # <<>>, \A r \in S : s[r].priority \in Nat,
         Once(q), Sorted(s, q)
  PROVE  /\ Tail(q) \in Seq(S) /\ Head(q) \in In(q)
         /\ Once(Tail(q)) /\ Sorted(s, Tail(q)) /\ In(Tail(q)) = In(q) \ {Head(q)}
         /\ \A x \in In(q) : s[x].priority <= s[Head(q)].priority
         /\ \A x, y : Before(q, x, y) /\ x # Head(q) => Before(Tail(q), x, y)
         /\ \A x, y : Before(q, x, y) => x \in In(q) /\ y \in In(q) /\ y # Head(q)
<1>1. /\ Len(q) \in Nat /\ Len(q) > 0 /\ Head(q) = q[1] /\ Tail(q) \in Seq(S)
      /\ Len(Tail(q)) = Len(q) - 1
      /\ \A i \in 1 .. Len(q) - 1 : Tail(q)[i] = q[i + 1]
  OBVIOUS
<1>2. \A i \in 1 .. Len(q) : q[i] \in S /\ s[q[i]].priority \in Nat
  OBVIOUS
<1> DEFINE r == Tail(q)
<1>3. /\ Len(r) = Len(q) - 1 /\ \A i \in 1 .. Len(r) : i + 1 \in 1 .. Len(q) /\ r[i] = q[i + 1]
      /\ \A i \in 1 .. Len(q) : i = 1 \/ (i - 1 \in 1 .. Len(r) /\ r[i - 1] = q[i])
  BY <1>1
<1> HIDE DEF r
<1>4. Head(q) \in In(q)
  BY <1>1 DEF In
<1>5. Once(r) /\ Sorted(s, r)
  BY <1>1, <1>3 DEF Once, Sorted
<1>6. In(r) = In(q) \ {Head(q)}
  BY <1>1, <1>3 DEF In, Once
<1>7. \A x \in In(q) : s[x].priority <= s[Head(q)].priority
  BY <1>1, <1>2 DEF In, Sorted
<1>8. ASSUME NEW x, NEW y, Before(q, x, y) PROVE x \in In(q) /\ y \in In(q) /\ y # Head(q)
  BY <1>8, <1>1 DEF Before, In, Once
<1>9. ASSUME NEW x, NEW y, Before(q, x, y), x # Head(q) PROVE Before(r, x, y)
  <2>1. PICK i, j \in 1 .. Len(q) : i < j /\ q[i] = x /\ q[j] = y
    BY <1>9 DEF Before
  <2>2. i - 1 \in 1 .. Len(r) /\ j - 1 \in 1 .. Len(r) /\ i - 1 < j - 1
          /\ r[i - 1] = x /\ r[j - 1] = y
    BY <2>1, <1>1, <1>3, <1>9
  <2> QED BY <2>2 DEF Before
<1> QED BY <1>1, <1>4, <1>5, <1>6, <1>7, <1>8, <1>9 DEF r

-----------------------------------------------------------------------------
(* Run                                                                                      *)

(* The processes there are: created, and the main program. *)
Everybody == created \cup {Main}

LEMMA Front ==
  ASSUME NEW s, NEW p, s[p].list \subseteq Nat, s[p].list # {}
  PROVE  FrontThread(s, p) \in s[p].list
<1>1. PICK i \in s[p].list : \A j \in s[p].list : i <= j
  <2> DEFINE T == s[p].list
  <2> HIDE DEF T
  <2>1. T \subseteq Nat /\ T # {}
    BY DEF T
  <2>2. \E x \in T : \A y \in T : x <= y
    BY <2>1, LeastElement
  <2> QED BY <2>2 DEF T
<1> QED BY <1>1 DEF FrontThread

LEMMA ThreadNat == Thread \subseteq Nat /\ MaxThread \in Nat /\ 1 \in Thread
BY ProcessAssumption DEF Thread

(* The list of the running thread's process, once the thread is back. *)
BackList(s) ==
  IF Running.thread \in s[current].done THEN s[current].list
  ELSE s[current].list \cup {Running.thread}

LEMMA PutBackEffect ==
  ASSUME NEW D, NEW s \in [D -> Field], current \in D, Running.thread \in Thread
  PROVE  /\ PutBack(s) \in [D -> Field]
         /\ PutBack(s)[current].list = BackList(s)
         /\ PutBack(s)[current].thread = s[current].thread
         /\ \A p \in D : p # current => PutBack(s)[p] = s[p]
         /\ \A p \in D :
              /\ PutBack(s)[p].priority = s[p].priority
              /\ PutBack(s)[p].parent = s[p].parent
              /\ PutBack(s)[p].executeTime = s[p].executeTime
              /\ PutBack(s)[p].waiting = s[p].waiting
              /\ PutBack(s)[p].children = s[p].children
              /\ PutBack(s)[p].finishedChildren = s[p].finishedChildren
              /\ PutBack(s)[p].threads = s[p].threads
              /\ PutBack(s)[p].done = s[p].done
              /\ PutBack(s)[p].hasThreadFinished = s[p].hasThreadFinished
              /\ PutBack(s)[p].deleted = s[p].deleted
<1>1. CASE Running.thread \in s[current].done
  BY <1>1 DEF PutBack, BackList
<1>2. CASE Running.thread \notin s[current].done
  BY <1>2 DEF PutBack, BackList, Field
<1> QED BY <1>1, <1>2

LEMMA RunEffect ==
  ASSUME NEW s \in [Everybody -> Field], current \in Everybody, Running.thread \in Thread,
         NEW next \in Everybody, Run(s, next),
         IF next = current THEN BackList(s) # {} ELSE s[next].list # {}
  PROVE  /\ process' \in [Everybody -> Field] /\ current' = next /\ at' = "pending"
         /\ LET list == IF next = current THEN BackList(s) ELSE s[next].list
            IN /\ process'[next].thread \in list
               /\ process'[next].list = list \ {process'[next].thread}
         /\ current # next => /\ process'[current].list = BackList(s)
                              /\ process'[current].thread = s[current].thread
         /\ \A p \in Everybody : p \notin {current, next} => process'[p] = s[p]
         /\ \A p \in Everybody :
              /\ process'[p].priority = s[p].priority
              /\ process'[p].parent = s[p].parent
              /\ process'[p].executeTime = s[p].executeTime
              /\ process'[p].waiting = s[p].waiting
              /\ process'[p].children = s[p].children
              /\ process'[p].finishedChildren = s[p].finishedChildren
              /\ process'[p].threads = s[p].threads
              /\ process'[p].done = s[p].done
              /\ process'[p].hasThreadFinished = s[p].hasThreadFinished
              /\ process'[p].deleted = s[p].deleted
<1> DEFINE b == PutBack(s)
           front == FrontThread(b, next)
<1>1. /\ process' = [b EXCEPT ![next].list = @ \ {front}, ![next].thread = front]
      /\ current' = next /\ at' = "pending"
  BY DEF Run
<1>2. /\ b \in [Everybody -> Field]
      /\ b[current].list = BackList(s)
      /\ b[current].thread = s[current].thread
      /\ \A p \in Everybody : p # current => b[p] = s[p]
  BY PutBackEffect
<1>3. \A p \in Everybody :
              /\ b[p].priority = s[p].priority
              /\ b[p].parent = s[p].parent
              /\ b[p].executeTime = s[p].executeTime
              /\ b[p].waiting = s[p].waiting
              /\ b[p].children = s[p].children
              /\ b[p].finishedChildren = s[p].finishedChildren
              /\ b[p].threads = s[p].threads
              /\ b[p].done = s[p].done
              /\ b[p].hasThreadFinished = s[p].hasThreadFinished
              /\ b[p].deleted = s[p].deleted
  BY PutBackEffect
<1> HIDE DEF b
<1>4. b[next].list # {} /\ b[next].list = IF next = current THEN BackList(s) ELSE s[next].list
  BY <1>2
<1>5. b[next] \in Field /\ b[next].list \subseteq Thread
  <2>1. b[next] \in Field
    BY <1>2
  <2> QED BY <2>1 DEF Field
<1>6. front \in b[next].list /\ front \in Thread
  BY <1>4, <1>5, Front, ThreadNat
<1> HIDE DEF front
<1> DEFINE e == [b[next] EXCEPT !.list = b[next].list \ {front}, !.thread = front]
<1>7. /\ e \in Field /\ e.list = b[next].list \ {front} /\ e.thread = front
      /\ e.priority = b[next].priority /\ e.parent = b[next].parent
      /\ e.executeTime = b[next].executeTime /\ e.waiting = b[next].waiting
      /\ e.children = b[next].children /\ e.finishedChildren = b[next].finishedChildren
      /\ e.threads = b[next].threads /\ e.done = b[next].done
      /\ e.hasThreadFinished = b[next].hasThreadFinished /\ e.deleted = b[next].deleted
  BY <1>5, <1>6 DEF Field
<1>8. /\ process'[next] = e
      /\ \A p \in Everybody : p # next => process'[p] = b[p]
      /\ DOMAIN process' = Everybody
      /\ process' = [p \in DOMAIN process' |-> process'[p]]
  BY <1>1, <1>2
<1> HIDE DEF e
<1>9. /\ process' \in [Everybody -> Field] /\ process'[next] = e
      /\ \A p \in Everybody : p # next => process'[p] = b[p]
  BY <1>2, <1>7, <1>8
<1>10. LET list == IF next = current THEN BackList(s) ELSE s[next].list
       IN /\ process'[next].thread \in list
          /\ process'[next].list = list \ {process'[next].thread}
  BY <1>4, <1>6, <1>7, <1>9
<1>11. current # next => /\ process'[current].list = BackList(s)
                         /\ process'[current].thread = s[current].thread
  BY <1>2, <1>9
<1>12. \A p \in Everybody : p \notin {current, next} => process'[p] = s[p]
  BY <1>2, <1>9
<1>13. ASSUME NEW p \in Everybody
       PROVE  /\ process'[p].priority = s[p].priority
              /\ process'[p].parent = s[p].parent
              /\ process'[p].executeTime = s[p].executeTime
              /\ process'[p].waiting = s[p].waiting
              /\ process'[p].children = s[p].children
              /\ process'[p].finishedChildren = s[p].finishedChildren
              /\ process'[p].threads = s[p].threads
              /\ process'[p].done = s[p].done
              /\ process'[p].hasThreadFinished = s[p].hasThreadFinished
              /\ process'[p].deleted = s[p].deleted
  <2>1. CASE p = next
    BY <2>1, <1>3, <1>7, <1>9
  <2>2. CASE p # next
    BY <2>2, <1>3, <1>9
  <2> QED BY <2>1, <2>2
<1> QED BY <1>1, <1>9, <1>10, <1>11, <1>12, <1>13


(* What holds of the fields s and the process `next` when Run is called.  A process that is *)
(* left undeleted has a thread on its list or one to put back.                              *)
RunPre(s, next) ==
  /\ s \in [Everybody -> Field] /\ current \in Everybody /\ Running.thread \in Thread
  /\ next \in created /\ ~s[next].deleted /\ s[next].threads > 0
  /\ \A p \in created : p # current => ThreadsOf(s[p], FALSE)
  /\ current \in created =>
       \/ s[current].deleted
       \/ /\ ThreadsOf(s[current], TRUE) /\ s[current].thread = Running.thread
          /\ Running.thread \in s[current].done => s[current].list # {}

LEMMA RunList ==
  ASSUME NEW s, NEW next, RunPre(s, next)
  PROVE  IF next = current THEN BackList(s) # {} ELSE s[next].list # {}
<1>1. CASE next = current
  <2>1. Running.thread \in s[current].done => s[current].list # {}
    BY <1>1 DEF RunPre
  <2> QED BY <1>1, <2>1 DEF BackList
<1>2. CASE next # current
  BY <1>2 DEF RunPre, ThreadsOf
<1> QED BY <1>1, <1>2

LEMMA CreatedSame ==
  ASSUME DOMAIN process' = Everybody
  PROVE  created' = created /\ Everybody' = Everybody
BY DEF created, Everybody

LEMMA RunThreads ==
  ASSUME NEW s, NEW next, RunPre(s, next), Run(s, next)
  PROVE  ThreadInv' /\ RunningInv'
<1>1. IF next = current THEN BackList(s) # {} ELSE s[next].list # {}
  BY RunList
<1>2. /\ s \in [Everybody -> Field] /\ current \in Everybody /\ Running.thread \in Thread
      /\ next \in created /\ next \in Everybody
  BY DEF RunPre, Everybody
<1>3. /\ process' \in [Everybody -> Field] /\ current' = next /\ at' = "pending"
      /\ LET list == IF next = current THEN BackList(s) ELSE s[next].list
         IN /\ process'[next].thread \in list
            /\ process'[next].list = list \ {process'[next].thread}
      /\ current # next => /\ process'[current].list = BackList(s)
                           /\ process'[current].thread = s[current].thread
      /\ \A p \in Everybody : p \notin {current, next} => process'[p] = s[p]
      /\ \A p \in Everybody : /\ process'[p].threads = s[p].threads
                              /\ process'[p].done = s[p].done
                              /\ process'[p].deleted = s[p].deleted
  BY <1>1, <1>2, RunEffect
<1>4. created' = created
  BY <1>3, CreatedSame
(* The process that is left. *)
<1>5. ASSUME current \in created, ~s[current].deleted
      PROVE  /\ BackList(s) \cap s[current].done = {}
             /\ BackList(s) \cup s[current].done = 1 .. s[current].threads
             /\ BackList(s) # {}
  BY <1>5 DEF RunPre, ThreadsOf, BackList
<1>6. /\ process'[next].thread \notin process'[next].done /\ ~process'[next].deleted
      /\ ThreadsOf(process'[next], TRUE)
  <2>1. CASE next = current
    BY <2>1, <1>2, <1>3, <1>5 DEF RunPre, ThreadsOf
  <2>2. CASE next # current
    BY <2>2, <1>2, <1>3 DEF RunPre, ThreadsOf
  <2> QED BY <2>1, <2>2
<1>7. ASSUME NEW p \in created, p # next PROVE ThreadsOf(process'[p], FALSE)
  <2>1. CASE p = current
    BY <2>1, <1>7, <1>2, <1>3, <1>5 DEF ThreadsOf
  <2>2. CASE p # current
    BY <2>2, <1>7, <1>2, <1>3 DEF RunPre, ThreadsOf, Everybody
  <2> QED BY <2>1, <2>2
<1>8. ThreadInv'
  BY <1>3, <1>4, <1>6, <1>7 DEF ThreadInv
<1>9. RunningInv'
  <2>1. current' = next /\ at' = "pending" /\ next \in created'
    BY <1>2, <1>3, <1>4
  <2> QED BY <1>6, <2>1 DEF RunningInv, Running
<1> QED BY <1>8, <1>9


-----------------------------------------------------------------------------
(* Lemmas about the parts of the invariant                                                  *)

LEMMA TypeFacts ==
  ASSUME TypeInv
  PROVE  /\ created \subseteq Pid /\ Main \notin created /\ NoParent \notin created
         /\ Main # NoParent /\ DOMAIN process = Everybody /\ created \subseteq Nat
         /\ process \in [Everybody -> Field]
         /\ current \in Everybody
         /\ \A p \in Everybody :
              /\ process[p] \in Field
              /\ process[p].priority \in Nat /\ process[p].threads \in 0 .. MaxThread
              /\ process[p].children \in Nat /\ process[p].finishedChildren \in Nat
              /\ process[p].executeTime \in -1 .. TimeQuantum - 1
              /\ process[p].list \subseteq Thread /\ process[p].done \subseteq Thread
              /\ process[p].thread \in Thread
              /\ process[p].parent \in created \cup {NoParent}
<1>1. created \subseteq Pid /\ Main \notin created /\ NoParent \notin created /\ Main # NoParent
        /\ created \subseteq Nat
  BY ProcessAssumption DEF TypeInv, Pid, Main, NoParent
<1>2. process \in [Everybody -> Field] /\ current \in Everybody
  BY DEF TypeInv, FieldsOK, Everybody
<1>3. \A p \in Everybody : process[p] \in Field /\ process[p].parent \in created \cup {NoParent}
  BY <1>2 DEF TypeInv, FieldsOK, Everybody
<1> QED BY <1>1, <1>2, <1>3 DEF Field

(* The fields that the running phase does not touch. *)
SameFamily(s, t) ==
  \A p \in Everybody :
    /\ t[p].priority = s[p].priority /\ t[p].parent = s[p].parent
    /\ t[p].threads = s[p].threads /\ t[p].children = s[p].children
(* Nor do most steps touch these. *)
SameWaiting(s, t) ==
  \A p \in Everybody :
    /\ t[p].waiting = s[p].waiting /\ t[p].finishedChildren = s[p].finishedChildren
    /\ Cardinality(t[p].done) = t[p].threads <=> Cardinality(s[p].done) = s[p].threads

LEMMA FamilySame ==
  ASSUME NEW s, NEW t, FieldsOK(s), FamilyOK(s), Main \notin created,
         DOMAIN t = Everybody, SameFamily(s, t), SameWaiting(s, t)
  PROVE  FamilyOK(t) /\ \A p : Children(t, p) = Children(s, p)
<1>1. /\ DOMAIN s = Everybody /\ created \subseteq Everybody /\ Everybody \ {Main} = created
      /\ \A p \in created : s[p].parent \in created \cup {NoParent}
  BY DEF FieldsOK, Everybody
<1>2. \A p \in created : /\ t[p].parent = s[p].parent
                         /\ t[p].threads = s[p].threads
                         /\ t[p].children = s[p].children
                         /\ t[p].waiting = s[p].waiting
                         /\ t[p].finishedChildren = s[p].finishedChildren
                         /\ Cardinality(t[p].done) = t[p].threads
                              <=> Cardinality(s[p].done) = s[p].threads
  BY <1>1 DEF SameFamily, SameWaiting
<1>3. \A p : Children(t, p) = Children(s, p) /\ Children(s, p) \subseteq created
  BY <1>1, <1>2 DEF Children
<1>4. \A p : Unfinished(t, p) = Unfinished(s, p)
  BY <1>2, <1>3 DEF Unfinished
<1>5. ASSUME NEW p \in created
      PROVE  /\ t[p].parent # p
             /\ t[p].parent # NoParent => t[p].threads > 0 /\ t[t[p].parent].threads > 0
             /\ t[p].children = Cardinality(Children(t, p))
             /\ t[p].waiting => Cardinality(Unfinished(t, p)) = t[p].children - t[p].finishedChildren
  BY <1>1, <1>2, <1>3, <1>4 DEF FamilyOK
<1> QED BY <1>3, <1>5 DEF FamilyOK

LEMMA FamilyKept ==
  ASSUME TypeInv, FamilyInv, DOMAIN process' = Everybody,
         SameFamily(process, process'), SameWaiting(process, process')
  PROVE  /\ FamilyInv' /\ \A p : Children(process', p) = Children(process, p)
         /\ \A p \in created : allFinished(p)' <=> allFinished(p)
<1>1. created' = created /\ Main \notin created /\ created \subseteq Everybody
  BY CreatedSame, TypeFacts DEF Everybody
<1>2. FamilyOK(process') /\ \A p : Children(process', p) = Children(process, p)
  BY <1>1, FamilySame DEF TypeInv, FamilyInv
<1>3. FamilyInv'
  BY <1>1, <1>2 DEF FamilyInv, FamilyOK
<1> QED BY <1>1, <1>2, <1>3 DEF SameWaiting, allFinished

(* Whose fields allow the step of Run. *)
LEMMA RunTypes ==
  ASSUME TypeInv, NEW s, NEW next, FieldsOK(s), RunPre(s, next), Run(s, next),
         left' \in [Pid -> [Thread -> 0 .. Lines]], ready' \in Seq(created),
         due' \in BOOLEAN, randomSlice' \in BOOLEAN
  PROVE  TypeInv'
<1>1. IF next = current THEN BackList(s) # {} ELSE s[next].list # {}
  BY RunList
<1>2. /\ s \in [Everybody -> Field] /\ current \in Everybody /\ Running.thread \in Thread
      /\ next \in created /\ next \in Everybody
  BY DEF RunPre, Everybody
<1>3. /\ process' \in [Everybody -> Field] /\ current' = next /\ at' = "pending"
      /\ \A p \in Everybody : /\ process'[p].parent = s[p].parent
                              /\ process'[p].waiting = s[p].waiting
                              /\ process'[p].children = s[p].children
                              /\ process'[p].finishedChildren = s[p].finishedChildren
  BY <1>1, <1>2, RunEffect
<1>4. created' = created
  BY <1>3, CreatedSame
<1>5. FieldsOK(process)'
  BY <1>3, <1>4 DEF FieldsOK, Everybody
<1> QED BY <1>2, <1>3, <1>4, <1>5 DEF TypeInv

LEMMA TickFacts ==
  ASSUME TypeInv, RunningInv, Tick
  PROVE  /\ left' \in [Pid -> [Thread -> 0 .. Lines]] /\ due' \in BOOLEAN
         /\ randomSlice' = randomSlice /\ randomSlice' \in BOOLEAN
         /\ ~randomSlice => due' = ~due
         /\ at \in {"pending", "ended", "code"}
         /\ current \in created /\ current \in Everybody /\ ~Running.deleted
         /\ Running.thread \in Thread
<1>1. at \in {"pending", "ended", "code"}
  BY DEF Tick
<1>2. current \in created /\ current \in Everybody /\ ~Running.deleted /\ current \in Pid
        /\ Running.thread \in Thread
  BY <1>1, TypeFacts DEF RunningInv, Everybody, Running
<1>3. left' \in [Pid -> [Thread -> 0 .. Lines]]
  <2>1. left \in [Pid -> [Thread -> 0 .. Lines]]
    BY DEF TypeInv
  <2>2. CASE left' = left
    BY <2>1, <2>2
  <2>3. CASE ToPrint > 0 /\ left' = [left EXCEPT ![current][Running.thread] = @ - 1]
    <3> DEFINE n == left[current][Running.thread]
    <3>1. n \in 0 .. Lines /\ n > 0 /\ Lines \in Nat
      BY <2>1, <2>3, <1>2, ProcessAssumption DEF ToPrint
    <3>2. n - 1 \in 0 .. Lines
      BY <3>1
    <3>3. left' = [left EXCEPT ![current] = [left[current] EXCEPT ![Running.thread] = n - 1]]
      BY <2>3
    <3>4. left[current] \in [Thread -> 0 .. Lines]
      BY <2>1, <1>2
    <3> HIDE DEF n
    <3>5. [left[current] EXCEPT ![Running.thread] = n - 1] \in [Thread -> 0 .. Lines]
      BY <3>2, <3>4
    <3> QED BY <2>1, <3>3, <3>5
  <2> QED BY <2>2, <2>3 DEF Tick
<1>4. due' \in BOOLEAN /\ (~randomSlice => due' = ~due)
  <2>1. due' \in (IF randomSlice THEN BOOLEAN ELSE {~due})
    BY DEF Tick
  <2>2. CASE randomSlice
    BY <2>1, <2>2, Zenon
  <2>3. CASE ~randomSlice
    <3>1. due' = ~due
      BY <2>1, <2>3
    <3>2. (~due) \in BOOLEAN
      BY Zenon
    <3> QED BY <3>1, <3>2
  <2> QED BY <2>2, <2>3
<1>5. randomSlice' = randomSlice /\ randomSlice' \in BOOLEAN
  BY DEF Tick, TypeInv
<1> QED BY <1>1, <1>2, <1>3, <1>4, <1>5


(* The process that runs has a thread to run next: the one that runs, or another.           *)
LEMMA LiveFacts ==
  ASSUME IInv, at \in {"pending", "code", "ended"}
  PROVE  /\ current \in created /\ current \in Everybody /\ Running = process[current]
         /\ ~Running.deleted /\ ThreadsOf(Running, TRUE)
         /\ Running.threads > 0 /\ Running.thread \in Thread
         /\ Running.thread \in Running.done => Running.list # {}
         /\ \A p \in created : p # current => ThreadsOf(process[p], FALSE)
<1>1. current \in created /\ current \in Everybody /\ ~Running.deleted /\ Running = process[current]
  BY DEF IInv, RunningInv, Running, Everybody
<1>2. \A p \in created : ThreadsOf(process[p], p = current)
  BY DEF IInv, ThreadInv
<1>3. /\ ThreadsOf(process[current], TRUE)
      /\ \A p \in created : p # current => ThreadsOf(process[p], FALSE)
  <2>1. ThreadsOf(process[current], TRUE)
    BY <1>1, <1>2 DEF ThreadsOf
  <2>2. ASSUME NEW p \in created, p # current PROVE ThreadsOf(process[p], FALSE)
    BY <1>2, <2>2 DEF ThreadsOf
  <2> QED BY <2>1, <2>2
<1>4. Running.thread \in Thread /\ Running.threads \in 0 .. MaxThread
  BY <1>1, TypeFacts DEF IInv
<1>5. Running.threads > 0
  <2>1. Running.thread \in 1 .. Running.threads
    BY <1>1, <1>3 DEF ThreadsOf
  <2> QED BY <2>1, <1>4, ThreadNat
<1>6. Running.thread \in Running.done => Running.list # {}
  BY DEF IInv, RunningInv
<1> QED BY <1>1, <1>3, <1>4, <1>5, <1>6

LEMMA ReadySubset ==
  ASSUME NEW S, NEW q \in Seq(S)
  PROVE  In(q) \subseteq S /\ \A x, y : Before(q, x, y) => x \in In(q) /\ y \in In(q)
BY DEF In, Before

(* Whoever runs has the highest priority, said of the queue as a set.                       *)
LEMMA HighestSets ==
  ASSUME NEW S, ready' \in Seq(S),
         \A x \in In(ready') : process'[x].priority <= process'[current'].priority
  PROVE  HighestPriorityRuns'
<1>1. DOMAIN ready' = 1 .. Len(ready')
  OBVIOUS
<1>2. \A i \in 1 .. Len(ready') : process'[ready'[i]].priority <= process'[current'].priority
  BY DEF In
<1> QED BY <1>1, <1>2 DEF HighestPriorityRuns, Running

LEMMA HighestRuns ==
  ASSUME IInv, current # Main
  PROVE  \A x \in In(ready) : process[x].priority <= Running.priority
<1>1. DOMAIN ready = 1 .. Len(ready)
  BY DEF IInv, TypeInv
<1> QED BY <1>1 DEF IInv, ReadyInv, HighestPriorityRuns, In

(* The order depends on the priorities only, and these do not change.                       *)
LEMMA SortedSame ==
  ASSUME NEW S, NEW q \in Seq(S), NEW s, NEW t, \A p \in S : t[p].priority = s[p].priority,
         Sorted(s, q)
  PROVE  Sorted(t, q)
<1>1. \A i \in 1 .. Len(q) : q[i] \in S
  OBVIOUS
<1> QED BY <1>1 DEF Sorted

(* A step that leaves the ready list and the running process alone.                         *)
LEMMA QueueSame ==
  ASSUME IInv, TypeInv', ready' = ready, current' = current, at # "main", at' # "main",
         DOMAIN process' = Everybody,
         \A p \in Everybody :
           /\ process'[p].priority = process[p].priority
           /\ process'[p].parent = process[p].parent
           /\ process'[p].threads = process[p].threads
           /\ process'[p].deleted = process[p].deleted
           /\ process'[p].waiting => process[p].waiting
  PROVE  ReadyInv' /\ ParentFirst'
<1>1. created' = created /\ created \subseteq Everybody /\ DOMAIN process = Everybody
        /\ ready \in Seq(created) /\ Main \notin created
  BY CreatedSame, TypeFacts DEF Everybody, IInv, TypeInv
<1>2. In(ready) \subseteq created /\ In(ready)' = In(ready) /\ Once(ready)'
  BY <1>1, ReadySubset DEF IInv, ReadyInv, In, Once
<1>3. Sorted(process', ready')
  BY <1>1, SortedSame DEF IInv, ReadyInv
<1>4. \A p \in In(ready)' : p # current' /\ ~process'[p].deleted /\ process'[p].threads > 0
  BY <1>1, <1>2 DEF IInv, ReadyInv
<1>5. HighestPriorityRuns'
  <2>1. current \in Everybody
    BY TypeFacts DEF IInv
  <2>2. CASE current = Main
    BY <2>2 DEF HighestPriorityRuns
  <2>3. CASE current # Main
    <3>1. \A x \in In(ready) : process[x].priority <= process[current].priority
      BY <2>3, HighestRuns DEF Running
    <3>2. \A x \in In(ready') : process'[x].priority <= process'[current'].priority
      BY <3>1, <2>1, <1>1, <1>2
    <3>3. ready' \in Seq(created)
      BY <1>1
    <3> QED BY <3>2, <3>3, HighestSets
  <2> QED BY <2>2, <2>3
<1>6. ParentFirst'
  <2>1. \A p : Children(process', p) = Children(process, p)
    BY <1>1 DEF Children, created
  <2>2. \A x, y : Before(ready', x, y) <=> Before(ready, x, y)
    BY DEF Before
  <2> QED BY <1>1, <1>2, <2>1, <2>2 DEF ParentFirst, IInv
<1> QED BY <1>2, <1>3, <1>4, <1>5, <1>6 DEF ReadyInv

LEMMA TickOnlyStep == IInv /\ TickOnly => IInv'
<1> SUFFICES ASSUME IInv, TickOnly PROVE IInv'
  OBVIOUS
<1>1. /\ left' \in [Pid -> [Thread -> 0 .. Lines]] /\ due' \in BOOLEAN
      /\ randomSlice' = randomSlice /\ randomSlice' \in BOOLEAN
      /\ ~randomSlice => due' = ~due
      /\ at \in {"pending", "ended", "code"}
      /\ current \in created
  BY TickFacts DEF IInv, TickOnly
<1>2. /\ ~due /\ process' = process /\ ready' = ready /\ current' = current
      /\ at' = IF at = "ended" THEN "returned" ELSE "code"
  BY DEF TickOnly
<1>3. created' = created /\ DOMAIN process' = Everybody
  BY <1>2, TypeFacts DEF created, IInv
<1>4. TypeInv'
  BY <1>1, <1>2, <1>3 DEF IInv, TypeInv, FieldsOK
<1>5. ThreadInv'
  BY <1>2, <1>3 DEF IInv, ThreadInv
<1>6. RunningInv'
  BY <1>1, <1>2, <1>3 DEF IInv, RunningInv, Running
<1>7. MainInv'
  BY <1>1, <1>2 DEF MainInv
<1>8. FamilyInv'
  BY <1>2, <1>3 DEF IInv, FamilyInv, FamilyOK
<1>9. ReadyInv' /\ ParentFirst'
  BY <1>1, <1>2, <1>3, <1>4, QueueSame
<1>10. FixedSliceInv'
  <2> SUFFICES ASSUME ~randomSlice
               PROVE  /\ due' /\ at' = "code"
                      /\ \A p \in created : p = current \/ p \in In(ready) \/ allFinished(p)
                                              \/ process[p].waiting
    BY <1>1, <1>2, <1>3 DEF FixedSliceInv, allFinished
  <2> QED BY <1>1, <1>2 DEF IInv, FixedSliceInv
<1> QED BY <1>4, <1>5, <1>6, <1>7, <1>8, <1>9, <1>10 DEF IInv


-----------------------------------------------------------------------------
(* Process::Yield, step by step                                                             *)

(* A step that changes nothing of the current process but the time it has run, or that a    *)
(* thread has finished.                                                                     *)
OnlyTimes(s) ==
  /\ s \in [Everybody -> Field]
  /\ \A p \in Everybody : p # current => s[p] = process[p]
  /\ s[current].priority = process[current].priority
  /\ s[current].parent = process[current].parent
  /\ s[current].waiting = process[current].waiting
  /\ s[current].children = process[current].children
  /\ s[current].finishedChildren = process[current].finishedChildren
  /\ s[current].threads = process[current].threads
  /\ s[current].list = process[current].list
  /\ s[current].done = process[current].done
  /\ s[current].thread = process[current].thread
  /\ s[current].deleted = process[current].deleted

LEMMA QuantumTimes ==
  ASSUME TypeInv
  PROVE  /\ OnlyTimes(NextQuantum)
         /\ NextQuantum[current].hasThreadFinished = process[current].hasThreadFinished
<1>1. process \in [Everybody -> Field] /\ current \in Everybody /\ process[current] \in Field
        /\ process[current].executeTime \in -1 .. TimeQuantum - 1
  BY TypeFacts
<1> DEFINE t == IF QuantumUsed THEN 0 ELSE executeTime
<1>2. t \in -1 .. TimeQuantum - 1
  BY <1>1, ProcessAssumption DEF QuantumUsed, executeTime, Running
<1>3. NextQuantum = [process EXCEPT ![current].executeTime = t]
  BY DEF NextQuantum
<1> HIDE DEF t
<1> QED BY <1>1, <1>2, <1>3 DEF OnlyTimes, Field

LEMMA OnlyTimesFacts ==
  ASSUME IInv, at \in {"pending", "code", "ended"}, NEW s, OnlyTimes(s)
  PROVE  /\ FieldsOK(s) /\ RunPre(s, current)
         /\ SameFamily(process, s) /\ SameWaiting(process, s)
         /\ \A p \in Everybody : s[p].deleted = process[p].deleted /\ s[p].waiting = process[p].waiting
<1>1. /\ current \in created /\ current \in Everybody /\ Running = process[current]
      /\ ~Running.deleted /\ ThreadsOf(Running, TRUE)
      /\ Running.threads > 0 /\ Running.thread \in Thread
      /\ Running.thread \in Running.done => Running.list # {}
      /\ \A p \in created : p # current => ThreadsOf(process[p], FALSE)
  BY LiveFacts
<1>2. SameFamily(process, s) /\ SameWaiting(process, s)
  BY DEF OnlyTimes, SameFamily, SameWaiting
<1>3. \A p \in Everybody : s[p].deleted = process[p].deleted /\ s[p].waiting = process[p].waiting
  BY DEF OnlyTimes
<1>4. FieldsOK(s)
  <2>1. FieldsOK(process)
    BY DEF IInv, TypeInv
  <2>2. \A p \in Everybody : /\ s[p].parent = process[p].parent
                             /\ s[p].finishedChildren = process[p].finishedChildren
                             /\ s[p].children = process[p].children
    BY <1>2 DEF SameFamily, SameWaiting
  <2> QED BY <2>1, <2>2, <1>3 DEF FieldsOK, OnlyTimes, Everybody
<1>5. ThreadsOf(s[current], TRUE)
  BY <1>1 DEF OnlyTimes, ThreadsOf
<1>6. \A p \in created : p # current => ThreadsOf(s[p], FALSE)
  BY <1>1 DEF OnlyTimes, Everybody
<1>7. /\ ~s[current].deleted /\ s[current].threads > 0 /\ s[current].thread = Running.thread
      /\ Running.thread \in s[current].done => s[current].list # {}
  BY <1>1 DEF OnlyTimes
<1>8. RunPre(s, current)
  BY <1>1, <1>5, <1>6, <1>7 DEF RunPre, OnlyTimes
<1> QED BY <1>2, <1>3, <1>4, <1>8

(* What is left to show of a step that changes neither the ready list nor the process.      *)
LEMMA SameProcessStep ==
  ASSUME IInv, Tick, TypeInv', ThreadInv', RunningInv', ready' = ready, current' = current,
         at' = "pending", DOMAIN process' = Everybody,
         SameFamily(process, process'), SameWaiting(process, process'),
         \A p \in Everybody : process'[p].deleted = process[p].deleted
  PROVE  IInv'
<1>1. at # "main" /\ at' # "main" /\ randomSlice' = randomSlice
  BY DEF Tick
<1>2. FamilyInv' /\ \A p \in created : allFinished(p)' <=> allFinished(p)
  BY FamilyKept DEF IInv
<1>3. ReadyInv' /\ ParentFirst'
  <2>1. \A p \in Everybody :
           /\ process'[p].priority = process[p].priority
           /\ process'[p].parent = process[p].parent
           /\ process'[p].threads = process[p].threads
           /\ process'[p].deleted = process[p].deleted
           /\ process'[p].waiting => process[p].waiting
    BY DEF SameFamily, SameWaiting
  <2> QED BY <2>1, <1>1, QueueSame
<1>4. FixedSliceInv'
  <2> SUFFICES ASSUME ~randomSlice
               PROVE  \A p \in created : p = current \/ p \in In(ready) \/ allFinished(p)'
                                              \/ process'[p].waiting
    BY <1>1, CreatedSame DEF FixedSliceInv
  <2> QED BY <1>2 DEF IInv, FixedSliceInv, SameWaiting, Everybody
<1> QED BY <1>1, <1>2, <1>3, <1>4 DEF IInv, MainInv

LEMMA YieldToNobodyStep == IInv /\ YieldToNobody => IInv'
<1> SUFFICES ASSUME IInv, YieldToNobody PROVE IInv'
  OBVIOUS
<1>1. Tick /\ ~Running.hasThreadFinished /\ process' = NextQuantum /\ at' = "pending"
        /\ ready' = ready /\ current' = current
  BY DEF YieldToNobody
<1>2. /\ left' \in [Pid -> [Thread -> 0 .. Lines]] /\ due' \in BOOLEAN
      /\ randomSlice' = randomSlice /\ randomSlice' \in BOOLEAN
      /\ at \in {"pending", "ended", "code"} /\ current \in created /\ ~Running.deleted
  BY <1>1, TickFacts DEF IInv
<1>3. OnlyTimes(process')
  BY <1>1, QuantumTimes DEF IInv
<1>4. /\ FieldsOK(process') /\ SameFamily(process, process') /\ SameWaiting(process, process')
      /\ \A p \in Everybody : process'[p].deleted = process[p].deleted
  BY <1>2, <1>3, OnlyTimesFacts
<1>5. DOMAIN process' = Everybody /\ created' = created
  <2>1. DOMAIN process' = Everybody
    BY <1>3 DEF OnlyTimes
  <2> QED BY <2>1, CreatedSame
<1>6. TypeInv'
  BY <1>1, <1>2, <1>4, <1>5 DEF IInv, TypeInv, FieldsOK
<1>7. ThreadInv'
  <2>1. ASSUME NEW p \in created PROVE ThreadsOf(process'[p], p = current)
    <3>1. ThreadsOf(process[p], p = current)
      BY DEF IInv, ThreadInv
    <3>2. CASE p = current
      BY <3>1, <3>2, <1>3 DEF OnlyTimes, ThreadsOf
    <3>3. CASE p # current
      BY <3>1, <3>3, <1>3 DEF OnlyTimes, Everybody
    <3> QED BY <3>2, <3>3
  <2> QED BY <2>1, <1>1, <1>5 DEF ThreadInv
<1>8. RunningInv'
  <2>1. Running.thread \notin Running.done
    BY <1>1, <1>2 DEF IInv, RunningInv
  <2> QED BY <2>1, <1>1, <1>2, <1>3, <1>5 DEF RunningInv, Running, OnlyTimes
<1> QED BY <1>1, <1>4, <1>5, <1>6, <1>7, <1>8, SameProcessStep

LEMMA YieldToThreadStep == IInv /\ YieldToThread => IInv'
<1> SUFFICES ASSUME IInv, YieldToThread PROVE IInv'
  OBVIOUS
<1> DEFINE s == [NextQuantum EXCEPT ![current].hasThreadFinished = FALSE]
<1>1. Tick /\ Run(s, current) /\ ready' = ready
  BY DEF YieldToThread
<1>2. /\ left' \in [Pid -> [Thread -> 0 .. Lines]] /\ due' \in BOOLEAN
      /\ randomSlice' = randomSlice /\ randomSlice' \in BOOLEAN
      /\ at \in {"pending", "ended", "code"} /\ current \in created /\ current \in Everybody
  BY <1>1, TickFacts DEF IInv
<1>3. OnlyTimes(s)
  <2>1. OnlyTimes(NextQuantum)
    BY QuantumTimes DEF IInv
  <2> QED BY <2>1, <1>2 DEF OnlyTimes, Field
<1> HIDE DEF s
<1>4. /\ FieldsOK(s) /\ RunPre(s, current)
      /\ SameFamily(process, s) /\ SameWaiting(process, s)
      /\ \A p \in Everybody : s[p].deleted = process[p].deleted
  BY <1>2, <1>3, OnlyTimesFacts
<1>5. ThreadInv' /\ RunningInv'
  BY <1>1, <1>4, RunThreads
<1>6. ready' \in Seq(created)
  BY <1>1 DEF IInv, TypeInv
<1>7. TypeInv'
  BY <1>1, <1>2, <1>4, <1>6, RunTypes DEF IInv
<1>8. IF current = current THEN BackList(s) # {} ELSE s[current].list # {}
  BY <1>4, RunList
<1>9. /\ process' \in [Everybody -> Field] /\ current' = current /\ at' = "pending"
      /\ \A p \in Everybody :
              /\ process'[p].priority = s[p].priority
              /\ process'[p].parent = s[p].parent
              /\ process'[p].waiting = s[p].waiting
              /\ process'[p].children = s[p].children
              /\ process'[p].finishedChildren = s[p].finishedChildren
              /\ process'[p].threads = s[p].threads
              /\ process'[p].done = s[p].done
              /\ process'[p].deleted = s[p].deleted
  BY <1>1, <1>2, <1>4, <1>8, RunEffect DEF RunPre
<1>10. /\ SameFamily(process, process') /\ SameWaiting(process, process')
       /\ \A p \in Everybody : process'[p].deleted = process[p].deleted
  BY <1>4, <1>9 DEF SameFamily, SameWaiting
<1> QED BY <1>1, <1>5, <1>7, <1>9, <1>10, SameProcessStep


LEMMA ReadyFacts ==
  ASSUME IInv
  PROVE  /\ ready \in Seq(created) /\ In(ready) \subseteq created
         /\ Once(ready) /\ Sorted(process, ready) /\ current \notin In(ready)
         /\ \A p \in In(ready) : /\ p \in Everybody /\ ~process[p].deleted
                                 /\ process[p].threads > 0
         /\ \A p \in created : process[p].priority \in Nat
<1>1. ready \in Seq(created) /\ \A p \in created : process[p].priority \in Nat
  BY TypeFacts DEF IInv, TypeInv, Everybody
<1> QED BY <1>1, ReadySubset DEF IInv, ReadyInv, Everybody

(* The ready list of a yield: the head goes, and the process comes unless it waits.         *)
LEMMA YieldQueue ==
  ASSUME IInv, at \in {"pending", "code", "ended"}, Yields, NEW s, OnlyTimes(s),
         NEW q, q = IF Running.waiting THEN Tail(ready) ELSE Insert(s, Tail(ready), current)
  PROVE  /\ Head(ready) \in In(ready) /\ q \in Seq(created) /\ Once(q) /\ Sorted(process, q)
         /\ In(q) = (In(ready) \ {Head(ready)})
                      \cup (IF Running.waiting THEN {} ELSE {current})
         /\ \A x \in In(q) : process[x].priority <= process[Head(ready)].priority
         /\ \A x, y : Before(ready, x, y) /\ x # Head(ready) => Before(q, x, y)
<1>1. /\ ready \in Seq(created) /\ ready # <<>> /\ In(ready) \subseteq created
      /\ Once(ready) /\ Sorted(process, ready) /\ current \notin In(ready)
      /\ \A p \in created : process[p].priority \in Nat
  BY ReadyFacts DEF Yields
<1> DEFINE r == Tail(ready)
           h == Head(ready)
<1>2. /\ r \in Seq(created) /\ h \in In(ready)
      /\ Once(r) /\ Sorted(process, r) /\ In(r) = In(ready) \ {h}
      /\ \A x \in In(ready) : process[x].priority <= process[h].priority
      /\ \A x, y : Before(ready, x, y) /\ x # h => Before(r, x, y)
  BY <1>1, TailQueue
<1> HIDE DEF r, h
<1>3. CASE Running.waiting
  <2>1. q = r
    BY <1>3 DEF r
  <2> QED BY <2>1, <1>2, <1>3 DEF h
<1>4. CASE ~Running.waiting
  <2>1. q = Insert(s, r, current)
    BY <1>4 DEF r
  <2>2. current \in created /\ current \in Everybody /\ Running = process[current]
    BY LiveFacts
  <2>3. \A p \in created : s[p].priority = process[p].priority
    BY <2>2 DEF OnlyTimes, Everybody
  <2>4. Sorted(s, r) /\ \A p \in created : s[p].priority \in Nat
    BY <1>1, <1>2, <2>3, SortedSame
  <2>5. current \notin In(r)
    BY <1>1, <1>2
  <2>6. /\ q \in Seq(created) /\ Once(q) /\ Sorted(s, q) /\ In(q) = In(r) \cup {current}
        /\ \A x, y : Before(r, x, y) => Before(q, x, y)
    <3>1. r \in Seq(created) /\ Once(r)
      BY <1>2
    <3> QED BY <3>1, <2>1, <2>2, <2>4, <2>5, InsertQueue
  <2>7. Sorted(process, q)
    <3>1. q \in Seq(created) /\ Sorted(s, q) /\ \A p \in created : process[p].priority = s[p].priority
      BY <2>3, <2>6
    <3> QED BY <3>1, SortedSame, Zenon
  <2>8. process[current].priority <= process[h].priority
    <3>1. \/ process[h].priority > Running.priority
          \/ process[h].priority = Running.priority
      BY <1>4 DEF Yields, h
    <3> QED BY <3>1, <2>2, <1>1, <1>2
  <2>9. \A x \in In(q) : process[x].priority <= process[h].priority
    BY <2>6, <2>8, <1>2
  <2> QED BY <2>6, <2>7, <2>9, <1>2, <1>4 DEF h
<1> QED BY <1>3, <1>4

LEMMA YieldToProcessStep == IInv /\ YieldToProcess => IInv'
<1> SUFFICES ASSUME IInv, YieldToProcess PROVE IInv'
  OBVIOUS
<1> DEFINE s == [process EXCEPT ![current].executeTime = 0]
           h == Head(ready)
<1>1. /\ Tick /\ Yields /\ Run(s, h)
      /\ ready' = IF Running.waiting THEN Tail(ready) ELSE Insert(s, Tail(ready), current)
  BY DEF YieldToProcess
<1>2. /\ left' \in [Pid -> [Thread -> 0 .. Lines]] /\ due' \in BOOLEAN
      /\ randomSlice' = randomSlice /\ randomSlice' \in BOOLEAN
      /\ at \in {"pending", "ended", "code"} /\ current \in created /\ current \in Everybody
  BY <1>1, TickFacts DEF IInv
<1>3. OnlyTimes(s)
  <2>1. process \in [Everybody -> Field] /\ 0 \in -1 .. TimeQuantum - 1
    BY TypeFacts, ProcessAssumption DEF IInv
  <2> QED BY <2>1, <1>2 DEF OnlyTimes, Field
<1> HIDE DEF s
<1>4. /\ FieldsOK(s) /\ RunPre(s, current)
      /\ SameFamily(process, s) /\ SameWaiting(process, s)
      /\ \A p \in Everybody : s[p].deleted = process[p].deleted /\ s[p].waiting = process[p].waiting
  BY <1>2, <1>3, OnlyTimesFacts
<1>5. /\ h \in In(ready) /\ ready' \in Seq(created) /\ Once(ready') /\ Sorted(process, ready')
      /\ In(ready') = (In(ready) \ {h}) \cup (IF Running.waiting THEN {} ELSE {current})
      /\ \A x \in In(ready') : process[x].priority <= process[h].priority
      /\ \A x, y : Before(ready, x, y) /\ x # h => Before(ready', x, y)
  BY <1>1, <1>2, <1>3, YieldQueue
<1> HIDE DEF h
<1>6. /\ In(ready) \subseteq created /\ current \notin In(ready)
      /\ \A p \in In(ready) : p \in Everybody /\ ~process[p].deleted /\ process[p].threads > 0
  BY ReadyFacts
<1>7. RunPre(s, h) /\ h # current
  <2>1. h \in created /\ h \in Everybody /\ h # current /\ ~process[h].deleted
          /\ process[h].threads > 0
    BY <1>5, <1>6
  <2>2. s[h] = process[h]
    BY <2>1, <1>3 DEF OnlyTimes
  <2> QED BY <2>1, <2>2, <1>4 DEF RunPre
<1>8. ThreadInv' /\ RunningInv'
  BY <1>1, <1>7, RunThreads
<1>9. TypeInv'
  BY <1>1, <1>2, <1>4, <1>5, <1>7, RunTypes DEF IInv
<1>10. IF h = current THEN BackList(s) # {} ELSE s[h].list # {}
  BY <1>7, RunList
<1>11. /\ process' \in [Everybody -> Field] /\ current' = h /\ at' = "pending"
       /\ \A p \in Everybody :
              /\ process'[p].priority = s[p].priority
              /\ process'[p].parent = s[p].parent
              /\ process'[p].waiting = s[p].waiting
              /\ process'[p].children = s[p].children
              /\ process'[p].finishedChildren = s[p].finishedChildren
              /\ process'[p].threads = s[p].threads
              /\ process'[p].done = s[p].done
              /\ process'[p].deleted = s[p].deleted
  BY <1>1, <1>2, <1>7, <1>10, RunEffect DEF RunPre, Everybody
<1>12. /\ SameFamily(process, process') /\ SameWaiting(process, process')
       /\ \A p \in Everybody : /\ process'[p].deleted = process[p].deleted
                               /\ process'[p].waiting = process[p].waiting
  BY <1>4, <1>11 DEF SameFamily, SameWaiting
<1>13. /\ FamilyInv' /\ \A p : Children(process', p) = Children(process, p)
       /\ \A p \in created : allFinished(p)' <=> allFinished(p)
  BY <1>11, <1>12, FamilyKept DEF IInv
<1>14. created' = created
  BY <1>11, CreatedSame
<1>15. ReadyInv'
  <2>1. \A p \in Everybody : process'[p].priority = process[p].priority
                               /\ process'[p].threads = process[p].threads
    BY <1>12 DEF SameFamily
  <2>2. In(ready') \subseteq created /\ h \in created
    BY <1>2, <1>5, <1>6
  <2>3. Sorted(process', ready')
    BY <1>5, <2>1, SortedSame DEF Everybody
  <2>4. \A x \in In(ready') : process'[x].priority <= process'[current'].priority
    BY <1>5, <1>11, <2>1, <2>2 DEF Everybody
  <2>5. HighestPriorityRuns'
    BY <1>5, <2>4, HighestSets
  <2>6. ~process[current].deleted /\ process[current].threads > 0
    BY <1>2, LiveFacts
  <2>7. ASSUME NEW p \in In(ready')
        PROVE  p # h /\ ~process'[p].deleted /\ process'[p].threads > 0
    BY <1>2, <1>5, <1>6, <1>7, <1>12, <2>1, <2>2, <2>6 DEF Everybody
  <2> QED BY <1>5, <1>11, <2>3, <2>5, <2>7 DEF ReadyInv, In, Once
<1>16. ParentFirst'
  <2>1. ASSUME NEW p \in In(ready'), process'[p].waiting, NEW c \in Children(process', p)
        PROVE  Before(ready', p, c)
    <3>1. p \in In(ready) /\ p # h
      BY <2>1, <1>2, <1>5, <1>6, <1>7, <1>12 DEF Running, Everybody
    <3>2. process[p].waiting
      BY <2>1, <3>1, <1>6, <1>12
    <3>3. c \in Children(process, p)
      BY <1>13
    <3>4. Before(ready, p, c)
      BY <3>1, <3>2, <3>3 DEF IInv, ParentFirst
    <3> QED BY <3>1, <3>4, <1>5
  <2> QED BY <2>1, <1>11 DEF ParentFirst, In, Before, Children
<1>17. FixedSliceInv'
  <2>1. ASSUME ~randomSlice, NEW p \in created
        PROVE  p = h \/ p \in In(ready') \/ allFinished(p)' \/ process'[p].waiting
    <3>1. p = current \/ p \in In(ready) \/ allFinished(p) \/ process[p].waiting
      BY <2>1 DEF IInv, FixedSliceInv
    <3> QED BY <3>1, <1>5, <1>12, <1>13 DEF Running, Everybody
  <2> QED BY <2>1, <1>2, <1>11, <1>14 DEF FixedSliceInv, In
<1> QED BY <1>8, <1>9, <1>11, <1>13, <1>15, <1>16, <1>17 DEF IInv, MainInv


-----------------------------------------------------------------------------
(* myFinish                                                                                 *)

LEMMA FinishThreadEffect ==
  ASSUME IInv, at = "code"
  PROVE  /\ FinishThread \in [Everybody -> Field]
         /\ \A p \in Everybody : p # current => FinishThread[p] = process[p]
         /\ \A p \in Everybody :
              /\ FinishThread[p].priority = process[p].priority
              /\ FinishThread[p].parent = process[p].parent
              /\ FinishThread[p].executeTime = process[p].executeTime
              /\ FinishThread[p].waiting = process[p].waiting
              /\ FinishThread[p].children = process[p].children
              /\ FinishThread[p].finishedChildren = process[p].finishedChildren
              /\ FinishThread[p].threads = process[p].threads
              /\ FinishThread[p].list = process[p].list
              /\ FinishThread[p].thread = process[p].thread
              /\ FinishThread[p].deleted = process[p].deleted
         /\ FinishThread[current].done = Running.done \cup {Running.thread}
         /\ FinishThread[current].hasThreadFinished
         /\ ThreadsOf(FinishThread[current], TRUE)
         /\ Cardinality(Running.done) \in Nat
         /\ Cardinality(FinishThread[current].done) = Cardinality(Running.done) + 1
         /\ Cardinality(FinishThread[current].done) # Running.threads =>
              FinishThread[current].list # {}
<1>1. /\ current \in created /\ current \in Everybody /\ Running = process[current]
      /\ ~Running.deleted /\ ThreadsOf(Running, TRUE)
      /\ Running.threads > 0 /\ Running.thread \in Thread
  BY LiveFacts
<1>2. process \in [Everybody -> Field] /\ process[current] \in Field
        /\ Running.done \subseteq Thread /\ Running.threads \in 0 .. MaxThread
  BY <1>1, TypeFacts DEF IInv
<1> DEFINE done == Running.done \cup {Running.thread}
           e == [process[current] EXCEPT !.done = done, !.hasThreadFinished = TRUE]
<1>3. done \in SUBSET Thread
  BY <1>1, <1>2
<1>4. /\ FinishThread \in [Everybody -> Field] /\ FinishThread[current] = e
      /\ \A p \in Everybody : p # current => FinishThread[p] = process[p]
  <2>1. /\ FinishThread[current] = e /\ DOMAIN FinishThread = Everybody
        /\ \A p \in Everybody : p # current => FinishThread[p] = process[p]
        /\ FinishThread = [p \in DOMAIN FinishThread |-> FinishThread[p]]
    BY <1>1, <1>2 DEF FinishThread
  <2>2. e \in Field
    BY <1>2, <1>3 DEF Field
  <2> QED BY <2>1, <2>2, <1>2
<1>5. /\ e.priority = process[current].priority /\ e.parent = process[current].parent
      /\ e.executeTime = process[current].executeTime /\ e.waiting = process[current].waiting
      /\ e.children = process[current].children
      /\ e.finishedChildren = process[current].finishedChildren
      /\ e.threads = process[current].threads /\ e.list = process[current].list
      /\ e.thread = process[current].thread /\ e.deleted = process[current].deleted
      /\ e.done = done /\ e.hasThreadFinished
  BY <1>2 DEF Field
<1> HIDE DEF e
<1>6. ASSUME NEW p \in Everybody
      PROVE   /\ FinishThread[p].priority = process[p].priority
              /\ FinishThread[p].parent = process[p].parent
              /\ FinishThread[p].executeTime = process[p].executeTime
              /\ FinishThread[p].waiting = process[p].waiting
              /\ FinishThread[p].children = process[p].children
              /\ FinishThread[p].finishedChildren = process[p].finishedChildren
              /\ FinishThread[p].threads = process[p].threads
              /\ FinishThread[p].list = process[p].list
              /\ FinishThread[p].thread = process[p].thread
              /\ FinishThread[p].deleted = process[p].deleted
  <2>1. CASE p = current
    BY <2>1, <1>4, <1>5
  <2>2. CASE p # current
    BY <2>2, <1>4
  <2> QED BY <2>1, <2>2
<1>7. Running.thread \notin Running.done
  BY DEF IInv, RunningInv
<1>8. Running.list \cup done = 1 .. Running.threads /\ Running.list \cap done = {}
        /\ Running.thread \notin Running.list
  BY <1>1, <1>7 DEF ThreadsOf
<1>9. ThreadsOf(FinishThread[current], TRUE)
  BY <1>1, <1>4, <1>5, <1>8 DEF ThreadsOf
<1>10. /\ Cardinality(Running.done) \in Nat
       /\ Cardinality(done) = Cardinality(Running.done) + 1
  <2>1. IsFiniteSet(Thread)
    BY ThreadNat, FS_Interval DEF Thread
  <2>2. IsFiniteSet(Running.done)
    BY <2>1, <1>2, FS_Subset
  <2> QED BY <2>2, <1>7, FS_CardinalityType, FS_AddElement
<1>11. ASSUME Running.list = {} PROVE Cardinality(done) = Running.threads
  <2>1. done = 1 .. Running.threads
    BY <1>8, <1>11
  <2>2. Running.threads \in Int /\ Running.threads >= 1
    BY <1>1, <1>2, ThreadNat
  <2>3. Cardinality(1 .. Running.threads) = IF 1 > Running.threads THEN 0 ELSE Running.threads - 1 + 1
    BY <2>2, FS_Interval
  <2>4. Cardinality(done) = Cardinality(1 .. Running.threads)
    BY <2>1, Zenon
  <2> QED BY <2>2, <2>3, <2>4
<1> QED BY <1>1, <1>4, <1>5, <1>6, <1>9, <1>10, <1>11

LEMMA MyFinishStep == IInv /\ MyFinish => IInv'
<1> SUFFICES ASSUME IInv, MyFinish PROVE IInv'
  OBVIOUS
<1>1. /\ at = "code" /\ Cardinality(Running.done) + 1 < Running.threads
      /\ process' = FinishThread /\ at' = "ended"
      /\ left' = left /\ ready' = ready /\ current' = current /\ due' = due
      /\ randomSlice' = randomSlice
  BY DEF MyFinish
<1>2. /\ process' \in [Everybody -> Field]
      /\ \A p \in Everybody : p # current => process'[p] = process[p]
      /\ \A p \in Everybody :
              /\ process'[p].priority = process[p].priority
              /\ process'[p].parent = process[p].parent
              /\ process'[p].executeTime = process[p].executeTime
              /\ process'[p].waiting = process[p].waiting
              /\ process'[p].children = process[p].children
              /\ process'[p].finishedChildren = process[p].finishedChildren
              /\ process'[p].threads = process[p].threads
              /\ process'[p].list = process[p].list
              /\ process'[p].thread = process[p].thread
              /\ process'[p].deleted = process[p].deleted
      /\ process'[current].done = Running.done \cup {Running.thread}
      /\ process'[current].hasThreadFinished
      /\ ThreadsOf(process'[current], TRUE)
      /\ Cardinality(Running.done) \in Nat
      /\ Cardinality(process'[current].done) = Cardinality(Running.done) + 1
      /\ Cardinality(process'[current].done) # Running.threads => process'[current].list # {}
  BY <1>1, FinishThreadEffect
<1>3. /\ current \in created /\ current \in Everybody /\ Running = process[current]
      /\ ~Running.deleted /\ Running.threads \in Nat
  <2>1. current \in created /\ current \in Everybody /\ Running = process[current] /\ ~Running.deleted
    BY <1>1, LiveFacts
  <2>2. process[current].threads \in 0 .. MaxThread
    BY TypeFacts DEF IInv
  <2> QED BY <2>1, <2>2, ThreadNat
<1>4. created' = created
  BY <1>2, CreatedSame
<1>5. TypeInv'
  <2>1. FieldsOK(process)
    BY DEF IInv, TypeInv
  <2>2. FieldsOK(process)'
    BY <2>1, <1>2, <1>4 DEF FieldsOK, Everybody
  <2> QED BY <2>2, <1>1, <1>4 DEF IInv, TypeInv
<1>6. ThreadInv'
  <2>1. ASSUME NEW p \in created PROVE ThreadsOf(process'[p], p = current)
    <3>1. CASE p = current
      BY <3>1, <1>2 DEF ThreadsOf
    <3>2. CASE p # current
      BY <3>2, <1>2 DEF IInv, ThreadInv, Everybody
    <3> QED BY <3>1, <3>2
  <2> QED BY <2>1, <1>1, <1>4 DEF ThreadInv
<1>7. RunningInv'
  <2>1. /\ current \in created' /\ ~process'[current].deleted
        /\ process'[current].thread \in process'[current].done
        /\ process'[current].hasThreadFinished /\ process'[current].list # {}
    BY <1>1, <1>2, <1>3, <1>4
  <2> QED BY <2>1, <1>1 DEF RunningInv, Running
<1>8. SameFamily(process, process') /\ SameWaiting(process, process')
  <2>1. /\ Cardinality(process'[current].done) # process'[current].threads
        /\ Cardinality(process[current].done) # process[current].threads
    BY <1>1, <1>2, <1>3
  <2> QED BY <2>1, <1>2 DEF SameFamily, SameWaiting
<1>9. FamilyInv' /\ \A p \in created : allFinished(p)' <=> allFinished(p)
  BY <1>2, <1>8, FamilyKept DEF IInv
<1>10. ReadyInv' /\ ParentFirst'
  BY <1>1, <1>2, <1>5, QueueSame
<1>11. FixedSliceInv'
  <2> SUFFICES ASSUME ~randomSlice
               PROVE  /\ due
                      /\ \A p \in created : p = current \/ p \in In(ready) \/ allFinished(p)'
                                              \/ process'[p].waiting
    BY <1>1, <1>4 DEF FixedSliceInv
  <2> QED BY <1>1, <1>2, <1>9 DEF IInv, FixedSliceInv, Everybody
<1> QED BY <1>1, <1>5, <1>6, <1>7, <1>9, <1>10, <1>11 DEF IInv, MainInv


-----------------------------------------------------------------------------
(* Process::Sleep, of the main program or of a thread that ends: with the fields as s and   *)
(* the ready list as q, the head of q runs.                                                 *)

FinishPre(s, q) ==
  /\ FieldsOK(s) /\ FamilyOK(s)
  /\ q \in Seq(created) /\ Once(q) /\ Sorted(s, q)
  /\ \A p \in In(q) : p # current /\ ~s[p].deleted /\ s[p].threads > 0
  /\ \A p \in created : ThreadsOf(s[p], p = current)
  /\ \A p \in In(q) : s[p].waiting => \A c \in Children(s, p) : Before(q, p, c)
  /\ ~randomSlice =>
       \A p \in created : p \in In(q) \/ Cardinality(s[p].done) = s[p].threads \/ s[p].waiting
  /\ q = <<>> => ready = <<>>

(* The fields, once the process is deleted and the next one has its time. *)
Deleted(s, h, quantum) ==
  [s EXCEPT ![current].deleted = TRUE, ![h].executeTime = IF quantum THEN -1 ELSE @]

LEMMA DeletedEffect ==
  ASSUME TypeInv, NEW s, FieldsOK(s), NEW h \in Everybody, NEW quantum \in BOOLEAN,
         NEW t, t = Deleted(s, h, quantum)
  PROVE  /\ FieldsOK(t) /\ SameFamily(s, t) /\ SameWaiting(s, t) /\ t[current].deleted
         /\ \A p \in Everybody : p # current => t[p].deleted = s[p].deleted
         /\ \A p \in Everybody : /\ t[p].waiting = s[p].waiting /\ t[p].list = s[p].list
                                 /\ t[p].done = s[p].done /\ t[p].thread = s[p].thread
<1>1. s \in [Everybody -> Field] /\ current \in Everybody
  BY TypeFacts DEF FieldsOK, Everybody
<1> DEFINE d == [s[current] EXCEPT !.deleted = TRUE]
           u == [s EXCEPT ![current] = d]
           n == IF quantum THEN -1 ELSE u[h].executeTime
           e == [u[h] EXCEPT !.executeTime = n]
<1>2. /\ d \in Field /\ d.deleted
      /\ d.priority = s[current].priority /\ d.parent = s[current].parent
      /\ d.executeTime = s[current].executeTime /\ d.waiting = s[current].waiting
      /\ d.children = s[current].children /\ d.finishedChildren = s[current].finishedChildren
      /\ d.threads = s[current].threads /\ d.list = s[current].list
      /\ d.done = s[current].done /\ d.thread = s[current].thread
  BY <1>1 DEF Field
<1>3. t = [u EXCEPT ![h].executeTime = IF quantum THEN -1 ELSE @]
  BY DEF Deleted
<1> HIDE DEF d
<1>4. /\ u \in [Everybody -> Field] /\ u[current] = d
      /\ \A p \in Everybody : p # current => u[p] = s[p]
  BY <1>1, <1>2
<1> HIDE DEF u
<1>5. n \in -1 .. TimeQuantum - 1
  <2>1. u[h].executeTime \in -1 .. TimeQuantum - 1
    BY <1>4 DEF Field
  <2>2. -1 \in -1 .. TimeQuantum - 1
    BY ProcessAssumption
  <2> QED BY <2>1, <2>2
<1>6. t[h] = e /\ DOMAIN t = Everybody /\ t = [p \in DOMAIN t |-> t[p]]
        /\ \A p \in Everybody : p # h => t[p] = u[p]
  BY <1>3, <1>4
<1> HIDE DEF n
<1>7. /\ e \in Field
      /\ e.priority = u[h].priority /\ e.parent = u[h].parent /\ e.waiting = u[h].waiting
      /\ e.children = u[h].children /\ e.finishedChildren = u[h].finishedChildren
      /\ e.threads = u[h].threads /\ e.list = u[h].list
      /\ e.done = u[h].done /\ e.thread = u[h].thread /\ e.deleted = u[h].deleted
  BY <1>4, <1>5 DEF Field
<1> HIDE DEF e
<1>8. t \in [Everybody -> Field]
  BY <1>4, <1>6, <1>7
<1>9. ASSUME NEW p \in Everybody
      PROVE  /\ u[p].priority = s[p].priority /\ u[p].parent = s[p].parent
             /\ u[p].waiting = s[p].waiting
             /\ u[p].children = s[p].children /\ u[p].finishedChildren = s[p].finishedChildren
             /\ u[p].threads = s[p].threads /\ u[p].list = s[p].list
             /\ u[p].done = s[p].done /\ u[p].thread = s[p].thread
  <2>1. CASE p = current
    BY <2>1, <1>2, <1>4
  <2>2. CASE p # current
    BY <2>2, <1>4
  <2> QED BY <2>1, <2>2
<1>10. ASSUME NEW p \in Everybody
       PROVE  /\ t[p].priority = u[p].priority /\ t[p].parent = u[p].parent
              /\ t[p].waiting = u[p].waiting
              /\ t[p].children = u[p].children /\ t[p].finishedChildren = u[p].finishedChildren
              /\ t[p].threads = u[p].threads /\ t[p].list = u[p].list
              /\ t[p].done = u[p].done /\ t[p].thread = u[p].thread /\ t[p].deleted = u[p].deleted
  <2>1. CASE p = h
    BY <2>1, <1>6, <1>7
  <2>2. CASE p # h
    BY <2>2, <1>6
  <2> QED BY <2>1, <2>2
<1>11. SameFamily(s, t) /\ SameWaiting(s, t)
  BY <1>9, <1>10 DEF SameFamily, SameWaiting
<1>12. \A p \in Everybody : /\ t[p].waiting = s[p].waiting /\ t[p].list = s[p].list
                            /\ t[p].done = s[p].done /\ t[p].thread = s[p].thread
  BY <1>9, <1>10
<1>13. t[current].deleted /\ \A p \in Everybody : p # current => t[p].deleted = s[p].deleted
  BY <1>1, <1>2, <1>4, <1>10
<1>14. FieldsOK(t)
  <2>1. \A p \in Everybody : /\ t[p].parent = s[p].parent /\ t[p].waiting = s[p].waiting
                             /\ t[p].children = s[p].children
                             /\ t[p].finishedChildren = s[p].finishedChildren
    BY <1>9, <1>10
  <2> QED BY <1>8, <2>1 DEF FieldsOK, Everybody
<1> QED BY <1>11, <1>12, <1>13, <1>14


LEMMA RunFinishingStep ==
  ASSUME TypeInv, NEW s, NEW q, FinishPre(s, q), NEW quantum \in BOOLEAN,
         RunFinishing(s, q, quantum), left' = left, due' = due, randomSlice' = randomSlice
  PROVE  IInv'
<1>1. /\ current \in Everybody /\ Running.thread \in Thread /\ Main \notin created
      /\ created \subseteq Everybody
  BY TypeFacts DEF Running, Everybody
<1>2. /\ left' \in [Pid -> [Thread -> 0 .. Lines]] /\ due' \in BOOLEAN /\ randomSlice' \in BOOLEAN
  BY DEF TypeInv
<1>3. FieldsOK(s) /\ FamilyOK(s) /\ s \in [Everybody -> Field]
  BY DEF FinishPre, FieldsOK, Everybody
<1>4. CASE q = <<>>
  <2>1. process' = s /\ at' = "idle" /\ ready' = ready /\ current' = current /\ ready = <<>>
    BY <1>4 DEF RunFinishing, FinishPre
  <2>2. created' = created
    BY <1>3, <2>1, CreatedSame
  <2>3. TypeInv'
    BY <1>2, <1>3, <2>1, <2>2 DEF TypeInv, FieldsOK
  <2>4. ThreadInv'
    BY <2>1, <2>2 DEF FinishPre, ThreadInv
  <2>5. RunningInv' /\ MainInv'
    BY <2>1 DEF RunningInv, MainInv
  <2>6. FamilyInv'
    BY <1>3, <2>1, <2>2 DEF FamilyInv, FamilyOK
  <2>7. In(ready') = {} /\ DOMAIN ready' = {} /\ Once(ready') /\ Sorted(process', ready')
    BY <2>1 DEF In, Once, Sorted
  <2>8. ReadyInv'
    BY <2>7 DEF ReadyInv, HighestPriorityRuns, Once, In
  <2>9. ParentFirst'
    BY <2>7 DEF ParentFirst, In
  <2>10. FixedSliceInv'
    <3>1. ASSUME ~randomSlice, NEW p \in created PROVE allFinished(p)' \/ process'[p].waiting
      <4>1. In(q) = {}
        BY <2>1, <2>7, <1>4
      <4> QED BY <3>1, <4>1, <2>1 DEF FinishPre, allFinished
    <3> QED BY <3>1, <2>1, <2>2 DEF FixedSliceInv
  <2> QED BY <2>3, <2>4, <2>5, <2>6, <2>8, <2>9, <2>10 DEF IInv
<1>5. CASE q # <<>>
  <2> DEFINE h == Head(q)
             t == Deleted(s, h, quantum)
  <2>1. Run(t, h) /\ ready' = Tail(q)
    BY <1>5 DEF RunFinishing, Deleted
  <2>2. /\ q \in Seq(created) /\ Once(q) /\ Sorted(s, q) /\ In(q) \subseteq created
        /\ \A p \in In(q) : p # current /\ ~s[p].deleted /\ s[p].threads > 0
        /\ \A p \in created : s[p].priority \in Nat
    BY <1>1, <1>3, ReadySubset DEF FinishPre, Field
  <2>3. /\ ready' \in Seq(created) /\ h \in In(q)
        /\ Once(ready') /\ Sorted(s, ready') /\ In(ready') = In(q) \ {h}
        /\ \A x \in In(q) : s[x].priority <= s[h].priority
        /\ \A x, y : Before(q, x, y) /\ x # h => Before(ready', x, y)
    BY <1>5, <2>1, <2>2, TailQueue
  <2> HIDE DEF h
  <2>4. h \in created /\ h \in Everybody /\ h # current /\ ~s[h].deleted /\ s[h].threads > 0
    BY <1>1, <2>2, <2>3
  <2>5. /\ FieldsOK(t) /\ SameFamily(s, t) /\ SameWaiting(s, t) /\ t[current].deleted
        /\ \A p \in Everybody : p # current => t[p].deleted = s[p].deleted
        /\ \A p \in Everybody : /\ t[p].waiting = s[p].waiting /\ t[p].list = s[p].list
                                /\ t[p].done = s[p].done /\ t[p].thread = s[p].thread
    BY <1>3, <2>4, DeletedEffect
  <2> HIDE DEF t
  <2>6. t \in [Everybody -> Field]
    BY <2>5 DEF FieldsOK, Everybody
  <2>7. RunPre(t, h)
    <3>1. ASSUME NEW p \in created, p # current PROVE ThreadsOf(t[p], FALSE)
      <4>1. ThreadsOf(s[p], FALSE)
        BY <3>1 DEF FinishPre, ThreadsOf
      <4>2. t[p].threads = s[p].threads
        BY <1>1, <2>5 DEF SameFamily
      <4> QED BY <3>1, <4>1, <4>2, <1>1, <2>5 DEF ThreadsOf
    <3>2. ~t[h].deleted /\ t[h].threads > 0
      BY <2>4, <2>5 DEF SameFamily
    <3> QED BY <1>1, <2>4, <2>5, <2>6, <3>1, <3>2 DEF RunPre
  <2>8. ThreadInv' /\ RunningInv'
    BY <2>1, <2>7, RunThreads
  <2>9. TypeInv'
    BY <1>2, <2>1, <2>3, <2>5, <2>7, RunTypes
  <2>10. IF h = current THEN BackList(t) # {} ELSE t[h].list # {}
    BY <2>7, RunList
  <2>11. /\ process' \in [Everybody -> Field] /\ current' = h /\ at' = "pending"
         /\ \A p \in Everybody :
              /\ process'[p].priority = t[p].priority
              /\ process'[p].parent = t[p].parent
              /\ process'[p].waiting = t[p].waiting
              /\ process'[p].children = t[p].children
              /\ process'[p].finishedChildren = t[p].finishedChildren
              /\ process'[p].threads = t[p].threads
              /\ process'[p].done = t[p].done
              /\ process'[p].deleted = t[p].deleted
    BY <1>1, <2>1, <2>4, <2>6, <2>10, RunEffect
  <2>12. /\ SameFamily(s, process') /\ SameWaiting(s, process')
         /\ \A p \in Everybody : /\ p # current => process'[p].deleted = s[p].deleted
                                 /\ process'[p].waiting = s[p].waiting
                                 /\ process'[p].done = s[p].done
                                 /\ process'[p].priority = s[p].priority
                                 /\ process'[p].threads = s[p].threads
    BY <2>5, <2>11 DEF SameFamily, SameWaiting
  <2>13. created' = created /\ DOMAIN process' = Everybody
    BY <2>11, CreatedSame
  <2>14. FamilyOK(process') /\ \A p : Children(process', p) = Children(s, p)
    BY <1>1, <1>3, <2>12, <2>13, FamilySame
  <2>15. FamilyInv'
    BY <2>13, <2>14 DEF FamilyInv, FamilyOK
  <2>16. ReadyInv'
    <3>1. Sorted(process', ready')
      BY <1>1, <2>3, <2>12, SortedSame
    <3>2. \A x \in In(ready') : process'[x].priority <= process'[current'].priority
      BY <1>1, <2>2, <2>3, <2>4, <2>11, <2>12
    <3>3. HighestPriorityRuns'
      BY <2>3, <3>2, HighestSets
    <3>4. ASSUME NEW p \in In(ready')
          PROVE  p # h /\ ~process'[p].deleted /\ process'[p].threads > 0
      BY <1>1, <2>2, <2>3, <2>12
    <3> QED BY <2>3, <2>11, <3>1, <3>3, <3>4 DEF ReadyInv, In, Once
  <2>17. ParentFirst'
    <3>1. ASSUME NEW p \in In(ready'), process'[p].waiting, NEW c \in Children(process', p)
          PROVE  Before(ready', p, c)
      <4>1. p \in In(q) /\ p # h /\ s[p].waiting /\ c \in Children(s, p)
        BY <1>1, <2>2, <2>3, <2>12, <2>14, <3>1
      <4>2. Before(q, p, c)
        BY <4>1 DEF FinishPre
      <4> QED BY <4>1, <4>2, <2>3
    <3> QED BY <3>1, <2>11 DEF ParentFirst, In, Before, Children
  <2>18. FixedSliceInv'
    <3>1. ASSUME ~randomSlice, NEW p \in created
          PROVE  p = h \/ p \in In(ready') \/ allFinished(p)' \/ process'[p].waiting
      <4>1. p \in In(q) \/ Cardinality(s[p].done) = s[p].threads \/ s[p].waiting
        BY <3>1 DEF FinishPre
      <4> QED BY <4>1, <1>1, <2>3, <2>12 DEF allFinished
    <3> QED BY <3>1, <2>11, <2>13 DEF FixedSliceInv, In
  <2> QED BY <2>8, <2>9, <2>11, <2>15, <2>16, <2>17, <2>18 DEF IInv, MainInv
<1> QED BY <1>4, <1>5


LEMMA FinishStep == IInv /\ Finish => IInv'
<1> SUFFICES ASSUME IInv, Finish PROVE IInv'
  OBVIOUS
<1>1. /\ at \in {"main", "returned"} /\ RunFinishing(process, ready, FALSE)
      /\ left' = left /\ due' = due /\ randomSlice' = randomSlice
  BY DEF Finish
<1>2. Main \notin created /\ TypeInv
  BY TypeFacts DEF IInv
<1>3. ASSUME ~randomSlice, NEW p \in created
      PROVE  p \in In(ready) \/ Cardinality(process[p].done) = process[p].threads
               \/ process[p].waiting
  <2>1. at = "main" /\ current = Main
    BY <1>1, <1>3 DEF IInv, FixedSliceInv, RunningInv
  <2> QED BY <2>1, <1>2, <1>3 DEF IInv, FixedSliceInv, allFinished
<1>4. FinishPre(process, ready)
  <2>1. \A p \in In(ready) : p # current /\ ~process[p].deleted /\ process[p].threads > 0
    BY DEF IInv, ReadyInv
  <2>2. \A p \in In(ready) : process[p].waiting =>
          \A c \in Children(process, p) : Before(ready, p, c)
    BY DEF IInv, ParentFirst
  <2> QED BY <2>1, <2>2, <1>3 DEF FinishPre, IInv, TypeInv, FamilyInv, ReadyInv, ThreadInv
<1> QED BY <1>1, <1>2, <1>4, RunFinishingStep

-----------------------------------------------------------------------------
(* Process::Termination                                                                     *)

CountChild(s, p) == [s EXCEPT ![p].finishedChildren = @ + 1]
WakeParent(s, p) == [s EXCEPT ![p].executeTime = -1, ![p].waiting = FALSE]

LEMMA CountEffect ==
  ASSUME NEW s, NEW p, NEW t, s \in [Everybody -> Field], p \in Everybody, t = CountChild(s, p)
  PROVE  /\ t \in [Everybody -> Field] /\ SameFamily(s, t)
         /\ t[p].finishedChildren = s[p].finishedChildren + 1
         /\ \A r \in Everybody : r # p => t[r].finishedChildren = s[r].finishedChildren
         /\ \A r \in Everybody : /\ t[r].waiting = s[r].waiting /\ t[r].list = s[r].list
                                 /\ t[r].done = s[r].done /\ t[r].thread = s[r].thread
                                 /\ t[r].deleted = s[r].deleted
<1> DEFINE n == s[p].finishedChildren + 1
           e == [s[p] EXCEPT !.finishedChildren = n]
<1>1. /\ t[p] = e /\ \A r \in Everybody : r # p => t[r] = s[r]
      /\ DOMAIN t = Everybody /\ t = [r \in DOMAIN t |-> t[r]]
  BY DEF CountChild
<1>2. n \in Nat
  BY DEF Field
<1> HIDE DEF n
<1>3. /\ e \in Field /\ e.finishedChildren = n
      /\ e.priority = s[p].priority /\ e.parent = s[p].parent
      /\ e.waiting = s[p].waiting /\ e.children = s[p].children
      /\ e.threads = s[p].threads /\ e.list = s[p].list
      /\ e.done = s[p].done /\ e.thread = s[p].thread /\ e.deleted = s[p].deleted
  BY <1>2 DEF Field
<1> HIDE DEF e
<1>4. t \in [Everybody -> Field]
  BY <1>1, <1>3
<1>5. ASSUME NEW r \in Everybody
      PROVE  /\ t[r].priority = s[r].priority /\ t[r].parent = s[r].parent
             /\ t[r].waiting = s[r].waiting /\ t[r].children = s[r].children
             /\ t[r].threads = s[r].threads /\ t[r].list = s[r].list
             /\ t[r].done = s[r].done /\ t[r].thread = s[r].thread /\ t[r].deleted = s[r].deleted
  <2>1. CASE r = p
    BY <2>1, <1>1, <1>3
  <2>2. CASE r # p
    BY <2>2, <1>1
  <2> QED BY <2>1, <2>2
<1> QED BY <1>1, <1>3, <1>4, <1>5 DEF n, SameFamily

LEMMA WakeEffect ==
  ASSUME NEW s, NEW p, NEW t, s \in [Everybody -> Field], p \in Everybody, t = WakeParent(s, p)
  PROVE  /\ t \in [Everybody -> Field] /\ SameFamily(s, t) /\ ~t[p].waiting
         /\ \A r \in Everybody : r # p => t[r].waiting = s[r].waiting
         /\ \A r \in Everybody : /\ t[r].finishedChildren = s[r].finishedChildren
                                 /\ t[r].list = s[r].list
                                 /\ t[r].done = s[r].done /\ t[r].thread = s[r].thread
                                 /\ t[r].deleted = s[r].deleted
<1> DEFINE e == [s[p] EXCEPT !.executeTime = -1, !.waiting = FALSE]
<1>1. /\ t[p] = e /\ \A r \in Everybody : r # p => t[r] = s[r]
      /\ DOMAIN t = Everybody /\ t = [r \in DOMAIN t |-> t[r]]
  BY DEF WakeParent
<1>2. -1 \in -1 .. TimeQuantum - 1
  BY ProcessAssumption
<1>3. /\ e \in Field /\ ~e.waiting
      /\ e.priority = s[p].priority /\ e.parent = s[p].parent
      /\ e.finishedChildren = s[p].finishedChildren /\ e.children = s[p].children
      /\ e.threads = s[p].threads /\ e.list = s[p].list
      /\ e.done = s[p].done /\ e.thread = s[p].thread /\ e.deleted = s[p].deleted
  BY <1>2 DEF Field
<1> HIDE DEF e
<1>4. t \in [Everybody -> Field]
  BY <1>1, <1>3
<1>5. ASSUME NEW r \in Everybody
      PROVE  /\ t[r].priority = s[r].priority /\ t[r].parent = s[r].parent
             /\ t[r].finishedChildren = s[r].finishedChildren /\ t[r].children = s[r].children
             /\ t[r].threads = s[r].threads /\ t[r].list = s[r].list
             /\ t[r].done = s[r].done /\ t[r].thread = s[r].thread /\ t[r].deleted = s[r].deleted
  <2>1. CASE r = p
    BY <2>1, <1>1, <1>3
  <2>2. CASE r # p
    BY <2>2, <1>1
  <2> QED BY <2>1, <2>2
<1> QED BY <1>1, <1>3, <1>4, <1>5 DEF SameFamily

(* The fields t that Termination leaves: the thread is done, and a parent that waits has    *)
(* counted the child and waits no more if it was the last.                                  *)
Terminated(t) ==
  LET parent == Running.parent
  IN /\ t \in [Everybody -> Field] /\ SameFamily(process, t)
     /\ \A p \in Everybody : /\ t[p].list = process[p].list /\ t[p].thread = process[p].thread
                             /\ t[p].deleted = process[p].deleted
                             /\ p # current => t[p].done = process[p].done
                             /\ p # parent => /\ t[p].waiting = process[p].waiting
                                              /\ t[p].finishedChildren = process[p].finishedChildren
     /\ t[current].done = Running.done \cup {Running.thread}
     /\ parent # NoParent =>
          IF process[parent].waiting
            THEN /\ t[parent].finishedChildren = process[parent].finishedChildren + 1
                 /\ t[parent].waiting <=> t[parent].finishedChildren # t[parent].children
            ELSE /\ t[parent].finishedChildren = process[parent].finishedChildren
                 /\ ~t[parent].waiting

LEMMA TerminatedFields ==
  ASSUME IInv, at = "code", NEW t, Terminated(t)
  PROVE  FieldsOK(t)
<1>1. current \in created /\ created \subseteq Everybody /\ Running = process[current]
        /\ Running.parent \in created \cup {NoParent} /\ NoParent \notin Everybody
  <2>1. current \in created /\ Running = process[current] /\ current \in Everybody
    BY LiveFacts
  <2>2. NoParent \notin Everybody
    BY TypeFacts DEF IInv, Everybody
  <2>3. process[current].parent \in created \cup {NoParent}
    BY <2>1, TypeFacts DEF IInv
  <2> QED BY <2>1, <2>2, <2>3 DEF Everybody
<1>2. /\ FieldsOK(process) /\ t \in [Everybody -> Field]
      /\ \A p \in Everybody : process[p].children \in Nat /\ process[p].finishedChildren \in Nat
  BY TypeFacts DEF IInv, TypeInv, Terminated
<1>3. \A p \in Everybody : t[p].parent = process[p].parent /\ t[p].children = process[p].children
  BY DEF Terminated, SameFamily
<1>4. ASSUME NEW p \in Everybody
      PROVE  /\ t[p].finishedChildren <= t[p].children
             /\ t[p].waiting => t[p].finishedChildren < t[p].children
  <2>1. /\ process[p].finishedChildren <= process[p].children
        /\ process[p].waiting => process[p].finishedChildren < process[p].children
    BY <1>2 DEF FieldsOK, Everybody
  <2>2. CASE p # Running.parent
    BY <2>1, <2>2, <1>3 DEF Terminated
  <2>3. CASE p = Running.parent
    <3>1. p # NoParent
      BY <1>1
    <3>2. CASE process[p].waiting
      BY <2>1, <2>3, <3>1, <3>2, <1>2, <1>3 DEF Terminated
    <3>3. CASE ~process[p].waiting
      BY <2>1, <2>3, <3>1, <3>3, <1>3 DEF Terminated
    <3> QED BY <3>2, <3>3
  <2> QED BY <2>2, <2>3
<1> QED BY <1>2, <1>3, <1>4 DEF FieldsOK, Everybody


LEMMA TerminatedFamily ==
  ASSUME IInv, at = "code", Cardinality(Running.done) + 1 = Running.threads,
         NEW t, Terminated(t), FieldsOK(t)
  PROVE  /\ FamilyOK(t) /\ \A p : Children(t, p) = Children(process, p)
         /\ \A p \in created : ThreadsOf(t[p], p = current)
         /\ Cardinality(t[current].done) = t[current].threads
<1>1. /\ current \in created /\ created \subseteq Everybody /\ Running = process[current]
      /\ Main \notin created /\ NoParent \notin created /\ Everybody \ {Main} = created
      /\ DOMAIN process = Everybody
  BY LiveFacts, TypeFacts DEF IInv, Everybody
<1>2. /\ t \in [Everybody -> Field] /\ DOMAIN t = Everybody
      /\ \A p \in Everybody : /\ t[p].parent = process[p].parent
                              /\ t[p].threads = process[p].threads
                              /\ t[p].children = process[p].children
  BY DEF Terminated, SameFamily
<1>3. /\ Cardinality(Running.done) \in Nat
      /\ Cardinality(t[current].done) = Cardinality(Running.done) + 1
      /\ ThreadsOf(FinishThread[current], TRUE)
      /\ FinishThread[current].done = t[current].done
      /\ FinishThread[current].list = t[current].list
      /\ FinishThread[current].thread = t[current].thread
      /\ FinishThread[current].threads = t[current].threads
      /\ FinishThread[current].deleted = t[current].deleted
  <2>1. FinishThread[current].done = t[current].done
    BY FinishThreadEffect DEF Terminated
  <2>2. /\ FinishThread[current].list = t[current].list
        /\ FinishThread[current].thread = t[current].thread
        /\ FinishThread[current].threads = t[current].threads
        /\ FinishThread[current].deleted = t[current].deleted
    BY <1>1, <1>2, FinishThreadEffect DEF Terminated
  <2>3. /\ Cardinality(Running.done) \in Nat
        /\ Cardinality(FinishThread[current].done) = Cardinality(Running.done) + 1
        /\ ThreadsOf(FinishThread[current], TRUE)
    BY FinishThreadEffect
  <2>4. Cardinality(t[current].done) = Cardinality(Running.done) + 1
    BY <2>1, <2>3
  <2> QED BY <2>1, <2>2, <2>3, <2>4
<1>4. Cardinality(t[current].done) = t[current].threads
  BY <1>1, <1>2, <1>3
<1>5. ASSUME NEW p \in created PROVE ThreadsOf(t[p], p = current)
  <2>1. CASE p = current
    BY <2>1, <1>3 DEF ThreadsOf
  <2>2. CASE p # current
    <3>1. ThreadsOf(process[p], p = current)
      BY DEF IInv, ThreadInv
    <3> QED BY <2>2, <3>1, <1>1, <1>2 DEF Terminated, ThreadsOf
  <2> QED BY <2>1, <2>2
<1>6. \A p : Children(t, p) = Children(process, p) /\ Children(process, p) \subseteq created
  BY <1>1, <1>2 DEF Children
<1>7. \A c \in created : c # current =>
        (Cardinality(t[c].done) # t[c].threads <=> Cardinality(process[c].done) # process[c].threads)
  BY <1>1, <1>2 DEF Terminated
<1>8. Cardinality(process[current].done) # process[current].threads
  BY <1>1, <1>3
<1>9. \A p : Unfinished(t, p) = Unfinished(process, p) \ {current}
  BY <1>4, <1>6, <1>7 DEF Unfinished
<1>10. \A p : Unfinished(process, p) \subseteq created /\ IsFiniteSet(Unfinished(process, p))
  <2>1. created = 1 .. Cardinality(created) /\ Cardinality(created) \in Nat
    BY DEF IInv, TypeInv
  <2>2. IsFiniteSet(created)
    <3> DEFINE n == Cardinality(created)
    <3>1. n \in Nat /\ created = 1 .. n
      BY <2>1
    <3> HIDE DEF n
    <3> QED BY <3>1, FS_Interval
  <2>3. \A p : Unfinished(process, p) \subseteq created
    BY <1>6 DEF Unfinished
  <2> QED BY <2>2, <2>3, FS_Subset
<1>11. ASSUME NEW p \in created
       PROVE  /\ t[p].parent # p
              /\ t[p].parent # NoParent => t[p].threads > 0 /\ t[t[p].parent].threads > 0
              /\ t[p].children = Cardinality(Children(t, p))
              /\ t[p].waiting => Cardinality(Unfinished(t, p)) = t[p].children - t[p].finishedChildren
  <2>1. /\ process[p].parent # p
        /\ process[p].parent # NoParent =>
             process[p].threads > 0 /\ process[process[p].parent].threads > 0
        /\ process[p].children = Cardinality(Children(process, p))
        /\ process[p].waiting => Cardinality(Unfinished(process, p))
                                   = process[p].children - process[p].finishedChildren
    BY DEF IInv, FamilyInv, FamilyOK
  <2>2. process[p].parent \in created \cup {NoParent}
    BY <1>1, TypeFacts DEF IInv
  <2>3. t[p].waiting => Cardinality(Unfinished(t, p)) = t[p].children - t[p].finishedChildren
    <3>1. CASE p # Running.parent
      <4>1. current \notin Unfinished(process, p)
        BY <3>1, <1>1 DEF Unfinished, Children
      <4>2. Unfinished(t, p) = Unfinished(process, p)
        BY <4>1, <1>9
      <4> QED BY <3>1, <4>2, <2>1, <1>1, <1>2 DEF Terminated
    <3>2. CASE p = Running.parent
      <4>1. SUFFICES ASSUME t[p].waiting
                     PROVE  Cardinality(Unfinished(t, p)) = t[p].children - t[p].finishedChildren
        OBVIOUS
      <4>2. process[p].waiting /\ t[p].finishedChildren = process[p].finishedChildren + 1
        BY <4>1, <3>2, <1>1 DEF Terminated
      <4>3. current \in Unfinished(process, p)
        BY <3>2, <1>1, <1>8 DEF Unfinished, Children
      <4>4. Cardinality(Unfinished(t, p)) = Cardinality(Unfinished(process, p)) - 1
        BY <4>3, <1>9, <1>10, FS_RemoveElement
      <4>5. process[p].children \in Nat /\ process[p].finishedChildren \in Nat
        BY <1>1, TypeFacts DEF IInv
      <4> QED BY <4>2, <4>4, <4>5, <2>1, <1>1, <1>2
    <3> QED BY <3>1, <3>2
  <2> QED BY <2>1, <2>2, <2>3, <1>1, <1>2, <1>6
<1> QED BY <1>4, <1>5, <1>6, <1>11 DEF FamilyOK

(* What Termination does to the ready list: a parent that has counted its last child is not *)
(* on it and comes back.                                                                    *)
TerminatedQueue(t, q) ==
  IF Running.parent # NoParent /\ process[Running.parent].waiting /\ ~t[Running.parent].waiting
    THEN q = Insert(t, ready, Running.parent) /\ ~process[Running.parent].deleted
    ELSE q = ready

LEMMA TerminatedReady ==
  ASSUME IInv, at = "code", Cardinality(Running.done) + 1 = Running.threads,
         NEW t, Terminated(t), NEW q, TerminatedQueue(t, q)
  PROVE  FinishPre(t, q)
<1>1. FieldsOK(t)
  BY TerminatedFields
<1>2. /\ FamilyOK(t) /\ \A p : Children(t, p) = Children(process, p)
      /\ \A p \in created : ThreadsOf(t[p], p = current)
      /\ Cardinality(t[current].done) = t[current].threads
  BY <1>1, TerminatedFamily
<1>3. /\ current \in created /\ created \subseteq Everybody /\ Running = process[current]
      /\ Running.parent \in created \cup {NoParent} /\ NoParent \notin created
  <2>1. current \in created /\ created \subseteq Everybody /\ Running = process[current]
    BY LiveFacts DEF Everybody
  <2> QED BY <2>1, TypeFacts DEF IInv
<1>4. /\ ready \in Seq(created) /\ In(ready) \subseteq created
      /\ Once(ready) /\ Sorted(process, ready) /\ current \notin In(ready)
      /\ \A p \in In(ready) : p \in Everybody /\ ~process[p].deleted /\ process[p].threads > 0
      /\ \A p \in created : process[p].priority \in Nat
  BY ReadyFacts
<1>5. \A p \in created : /\ t[p].priority = process[p].priority
                         /\ t[p].threads = process[p].threads
                         /\ t[p].deleted = process[p].deleted
                         /\ p # current => t[p].done = process[p].done
                         /\ p # Running.parent => t[p].waiting = process[p].waiting
  BY <1>3 DEF Terminated, SameFamily
<1>6. Sorted(t, ready) /\ \A p \in created : t[p].priority \in Nat
  <2>1. \A p \in created : t[p].priority \in Nat
    BY <1>4, <1>5
  <2>2. \A p \in created : t[p].priority = process[p].priority
    BY <1>5
  <2> QED BY <1>4, <2>1, <2>2, SortedSame
<1>7. \A p \in In(ready) : process[p].waiting => \A c \in Children(process, p) : Before(ready, p, c)
  BY DEF IInv, ParentFirst
<1>8. ASSUME NEW p \in created, t[p].waiting PROVE process[p].waiting
  <2>1. CASE p = Running.parent
    BY <2>1, <1>3, <1>8 DEF Terminated
  <2>2. CASE p # Running.parent
    BY <2>2, <1>5, <1>8
  <2> QED BY <2>1, <2>2
<1>9. ~randomSlice => \A p \in created : p = current \/ p \in In(ready) \/ process[p].waiting
                                           \/ Cardinality(process[p].done) = process[p].threads
  BY DEF IInv, FixedSliceInv, allFinished
<1> DEFINE parent == Running.parent
           last == parent # NoParent /\ process[parent].waiting /\ ~t[parent].waiting
<1>10. CASE ~last
  <2>1. q = ready
    BY <1>10 DEF TerminatedQueue
  <2>2. \A p \in In(q) : t[p].waiting => \A c \in Children(t, p) : Before(q, p, c)
    BY <2>1, <1>2, <1>4, <1>7, <1>8
  <2>3. \A p \in In(q) : p # current /\ ~t[p].deleted /\ t[p].threads > 0
    BY <2>1, <1>4, <1>5
  <2>4. ASSUME ~randomSlice, NEW p \in created
        PROVE  p \in In(q) \/ Cardinality(t[p].done) = t[p].threads \/ t[p].waiting
    <3>1. CASE p = current
      BY <3>1, <1>2
    <3>2. CASE p # current
      <4>1. p \in In(ready) \/ process[p].waiting \/ Cardinality(process[p].done) = process[p].threads
        BY <2>4, <3>2, <1>9
      <4>2. process[p].waiting => t[p].waiting
        <5>1. CASE p = Running.parent
          BY <5>1, <1>3, <1>10
        <5>2. CASE p # Running.parent
          BY <5>2, <1>5
        <5> QED BY <5>1, <5>2
      <4> QED BY <4>1, <4>2, <3>2, <2>1, <1>5
    <3> QED BY <3>1, <3>2
  <2> QED BY <1>1, <1>2, <1>4, <1>6, <2>1, <2>2, <2>3, <2>4 DEF FinishPre
<1>11. CASE last
  <2>1. q = Insert(t, ready, parent) /\ ~process[parent].deleted
    BY <1>11 DEF TerminatedQueue
  <2>2. parent \in created /\ process[parent].waiting /\ ~t[parent].waiting
    BY <1>3, <1>11
  <2>3. parent # current /\ process[parent].threads > 0
    BY <2>2, <1>3, <1>11 DEF IInv, FamilyInv, FamilyOK
  <2>4. parent \notin In(ready)
    <3>1. SUFFICES ASSUME parent \in In(ready) PROVE FALSE
      OBVIOUS
    <3>2. current \in Children(process, parent)
      BY <1>3 DEF Children, created
    <3>3. Before(ready, parent, current)
      BY <3>1, <3>2, <2>2, <1>7
    <3> QED BY <3>3, <1>4, ReadySubset
  <2> HIDE DEF last, parent
  <2>5. /\ q \in Seq(created) /\ Len(q) = Len(ready) + 1
        /\ Once(q) /\ Sorted(t, q) /\ In(q) = In(ready) \cup {parent}
        /\ \A x, y : Before(ready, x, y) => Before(q, x, y)
    BY <2>1, <2>2, <2>4, <1>4, <1>6, InsertQueue
  <2>6. \A p \in In(q) : t[p].waiting => \A c \in Children(t, p) : Before(q, p, c)
    BY <2>2, <2>5, <1>2, <1>4, <1>7, <1>8
  <2>7. \A p \in In(q) : p # current /\ ~t[p].deleted /\ t[p].threads > 0
    BY <2>1, <2>2, <2>3, <2>5, <1>4, <1>5
  <2>8. ASSUME ~randomSlice, NEW p \in created
        PROVE  p \in In(q) \/ Cardinality(t[p].done) = t[p].threads \/ t[p].waiting
    <3>1. CASE p = current
      BY <3>1, <1>2
    <3>2. CASE p = parent
      BY <3>2, <2>5
    <3>3. CASE p # current /\ p # parent
      <4>1. p \in In(ready) \/ process[p].waiting \/ Cardinality(process[p].done) = process[p].threads
        BY <2>8, <3>3, <1>9
      <4> QED BY <4>1, <3>3, <2>5, <1>5 DEF parent
    <3> QED BY <3>1, <3>2, <3>3
  <2>9. q # <<>>
    BY <2>5, <1>4
  <2> QED BY <1>1, <1>2, <2>5, <2>6, <2>7, <2>8, <2>9 DEF FinishPre
<1> QED BY <1>10, <1>11


LEMMA TerminateStep == IInv /\ Terminate => IInv'
<1> SUFFICES ASSUME IInv, Terminate PROVE IInv'
  OBVIOUS
<1> DEFINE s == FinishThread
           parent == Running.parent
           counted == parent # NoParent /\ process[parent].waiting
           last == counted /\ LastChild(s, parent)
           s1 == IF counted THEN CountChild(s, parent) ELSE s
           s2 == IF last THEN WakeParent(s1, parent) ELSE s1
           q == IF last THEN Insert(s2, ready, parent) ELSE ready
<1>1. /\ at = "code" /\ Cardinality(Running.done) + 1 = Running.threads
      /\ IF last /\ process[parent].deleted
           THEN at' = "crashed" /\ process' = process /\ ready' = ready /\ current' = current
           ELSE RunFinishing(s2, q, TRUE)
      /\ left' = left /\ due' = due /\ randomSlice' = randomSlice
  BY DEF Terminate, CountChild, WakeParent
<1>2. /\ current \in created /\ created \subseteq Everybody /\ Running = process[current]
      /\ current \in Everybody
      /\ parent \in created \cup {NoParent} /\ NoParent \notin created /\ TypeInv
  <2>1. current \in created /\ created \subseteq Everybody /\ Running = process[current]
    BY <1>1, LiveFacts DEF Everybody
  <2> QED BY <2>1, TypeFacts DEF IInv
<1>3. CASE last /\ process[parent].deleted
  <2>1. /\ at' = "crashed" /\ process' = process /\ ready' = ready /\ current' = current
        /\ at # "main"
    BY <1>1, <1>3
  <2> HIDE DEF last, parent
  <2>2. created' = created /\ DOMAIN process' = Everybody
    BY <2>1, TypeFacts DEF created, IInv
  <2>3. TypeInv'
    BY <1>1, <2>1, <2>2 DEF IInv, TypeInv, FieldsOK
  <2>4. ThreadInv' /\ RunningInv' /\ MainInv'
    BY <2>1, <2>2 DEF IInv, ThreadInv, RunningInv, MainInv
  <2>5. FamilyInv'
    BY <2>1, <2>2 DEF IInv, FamilyInv, FamilyOK
  <2>6. ReadyInv' /\ ParentFirst'
    BY <2>1, <2>2, <2>3, QueueSame
  <2>7. FixedSliceInv'
    BY <1>1, <2>1, <2>2 DEF IInv, FixedSliceInv, allFinished
  <2> QED BY <2>3, <2>4, <2>5, <2>6, <2>7 DEF IInv
<1>4. CASE ~(last /\ process[parent].deleted)
  <2>1. /\ s \in [Everybody -> Field] /\ SameFamily(process, s)
        /\ \A p \in Everybody : /\ s[p].list = process[p].list /\ s[p].thread = process[p].thread
                                /\ s[p].deleted = process[p].deleted
                                /\ p # current => s[p].done = process[p].done
                                /\ s[p].waiting = process[p].waiting
                                /\ s[p].finishedChildren = process[p].finishedChildren
                                /\ s[p].children = process[p].children
        /\ s[current].done = Running.done \cup {Running.thread}
    BY <1>1, FinishThreadEffect DEF SameFamily
  <2> HIDE DEF s
  <2>2. /\ s1 \in [Everybody -> Field] /\ SameFamily(s, s1)
        /\ \A p \in Everybody : /\ s1[p].list = s[p].list /\ s1[p].thread = s[p].thread
                                /\ s1[p].deleted = s[p].deleted /\ s1[p].done = s[p].done
                                /\ s1[p].waiting = s[p].waiting
                                /\ p # parent => s1[p].finishedChildren = s[p].finishedChildren
        /\ counted => s1[parent].finishedChildren = s[parent].finishedChildren + 1
    <3>1. CASE counted
      <4>1. parent \in Everybody /\ s1 = CountChild(s, parent)
        BY <1>2, <3>1
      <4> HIDE DEF s1, parent, counted
      <4> QED BY <2>1, <4>1, CountEffect
    <3>2. CASE ~counted
      BY <2>1, <3>2 DEF SameFamily
    <3> QED BY <3>1, <3>2
  <2>3. last <=> counted /\ s1[parent].finishedChildren = s[parent].children
    BY <2>2 DEF LastChild
  <2>4. ~counted => s1 = s
    OBVIOUS
  <2> HIDE DEF s1
  <2>5. /\ s2 \in [Everybody -> Field] /\ SameFamily(s1, s2)
        /\ \A p \in Everybody : /\ s2[p].list = s1[p].list /\ s2[p].thread = s1[p].thread
                                /\ s2[p].deleted = s1[p].deleted /\ s2[p].done = s1[p].done
                                /\ s2[p].finishedChildren = s1[p].finishedChildren
                                /\ p # parent => s2[p].waiting = s1[p].waiting
        /\ last => ~s2[parent].waiting
        /\ ~last => s2 = s1
    <3>1. CASE last
      <4>1. parent \in Everybody /\ s2 = WakeParent(s1, parent)
        BY <1>2, <3>1
      <4> HIDE DEF s2, parent, last
      <4> QED BY <2>2, <3>1, <4>1, WakeEffect
    <3>2. CASE ~last
      BY <2>2, <3>2 DEF SameFamily
    <3> QED BY <3>1, <3>2
  <2> HIDE DEF s2, last
  <2>6. SameFamily(process, s2)
    BY <2>1, <2>2, <2>5 DEF SameFamily
  <2>7. parent # NoParent =>
          IF process[parent].waiting
            THEN /\ s2[parent].finishedChildren = process[parent].finishedChildren + 1
                 /\ s2[parent].waiting <=> s2[parent].finishedChildren # s2[parent].children
            ELSE /\ s2[parent].finishedChildren = process[parent].finishedChildren
                 /\ ~s2[parent].waiting
    <3>1. SUFFICES ASSUME parent # NoParent
                   PROVE  IF process[parent].waiting
            THEN /\ s2[parent].finishedChildren = process[parent].finishedChildren + 1
                 /\ s2[parent].waiting <=> s2[parent].finishedChildren # s2[parent].children
            ELSE /\ s2[parent].finishedChildren = process[parent].finishedChildren
                 /\ ~s2[parent].waiting
      OBVIOUS
    <3>2. parent \in Everybody
      BY <3>1, <1>2
    <3>3. s2[parent].children = s[parent].children
      BY <3>2, <2>1, <2>6 DEF SameFamily
    <3>4. CASE counted
      <4>1. s2[parent].finishedChildren = process[parent].finishedChildren + 1
        BY <3>2, <3>4, <2>1, <2>2, <2>5
      <4>2. last <=> s2[parent].finishedChildren = s2[parent].children
        BY <3>2, <3>3, <3>4, <2>3, <2>5
      <4>3. CASE last
        BY <3>4, <4>1, <4>2, <4>3, <2>5
      <4>4. CASE ~last
        BY <3>2, <3>4, <4>1, <4>2, <4>4, <2>1, <2>2, <2>5
      <4> QED BY <4>3, <4>4
    <3>5. CASE ~counted
      BY <3>1, <3>2, <3>5, <2>1, <2>3, <2>4, <2>5
    <3> QED BY <3>4, <3>5
  <2>8. \A p \in Everybody : /\ s2[p].list = process[p].list /\ s2[p].thread = process[p].thread
                             /\ s2[p].deleted = process[p].deleted
                             /\ p # current => s2[p].done = process[p].done
                             /\ p # parent => /\ s2[p].waiting = process[p].waiting
                                              /\ s2[p].finishedChildren = process[p].finishedChildren
    BY <2>1, <2>2, <2>5
  <2>9. s2[current].done = Running.done \cup {Running.thread}
    BY <1>2, <2>1, <2>2, <2>5
  <2>10. Terminated(s2)
    BY <2>5, <2>6, <2>7, <2>8, <2>9 DEF Terminated
  <2>11. last <=> parent # NoParent /\ process[parent].waiting /\ ~s2[parent].waiting
    BY <1>2, <2>1, <2>2, <2>3, <2>5
  <2>12. TerminatedQueue(s2, q)
    BY <1>4, <2>11 DEF TerminatedQueue
  <2>13. FinishPre(s2, q)
    <3> HIDE DEF q
    <3> QED BY <1>1, <2>10, <2>12, TerminatedReady
  <2>14. RunFinishing(s2, q, TRUE)
    BY <1>1, <1>4
  <2> HIDE DEF q
  <2> QED BY <1>1, <1>2, <2>13, <2>14, RunFinishingStep
<1> QED BY <1>3, <1>4


-----------------------------------------------------------------------------
(* The main program                                                                         *)

LEMMA MainFacts ==
  ASSUME IInv, at = "main"
  PROVE  /\ current = Main
         /\ \A p \in created :
              /\ process[p].done = {} /\ process[p].list = 1 .. process[p].threads
              /\ process[p].finishedChildren = 0 /\ ~process[p].deleted
              /\ process[p].threads > 0 => p \in In(ready)
         /\ \A p \in In(ready) : \A c \in Children(process, p) : Before(ready, p, c)
BY DEF IInv, RunningInv, MainInv, ParentFirst

(* Most of the invariant is plain as long as nothing has run. *)
LEMMA MainStep ==
  ASSUME TypeInv', FamilyInv', at' = "main", current' = Main,
         \A p \in created' :
              /\ process'[p].done = {} /\ process'[p].list = 1 .. process'[p].threads
              /\ process'[p].finishedChildren = 0 /\ ~process'[p].deleted
              /\ process'[p].threads > 0 => p \in In(ready'),
         Once(ready'), Sorted(process', ready'), \A p \in In(ready') : process'[p].threads > 0,
         \A p \in In(ready') : \A c \in Children(process', p) : Before(ready', p, c)
  PROVE  IInv'
<1>1. /\ ready' \in Seq(created') /\ In(ready') \subseteq created' /\ Main \notin created'
      /\ \A p \in created' : process'[p].threads \in Nat
  <2>1. ready' \in Seq(created')
    BY DEF TypeInv
  <2>2. Main \notin created'
    BY DEF created
  <2>3. process' \in [created' \cup {Main} -> Field]
    BY DEF TypeInv, FieldsOK
  <2>4. \A p \in created' : process'[p].threads \in 0 .. MaxThread
    BY <2>3 DEF Field
  <2> QED BY <2>1, <2>2, <2>4, ReadySubset, ThreadNat
<1>2. ThreadInv'
  <2>1. ASSUME NEW p \in created' PROVE ThreadsOf(process'[p], p = current')
    <3>1. p # current'
      BY <1>1
    <3>2. process'[p].threads > 0 => 1 \in 1 .. process'[p].threads
      BY <1>1
    <3> QED BY <3>1, <3>2 DEF ThreadsOf
  <2> QED BY <2>1 DEF ThreadInv
<1>3. RunningInv' /\ MainInv'
  BY DEF RunningInv, MainInv, In
<1>4. ReadyInv'
  <2>1. HighestPriorityRuns'
    BY DEF HighestPriorityRuns
  <2>2. \A p \in In(ready') : p # current' /\ ~process'[p].deleted
    BY <1>1
  <2> QED BY <2>1, <2>2 DEF ReadyInv, In, Once
<1>5. ParentFirst'
  BY DEF ParentFirst, In, Before, Children
<1>6. FixedSliceInv'
  <2>1. ASSUME NEW p \in created' PROVE p \in In(ready') \/ allFinished(p)'
    <3>1. CASE process'[p].threads > 0
      BY <3>1
    <3>2. CASE ~(process'[p].threads > 0)
      <4>1. process'[p].threads = 0 /\ process'[p].done = {}
        BY <3>2, <1>1
      <4>2. Cardinality({}) = 0
        BY FS_EmptySet
      <4> QED BY <4>1, <4>2 DEF allFinished
    <3> QED BY <3>1, <3>2
  <2> QED BY <2>1 DEF FixedSliceInv, In
<1> QED BY <1>2, <1>3, <1>4, <1>5, <1>6 DEF IInv

LEMMA NewField ==
  ASSUME NEW prior \in Nat, NEW parent \in Pid \cup {NoParent}, NEW n \in 0 .. MaxThread,
         NEW f, f = New(prior, parent, n)
  PROVE  /\ f \in Field /\ f.priority = prior /\ f.parent = parent /\ ~f.waiting
         /\ f.children = 0 /\ f.finishedChildren = 0 /\ f.threads = n /\ f.list = 1 .. n
         /\ f.done = {} /\ ~f.deleted
<1>1. 1 .. n \subseteq Thread /\ 1 \in Thread /\ {} \subseteq Thread
  BY ThreadNat DEF Thread
<1>2. 0 \in -1 .. TimeQuantum - 1
  BY ProcessAssumption
<1> QED BY <1>1, <1>2 DEF New, Field

LEMMA CreateEffect ==
  ASSUME NEW new, NEW s, TypeInv, NextPid <= Bound, new \in Field, s = Create(NextPid, new)
  PROVE  /\ NextPid \in Pid /\ NextPid \notin Everybody /\ NextPid # Main
         /\ s \in [Everybody \cup {NextPid} -> Field] /\ s[NextPid] = new
         /\ \A p \in Everybody : s[p] = process[p]
         /\ created \cup {NextPid} = 1 .. NextPid /\ Cardinality(created \cup {NextPid}) = NextPid
         /\ NextPid <= MaxProcess /\ NextPid \in Nat
         /\ (Everybody \cup {NextPid}) \ {Main} = created \cup {NextPid}
<1>1. /\ process \in [Everybody -> Field] /\ DOMAIN process = Everybody /\ Main \notin created
      /\ created = 1 .. Cardinality(created) /\ Cardinality(created) \in Nat
  BY TypeFacts DEF TypeInv
<1>2. Bound <= MaxProcess /\ MaxProcess \in Nat
  BY ProcessAssumption DEF Bound
<1> DEFINE n == Cardinality(created)
<1>3. /\ n \in Nat /\ created = 1 .. n /\ NextPid = n + 1 /\ n + 1 <= Bound
  BY <1>1 DEF NextPid
<1>4. Bound \in Nat
  BY ProcessAssumption DEF Bound
<1> HIDE DEF n
<1>5. /\ NextPid \in Pid /\ NextPid \notin Everybody /\ NextPid # Main
      /\ created \cup {NextPid} = 1 .. NextPid /\ NextPid <= MaxProcess /\ NextPid \in Nat
  BY <1>2, <1>3, <1>4 DEF Pid, Everybody, Main
<1>6. Cardinality(1 .. NextPid) = NextPid
  BY <1>5, <1>3, FS_Interval
<1>7. Cardinality(created \cup {NextPid}) = NextPid
  BY <1>5, <1>6, Zenon
<1>8. /\ s \in [Everybody \cup {NextPid} -> Field] /\ s[NextPid] = new
      /\ \A p \in Everybody : s[p] = process[p]
  BY <1>1, <1>5 DEF Create
<1>9. (Everybody \cup {NextPid}) \ {Main} = created \cup {NextPid}
  BY <1>1, <1>5 DEF Everybody
<1> QED BY <1>5, <1>7, <1>8, <1>9


(* Children of a process that is only just there: none. *)
LEMMA NewProcessStep == IInv /\ NewProcess => IInv'
<1> SUFFICES ASSUME IInv, NewProcess PROVE IInv'
  OBVIOUS
<1>1. PICK prior \in Priority : process' = Create(NextPid, New(prior, NoParent, 0))
  BY DEF NewProcess
<1>2. /\ current = Main /\ at = "main" /\ NextPid <= Bound /\ SetUp
      /\ left' = left /\ ready' = ready /\ current' = current /\ at' = at /\ due' = due
      /\ randomSlice' = randomSlice
  BY DEF NewProcess
<1> DEFINE new == New(prior, NoParent, 0)
           n == NextPid
<1>3. /\ new \in Field /\ new.parent = NoParent /\ ~new.waiting
      /\ new.children = 0 /\ new.finishedChildren = 0 /\ new.threads = 0 /\ new.list = {}
      /\ new.done = {} /\ ~new.deleted
  <2>1. prior \in Nat /\ 0 \in 0 .. MaxThread /\ 1 .. 0 = {}
    BY ThreadNat, ProcessAssumption
  <2> QED BY <2>1, NewField
<1> HIDE DEF new
<1>4. /\ n \notin Everybody /\ n # Main
      /\ process' \in [Everybody \cup {n} -> Field] /\ process'[n] = new
      /\ \A p \in Everybody : process'[p] = process[p]
      /\ created \cup {n} = 1 .. n /\ Cardinality(created \cup {n}) = n
      /\ n <= MaxProcess /\ n \in Nat
      /\ (Everybody \cup {n}) \ {Main} = created \cup {n}
  <2> DEFINE s == process'
  <2>1. TypeInv /\ NextPid <= Bound /\ new \in Field /\ s = Create(NextPid, new)
    BY <1>1, <1>2, <1>3 DEF IInv, new
  <2> HIDE DEF s
  <2>2. /\ NextPid \notin Everybody /\ NextPid # Main
        /\ s \in [Everybody \cup {NextPid} -> Field] /\ s[NextPid] = new
        /\ \A p \in Everybody : s[p] = process[p]
        /\ created \cup {NextPid} = 1 .. NextPid
        /\ Cardinality(created \cup {NextPid}) = NextPid
        /\ NextPid <= MaxProcess /\ NextPid \in Nat
        /\ (Everybody \cup {NextPid}) \ {Main} = created \cup {NextPid}
    BY <2>1, CreateEffect
  <2> QED BY <2>2 DEF s
<1> HIDE DEF n
<1>5. created' = created \cup {n} /\ created \subseteq Everybody /\ n # NoParent /\ n \notin created
  BY <1>4 DEF created, Everybody, NoParent
<1>6. /\ FieldsOK(process) /\ ready \in Seq(created) /\ In(ready) \subseteq created
      /\ \A p \in created : process[p].parent \in created \cup {NoParent}
      /\ DOMAIN process = Everybody
  BY <1>5, TypeFacts, ReadySubset DEF IInv, TypeInv
<1>7. TypeInv'
  <2>1. FieldsOK(process)'
    BY <1>3, <1>4, <1>5, <1>6 DEF FieldsOK, Everybody
  <2>2. ready' \in Seq(created')
    BY <1>2, <1>5, <1>6
  <2>3. /\ Cardinality(created') = n /\ created' = 1 .. n
        /\ current' \in created' \cup {Main}
    BY <1>2, <1>4, <1>5
  <2> QED BY <2>1, <2>2, <2>3, <1>2, <1>4 DEF IInv, TypeInv
<1>8. \A p \in Everybody : Children(process', p) = Children(process, p)
  BY <1>3, <1>4, <1>5, <1>6 DEF Children, Everybody, NoParent, Main
<1>9. Children(process', n) = {}
  BY <1>3, <1>4, <1>5, <1>6 DEF Children
<1>10. FamilyInv'
  <2>1. FamilyOK(process)
    BY DEF IInv, FamilyInv
  <2>2. ASSUME NEW p \in created'
        PROVE  /\ process'[p].parent # p
               /\ process'[p].parent # NoParent =>
                    process'[p].threads > 0 /\ process'[process'[p].parent].threads > 0
               /\ process'[p].children = Cardinality(Children(process', p))
               /\ ~process'[p].waiting
    <3>1. CASE p = n
      <4>1. Cardinality({}) = 0
        BY FS_EmptySet
      <4> QED BY <3>1, <4>1, <1>3, <1>4, <1>5, <1>9
    <3>2. CASE p # n
      <4>1. p \in created /\ p \in Everybody /\ ~process[p].waiting
        BY <3>2, <1>2, <1>5 DEF SetUp
      <4> QED BY <4>1, <2>1, <1>4, <1>5, <1>6, <1>8 DEF FamilyOK
    <3> QED BY <3>1, <3>2
  <2> QED BY <2>2 DEF FamilyInv, FamilyOK
<1>11. \A p \in created' :
              /\ process'[p].done = {} /\ process'[p].list = 1 .. process'[p].threads
              /\ process'[p].finishedChildren = 0 /\ ~process'[p].deleted
              /\ process'[p].threads > 0 => p \in In(ready')
  <2>1. ASSUME NEW p \in created'
        PROVE  /\ process'[p].done = {} /\ process'[p].list = 1 .. process'[p].threads
               /\ process'[p].finishedChildren = 0 /\ ~process'[p].deleted
               /\ process'[p].threads > 0 => p \in In(ready')
    <3>1. CASE p = n
      <4>1. new.list = 1 .. new.threads
        <5>1. 1 .. 0 = {}
          OBVIOUS
        <5> QED BY <5>1, <1>3, Zenon
      <4>2. process'[p] = new
        BY <3>1, <1>4
      <4> QED BY <4>1, <4>2, <1>3
    <3>2. CASE p # n
      BY <3>2, <1>2, <1>4, <1>5, MainFacts
    <3> QED BY <3>1, <3>2
  <2> QED BY <2>1
<1>12. /\ Once(ready') /\ Sorted(process', ready')
       /\ \A p \in In(ready') : process'[p].threads > 0
       /\ \A p \in In(ready') : \A c \in Children(process', p) : Before(ready', p, c)
  <2>1. Sorted(process', ready)
    BY <1>4, <1>5, <1>6, SortedSame DEF IInv, ReadyInv
  <2>2. \A p \in In(ready) : process'[p].threads > 0
    BY <1>4, <1>5, <1>6 DEF IInv, ReadyInv
  <2>3. \A p \in In(ready) : \A c \in Children(process', p) : Before(ready, p, c)
    BY <1>2, <1>5, <1>6, <1>8, MainFacts
  <2>4. Once(ready)
    BY DEF IInv, ReadyInv
  <2> QED BY <1>2, <2>1, <2>2, <2>3, <2>4
<1> QED BY <1>2, <1>7, <1>10, <1>11, <1>12, MainStep

LEMMA JoinStep == ASSUME NEW p \in created PROVE IInv /\ Join(p) => IInv'
<1> SUFFICES ASSUME IInv, Join(p) PROVE IInv'
  OBVIOUS
<1>1. /\ current = Main /\ at = "main" /\ process[p].children > 0
      /\ process' = [process EXCEPT ![p].waiting = TRUE]
      /\ left' = left /\ ready' = ready /\ current' = current /\ at' = at /\ due' = due
      /\ randomSlice' = randomSlice
  BY DEF Join
<1>2. /\ process \in [Everybody -> Field] /\ DOMAIN process = Everybody
      /\ created \subseteq Everybody /\ p \in Everybody /\ Main \notin created
      /\ ready \in Seq(created) /\ In(ready) \subseteq created /\ FieldsOK(process)
  BY TypeFacts, ReadySubset DEF IInv, TypeInv, Everybody
<1>3. /\ process' \in [Everybody -> Field] /\ process'[p].waiting
      /\ \A r \in Everybody :
           /\ process'[r].priority = process[r].priority
           /\ process'[r].parent = process[r].parent
           /\ process'[r].children = process[r].children
           /\ process'[r].finishedChildren = process[r].finishedChildren
           /\ process'[r].threads = process[r].threads
           /\ process'[r].list = process[r].list
           /\ process'[r].done = process[r].done
           /\ process'[r].deleted = process[r].deleted
           /\ r # p => process'[r].waiting = process[r].waiting
  <2> DEFINE e == [process[p] EXCEPT !.waiting = TRUE]
  <2>1. /\ process'[p] = e /\ \A r \in Everybody : r # p => process'[r] = process[r]
        /\ DOMAIN process' = Everybody /\ process' = [r \in DOMAIN process' |-> process'[r]]
    BY <1>1, <1>2
  <2>2. /\ e \in Field /\ e.waiting
        /\ e.priority = process[p].priority /\ e.parent = process[p].parent
        /\ e.children = process[p].children /\ e.finishedChildren = process[p].finishedChildren
        /\ e.threads = process[p].threads /\ e.list = process[p].list
        /\ e.done = process[p].done /\ e.deleted = process[p].deleted
    BY <1>2 DEF Field
  <2> HIDE DEF e
  <2> QED BY <1>2, <2>1, <2>2
<1>4. created' = created
  BY <1>3, CreatedSame
<1>5. /\ \A r \in created :
              /\ process[r].done = {} /\ process[r].list = 1 .. process[r].threads
              /\ process[r].finishedChildren = 0 /\ ~process[r].deleted
              /\ process[r].threads > 0 => r \in In(ready)
      /\ \A r \in In(ready) : \A c \in Children(process, r) : Before(ready, r, c)
  BY <1>1, MainFacts
<1>6. TypeInv'
  <2>1. FieldsOK(process)'
    BY <1>1, <1>2, <1>3, <1>4, <1>5 DEF FieldsOK, Everybody
  <2> QED BY <2>1, <1>1, <1>4 DEF IInv, TypeInv
<1>7. \A r : Children(process', r) = Children(process, r) /\ Children(process, r) \subseteq created
  BY <1>2, <1>3 DEF Children, created
<1>8. \A r : Unfinished(process', r) = Unfinished(process, r)
  BY <1>2, <1>3, <1>7 DEF Unfinished
<1>9. FamilyInv'
  <2>1. FamilyOK(process)
    BY DEF IInv, FamilyInv
  <2>2. Unfinished(process, p) = Children(process, p)
    <3>1. ASSUME NEW c \in Children(process, p)
          PROVE  Cardinality(process[c].done) # process[c].threads
      <4>1. c \in created /\ process[c].parent = p /\ p # NoParent
        BY <1>2, <1>7, TypeFacts DEF Children, IInv
      <4>2. process[c].threads > 0 /\ process[c].done = {}
        BY <4>1, <2>1, <1>5 DEF FamilyOK
      <4> QED BY <4>2, FS_EmptySet
    <3> QED BY <3>1 DEF Unfinished
  <2>3. ASSUME NEW r \in created
        PROVE  /\ process'[r].parent # r
               /\ process'[r].parent # NoParent =>
                    process'[r].threads > 0 /\ process'[process'[r].parent].threads > 0
               /\ process'[r].children = Cardinality(Children(process', r))
               /\ process'[r].waiting => Cardinality(Unfinished(process', r))
                                           = process'[r].children - process'[r].finishedChildren
    <3>1. /\ process[r].parent # r
          /\ process[r].parent # NoParent =>
               process[r].threads > 0 /\ process[process[r].parent].threads > 0
          /\ process[r].children = Cardinality(Children(process, r))
          /\ process[r].waiting => Cardinality(Unfinished(process, r))
                                     = process[r].children - process[r].finishedChildren
      BY <2>1 DEF FamilyOK
    <3>2. process[r].parent \in created \cup {NoParent} /\ process[r].children \in Nat
      BY <1>2, TypeFacts DEF IInv
    <3>3. process'[r].waiting => Cardinality(Unfinished(process', r))
                                   = process'[r].children - process'[r].finishedChildren
      <4>1. CASE r = p
        BY <4>1, <3>1, <3>2, <2>2, <1>2, <1>3, <1>5, <1>8
      <4>2. CASE r # p
        BY <4>2, <3>1, <1>2, <1>3, <1>8
      <4> QED BY <4>1, <4>2
    <3> QED BY <3>1, <3>2, <3>3, <1>2, <1>3, <1>7
  <2> QED BY <2>3, <1>4 DEF FamilyInv, FamilyOK
<1>10. /\ Once(ready') /\ Sorted(process', ready')
       /\ \A r \in In(ready') : process'[r].threads > 0
       /\ \A r \in In(ready') : \A c \in Children(process', r) : Before(ready', r, c)
  <2>1. Sorted(process', ready)
    BY <1>2, <1>3, SortedSame DEF IInv, ReadyInv
  <2>2. \A r \in In(ready) : process'[r].threads > 0
    BY <1>2, <1>3 DEF IInv, ReadyInv
  <2>3. Once(ready)
    BY DEF IInv, ReadyInv
  <2> QED BY <1>1, <1>5, <1>7, <2>1, <2>2, <2>3
<1>11. \A r \in created' :
              /\ process'[r].done = {} /\ process'[r].list = 1 .. process'[r].threads
              /\ process'[r].finishedChildren = 0 /\ ~process'[r].deleted
              /\ process'[r].threads > 0 => r \in In(ready')
  BY <1>1, <1>2, <1>3, <1>4, <1>5
<1> QED BY <1>1, <1>6, <1>9, <1>10, <1>11, MainStep


LEMMA ForkThreadStep == ASSUME NEW p \in created PROVE IInv /\ ForkThread(p) => IInv'
<1> SUFFICES ASSUME IInv, ForkThread(p) PROVE IInv'
  OBVIOUS
<1> DEFINE n == process[p].threads
<1>1. /\ current = Main /\ at = "main" /\ n < MaxThread /\ process[p].parent = NoParent
      /\ process' = [process EXCEPT ![p].threads = @ + 1, ![p].list = @ \cup {n + 1}]
      /\ ready' = IF n = 0 THEN Insert(process, ready, p) ELSE ready
      /\ left' = left /\ current' = current /\ at' = at /\ due' = due
      /\ randomSlice' = randomSlice
  BY DEF ForkThread
<1>2. /\ process \in [Everybody -> Field] /\ DOMAIN process = Everybody
      /\ created \subseteq Everybody /\ p \in Everybody /\ Main \notin created
      /\ n \in 0 .. MaxThread /\ FieldsOK(process) /\ NoParent \notin created
  BY TypeFacts DEF IInv, TypeInv, Everybody
<1>3. /\ \A r \in created :
              /\ process[r].done = {} /\ process[r].list = 1 .. process[r].threads
              /\ process[r].finishedChildren = 0 /\ ~process[r].deleted
              /\ process[r].threads > 0 => r \in In(ready)
      /\ \A r \in In(ready) : \A c \in Children(process, r) : Before(ready, r, c)
  BY <1>1, MainFacts
<1>4. n + 1 \in 0 .. MaxThread /\ 1 .. n + 1 = (1 .. n) \cup {n + 1} /\ (1 .. n + 1) \in SUBSET Thread
        /\ n + 1 > 0
  BY <1>1, <1>2, ThreadNat DEF Thread
<1>5. /\ process' \in [Everybody -> Field]
      /\ process'[p].threads = n + 1 /\ process'[p].list = 1 .. n + 1
      /\ \A r \in Everybody :
           /\ process'[r].priority = process[r].priority
           /\ process'[r].parent = process[r].parent
           /\ process'[r].children = process[r].children
           /\ process'[r].finishedChildren = process[r].finishedChildren
           /\ process'[r].waiting = process[r].waiting
           /\ process'[r].done = process[r].done
           /\ process'[r].deleted = process[r].deleted
           /\ r # p => process'[r] = process[r]
  <2> DEFINE e == [process[p] EXCEPT !.threads = n + 1, !.list = process[p].list \cup {n + 1}]
  <2>1. /\ process'[p] = e /\ \A r \in Everybody : r # p => process'[r] = process[r]
        /\ DOMAIN process' = Everybody /\ process' = [r \in DOMAIN process' |-> process'[r]]
    BY <1>1, <1>2
  <2>2. process[p].list \cup {n + 1} = 1 .. n + 1
    BY <1>3, <1>4
  <2>3. /\ e \in Field /\ e.threads = n + 1 /\ e.list = 1 .. n + 1
        /\ e.priority = process[p].priority /\ e.parent = process[p].parent
        /\ e.children = process[p].children /\ e.finishedChildren = process[p].finishedChildren
        /\ e.waiting = process[p].waiting /\ e.done = process[p].done
        /\ e.deleted = process[p].deleted
    BY <1>2, <1>4, <2>2 DEF Field
  <2> HIDE DEF e
  <2> QED BY <1>2, <2>1, <2>3
<1> HIDE DEF n
<1>6. created' = created
  BY <1>5, CreatedSame
<1>7. /\ ready \in Seq(created) /\ In(ready) \subseteq created
      /\ Once(ready) /\ Sorted(process, ready)
      /\ \A r \in In(ready) : process[r].threads > 0
      /\ \A r \in created : process[r].priority \in Nat
  BY ReadyFacts
<1>8. /\ ready' \in Seq(created) /\ Once(ready') /\ Sorted(process, ready')
      /\ In(ready') = In(ready) \cup {p}
      /\ \A x, y : Before(ready, x, y) => Before(ready', x, y)
  <2>1. CASE n = 0
    <3>1. p \notin In(ready)
      BY <2>1, <1>7 DEF n
    <3>2. ready' = Insert(process, ready, p)
      BY <2>1, <1>1
    <3> QED BY <3>1, <3>2, <1>7, InsertQueue
  <2>2. CASE n # 0
    <3>1. p \in In(ready)
      BY <2>2, <1>2, <1>3, ThreadNat DEF n
    <3> QED BY <2>2, <3>1, <1>1, <1>7
  <2> QED BY <2>1, <2>2
<1>9. TypeInv'
  <2>1. FieldsOK(process)'
    BY <1>2, <1>5, <1>6 DEF FieldsOK, Everybody
  <2> QED BY <2>1, <1>1, <1>6, <1>8 DEF IInv, TypeInv
<1>10. \A r : Children(process', r) = Children(process, r) /\ Children(process, r) \subseteq created
  BY <1>2, <1>5 DEF Children, created
<1>11. FamilyInv'
  <2>1. FamilyOK(process)
    BY DEF IInv, FamilyInv
  <2>2. \A r \in created : process'[r].threads = process[r].threads \/ r = p
    BY <1>2, <1>5
  <2>3. ASSUME NEW r \in created
        PROVE  /\ process'[r].parent # r
               /\ process'[r].parent # NoParent =>
                    process'[r].threads > 0 /\ process'[process'[r].parent].threads > 0
               /\ process'[r].children = Cardinality(Children(process', r))
               /\ process'[r].waiting => Cardinality(Unfinished(process', r))
                                           = process'[r].children - process'[r].finishedChildren
    <3>1. /\ process[r].parent # r
          /\ process[r].parent # NoParent =>
               process[r].threads > 0 /\ process[process[r].parent].threads > 0
          /\ process[r].children = Cardinality(Children(process, r))
          /\ process[r].waiting => Cardinality(Unfinished(process, r))
                                     = process[r].children - process[r].finishedChildren
      BY <2>1 DEF FamilyOK
    <3>2. process[r].parent \in created \cup {NoParent}
      BY <1>2, TypeFacts DEF IInv
    <3>3. Unfinished(process', r) = Unfinished(process, r)
      <4>1. p \notin Children(process, r)
        BY <1>1, <1>2 DEF Children
      <4> QED BY <4>1, <1>2, <1>5, <1>10 DEF Unfinished
    <3>4. process'[r].parent # NoParent =>
                    process'[r].threads > 0 /\ process'[process'[r].parent].threads > 0
      BY <3>1, <3>2, <2>2, <1>2, <1>4, <1>5
    <3> QED BY <3>1, <3>3, <3>4, <1>2, <1>5, <1>10
  <2> QED BY <2>3, <1>6 DEF FamilyInv, FamilyOK
<1>12. \A r \in created' :
              /\ process'[r].done = {} /\ process'[r].list = 1 .. process'[r].threads
              /\ process'[r].finishedChildren = 0 /\ ~process'[r].deleted
              /\ process'[r].threads > 0 => r \in In(ready')
  BY <1>2, <1>3, <1>5, <1>6, <1>8
<1>13. Once(ready') /\ Sorted(process', ready')
  BY <1>2, <1>5, <1>8, SortedSame
<1>14. \A r \in In(ready') : process'[r].threads > 0
  BY <1>2, <1>4, <1>5, <1>7, <1>8
<1>15. ASSUME NEW r \in In(ready'), NEW c \in Children(process', r) PROVE Before(ready', r, c)
  <2>1. CASE r \in In(ready)
    BY <2>1, <1>3, <1>8, <1>10
  <2>2. CASE r \notin In(ready)
    <3>1. r = p /\ ~(process[p].threads > 0)
      BY <2>2, <1>3, <1>8
    <3>2. c \in created /\ process[c].parent = p /\ p # NoParent
      <4>1. c \in Children(process, p)
        BY <3>1, <1>10
      <4> QED BY <4>1, <1>2, <1>10 DEF Children
    <3> QED BY <3>1, <3>2 DEF IInv, FamilyInv, FamilyOK
  <2> QED BY <2>1, <2>2
<1> QED BY <1>1, <1>9, <1>11, <1>12, <1>13, <1>14, <1>15, MainStep


LEMMA ForkProcessStep == ASSUME NEW p \in created PROVE IInv /\ ForkProcess(p) => IInv'
<1> SUFFICES ASSUME IInv, ForkProcess(p) PROVE IInv'
  OBVIOUS
<1> DEFINE new == New(process[p].priority, p, Cardinality(process[p].list))
           n == NextPid
           s == Create(n, new)
<1>1. /\ current = Main /\ at = "main" /\ n <= Bound /\ SetUp
      /\ process' = [s EXCEPT ![p].children = @ + 1]
      /\ ready' = Insert(process', ready, n)
      /\ left' = left /\ current' = current /\ at' = at /\ due' = due
      /\ randomSlice' = randomSlice
  BY DEF ForkProcess
<1>2. /\ process \in [Everybody -> Field] /\ DOMAIN process = Everybody
      /\ created \subseteq Everybody /\ p \in Everybody /\ Main \notin created
      /\ FieldsOK(process) /\ NoParent \notin created /\ created \subseteq Pid
      /\ process[p].priority \in Nat /\ process[p].threads \in 0 .. MaxThread
      /\ process[p].threads > 0 /\ process[p].children \in Nat
      /\ \A r \in created : ~process[r].waiting /\ process[r].threads > 0
      /\ \A r \in Everybody : process[r].parent \in created \cup {NoParent}
  <2>1. \A r \in created : ~process[r].waiting /\ process[r].threads > 0
    BY <1>1 DEF SetUp
  <2> QED BY <2>1, TypeFacts DEF IInv, TypeInv, Everybody
<1>3. /\ \A r \in created :
              /\ process[r].done = {} /\ process[r].list = 1 .. process[r].threads
              /\ process[r].finishedChildren = 0 /\ ~process[r].deleted
              /\ r \in In(ready)
      /\ \A r \in In(ready) : \A c \in Children(process, r) : Before(ready, r, c)
  BY <1>1, <1>2, MainFacts
<1>4. Cardinality(process[p].list) = process[p].threads
  <2>1. process[p].threads \in Int /\ process[p].threads >= 1
    BY <1>2, ThreadNat
  <2>2. Cardinality(1 .. process[p].threads)
          = IF 1 > process[p].threads THEN 0 ELSE process[p].threads - 1 + 1
    BY <2>1, FS_Interval
  <2>3. Cardinality(process[p].list) = Cardinality(1 .. process[p].threads)
    BY <1>3
  <2> QED BY <2>1, <2>2, <2>3
<1>5. /\ new \in Field /\ new.parent = p /\ ~new.waiting /\ new.priority = process[p].priority
      /\ new.children = 0 /\ new.finishedChildren = 0 /\ new.threads = process[p].threads
      /\ new.list = 1 .. new.threads /\ new.done = {} /\ ~new.deleted
  BY <1>2, <1>4, NewField
<1> HIDE DEF new
<1>6. /\ n \notin Everybody /\ n # Main
      /\ s \in [Everybody \cup {n} -> Field] /\ s[n] = new
      /\ \A r \in Everybody : s[r] = process[r]
      /\ created \cup {n} = 1 .. n /\ Cardinality(created \cup {n}) = n
      /\ n <= MaxProcess /\ n \in Nat
      /\ (Everybody \cup {n}) \ {Main} = created \cup {n}
  <2>1. TypeInv /\ NextPid <= Bound /\ new \in Field /\ s = Create(NextPid, new)
    BY <1>1, <1>5 DEF IInv
  <2> HIDE DEF s
  <2>2. /\ NextPid \notin Everybody /\ NextPid # Main
        /\ s \in [Everybody \cup {NextPid} -> Field] /\ s[NextPid] = new
        /\ \A r \in Everybody : s[r] = process[r]
        /\ created \cup {NextPid} = 1 .. NextPid
        /\ Cardinality(created \cup {NextPid}) = NextPid
        /\ NextPid <= MaxProcess /\ NextPid \in Nat
        /\ (Everybody \cup {NextPid}) \ {Main} = created \cup {NextPid}
    BY <2>1, CreateEffect
  <2> QED BY <2>2
<1> HIDE DEF n, s
<1>7. /\ process' \in [Everybody \cup {n} -> Field] /\ process'[n] = new
      /\ process'[p].children = process[p].children + 1
      /\ \A r \in Everybody :
           /\ process'[r].priority = process[r].priority
           /\ process'[r].parent = process[r].parent
           /\ process'[r].finishedChildren = process[r].finishedChildren
           /\ process'[r].waiting = process[r].waiting
           /\ process'[r].threads = process[r].threads
           /\ process'[r].list = process[r].list
           /\ process'[r].done = process[r].done
           /\ process'[r].deleted = process[r].deleted
           /\ r # p => process'[r] = process[r]
  <2> DEFINE k == s[p].children + 1
             e == [s[p] EXCEPT !.children = k]
  <2>1. /\ process'[p] = e /\ \A r \in Everybody \cup {n} : r # p => process'[r] = s[r]
        /\ DOMAIN process' = Everybody \cup {n} /\ process' = [r \in DOMAIN process' |-> process'[r]]
    BY <1>1, <1>2, <1>6
  <2>2. s[p] = process[p] /\ k = process[p].children + 1 /\ k \in Nat
    BY <1>2, <1>6
  <2> HIDE DEF k
  <2>3. /\ e \in Field /\ e.children = k
        /\ e.priority = process[p].priority /\ e.parent = process[p].parent
        /\ e.threads = process[p].threads /\ e.finishedChildren = process[p].finishedChildren
        /\ e.waiting = process[p].waiting /\ e.done = process[p].done
        /\ e.list = process[p].list /\ e.deleted = process[p].deleted
    BY <1>2, <2>2 DEF Field
  <2> HIDE DEF e
  <2>4. \A r \in Everybody : r # p => process'[r] = process[r]
    BY <2>1, <1>6
  <2>5. process'[n] = new
    BY <2>1, <1>2, <1>6
  <2>6. process' \in [Everybody \cup {n} -> Field]
    BY <2>1, <2>3, <1>6
  <2> QED BY <2>1, <2>2, <2>3, <2>4, <2>5, <2>6
<1>8. created' = created \cup {n} /\ n # NoParent /\ n \notin created
  BY <1>6, <1>7 DEF created, Everybody, NoParent
<1>9. /\ ready \in Seq(created) /\ In(ready) \subseteq created
      /\ Once(ready) /\ Sorted(process, ready)
      /\ \A r \in In(ready) : process[r].threads > 0
      /\ \A r \in created : process[r].priority \in Nat
  BY ReadyFacts
<1>10. /\ ready' \in Seq(created') /\ Once(ready') /\ Sorted(process', ready')
       /\ In(ready') = In(ready) \cup {n}
       /\ \A x, y : Before(ready, x, y) => Before(ready', x, y)
       /\ Before(ready', p, n)
  <2>1. ready \in Seq(created') /\ n \in created' /\ n \notin In(ready)
    BY <1>8, <1>9
  <2>2. Sorted(process', ready)
    BY <1>2, <1>7, <1>9, SortedSame
  <2>3. \A r \in created' : process'[r].priority \in Nat
    BY <1>2, <1>5, <1>7, <1>8, <1>9
  <2>4. p \in In(ready) /\ process'[n].priority <= process'[p].priority
    BY <1>2, <1>3, <1>5, <1>7
  <2>5. ready' = Insert(process', ready, n) /\ Once(ready)
    BY <1>1, <1>9
  <2>6. /\ ready' \in Seq(created') /\ Once(ready') /\ Sorted(process', ready')
        /\ In(ready') = In(ready) \cup {n}
        /\ \A x, y : Before(ready, x, y) => Before(ready', x, y)
        /\ \A x \in In(ready) : process'[n].priority <= process'[x].priority => Before(ready', x, n)
    BY <2>1, <2>2, <2>3, <2>5, InsertQueue
  <2> QED BY <2>4, <2>6
<1>11. TypeInv'
  <2>1. FieldsOK(process)'
    <3>1. ASSUME NEW r \in created' \cup {Main}
          PROVE  /\ process'[r].parent \in created' \cup {NoParent}
                 /\ process'[r].finishedChildren <= process'[r].children
                 /\ process'[r].waiting => process'[r].finishedChildren < process'[r].children
      <4>1. CASE r = n
        BY <4>1, <1>5, <1>7, <1>8
      <4>2. CASE r = p
        BY <4>2, <1>2, <1>3, <1>7, <1>8
      <4>3. CASE r # n /\ r # p
        <5>1. r \in Everybody /\ process'[r] = process[r]
          BY <4>3, <1>7, <1>8 DEF Everybody
        <5> QED BY <5>1, <1>2, <1>8 DEF FieldsOK, Everybody
      <4> QED BY <4>1, <4>2, <4>3
    <3>2. process' \in [created' \cup {Main} -> Field]
      BY <1>7, <1>8 DEF Everybody
    <3> QED BY <3>1, <3>2 DEF FieldsOK
  <2>2. /\ Cardinality(created') = n /\ created' = 1 .. n
        /\ current' \in created' \cup {Main}
    BY <1>1, <1>6, <1>8
  <2> QED BY <2>1, <2>2, <1>1, <1>6, <1>10 DEF IInv, TypeInv
<1>12. /\ \A r \in Everybody : r # p => Children(process', r) = Children(process, r)
       /\ Children(process', p) = Children(process, p) \cup {n}
       /\ Children(process', n) = {}
       /\ \A r : Children(process, r) \subseteq created
  <2>1. DOMAIN process' \ {Main} = created \cup {n} /\ DOMAIN process \ {Main} = created
    BY <1>2, <1>6, <1>7 DEF created
  <2>2. \A c \in created : process'[c].parent = process[c].parent /\ process[c].parent # n
    BY <1>2, <1>7, <1>8
  <2>3. process'[n].parent = p /\ p # n
    BY <1>2, <1>5, <1>6, <1>7
  <2> QED BY <2>1, <2>2, <2>3 DEF Children
<1>13. FamilyInv'
  <2>1. ASSUME NEW r \in created'
        PROVE  /\ process'[r].parent # r
               /\ process'[r].parent # NoParent =>
                    process'[r].threads > 0 /\ process'[process'[r].parent].threads > 0
               /\ process'[r].children = Cardinality(Children(process', r))
               /\ ~process'[r].waiting
    <3>1. CASE r = n
      <4>1. Cardinality({}) = 0
        BY FS_EmptySet
      <4> QED BY <3>1, <4>1, <1>2, <1>5, <1>6, <1>7, <1>12
    <3>2. CASE r # n
      <4>1. r \in created /\ r \in Everybody
        BY <3>2, <1>2, <1>8
      <4>2. /\ process[r].parent # r
            /\ process[r].children = Cardinality(Children(process, r))
        BY <4>1 DEF IInv, FamilyInv, FamilyOK
      <4>3. process'[r].children = Cardinality(Children(process', r))
        <5>1. CASE r = p
          <6>1. IsFiniteSet(Children(process, p))
            <7>1. IsFiniteSet(1 .. n)
              BY <1>6, FS_Interval
            <7>2. Children(process, p) \subseteq 1 .. n
              BY <1>6, <1>12
            <7> QED BY <7>1, <7>2, FS_Subset
          <6>2. n \notin Children(process, p)
            BY <1>8, <1>12
          <6>3. Cardinality(Children(process, p) \cup {n}) = Cardinality(Children(process, p)) + 1
            BY <6>1, <6>2, FS_AddElement
          <6> QED BY <5>1, <6>3, <4>2, <1>7, <1>12
        <5>2. CASE r # p
          BY <5>2, <4>1, <4>2, <1>7, <1>12
        <5> QED BY <5>1, <5>2
      <4> QED BY <4>1, <4>2, <4>3, <1>2, <1>7
    <3> QED BY <3>1, <3>2
  <2> QED BY <2>1 DEF FamilyInv, FamilyOK
<1>14. ASSUME NEW r \in created'
       PROVE  /\ process'[r].done = {} /\ process'[r].list = 1 .. process'[r].threads
              /\ process'[r].finishedChildren = 0 /\ ~process'[r].deleted
              /\ process'[r].threads > 0 => r \in In(ready')
  <2>1. CASE r = n
    BY <2>1, <1>5, <1>7, <1>10
  <2>2. CASE r # n
    BY <2>2, <1>2, <1>3, <1>7, <1>8, <1>10
  <2> QED BY <2>1, <2>2
<1>15. \A r \in In(ready') : process'[r].threads > 0
  BY <1>2, <1>5, <1>7, <1>9, <1>10
<1>16. ASSUME NEW r \in In(ready'), NEW c \in Children(process', r) PROVE Before(ready', r, c)
  <2>1. r # n
    BY <1>16, <1>12
  <2>2. r \in In(ready) /\ r \in Everybody
    BY <2>1, <1>2, <1>9, <1>10
  <2>3. c \in Children(process, r) \/ (r = p /\ c = n)
    BY <2>2, <1>12
  <2> QED BY <2>2, <2>3, <1>3, <1>10
<1> QED BY <1>1, <1>10, <1>11, <1>13, <1>14, <1>15, <1>16, MainStep

-----------------------------------------------------------------------------
LEMMA InitHolds == Init => IInv
<1> SUFFICES ASSUME Init PROVE IInv
  OBVIOUS
<1> DEFINE new == New(5, NoParent, 0)
<1>1. /\ process = [p \in {Main} |-> new]
      /\ left = [p \in Pid |-> [i \in Thread |-> Lines]]
      /\ ready = <<>> /\ current = Main /\ at = "main" /\ due = TRUE /\ randomSlice \in BOOLEAN
  BY DEF Init
<1>2. new \in Field /\ new.parent = NoParent /\ ~new.waiting /\ new.finishedChildren = 0
      /\ new.children = 0
  <2>1. 5 \in Nat /\ NoParent \in Pid \cup {NoParent} /\ 0 \in 0 .. MaxThread
    BY ThreadNat
  <2> QED BY <2>1, NewField
<1> HIDE DEF new
<1>3. created = {} /\ created \cup {Main} = {Main} /\ process[Main] = new
  BY <1>1 DEF created
<1>4. Cardinality(created) = 0
  BY <1>3, FS_EmptySet
<1>5. TypeInv
  <2>1. Lines \in Nat /\ MaxProcess \in Nat
    BY ProcessAssumption
  <2>2. FieldsOK(process)
    BY <1>1, <1>2, <1>3 DEF FieldsOK
  <2>3. left \in [Pid -> [Thread -> 0 .. Lines]]
    BY <2>1, <1>1
  <2>4. 0 \in Nat /\ 0 <= MaxProcess /\ created = 1 .. 0
    BY <2>1, <1>3
  <2>5. ready \in Seq(created)
    BY <1>1
  <2> QED BY <2>2, <2>3, <2>4, <2>5, <1>1, <1>3, <1>4 DEF TypeInv
<1>6. In(ready) = {} /\ Once(ready) /\ Sorted(process, ready)
  BY <1>1 DEF In, Once, Sorted
<1>7. ThreadInv /\ MainInv /\ FamilyInv /\ FixedSliceInv
  BY <1>1, <1>3 DEF ThreadInv, MainInv, FamilyInv, FamilyOK, FixedSliceInv
<1>8. RunningInv
  BY <1>1 DEF RunningInv
<1>9. ReadyInv /\ ParentFirst
  BY <1>1, <1>6 DEF ReadyInv, HighestPriorityRuns, ParentFirst
<1> QED BY <1>5, <1>7, <1>8, <1>9 DEF IInv

LEMMA StutterStep == IInv /\ UNCHANGED vars => IInv'
<1> SUFFICES ASSUME IInv, UNCHANGED vars PROVE IInv'
  OBVIOUS
<1>1. /\ process' = process /\ left' = left /\ ready' = ready /\ current' = current
      /\ at' = at /\ due' = due /\ randomSlice' = randomSlice
  BY DEF vars
<1>2. created' = created /\ Running' = Running
  BY <1>1 DEF created, Running
<1>3. TypeInv'
  BY <1>1, <1>2 DEF IInv, TypeInv, FieldsOK
<1>4. ThreadInv' /\ RunningInv' /\ MainInv'
  BY <1>1, <1>2 DEF IInv, ThreadInv, RunningInv, MainInv
<1>5. FamilyInv'
  BY <1>1, <1>2 DEF IInv, FamilyInv, FamilyOK
<1>6. ReadyInv' /\ ParentFirst'
  BY <1>1, <1>2 DEF IInv, ReadyInv, HighestPriorityRuns, ParentFirst
<1>7. FixedSliceInv'
  BY <1>1, <1>2 DEF IInv, FixedSliceInv, allFinished
<1> QED BY <1>3, <1>4, <1>5, <1>6, <1>7 DEF IInv

(* The inductive invariant holds in every reachable state of the process layer: through     *)
(* setting up, joins, ticks, yields, ends of threads, of processes and of the machine.      *)
THEOREM InvariantHolds == Spec => []IInv
<1>1. Init => IInv
  BY InitHolds
<1>2. IInv /\ [Next]_vars => IInv'
  <2> SUFFICES ASSUME IInv, [Next]_vars PROVE IInv'
    OBVIOUS
  <2>1. CASE NewProcess
    BY <2>1, NewProcessStep
  <2>2. CASE \E p \in created : ForkThread(p) \/ ForkProcess(p) \/ Join(p)
    BY <2>2, ForkThreadStep, ForkProcessStep, JoinStep
  <2>3. CASE Finish
    BY <2>3, FinishStep
  <2>4. CASE TickOnly
    BY <2>4, TickOnlyStep
  <2>5. CASE YieldToProcess
    BY <2>5, YieldToProcessStep
  <2>6. CASE YieldToThread
    BY <2>6, YieldToThreadStep
  <2>7. CASE YieldToNobody
    BY <2>7, YieldToNobodyStep
  <2>8. CASE MyFinish
    BY <2>8, MyFinishStep
  <2>9. CASE Terminate
    BY <2>9, TerminateStep
  <2>10. CASE UNCHANGED vars
    BY <2>10, StutterStep
  <2> QED BY <2>1, <2>2, <2>3, <2>4, <2>5, <2>6, <2>7, <2>8, <2>9, <2>10 DEF Next
<1> QED BY <1>1, <1>2, PTL DEF Spec

(* Every variable keeps its type; in particular no quantum runs longer than TimeQuantum, no *)
(* parent counts more children than it has, and processes are numbered as they are created. *)
THEOREM TypeCorrect == Spec => []TypeOK
<1>1. IInv => TypeOK
  <2> SUFFICES ASSUME IInv PROVE TypeOK
    OBVIOUS
  <2>1. /\ process \in [Everybody -> Field] /\ DOMAIN process = Everybody
        /\ FieldsOK(process)
    BY TypeFacts DEF IInv, TypeInv
  <2>2. ASSUME NEW p \in DOMAIN process
        PROVE  /\ process[p].parent \in created \cup {NoParent}
               /\ process[p].executeTime \in -1 .. TimeQuantum - 1
               /\ process[p].list \cup process[p].done \subseteq Thread
               /\ process[p].finishedChildren \in 0 .. process[p].children
    <3>1. process[p] \in Field /\ p \in created \cup {Main}
      BY <2>1 DEF Everybody
    <3> QED BY <3>1, <2>1 DEF FieldsOK, Field
  <2> QED BY <2>1, <2>2 DEF IInv, TypeInv, TypeOK, Everybody
<1> QED BY <1>1, InvariantHolds, PTL

(* The scheduler of Project1 keeps its promise: whichever process runs, none that is ready  *)
(* has a higher priority, after every wake-up of a parent, every quantum and every end.     *)
THEOREM HighestPriority == Spec => []HighestPriorityRuns
<1>1. IInv => HighestPriorityRuns
  BY DEF IInv, ReadyInv
<1> QED BY <1>1, InvariantHolds, PTL

(* Where a process can be.  It is ready at most once and not while it runs, as the          *)
(* assertion of List::Insert has it, and with timer interrupts at fixed intervals a process *)
(* that is neither ready nor running has ended or waits for children, each of which is      *)
(* still to end and will be counted.                                                        *)
THEOREM PlacementHolds == Spec => []Placement
<1>1. IInv => Placement
  <2> SUFFICES ASSUME IInv PROVE Placement
    OBVIOUS
  <2>1. ready \in Seq(created) /\ DOMAIN ready = 1 .. Len(ready)
    BY DEF IInv, TypeInv
  <2>2. \A i, j \in DOMAIN ready : ready[i] = ready[j] => i = j
    BY <2>1 DEF IInv, ReadyInv, Once
  <2>3. \A i \in DOMAIN ready : ready[i] # current /\ ~process[ready[i]].deleted
    BY <2>1 DEF IInv, ReadyInv, In
  <2>4. ASSUME ~randomSlice, NEW p \in created, Stranded(p), ~allFinished(p)
        PROVE  /\ process[p].waiting /\ process[p].finishedChildren < process[p].children
               /\ Cardinality({c \in created : process[c].parent = p /\ ~allFinished(c)})
                    = process[p].children - process[p].finishedChildren
    <3>1. p # current /\ p \notin In(ready)
      BY <2>1, <2>4 DEF Stranded, In
    <3>2. process[p].waiting
      BY <3>1, <2>4 DEF IInv, FixedSliceInv
    <3>3. process[p].finishedChildren < process[p].children
      BY <3>2 DEF IInv, TypeInv, FieldsOK
    <3>4. {c \in created : process[c].parent = p /\ ~allFinished(c)} = Unfinished(process, p)
      BY DEF Unfinished, Children, created, allFinished
    <3>5. Cardinality(Unfinished(process, p)) = process[p].children - process[p].finishedChildren
      BY <3>2 DEF IInv, FamilyInv, FamilyOK
    <3> QED BY <3>2, <3>3, <3>4, <3>5
  <2> QED BY <2>2, <2>3, <2>4 DEF Placement
<1> QED BY <1>1, InvariantHolds, PTL
=============================================================================

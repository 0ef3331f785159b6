------------------------- MODULE FileManager_proofs -------------------------
(***************************************************************************)
(* Proofs about FileManager, for any number of threads, files and deletes. *)
(* The files whose callers all keep to the protocol of FileTest and        *)
(* DeleteIt have one writer or one delete at a time, whatever is done to   *)
(* the other files.                                                        *)
(***************************************************************************)
EXTENDS FileManager, Semaphores_proofs

(* Where a thread has taken semaphoreW of its file and not given it back, and semaphoreR.    *)
WPC == {"requestR", "replace", "writing"}
RPC == {"replace", "writing", "releaseR"}
HoldsW == [f \in File |-> {t \in Thread : file[t] = f /\ pc[t] \in WPC}]
HoldsR == [f \in File |-> {t \in Thread : file[t] = f /\ pc[t] \in RPC}]

(* Where each operation can be, and that a thread waits in semaphores of its own file only,  *)
(* of a generation that has begun.                                                           *)
CallInv ==
  /\ \A t \in Thread : pc[t] # "outside" => file[t] \in File /\ op[t] \in CallsOn[file[t]]
  /\ \A t \in Thread : pc[t] \in {"replace", "removing"} => op[t] = "DeleteIt"
  /\ \A t \in Thread : pc[t] \in {"reading", "writing"} => op[t] # "DeleteIt"
  /\ \A t \in Thread : pc[t] \notin {"requestW", "requestR"} => inP[t] = None
  /\ \A t \in Thread : pc[t] = "requestW" /\ inP[t] # None =>
       \E g \in 0 .. deleted[file[t]] : inP[t] = <<"W", file[t], g>>
  /\ \A t \in Thread : pc[t] = "requestR" /\ inP[t] # None =>
       \E g \in 0 .. deleted[file[t]] : inP[t] = <<"R", file[t], g>>

(* Each semaphore of an orderly file is free or held by one thread.  Those of deletes to     *)
(* come have their first unit, those of deletes that are past have none: the delete took it. *)
ExclusiveW ==
  \A f \in OrderlyFile :
    \/ value[<<"W", f, deleted[f]>>] = 1 /\ HoldsW[f] = {}
    \/ value[<<"W", f, deleted[f]>>] = 0 /\ \E t \in Thread : HoldsW[f] = {t}
ExclusiveR ==
  \A f \in OrderlyFile :
    \/ value[<<"R", f, deleted[f]>>] = 1 /\ HoldsR[f] = {}
    \/ value[<<"R", f, deleted[f]>>] = 0 /\ \E t \in Thread : HoldsR[f] = {t}
Generations ==
  \A f \in OrderlyFile, g \in Generation :
    /\ g < deleted[f] => value[<<"W", f, g>>] = 0 /\ value[<<"R", f, g>>] = 0
    /\ g > deleted[f] => value[<<"W", f, g>>] = 1 /\ value[<<"R", f, g>>] = 1
(* Who waits for semaphoreR holds semaphoreW, so no delete replaces them meanwhile.          *)
WaitsInCurrent ==
  \A t \in Thread :
    pc[t] = "requestR" /\ file[t] \in OrderlyFile /\ inP[t] # None =>
      inP[t] = <<"R", file[t], deleted[file[t]]>>
OrderInv == ExclusiveW /\ ExclusiveR /\ Generations

(* There is a generation left for every delete that has begun. *)
Deleters == [f \in File |-> {t \in Thread : op[t] = "DeleteIt" /\ file[t] = f /\ pc[t] # "removing"}]
CountInv == \A f \in File : deleted[f] + Cardinality(Deleters[f]) <= MaxDeletes

FileTypeOK ==
  /\ deleted \in [File -> Generation]
  /\ pc \in [Thread -> PC]
  /\ op \in [Thread -> Operation \cup {None}]
  /\ file \in [Thread -> File \cup {None}]

ManagerInv ==
  SemaphoreInv /\ FileTypeOK /\ CallInv /\ CountInv /\ OrderInv /\ WaitsInCurrent

-----------------------------------------------------------------------------
LEMMA InvParts ==
  ManagerInv => /\ TypeOK /\ FileTypeOK /\ SemaphoreTypeOK /\ SemaphoreInv /\ CallInv /\ CountInv
                /\ OrderInv /\ WaitsInCurrent /\ ExclusiveW /\ ExclusiveR /\ Generations
BY DEF ManagerInv, OrderInv, FileTypeOK, TypeOK, SemaphoreInv

(* The names of the semaphores are different where kind, file or generation are.             *)
LEMMA Names ==
  /\ \A k \in {"W", "R"}, f \in File, g \in Generation : <<k, f, g>> \in Semaphore
  /\ \A f, h \in File, g, i \in Generation : <<"W", f, g>> # <<"R", h, i>>
  /\ \A k \in {"W", "R"}, f, h \in File, g, i \in Generation :
       <<k, f, g>> = <<k, h, i>> => f = h /\ g = i
BY FileManagerAssumption

LEMMA DeletedNat ==
  ASSUME ManagerInv, NEW f \in File
  PROVE  /\ deleted[f] \in Generation /\ deleted[f] \in Nat
         /\ deleted[f] \in 0 .. deleted[f] /\ 0 .. deleted[f] \subseteq Generation
<1>1. deleted[f] \in Generation /\ MaxDeletes \in Nat
  BY InvParts, FileManagerAssumption DEF FileTypeOK
<1> QED BY <1>1 DEF Generation

LEMMA CurrentNames ==
  ASSUME ManagerInv, NEW f \in File
  PROVE  <<"W", f, deleted[f]>> \in Semaphore /\ <<"R", f, deleted[f]>> \in Semaphore
BY DeletedNat, Names

(* A thread that moves on its file enters or leaves the holders of its file's semaphores.    *)
LEMMA HoldersMove ==
  ASSUME ManagerInv, NEW t \in Thread, NEW l \in PC, Goto(t, l), UNCHANGED file, file[t] \in File
  PROVE  /\ pc' \in [Thread -> PC] /\ pc'[t] = l
         /\ \A u \in Thread : u # t => pc'[u] = pc[u]
         /\ HoldsW' = [HoldsW EXCEPT ![file[t]] = IF l \in WPC THEN @ \cup {t} ELSE @ \ {t}]
         /\ HoldsR' = [HoldsR EXCEPT ![file[t]] = IF l \in RPC THEN @ \cup {t} ELSE @ \ {t}]
         /\ t \in HoldsW[file[t]] <=> pc[t] \in WPC
         /\ t \in HoldsR[file[t]] <=> pc[t] \in RPC
<1>1. /\ pc' \in [Thread -> PC] /\ pc'[t] = l
      /\ \A u \in Thread : u # t => pc'[u] = pc[u]
  BY InvParts DEF FileTypeOK, Goto
<1>2. ASSUME NEW f \in File
      PROVE  /\ HoldsW'[f] = IF f # file[t] THEN HoldsW[f]
                             ELSE IF l \in WPC THEN HoldsW[f] \cup {t} ELSE HoldsW[f] \ {t}
             /\ HoldsR'[f] = IF f # file[t] THEN HoldsR[f]
                             ELSE IF l \in RPC THEN HoldsR[f] \cup {t} ELSE HoldsR[f] \ {t}
  BY <1>1 DEF HoldsW, HoldsR
<1>3. t \in HoldsW[file[t]] <=> pc[t] \in WPC
  BY DEF HoldsW
<1>4. t \in HoldsR[file[t]] <=> pc[t] \in RPC
  BY DEF HoldsR
<1> QED BY <1>1, <1>2, <1>3, <1>4 DEF HoldsW, HoldsR

(* The orderly files but f0 are not concerned by a step, and f0 is in order after it.        *)
LEMMA OrderElsewhere ==
  ASSUME OrderInv, NEW f0,
         \A f \in OrderlyFile : f # f0 =>
           /\ HoldsW'[f] = HoldsW[f] /\ HoldsR'[f] = HoldsR[f] /\ deleted'[f] = deleted[f]
           /\ \A g \in Generation : /\ value'[<<"W", f, g>>] = value[<<"W", f, g>>]
                                    /\ value'[<<"R", f, g>>] = value[<<"R", f, g>>],
         \A f \in OrderlyFile : deleted[f] \in Generation,
         f0 \in OrderlyFile =>
           /\ \/ value'[<<"W", f0, deleted'[f0]>>] = 1 /\ HoldsW'[f0] = {}
              \/ value'[<<"W", f0, deleted'[f0]>>] = 0 /\ \E t \in Thread : HoldsW'[f0] = {t}
           /\ \/ value'[<<"R", f0, deleted'[f0]>>] = 1 /\ HoldsR'[f0] = {}
              \/ value'[<<"R", f0, deleted'[f0]>>] = 0 /\ \E t \in Thread : HoldsR'[f0] = {t}
           /\ \A g \in Generation :
                /\ g < deleted'[f0] => value'[<<"W", f0, g>>] = 0 /\ value'[<<"R", f0, g>>] = 0
                /\ g > deleted'[f0] => value'[<<"W", f0, g>>] = 1 /\ value'[<<"R", f0, g>>] = 1
  PROVE  OrderInv'
<1>1. ASSUME NEW f \in OrderlyFile, f # f0
      PROVE  /\ value'[<<"W", f, deleted'[f]>>] = value[<<"W", f, deleted[f]>>]
             /\ value'[<<"R", f, deleted'[f]>>] = value[<<"R", f, deleted[f]>>]
  <2>1. deleted'[f] = deleted[f] /\ deleted[f] \in Generation
    BY <1>1
  <2> QED BY <1>1, <2>1
<1>2. ASSUME NEW f \in OrderlyFile
      PROVE  \/ value'[<<"W", f, deleted'[f]>>] = 1 /\ HoldsW'[f] = {}
             \/ value'[<<"W", f, deleted'[f]>>] = 0 /\ \E t \in Thread : HoldsW'[f] = {t}
  <2>1. CASE f = f0
    BY <2>1
  <2>2. CASE f # f0
    <3>1. \/ value[<<"W", f, deleted[f]>>] = 1 /\ HoldsW[f] = {}
          \/ value[<<"W", f, deleted[f]>>] = 0 /\ \E t \in Thread : HoldsW[f] = {t}
      BY DEF OrderInv, ExclusiveW
    <3>2. HoldsW'[f] = HoldsW[f]
      BY <2>2
    <3> QED BY <1>1, <2>2, <3>1, <3>2
  <2> QED BY <2>1, <2>2
<1>3. ASSUME NEW f \in OrderlyFile
      PROVE  \/ value'[<<"R", f, deleted'[f]>>] = 1 /\ HoldsR'[f] = {}
             \/ value'[<<"R", f, deleted'[f]>>] = 0 /\ \E t \in Thread : HoldsR'[f] = {t}
  <2>1. CASE f = f0
    BY <2>1
  <2>2. CASE f # f0
    <3>1. \/ value[<<"R", f, deleted[f]>>] = 1 /\ HoldsR[f] = {}
          \/ value[<<"R", f, deleted[f]>>] = 0 /\ \E t \in Thread : HoldsR[f] = {t}
      BY DEF OrderInv, ExclusiveR
    <3>2. HoldsR'[f] = HoldsR[f]
      BY <2>2
    <3> QED BY <1>1, <2>2, <3>1, <3>2
  <2> QED BY <2>1, <2>2
<1>4. ASSUME NEW f \in OrderlyFile, NEW g \in Generation
      PROVE  /\ g < deleted'[f] => value'[<<"W", f, g>>] = 0 /\ value'[<<"R", f, g>>] = 0
             /\ g > deleted'[f] => value'[<<"W", f, g>>] = 1 /\ value'[<<"R", f, g>>] = 1
  <2>1. CASE f = f0
    BY <2>1
  <2>2. CASE f # f0
    <3>1. /\ g < deleted[f] => value[<<"W", f, g>>] = 0 /\ value[<<"R", f, g>>] = 0
          /\ g > deleted[f] => value[<<"W", f, g>>] = 1 /\ value[<<"R", f, g>>] = 1
      BY DEF OrderInv, Generations
    <3>2. /\ deleted'[f] = deleted[f] /\ value'[<<"W", f, g>>] = value[<<"W", f, g>>]
          /\ value'[<<"R", f, g>>] = value[<<"R", f, g>>]
      BY <2>2
    <3> QED BY <3>1, <3>2
  <2> QED BY <2>1, <2>2
<1>5. ExclusiveW' /\ ExclusiveR'
  BY <1>2, <1>3 DEF ExclusiveW, ExclusiveR
<1>6. Generations'
  BY <1>4 DEF Generations
<1> QED BY <1>5, <1>6 DEF OrderInv

(* A step on one semaphore of f0 leaves all others alone. *)
LEMMA OtherSemaphoresKept ==
  ASSUME NEW k \in {"W", "R"}, NEW f0 \in File, NEW g0 \in Generation,
         \A r \in Semaphore : r # <<k, f0, g0>> => value'[r] = value[r]
  PROVE  \A f \in File, g \in Generation :
           /\ f # f0 \/ g # g0 \/ k = "R" => value'[<<"W", f, g>>] = value[<<"W", f, g>>]
           /\ f # f0 \/ g # g0 \/ k = "W" => value'[<<"R", f, g>>] = value[<<"R", f, g>>]
<1>1. ASSUME NEW f \in File, NEW g \in Generation, f # f0 \/ g # g0 \/ k = "R"
      PROVE  value'[<<"W", f, g>>] = value[<<"W", f, g>>]
  BY <1>1, Names
<1>2. ASSUME NEW f \in File, NEW g \in Generation, f # f0 \/ g # g0 \/ k = "W"
      PROVE  value'[<<"R", f, g>>] = value[<<"R", f, g>>]
  BY <1>2, Names
<1> QED BY <1>1, <1>2

-----------------------------------------------------------------------------
(* How the parts that do not concern the semaphores' units survive the move of a thread.     *)
LEMMA TypesMove ==
  ASSUME ManagerInv, NEW t \in Thread, NEW l \in PC, Goto(t, l), UNCHANGED <<deleted, op, file>>
  PROVE  FileTypeOK'
BY InvParts DEF FileTypeOK, Goto

LEMMA CallMoves ==
  ASSUME ManagerInv, NEW t \in Thread, NEW l \in PC, Goto(t, l), pc[t] # "outside",
         UNCHANGED <<op, file>>, inP' = [inP EXCEPT ![t] = None],
         \A f \in File : deleted'[f] \in Nat /\ deleted[f] \in Nat /\ deleted[f] <= deleted'[f],
         l \in {"replace", "removing"} => op[t] = "DeleteIt",
         l \in {"reading", "writing"} => op[t] # "DeleteIt"
  PROVE  CallInv'
<1> USE InvParts
<1>1. /\ pc'[t] = l /\ inP'[t] = None
      /\ \A u \in Thread : u # t => pc'[u] = pc[u] /\ inP'[u] = inP[u]
  BY DEF FileTypeOK, SemaphoreTypeOK, Goto
<1>2. /\ \A u \in Thread : pc'[u] # "outside" => file[u] \in File /\ op[u] \in CallsOn[file[u]]
      /\ \A u \in Thread : pc'[u] \in {"replace", "removing"} => op[u] = "DeleteIt"
      /\ \A u \in Thread : pc'[u] \in {"reading", "writing"} => op[u] # "DeleteIt"
      /\ \A u \in Thread : pc'[u] \notin {"requestW", "requestR"} => inP'[u] = None
  BY <1>1 DEF CallInv
<1>3. ASSUME NEW u \in Thread, pc'[u] = "requestW", inP'[u] # None
      PROVE  \E g \in 0 .. deleted'[file[u]] : inP'[u] = <<"W", file[u], g>>
  <2>1. u # t /\ pc[u] = "requestW" /\ inP[u] = inP'[u] /\ file[u] \in File
    BY <1>1, <1>3 DEF CallInv
  <2>2. PICK g \in 0 .. deleted[file[u]] : inP[u] = <<"W", file[u], g>>
    BY <1>3, <2>1 DEF CallInv
  <2>3. g \in 0 .. deleted'[file[u]]
    BY <2>1, <2>2
  <2> QED BY <2>1, <2>2, <2>3
<1>4. ASSUME NEW u \in Thread, pc'[u] = "requestR", inP'[u] # None
      PROVE  \E g \in 0 .. deleted'[file[u]] : inP'[u] = <<"R", file[u], g>>
  <2>1. u # t /\ pc[u] = "requestR" /\ inP[u] = inP'[u] /\ file[u] \in File
    BY <1>1, <1>4 DEF CallInv
  <2>2. PICK g \in 0 .. deleted[file[u]] : inP[u] = <<"R", file[u], g>>
    BY <1>4, <2>1 DEF CallInv
  <2>3. g \in 0 .. deleted'[file[u]]
    BY <2>1, <2>2
  <2> QED BY <2>1, <2>2, <2>3
<1> QED BY <1>2, <1>3, <1>4 DEF CallInv

LEMMA CountKept ==
  ASSUME ManagerInv, UNCHANGED <<deleted, op, file>>,
         \A u \in Thread : pc'[u] = "removing" <=> pc[u] = "removing"
  PROVE  CountInv'
<1>1. Deleters' = Deleters
  BY DEF Deleters
<1> QED BY <1>1, InvParts DEF CountInv

LEMMA WaitsMove ==
  ASSUME ManagerInv, NEW t \in Thread, NEW l \in PC, Goto(t, l), UNCHANGED <<deleted, file>>,
         inP' = [inP EXCEPT ![t] = None]
  PROVE  WaitsInCurrent'
<1>1. /\ pc'[t] = l /\ inP'[t] = None
      /\ \A u \in Thread : u # t => pc'[u] = pc[u] /\ inP'[u] = inP[u]
  BY InvParts DEF FileTypeOK, SemaphoreTypeOK, Goto
<1> QED BY <1>1, InvParts DEF WaitsInCurrent

(* A thread that goes to sleep in a semaphore of its file. *)
LEMMA SleepKeeps ==
  ASSUME ManagerInv, NEW t \in Thread, UNCHANGED <<value, deleted, pc, op, file>>, SemaphoreInv',
         NEW s, inP' = [inP EXCEPT ![t] = s],
         \/ pc[t] = "requestW" /\ \E g \in 0 .. deleted[file[t]] : s = <<"W", file[t], g>>
         \/ /\ pc[t] = "requestR" /\ \E g \in 0 .. deleted[file[t]] : s = <<"R", file[t], g>>
            /\ file[t] \in OrderlyFile => s = <<"R", file[t], deleted[file[t]]>>
  PROVE  ManagerInv'
<1> USE InvParts
<1>1. inP'[t] = s /\ \A u \in Thread : u # t => inP'[u] = inP[u]
  BY DEF SemaphoreTypeOK
<1>2. FileTypeOK'
  BY DEF FileTypeOK
<1>3. CallInv'
  <2>1. /\ \A u \in Thread : pc[u] # "outside" => file[u] \in File /\ op[u] \in CallsOn[file[u]]
        /\ \A u \in Thread : pc[u] \in {"replace", "removing"} => op[u] = "DeleteIt"
        /\ \A u \in Thread : pc[u] \in {"reading", "writing"} => op[u] # "DeleteIt"
        /\ \A u \in Thread : pc[u] \notin {"requestW", "requestR"} => inP'[u] = None
    BY <1>1 DEF CallInv
  <2>2. ASSUME NEW u \in Thread, pc[u] = "requestW", inP'[u] # None
        PROVE  \E g \in 0 .. deleted[file[u]] : inP'[u] = <<"W", file[u], g>>
    BY <1>1, <2>2 DEF CallInv
  <2>3. ASSUME NEW u \in Thread, pc[u] = "requestR", inP'[u] # None
        PROVE  \E g \in 0 .. deleted[file[u]] : inP'[u] = <<"R", file[u], g>>
    BY <1>1, <2>3 DEF CallInv
  <2> QED BY <2>1, <2>2, <2>3 DEF CallInv
<1>4. CountInv'
  BY CountKept
<1>5. HoldsW' = HoldsW /\ HoldsR' = HoldsR
  BY DEF HoldsW, HoldsR
<1>6. OrderInv'
  BY <1>5 DEF OrderInv, ExclusiveW, ExclusiveR, Generations
<1>7. WaitsInCurrent'
  BY <1>1 DEF WaitsInCurrent
<1> QED BY <1>2, <1>3, <1>4, <1>6, <1>7 DEF ManagerInv

-----------------------------------------------------------------------------
(* A step that concerns one semaphore of f0 at most, the current one if f0 is orderly.       *)
LEMMA OrderChange ==
  ASSUME ManagerInv, NEW f0 \in File, UNCHANGED deleted,
         NEW k \in {"W", "R"}, NEW g0 \in Generation,
         \A r \in Semaphore : r # <<k, f0, g0>> => value'[r] = value[r],
         \A f \in File : f # f0 => HoldsW'[f] = HoldsW[f] /\ HoldsR'[f] = HoldsR[f],
         f0 \in OrderlyFile =>
           /\ g0 = deleted[f0]
           /\ \/ value'[<<"W", f0, g0>>] = 1 /\ HoldsW'[f0] = {}
              \/ value'[<<"W", f0, g0>>] = 0 /\ \E t \in Thread : HoldsW'[f0] = {t}
           /\ \/ value'[<<"R", f0, g0>>] = 1 /\ HoldsR'[f0] = {}
              \/ value'[<<"R", f0, g0>>] = 0 /\ \E t \in Thread : HoldsR'[f0] = {t}
  PROVE  OrderInv'
<1> USE InvParts
<1>1. \A f \in File, g \in Generation :
        /\ f # f0 \/ g # g0 \/ k = "R" => value'[<<"W", f, g>>] = value[<<"W", f, g>>]
        /\ f # f0 \/ g # g0 \/ k = "W" => value'[<<"R", f, g>>] = value[<<"R", f, g>>]
  BY OtherSemaphoresKept
<1>2. \A f \in OrderlyFile : f \in File /\ deleted[f] \in Generation
  BY DeletedNat DEF OrderlyFile
<1>3. \A f \in OrderlyFile : f # f0 =>
        /\ HoldsW'[f] = HoldsW[f] /\ HoldsR'[f] = HoldsR[f] /\ deleted'[f] = deleted[f]
        /\ \A g \in Generation : /\ value'[<<"W", f, g>>] = value[<<"W", f, g>>]
                                 /\ value'[<<"R", f, g>>] = value[<<"R", f, g>>]
  BY <1>1, <1>2
<1>4. ASSUME f0 \in OrderlyFile, NEW g \in Generation
      PROVE  /\ g < deleted[f0] => value'[<<"W", f0, g>>] = 0 /\ value'[<<"R", f0, g>>] = 0
             /\ g > deleted[f0] => value'[<<"W", f0, g>>] = 1 /\ value'[<<"R", f0, g>>] = 1
  <2>1. /\ g < deleted[f0] => value[<<"W", f0, g>>] = 0 /\ value[<<"R", f0, g>>] = 0
        /\ g > deleted[f0] => value[<<"W", f0, g>>] = 1 /\ value[<<"R", f0, g>>] = 1
    BY <1>4 DEF Generations
  <2>2. g \in Nat /\ deleted[f0] \in Nat /\ g0 = deleted[f0]
    BY <1>4, DeletedNat DEF Generation
  <2>3. g # g0 => /\ value'[<<"W", f0, g>>] = value[<<"W", f0, g>>]
                  /\ value'[<<"R", f0, g>>] = value[<<"R", f0, g>>]
    BY <1>1
  <2> QED BY <2>1, <2>2, <2>3
<1>5. f0 \in OrderlyFile =>
        /\ \/ value'[<<"W", f0, deleted'[f0]>>] = 1 /\ HoldsW'[f0] = {}
           \/ value'[<<"W", f0, deleted'[f0]>>] = 0 /\ \E t \in Thread : HoldsW'[f0] = {t}
        /\ \/ value'[<<"R", f0, deleted'[f0]>>] = 1 /\ HoldsR'[f0] = {}
           \/ value'[<<"R", f0, deleted'[f0]>>] = 0 /\ \E t \in Thread : HoldsR'[f0] = {t}
  <2>1. f0 \in OrderlyFile => deleted'[f0] = g0
    OBVIOUS
  <2> QED BY <2>1
<1>6. f0 \in OrderlyFile => \A g \in Generation :
        /\ g < deleted'[f0] => value'[<<"W", f0, g>>] = 0 /\ value'[<<"R", f0, g>>] = 0
        /\ g > deleted'[f0] => value'[<<"W", f0, g>>] = 1 /\ value'[<<"R", f0, g>>] = 1
  BY <1>4
<1>7. OrderInv
  OBVIOUS
<1> QED BY <1>2, <1>3, <1>5, <1>6, <1>7, OrderElsewhere

(* P in a request. *)
LEMMA PEffect ==
  ASSUME SemaphoreInv, NEW t \in Thread, NEW current, NEW from, NEW to, PFromTo(t, current, from, to),
         NEW s \in Semaphore, s = Tested(t, current)
  PROVE  /\ SemaphoreInv' /\ pc[t] = from /\ UNCHANGED <<deleted, op, file>>
         /\ \/ /\ Goto(t, to) /\ value[s] > 0 /\ value'[s] = value[s] - 1
               /\ \A r \in Semaphore : r # s => value'[r] = value[r]
               /\ inP' = [inP EXCEPT ![t] = None]
            \/ /\ UNCHANGED <<pc, value>> /\ inP' = [inP EXCEPT ![t] = s]
<1> DEFINE r == Tested(t, current)
<1>1. /\ pc[t] = from /\ UNCHANGED <<deleted, op, file>> /\ InOrCallingP(t, r)
      /\ (Take(t, r) /\ Goto(t, to)) \/ (Wait(t, r) /\ UNCHANGED pc)
  BY DEF PFromTo
<1>2. r \in Semaphore
  OBVIOUS
<1> HIDE DEF r
<1>3. SemaphoreInv'
  BY <1>1, <1>2, TakeKeeps, WaitKeeps
<1>4. \/ /\ Goto(t, to) /\ value[r] > 0 /\ value'[r] = value[r] - 1
         /\ \A q \in Semaphore : q # r => value'[q] = value[q]
         /\ inP' = [inP EXCEPT ![t] = None]
      \/ /\ UNCHANGED <<pc, value>> /\ inP' = [inP EXCEPT ![t] = r]
  BY <1>1, <1>2 DEF Take, Wait, SemaphoreInv, SemaphoreTypeOK
<1>5. r = s
  BY DEF r
<1> QED BY <1>1, <1>3, <1>4, <1>5

(* A unit of the semaphore <<k, f0, g>>, taken by a thread that goes on in its request. *)
LEMMA TakingKeeps ==
  ASSUME ManagerInv, NEW t \in Thread, NEW l \in PC, Goto(t, l),
         pc[t] \in {"requestW", "requestR"}, l \in {"requestR", "writing", "replace"},
         l = "replace" => op[t] = "DeleteIt", l = "writing" => op[t] # "DeleteIt",
         UNCHANGED <<deleted, op, file>>, SemaphoreInv', inP' = [inP EXCEPT ![t] = None],
         OrderInv'
  PROVE  ManagerInv'
<1> USE InvParts
<1>1. \A f \in File : deleted'[f] \in Nat /\ deleted[f] \in Nat /\ deleted[f] <= deleted'[f]
  BY DeletedNat
<1>2. FileTypeOK' /\ WaitsInCurrent'
  BY TypesMove, WaitsMove
<1>3. CallInv'
  BY <1>1, CallMoves
<1>4. CountInv'
  <2>1. \A u \in Thread : pc'[u] = "removing" <=> pc[u] = "removing"
    BY DEF Goto, FileTypeOK
  <2> QED BY <2>1, CountKept
<1> QED BY <1>2, <1>3, <1>4 DEF ManagerInv

(* RequestWriteAt and DeleteAt take semaphoreW. *)
LEMMA RequestWKeeps ==
  ASSUME ManagerInv, NEW t \in Thread, PFromTo(t, semaphoreW(file[t]), "requestW", "requestR")
  PROVE  ManagerInv'
<1> USE InvParts
<1> DEFINE f0 == file[t]
<1>1. pc[t] = "requestW" /\ f0 \in File
  BY DEF PFromTo, CallInv
<1>2. deleted[f0] \in 0 .. deleted[f0] /\ 0 .. deleted[f0] \subseteq Generation
  BY <1>1, DeletedNat
<1>3. PICK g \in 0 .. deleted[f0] : /\ inP[t] = None => g = deleted[f0]
                                    /\ inP[t] # None => inP[t] = <<"W", f0, g>>
  BY <1>1, <1>2 DEF CallInv
<1> DEFINE s == <<"W", f0, g>>
<1>4. g \in Generation /\ s \in Semaphore
  BY <1>1, <1>2, Names
<1>5. s = Tested(t, semaphoreW(f0))
  BY <1>3 DEF semaphoreW, Tested
<1>6. /\ SemaphoreInv' /\ UNCHANGED <<deleted, op, file>>
      /\ \/ /\ Goto(t, "requestR") /\ value[s] > 0 /\ value'[s] = value[s] - 1
            /\ \A r \in Semaphore : r # s => value'[r] = value[r]
            /\ inP' = [inP EXCEPT ![t] = None]
         \/ /\ UNCHANGED <<pc, value>> /\ inP' = [inP EXCEPT ![t] = s]
  BY <1>4, <1>5, PEffect
<1>7. CASE UNCHANGED <<pc, value>> /\ inP' = [inP EXCEPT ![t] = s]
  BY <1>1, <1>6, <1>7, SleepKeeps
<1>8. CASE /\ Goto(t, "requestR") /\ value[s] > 0 /\ value'[s] = value[s] - 1
           /\ \A r \in Semaphore : r # s => value'[r] = value[r]
           /\ inP' = [inP EXCEPT ![t] = None]
  <2>1. "requestR" \in PC /\ "requestR" \in WPC /\ "requestR" \notin RPC /\ pc[t] \notin RPC
    BY <1>1 DEF PC, WPC, RPC
  <2>2. /\ HoldsW' = [HoldsW EXCEPT ![f0] = @ \cup {t}]
        /\ HoldsR' = [HoldsR EXCEPT ![f0] = @ \ {t}] /\ t \notin HoldsR[f0]
    BY <1>1, <1>6, <1>8, <2>1, HoldersMove
  <2>3. HoldsW'[f0] = HoldsW[f0] \cup {t} /\ HoldsR'[f0] = HoldsR[f0]
        /\ \A f \in File : f # f0 => HoldsW'[f] = HoldsW[f] /\ HoldsR'[f] = HoldsR[f]
    BY <1>1, <2>2 DEF HoldsW, HoldsR
  <2>4. ASSUME f0 \in OrderlyFile
        PROVE  /\ g = deleted[f0]
               /\ value'[<<"W", f0, g>>] = 0 /\ HoldsW'[f0] = {t}
               /\ \/ value'[<<"R", f0, g>>] = 1 /\ HoldsR'[f0] = {}
                  \/ value'[<<"R", f0, g>>] = 0 /\ \E u \in Thread : HoldsR'[f0] = {u}
    <3>1. g = deleted[f0]
      <4>1. g \in Nat /\ deleted[f0] \in Nat /\ g <= deleted[f0] /\ value[<<"W", f0, g>>] > 0
        BY <1>1, <1>8, DeletedNat
      <4>2. g < deleted[f0] => value[<<"W", f0, g>>] = 0
        BY <1>4, <2>4 DEF Generations
      <4> QED BY <4>1, <4>2
    <3>2. value[<<"W", f0, g>>] = 1 /\ HoldsW[f0] = {}
      BY <1>8, <2>4, <3>1 DEF ExclusiveW
    <3>3. <<"R", f0, g>> \in Semaphore /\ <<"R", f0, g>> # s
      BY <1>1, <1>4, Names
    <3>4. \/ value[<<"R", f0, g>>] = 1 /\ HoldsR[f0] = {}
          \/ value[<<"R", f0, g>>] = 0 /\ \E u \in Thread : HoldsR[f0] = {u}
      BY <2>4, <3>1 DEF ExclusiveR
    <3> QED BY <1>8, <2>3, <3>1, <3>2, <3>3, <3>4
  <2>5. OrderInv'
    BY <1>1, <1>4, <1>6, <1>8, <2>3, <2>4, OrderChange
  <2> QED BY <1>1, <1>6, <1>8, <2>1, <2>5, TakingKeeps
<1> QED BY <1>6, <1>7, <1>8

(* ... and semaphoreR, which they hold together with semaphoreW. *)
LEMMA RequestRKeeps ==
  ASSUME ManagerInv, NEW t \in Thread,
         PFromTo(t, semaphoreR(file[t]), "requestR", AfterRequest(t))
  PROVE  ManagerInv'
<1> USE InvParts
<1> DEFINE f0 == file[t]
           l == AfterRequest(t)
<1>1. pc[t] = "requestR" /\ f0 \in File
  BY DEF PFromTo, CallInv
<1>2. deleted[f0] \in 0 .. deleted[f0] /\ 0 .. deleted[f0] \subseteq Generation
  BY <1>1, DeletedNat
<1>3. PICK g \in 0 .. deleted[f0] : /\ inP[t] = None => g = deleted[f0]
                                    /\ inP[t] # None => inP[t] = <<"R", f0, g>>
                                    /\ f0 \in OrderlyFile => g = deleted[f0]
  <2>1. CASE inP[t] = None \/ f0 \in OrderlyFile
    <3>1. inP[t] # None => inP[t] = <<"R", f0, deleted[f0]>>
      BY <1>1, <2>1 DEF WaitsInCurrent
    <3> QED BY <1>2, <3>1
  <2>2. CASE inP[t] # None /\ f0 \notin OrderlyFile
    BY <1>1, <2>2 DEF CallInv
  <2> QED BY <2>1, <2>2
<1> DEFINE s == <<"R", f0, g>>
<1>4. g \in Generation /\ s \in Semaphore
  BY <1>1, <1>2, Names
<1>5. s = Tested(t, semaphoreR(f0))
  BY <1>3 DEF semaphoreR, Tested
<1>6. /\ SemaphoreInv' /\ UNCHANGED <<deleted, op, file>>
      /\ \/ /\ Goto(t, l) /\ value[s] > 0 /\ value'[s] = value[s] - 1
            /\ \A r \in Semaphore : r # s => value'[r] = value[r]
            /\ inP' = [inP EXCEPT ![t] = None]
         \/ /\ UNCHANGED <<pc, value>> /\ inP' = [inP EXCEPT ![t] = s]
  BY <1>4, <1>5, PEffect
<1>7. CASE UNCHANGED <<pc, value>> /\ inP' = [inP EXCEPT ![t] = s]
  BY <1>1, <1>3, <1>6, <1>7, SleepKeeps
<1>8. CASE /\ Goto(t, l) /\ value[s] > 0 /\ value'[s] = value[s] - 1
           /\ \A r \in Semaphore : r # s => value'[r] = value[r]
           /\ inP' = [inP EXCEPT ![t] = None]
  <2>1. /\ l \in PC /\ l \in WPC /\ l \in RPC /\ pc[t] \in WPC
        /\ l \in {"writing", "replace"}
        /\ l = "replace" => op[t] = "DeleteIt"
        /\ l = "writing" => op[t] # "DeleteIt"
    BY <1>1 DEF PC, WPC, RPC, AfterRequest
  <2>2. /\ HoldsW' = [HoldsW EXCEPT ![f0] = @ \cup {t}] /\ t \in HoldsW[f0]
        /\ HoldsR' = [HoldsR EXCEPT ![f0] = @ \cup {t}]
    BY <1>1, <1>6, <1>8, <2>1, HoldersMove
  <2>3. HoldsR'[f0] = HoldsR[f0] \cup {t} /\ HoldsW'[f0] = HoldsW[f0]
        /\ \A f \in File : f # f0 => HoldsW'[f] = HoldsW[f] /\ HoldsR'[f] = HoldsR[f]
    BY <1>1, <2>2 DEF HoldsW, HoldsR
  <2>4. ASSUME f0 \in OrderlyFile
        PROVE  /\ g = deleted[f0]
               /\ value'[<<"R", f0, g>>] = 0 /\ HoldsR'[f0] = {t}
               /\ \/ value'[<<"W", f0, g>>] = 1 /\ HoldsW'[f0] = {}
                  \/ value'[<<"W", f0, g>>] = 0 /\ \E u \in Thread : HoldsW'[f0] = {u}
    <3>1. g = deleted[f0]
      BY <1>3, <2>4
    <3>2. value[<<"R", f0, g>>] = 1 /\ HoldsR[f0] = {}
      BY <1>8, <2>4, <3>1 DEF ExclusiveR
    <3>3. <<"W", f0, g>> \in Semaphore /\ <<"W", f0, g>> # s
      BY <1>1, <1>4, Names
    <3>4. \/ value[<<"W", f0, g>>] = 1 /\ HoldsW[f0] = {}
          \/ value[<<"W", f0, g>>] = 0 /\ \E u \in Thread : HoldsW[f0] = {u}
      BY <2>4, <3>1 DEF ExclusiveW
    <3> QED BY <1>8, <2>3, <3>1, <3>2, <3>3, <3>4
  <2>5. OrderInv'
    BY <1>1, <1>4, <1>6, <1>8, <2>3, <2>4, OrderChange
  <2> QED BY <1>1, <1>6, <1>8, <2>1, <2>5, TakingKeeps
<1> QED BY <1>6, <1>7, <1>8

-----------------------------------------------------------------------------
LEMMA CurrentSemaphores ==
  ASSUME ManagerInv, NEW f \in File
  PROVE  /\ semaphoreW(f) = <<"W", f, deleted[f]>> /\ semaphoreW(f) \in Semaphore
         /\ semaphoreR(f) = <<"R", f, deleted[f]>> /\ semaphoreR(f) \in Semaphore
BY CurrentNames DEF semaphoreW, semaphoreR

(* The counts of deleters that have not replaced yet. *)
LEMMA DeletersFinite ==
  \A f \in File : IsFiniteSet(Deleters[f]) /\ Cardinality(Deleters[f]) \in Nat
<1> SUFFICES ASSUME NEW f \in File
             PROVE  IsFiniteSet(Deleters[f]) /\ Cardinality(Deleters[f]) \in Nat
  OBVIOUS
<1>1. Deleters[f] \in SUBSET Thread /\ IsFiniteSet(Thread)
  BY SemaphoreAssumption DEF Deleters
<1> QED BY <1>1, FS_Subset, FS_CardinalityType

(* A call that returns. *)
LEMMA ReturnKeeps ==
  ASSUME ManagerInv, NEW t \in Thread, Return(t), pc[t] \notin {"requestW", "requestR"},
         UNCHANGED <<deleted, inP>>, SemaphoreInv', OrderInv'
  PROVE  ManagerInv'
<1> USE InvParts
<1>1. /\ pc'[t] = "outside" /\ \A u \in Thread : u # t => pc'[u] = pc[u]
      /\ \A u \in Thread : u # t => op'[u] = op[u] /\ file'[u] = file[u]
      /\ file'[t] = None /\ op'[t] = None
      /\ FileTypeOK'
  BY DEF Return, Goto, FileTypeOK, PC
<1>2. CallInv'
  <2>1. /\ \A u \in Thread : pc'[u] # "outside" => file'[u] \in File /\ op'[u] \in CallsOn[file'[u]]
        /\ \A u \in Thread : pc'[u] \in {"replace", "removing"} => op'[u] = "DeleteIt"
        /\ \A u \in Thread : pc'[u] \in {"reading", "writing"} => op'[u] # "DeleteIt"
        /\ \A u \in Thread : pc'[u] \notin {"requestW", "requestR"} => inP'[u] = None
    BY <1>1 DEF CallInv
  <2>2. ASSUME NEW u \in Thread, pc'[u] = "requestW", inP'[u] # None
        PROVE  \E g \in 0 .. deleted'[file'[u]] : inP'[u] = <<"W", file'[u], g>>
    BY <1>1, <2>2 DEF CallInv
  <2>3. ASSUME NEW u \in Thread, pc'[u] = "requestR", inP'[u] # None
        PROVE  \E g \in 0 .. deleted'[file'[u]] : inP'[u] = <<"R", file'[u], g>>
    BY <1>1, <2>3 DEF CallInv
  <2> QED BY <2>1, <2>2, <2>3 DEF CallInv
<1>3. CountInv'
  <2>1. ASSUME NEW f \in File PROVE deleted'[f] + Cardinality(Deleters'[f]) <= MaxDeletes
    <3>1. Deleters'[f] \subseteq Deleters[f]
      BY <1>1, FileManagerAssumption DEF Deleters
    <3>2. Cardinality(Deleters'[f]) <= Cardinality(Deleters[f]) /\ Cardinality(Deleters'[f]) \in Nat
      BY <3>1, DeletersFinite, FS_Subset, FS_CardinalityType
    <3> QED BY <3>2, DeletersFinite, DeletedNat, FileManagerAssumption DEF CountInv
  <2> QED BY <2>1 DEF CountInv
<1>4. WaitsInCurrent'
  BY <1>1 DEF WaitsInCurrent
<1> QED BY <1>1, <1>2, <1>3, <1>4 DEF ManagerInv

LEMMA HoldersReturn ==
  ASSUME ManagerInv, NEW t \in Thread, Return(t)
  PROVE  \A f \in File : HoldsW'[f] = HoldsW[f] \ {t} /\ HoldsR'[f] = HoldsR[f] \ {t}
<1>1. /\ pc'[t] = "outside" /\ \A u \in Thread : u # t => pc'[u] = pc[u] /\ file'[u] = file[u]
  BY InvParts DEF Return, Goto, FileTypeOK
<1>2. "outside" \notin WPC /\ "outside" \notin RPC
  BY DEF WPC, RPC
<1> QED BY <1>1, <1>2 DEF HoldsW, HoldsR

LEMMA WithoutStranger ==
  ASSUME NEW S, NEW x, x \notin S
  PROVE  S \ {x} = S
OBVIOUS

(* A thread belongs to the holders of its own file only: to return concerns no other file.   *)
LEMMA HoldersApart ==
  ASSUME ManagerInv, NEW t \in Thread, Return(t), NEW f \in File, f # file[t]
  PROVE  HoldsW'[f] = HoldsW[f] /\ HoldsR'[f] = HoldsR[f]
<1>1. t \notin HoldsW[f] /\ t \notin HoldsR[f]
  BY DEF HoldsW, HoldsR
<1>2. HoldsW'[f] = HoldsW[f] \ {t} /\ HoldsR'[f] = HoldsR[f] \ {t}
  BY HoldersReturn
<1> QED BY <1>1, <1>2, WithoutStranger

(* Who holds a semaphore of an orderly file is its only holder, and no unit is left.         *)
LEMMA OnlyHolder ==
  ASSUME ManagerInv, NEW f \in OrderlyFile, NEW t \in Thread
  PROVE  /\ t \in HoldsW[f] => HoldsW[f] = {t} /\ value[<<"W", f, deleted[f]>>] = 0
         /\ t \in HoldsR[f] => HoldsR[f] = {t} /\ value[<<"R", f, deleted[f]>>] = 0
BY InvParts DEF ExclusiveW, ExclusiveR

(* ReleaseWriteAt gives semaphoreW back first. *)
LEMMA ReleaseWKeeps ==
  ASSUME ManagerInv, NEW t \in Thread, pc[t] = "writing",
         V(semaphoreW(file[t])), Goto(t, "releaseR"), UNCHANGED <<deleted, op, file>>
  PROVE  ManagerInv'
<1> USE InvParts
<1> DEFINE f0 == file[t]
           g0 == deleted[f0]
           s  == <<"W", f0, g0>>
<1>1. f0 \in File /\ inP[t] = None
  BY DEF CallInv
<1>2. s = semaphoreW(f0) /\ s \in Semaphore /\ g0 \in Generation
  BY <1>1, CurrentSemaphores, DeletedNat
<1>3. V(s)
  BY <1>2
<1>4. /\ SemaphoreInv' /\ value'[s] = value[s] + 1
      /\ \A r \in Semaphore : r # s => value'[r] = value[r]
  BY <1>2, <1>3, VKeeps, VEffect
<1>5. inP' = [inP EXCEPT ![t] = None]
  BY <1>1, <1>3 DEF V, SemaphoreTypeOK
<1>6. "releaseR" \in PC /\ "releaseR" \notin WPC /\ "releaseR" \in RPC /\ pc[t] \in WPC /\ pc[t] \in RPC
  BY DEF PC, WPC, RPC
<1>7. /\ HoldsW' = [HoldsW EXCEPT ![f0] = @ \ {t}] /\ t \in HoldsW[f0]
      /\ HoldsR' = [HoldsR EXCEPT ![f0] = @ \cup {t}] /\ t \in HoldsR[f0]
  BY <1>1, <1>6, HoldersMove
<1>8. /\ HoldsW'[f0] = HoldsW[f0] \ {t} /\ HoldsR'[f0] = HoldsR[f0]
      /\ \A f \in File : f # f0 => HoldsW'[f] = HoldsW[f] /\ HoldsR'[f] = HoldsR[f]
  BY <1>1, <1>7 DEF HoldsW, HoldsR
<1>9. ASSUME f0 \in OrderlyFile
      PROVE  /\ value'[s] = 1 /\ HoldsW'[f0] = {}
             /\ \/ value'[<<"R", f0, g0>>] = 1 /\ HoldsR'[f0] = {}
                \/ value'[<<"R", f0, g0>>] = 0 /\ \E u \in Thread : HoldsR'[f0] = {u}
  <2>1. HoldsW[f0] = {t} /\ value[s] = 0 /\ HoldsR[f0] = {t} /\ value[<<"R", f0, g0>>] = 0
    BY <1>7, <1>9, OnlyHolder
  <2>2. <<"R", f0, g0>> \in Semaphore /\ <<"R", f0, g0>> # s
    BY <1>1, <1>2, Names
  <2> QED BY <1>4, <1>8, <2>1, <2>2
<1>10. OrderInv'
  BY <1>1, <1>2, <1>4, <1>8, <1>9, OrderChange
<1>11. \A f \in File : deleted'[f] \in Nat /\ deleted[f] \in Nat /\ deleted[f] <= deleted'[f]
  BY DeletedNat
<1>12. FileTypeOK' /\ WaitsInCurrent' /\ CallInv'
  BY <1>5, <1>6, <1>11, TypesMove, WaitsMove, CallMoves
<1>13. CountInv'
  <2>1. \A u \in Thread : pc'[u] = "removing" <=> pc[u] = "removing"
    BY DEF Goto, FileTypeOK
  <2> QED BY <2>1, CountKept
<1> QED BY <1>4, <1>10, <1>12, <1>13 DEF ManagerInv

(* ... then semaphoreR, and returns. *)
LEMMA ReleaseRKeeps ==
  ASSUME ManagerInv, NEW t \in Thread, pc[t] = "releaseR",
         V(semaphoreR(file[t])), Return(t), UNCHANGED deleted
  PROVE  ManagerInv'
<1> USE InvParts
<1> DEFINE f0 == file[t]
           g0 == deleted[f0]
           s  == <<"R", f0, g0>>
<1>1. f0 \in File
  BY DEF CallInv
<1>2. s = semaphoreR(f0) /\ s \in Semaphore /\ g0 \in Generation
  BY <1>1, CurrentSemaphores, DeletedNat
<1>3. V(s) /\ UNCHANGED inP
  BY <1>2 DEF V
<1>4. /\ SemaphoreInv' /\ value'[s] = value[s] + 1
      /\ \A r \in Semaphore : r # s => value'[r] = value[r]
  BY <1>2, <1>3, VKeeps, VEffect
<1>5. \A f \in File : HoldsW'[f] = HoldsW[f] \ {t} /\ HoldsR'[f] = HoldsR[f] \ {t}
  BY HoldersReturn
<1>6. t \in HoldsR[f0] /\ t \notin HoldsW[f0]
  BY <1>1 DEF HoldsW, HoldsR, WPC, RPC
<1>7. \A f \in File : f # f0 => HoldsW'[f] = HoldsW[f] /\ HoldsR'[f] = HoldsR[f]
  BY HoldersApart
<1>8. ASSUME f0 \in OrderlyFile
      PROVE  /\ value'[s] = 1 /\ HoldsR'[f0] = {}
             /\ \/ value'[<<"W", f0, g0>>] = 1 /\ HoldsW'[f0] = {}
                \/ value'[<<"W", f0, g0>>] = 0 /\ \E u \in Thread : HoldsW'[f0] = {u}
  <2>1. HoldsR[f0] = {t} /\ value[s] = 0
    BY <1>6, <1>8, OnlyHolder
  <2>2. <<"W", f0, g0>> \in Semaphore /\ <<"W", f0, g0>> # s
    BY <1>1, <1>2, Names
  <2>3. \/ value[<<"W", f0, g0>>] = 1 /\ HoldsW[f0] = {}
        \/ value[<<"W", f0, g0>>] = 0 /\ \E u \in Thread : HoldsW[f0] = {u}
    BY <1>8 DEF ExclusiveW
  <2>4. HoldsW'[f0] = HoldsW[f0] /\ HoldsR'[f0] = {}
    <3>1. HoldsW'[f0] = HoldsW[f0] \ {t} /\ HoldsR'[f0] = HoldsR[f0] \ {t}
      BY <1>1, <1>5
    <3>2. HoldsR[f0] \ {t} = {}
      BY <2>1
    <3> QED BY <1>6, <3>1, <3>2, WithoutStranger
  <2> QED BY <1>4, <2>1, <2>2, <2>3, <2>4
<1>9. OrderInv'
  BY <1>1, <1>2, <1>4, <1>7, <1>8, OrderChange
<1> QED BY <1>3, <1>4, <1>9, ReturnKeeps

(* ReleaseReadAt gives a unit of semaphoreW nobody took, but never on an orderly file. *)
LEMMA ReleaseReadKeeps ==
  ASSUME ManagerInv, NEW t \in Thread, ReleaseReadAt(t)
  PROVE  ManagerInv'
<1> USE InvParts
<1> DEFINE f0 == file[t]
           g0 == deleted[f0]
           s  == <<"W", f0, g0>>
<1>1. /\ pc[t] \in {"reading", "writing"} /\ op[t] # "FileTest" /\ V(semaphoreW(f0))
      /\ Return(t) /\ UNCHANGED deleted
  BY DEF ReleaseReadAt
<1>2. f0 \in File /\ f0 \notin OrderlyFile
  <2>1. f0 \in File /\ op[t] \in CallsOn[f0] /\ op[t] # "DeleteIt"
    BY <1>1 DEF CallInv
  <2> QED BY <1>1, <2>1 DEF OrderlyFile
<1>3. s = semaphoreW(f0) /\ s \in Semaphore /\ g0 \in Generation
  BY <1>2, CurrentSemaphores, DeletedNat
<1>4. V(s) /\ UNCHANGED inP
  BY <1>1, <1>3 DEF V
<1>5. SemaphoreInv' /\ \A r \in Semaphore : r # s => value'[r] = value[r]
  BY <1>3, <1>4, VKeeps, VEffect
<1>6. \A f \in File : f # f0 => HoldsW'[f] = HoldsW[f] /\ HoldsR'[f] = HoldsR[f]
  BY <1>1, HoldersApart
<1>7. OrderInv'
  BY <1>1, <1>2, <1>3, <1>5, <1>6, OrderChange
<1> QED BY <1>1, <1>4, <1>5, <1>7, ReturnKeeps

(* Remove has run; the file's semaphores are not concerned. *)
LEMMA RemovedKeeps ==
  ASSUME ManagerInv, NEW t \in Thread, Removed(t)
  PROVE  ManagerInv'
<1> USE InvParts
<1>1. pc[t] = "removing" /\ Return(t) /\ UNCHANGED <<semaphoreVars, deleted>>
  BY DEF Removed
<1>2. SemaphoreInv'
  BY <1>1, SemaphoreNextInv
<1>3. \A f \in File : HoldsW'[f] = HoldsW[f] /\ HoldsR'[f] = HoldsR[f]
  <2>1. \A f \in File : t \notin HoldsW[f] /\ t \notin HoldsR[f]
    BY <1>1 DEF HoldsW, HoldsR, WPC, RPC
  <2>2. \A f \in File : HoldsW'[f] = HoldsW[f] \ {t} /\ HoldsR'[f] = HoldsR[f] \ {t}
    BY <1>1, HoldersReturn
  <2> QED BY <2>1, <2>2, WithoutStranger
<1>4. HoldsW' = HoldsW /\ HoldsR' = HoldsR
  BY <1>3 DEF HoldsW, HoldsR
<1>5. OrderInv'
  BY <1>1, <1>4 DEF OrderInv, ExclusiveW, ExclusiveR, Generations, semaphoreVars
<1> QED BY <1>1, <1>2, <1>5, ReturnKeeps DEF semaphoreVars
-----------------------------------------------------------------------------
(* The end of DeleteAt: it holds both semaphores it drops, so that nobody has a unit of      *)
(* them, and nobody waits for semaphoreR.                                                    *)
LEMMA ReplaceKeeps ==
  ASSUME ManagerInv, NEW t \in Thread, ReplaceSemaphores(t)
  PROVE  ManagerInv'
<1> USE InvParts
<1> DEFINE f0 == file[t]
           g0 == deleted[f0]
<1>1. /\ pc[t] = "replace" /\ Goto(t, "removing") /\ UNCHANGED <<value, queue, inP, op, file>>
      /\ deleted' = [deleted EXCEPT ![f0] = @ + 1]
  BY DEF ReplaceSemaphores, semaphoreVars
<1>2. f0 \in File /\ op[t] = "DeleteIt" /\ inP[t] = None
  BY <1>1 DEF CallInv
<1>3. g0 \in Nat /\ g0 \in Generation /\ g0 + 1 \in Generation /\ deleted \in [File -> Generation]
  <2>1. t \in Deleters[f0]
    BY <1>1, <1>2 DEF Deleters
  <2>2. Cardinality(Deleters[f0]) # 0 /\ Cardinality(Deleters[f0]) \in Nat
    BY <1>2, <2>1, DeletersFinite, FS_EmptySet
  <2>3. g0 + Cardinality(Deleters[f0]) <= MaxDeletes
    BY <1>2 DEF CountInv
  <2> QED BY <1>2, <2>2, <2>3, DeletedNat, FileManagerAssumption DEF Generation, FileTypeOK
<1>4. /\ deleted' \in [File -> Generation] /\ deleted'[f0] = g0 + 1
      /\ \A f \in File : f # f0 => deleted'[f] = deleted[f]
  BY <1>1, <1>2, <1>3
<1>5. SemaphoreInv'
  BY <1>1, SemaphoreNextInv DEF semaphoreVars
<1>6. "removing" \in PC /\ "removing" \notin WPC /\ "removing" \notin RPC
      /\ pc[t] \in WPC /\ pc[t] \in RPC
  BY <1>1 DEF PC, WPC, RPC
<1>7. /\ pc' \in [Thread -> PC] /\ pc'[t] = "removing"
      /\ \A u \in Thread : u # t => pc'[u] = pc[u]
      /\ HoldsW' = [HoldsW EXCEPT ![f0] = @ \ {t}] /\ t \in HoldsW[f0]
      /\ HoldsR' = [HoldsR EXCEPT ![f0] = @ \ {t}] /\ t \in HoldsR[f0]
  BY <1>1, <1>2, <1>6, HoldersMove
<1>8. /\ HoldsW'[f0] = HoldsW[f0] \ {t} /\ HoldsR'[f0] = HoldsR[f0] \ {t}
      /\ \A f \in File : f # f0 => HoldsW'[f] = HoldsW[f] /\ HoldsR'[f] = HoldsR[f]
  BY <1>2, <1>7 DEF HoldsW, HoldsR
<1>9. FileTypeOK'
  BY <1>1, <1>4, <1>7 DEF FileTypeOK
<1>10. CallInv'
  <2>1. \A f \in File : deleted'[f] \in Nat /\ deleted[f] \in Nat /\ deleted[f] <= deleted'[f]
    BY <1>3, <1>4, DeletedNat
  <2>2. inP' = [inP EXCEPT ![t] = None]
    BY <1>1, <1>2 DEF SemaphoreTypeOK
  <2> QED BY <1>1, <1>2, <1>6, <2>1, <2>2, CallMoves
<1>11. CountInv'
  <2>1. ASSUME NEW f \in File PROVE deleted'[f] + Cardinality(Deleters'[f]) <= MaxDeletes
    <3>1. IsFiniteSet(Deleters[f]) /\ Cardinality(Deleters[f]) \in Nat /\ deleted[f] \in Nat
          /\ deleted[f] + Cardinality(Deleters[f]) <= MaxDeletes
      BY DeletersFinite, DeletedNat DEF CountInv
    <3>2. CASE f = f0
      <4>1. t \in Deleters[f0] /\ Deleters'[f0] = Deleters[f0] \ {t}
        BY <1>1, <1>2, <1>7 DEF Deleters
      <4>2. Cardinality(Deleters[f0] \ {t}) = Cardinality(Deleters[f0]) - 1
        BY <3>1, <3>2, <4>1, FS_RemoveElement
      <4> QED BY <1>4, <3>1, <3>2, <4>1, <4>2, FileManagerAssumption
    <3>3. CASE f # f0
      <4>1. Deleters'[f] = Deleters[f]
        BY <1>1, <1>7, <3>3 DEF Deleters
      <4> QED BY <1>4, <3>1, <3>3, <4>1
    <3> QED BY <3>2, <3>3
  <2> QED BY <2>1 DEF CountInv
<1>12. OrderInv'
  <2>1. ASSUME f0 \in OrderlyFile
        PROVE  /\ value'[<<"W", f0, deleted'[f0]>>] = 1 /\ HoldsW'[f0] = {}
               /\ value'[<<"R", f0, deleted'[f0]>>] = 1 /\ HoldsR'[f0] = {}
               /\ \A g \in Generation :
                    /\ g < deleted'[f0] => value'[<<"W", f0, g>>] = 0 /\ value'[<<"R", f0, g>>] = 0
                    /\ g > deleted'[f0] => value'[<<"W", f0, g>>] = 1 /\ value'[<<"R", f0, g>>] = 1
    <3>1. /\ HoldsW[f0] = {t} /\ value[<<"W", f0, g0>>] = 0
          /\ HoldsR[f0] = {t} /\ value[<<"R", f0, g0>>] = 0
      BY <1>7, <2>1, OnlyHolder
    <3>2. HoldsW[f0] \ {t} = {} /\ HoldsR[f0] \ {t} = {}
      BY <3>1
    <3>3. \A g \in Generation :
            /\ g < g0 => value[<<"W", f0, g>>] = 0 /\ value[<<"R", f0, g>>] = 0
            /\ g > g0 => value[<<"W", f0, g>>] = 1 /\ value[<<"R", f0, g>>] = 1
      BY <2>1 DEF Generations
    <3>4. value[<<"W", f0, g0 + 1>>] = 1 /\ value[<<"R", f0, g0 + 1>>] = 1
      BY <1>3, <3>3
    <3>5. ASSUME NEW g \in Generation
          PROVE  /\ g < g0 + 1 => value[<<"W", f0, g>>] = 0 /\ value[<<"R", f0, g>>] = 0
                 /\ g > g0 + 1 => value[<<"W", f0, g>>] = 1 /\ value[<<"R", f0, g>>] = 1
      <4>1. g \in Nat
        BY DEF Generation
      <4>2. (g < g0 + 1 => g < g0 \/ g = g0) /\ (g > g0 + 1 => g > g0)
        BY <1>3, <4>1
      <4> QED BY <3>1, <3>3, <4>2
    <3> QED BY <1>1, <1>4, <1>8, <3>2, <3>4, <3>5
  <2>2. \A f \in OrderlyFile : f \in File /\ deleted[f] \in Generation
    BY <1>3 DEF OrderlyFile
  <2>3. \A f \in OrderlyFile : f # f0 =>
           /\ HoldsW'[f] = HoldsW[f] /\ HoldsR'[f] = HoldsR[f] /\ deleted'[f] = deleted[f]
           /\ \A g \in Generation : /\ value'[<<"W", f, g>>] = value[<<"W", f, g>>]
                                    /\ value'[<<"R", f, g>>] = value[<<"R", f, g>>]
    BY <1>1, <1>4, <1>8, <2>2
  <2>4. OrderInv
    OBVIOUS
  <2> QED BY <2>1, <2>2, <2>3, <2>4, OrderElsewhere
<1>13. WaitsInCurrent'
  <2>1. ASSUME NEW u \in Thread, pc'[u] = "requestR", file[u] \in OrderlyFile, inP[u] # None
        PROVE  inP[u] = <<"R", file[u], deleted'[file[u]]>>
    <3>1. u # t /\ pc[u] = "requestR" /\ file[u] \in File
      BY <1>7, <2>1 DEF OrderlyFile
    <3>2. inP[u] = <<"R", file[u], deleted[file[u]]>>
      BY <2>1, <3>1 DEF WaitsInCurrent
    <3>3. file[u] # f0
      <4>1. u \in HoldsW[file[u]]
        BY <3>1 DEF HoldsW, WPC
      <4>2. f0 \in OrderlyFile => HoldsW[f0] = {t}
        BY <1>7, OnlyHolder
      <4> QED BY <2>1, <3>1, <4>1, <4>2
    <3> QED BY <1>4, <3>1, <3>2, <3>3
  <2> QED BY <1>1, <2>1 DEF WaitsInCurrent
<1> QED BY <1>5, <1>9, <1>10, <1>11, <1>12, <1>13 DEF ManagerInv

(* A call begins: it holds nothing yet, unless it writes a file that is not orderly. *)
LEMMA CallKeeps ==
  ASSUME ManagerInv, NEW t \in Thread, Call(t)
  PROVE  ManagerInv'
<1> USE InvParts
<1>0. PICK f0 \in File : \E o \in CallsOn[f0] :
        /\ WithinBounds(o, f0) /\ op' = [op EXCEPT ![t] = o] /\ file' = [file EXCEPT ![t] = f0]
        /\ Goto(t, FirstPC(o))
  BY DEF Call
<1>1. PICK o \in CallsOn[f0] :
        /\ WithinBounds(o, f0) /\ op' = [op EXCEPT ![t] = o] /\ file' = [file EXCEPT ![t] = f0]
        /\ Goto(t, FirstPC(o))
  BY <1>0
<1>2. pc[t] = "outside" /\ inP[t] = None /\ UNCHANGED <<value, queue, inP, deleted>>
  BY DEF Call, CallInv, semaphoreVars
<1>3. /\ o \in Operation /\ FirstPC(o) \in {"reading", "writing", "requestW"}
      /\ FirstPC(o) \in {"reading", "writing"} => o # "DeleteIt"
      /\ f0 \in OrderlyFile => FirstPC(o) = "requestW"
  BY FileManagerAssumption DEF FirstPC, OrderlyFile, Operation
<1>4. /\ pc' \in [Thread -> PC] /\ op' \in [Thread -> Operation \cup {None}]
      /\ file' \in [Thread -> File \cup {None}]
      /\ pc'[t] = FirstPC(o) /\ op'[t] = o /\ file'[t] = f0
      /\ \A u \in Thread : u # t => pc'[u] = pc[u] /\ op'[u] = op[u] /\ file'[u] = file[u]
  BY <1>1, <1>3 DEF FileTypeOK, Goto, PC
<1>5. FileTypeOK'
  BY <1>2, <1>4 DEF FileTypeOK
<1>6. SemaphoreInv'
  BY <1>2, SemaphoreNextInv DEF semaphoreVars
<1>7. CallInv'
  <2>1. /\ \A u \in Thread : pc'[u] # "outside" => file'[u] \in File /\ op'[u] \in CallsOn[file'[u]]
        /\ \A u \in Thread : pc'[u] \in {"replace", "removing"} => op'[u] = "DeleteIt"
        /\ \A u \in Thread : pc'[u] \in {"reading", "writing"} => op'[u] # "DeleteIt"
        /\ \A u \in Thread : pc'[u] \notin {"requestW", "requestR"} => inP'[u] = None
    BY <1>1, <1>2, <1>3, <1>4 DEF CallInv
  <2>2. ASSUME NEW u \in Thread, pc'[u] = "requestW", inP'[u] # None
        PROVE  \E g \in 0 .. deleted'[file'[u]] : inP'[u] = <<"W", file'[u], g>>
    BY <1>2, <1>4, <2>2 DEF CallInv
  <2>3. ASSUME NEW u \in Thread, pc'[u] = "requestR", inP'[u] # None
        PROVE  \E g \in 0 .. deleted'[file'[u]] : inP'[u] = <<"R", file'[u], g>>
    BY <1>2, <1>4, <2>3 DEF CallInv
  <2> QED BY <2>1, <2>2, <2>3 DEF CallInv
<1>8. CountInv'
  <2>1. ASSUME NEW f \in File PROVE deleted'[f] + Cardinality(Deleters'[f]) <= MaxDeletes
    <3>1. IsFiniteSet(Deleters[f]) /\ Cardinality(Deleters[f]) \in Nat /\ deleted[f] \in Nat
          /\ deleted[f] + Cardinality(Deleters[f]) <= MaxDeletes
      BY DeletersFinite, DeletedNat DEF CountInv
    <3>2. CASE f = f0 /\ o = "DeleteIt"
      <4>1. Pending("DeleteIt", f) = Cardinality(Deleters[f])
        BY DEF Pending, Deleters
      <4>2. deleted[f] + Cardinality(Deleters[f]) < MaxDeletes
        BY <1>1, <3>2, <4>1 DEF WithinBounds
      <4>3. IsFiniteSet(Deleters[f] \cup {t}) /\ Cardinality(Deleters[f] \cup {t}) \in Nat
            /\ Cardinality(Deleters[f] \cup {t}) <= Cardinality(Deleters[f]) + 1
        BY <3>1, FS_AddElement, FS_CardinalityType
      <4>4. Deleters'[f] \subseteq Deleters[f] \cup {t}
        BY <1>4 DEF Deleters
      <4>5. Cardinality(Deleters'[f]) <= Cardinality(Deleters[f] \cup {t})
            /\ Cardinality(Deleters'[f]) \in Nat
        BY <4>3, <4>4, FS_Subset, FS_CardinalityType
      <4> QED BY <1>2, <3>1, <4>2, <4>3, <4>5, FileManagerAssumption
    <3>3. CASE f # f0 \/ o # "DeleteIt"
      <4>1. Deleters'[f] \subseteq Deleters[f]
        BY <1>4, <3>3 DEF Deleters
      <4>2. Cardinality(Deleters'[f]) <= Cardinality(Deleters[f]) /\ Cardinality(Deleters'[f]) \in Nat
        BY <3>1, <4>1, FS_Subset, FS_CardinalityType
      <4> QED BY <1>2, <3>1, <4>2, FileManagerAssumption
    <3> QED BY <3>2, <3>3
  <2> QED BY <2>1 DEF CountInv
<1>9. OrderInv'
  <2>1. ASSUME NEW f \in OrderlyFile PROVE HoldsW'[f] = HoldsW[f] /\ HoldsR'[f] = HoldsR[f]
    <3>1. file'[t] = f => pc'[t] \notin WPC /\ pc'[t] \notin RPC
      BY <1>3, <1>4 DEF WPC, RPC
    <3>2. pc[t] \notin WPC /\ pc[t] \notin RPC /\ f \in File
      BY <1>2 DEF WPC, RPC, OrderlyFile
    <3> QED BY <1>4, <3>1, <3>2 DEF HoldsW, HoldsR
  <2>2. ExclusiveW' /\ ExclusiveR'
    BY <1>2, <2>1 DEF ExclusiveW, ExclusiveR
  <2>3. Generations'
    BY <1>2 DEF Generations
  <2> QED BY <2>2, <2>3 DEF OrderInv
<1>10. WaitsInCurrent'
  BY <1>2, <1>3, <1>4 DEF WaitsInCurrent
<1> QED BY <1>5, <1>6, <1>7, <1>8, <1>9, <1>10 DEF ManagerInv
-----------------------------------------------------------------------------
LEMMA InitInv == Init => ManagerInv
<1> SUFFICES ASSUME Init PROVE ManagerInv
  OBVIOUS
<1>1. 0 \in Generation /\ MaxDeletes \in Nat
  BY FileManagerAssumption DEF Generation
<1>2. SemaphoreInv
  BY SemaphoreInitInv DEF Init
<1>3. FileTypeOK
  BY <1>1 DEF Init, FileTypeOK, PC
<1>4. CallInv /\ WaitsInCurrent
  BY DEF Init, SemaphoreInit, CallInv, WaitsInCurrent
<1>5. CountInv
  <2>1. \A f \in File : Deleters[f] = {}
    BY FileManagerAssumption DEF Init, Deleters, Operation
  <2> QED BY <1>1, <2>1, FS_EmptySet DEF CountInv, Init
<1>6. OrderInv
  <2>1. \A f \in File : HoldsW[f] = {} /\ HoldsR[f] = {} /\ deleted[f] = 0
    BY DEF Init, HoldsW, HoldsR, WPC, RPC
  <2>2. \A k \in {"W", "R"}, f \in File, g \in Generation : value[<<k, f, g>>] = 1
    BY Names, FileManagerAssumption DEF Init, SemaphoreInit
  <2>3. \A g \in Generation : ~(g < 0)
    BY DEF Generation
  <2> QED BY <1>1, <2>1, <2>2, <2>3
       DEF OrderInv, ExclusiveW, ExclusiveR, Generations, OrderlyFile
<1> QED BY <1>2, <1>3, <1>4, <1>5, <1>6 DEF ManagerInv

LEMMA NextInv == ManagerInv /\ [Next]_vars => ManagerInv'
<1> SUFFICES ASSUME ManagerInv, [Next]_vars PROVE ManagerInv'
  OBVIOUS
<1>1. ASSUME NEW t \in Thread, Call(t) PROVE ManagerInv'
  BY <1>1, CallKeeps
<1>2. ASSUME NEW t \in Thread, RequestWriteAt(t) PROVE ManagerInv'
  BY <1>2, RequestWKeeps, RequestRKeeps DEF RequestWriteAt
<1>3. ASSUME NEW t \in Thread, ReleaseWriteAt(t) PROVE ManagerInv'
  BY <1>3, ReleaseWKeeps, ReleaseRKeeps DEF ReleaseWriteAt
<1>4. ASSUME NEW t \in Thread, ReleaseReadAt(t) PROVE ManagerInv'
  BY <1>4, ReleaseReadKeeps
<1>5. ASSUME NEW t \in Thread, ReplaceSemaphores(t) PROVE ManagerInv'
  BY <1>5, ReplaceKeeps
<1>6. ASSUME NEW t \in Thread, Removed(t) PROVE ManagerInv'
  BY <1>6, RemovedKeeps
<1>7. CASE UNCHANGED vars
  <2>1. UNCHANGED <<value, queue, inP, deleted, pc, op, file>>
    BY <1>7 DEF vars, semaphoreVars, fileVars
  <2>2. SemaphoreInv'
    BY <2>1, SemaphoreNextInv, InvParts DEF semaphoreVars
  <2>3. FileTypeOK' /\ CallInv' /\ WaitsInCurrent'
    BY <2>1, InvParts DEF FileTypeOK, CallInv, WaitsInCurrent
  <2>4. CountInv'
    BY <2>1, InvParts DEF CountInv, Deleters
  <2>5. OrderInv'
    <3>1. HoldsW' = HoldsW /\ HoldsR' = HoldsR
      BY <2>1 DEF HoldsW, HoldsR
    <3> QED BY <2>1, <3>1, InvParts DEF OrderInv, ExclusiveW, ExclusiveR, Generations
  <2> QED BY <2>2, <2>3, <2>4, <2>5 DEF ManagerInv
<1> QED BY <1>1, <1>2, <1>3, <1>4, <1>5, <1>6, <1>7 DEF Next, Step

(* Every thread of an orderly file that holds a semaphore is alone with it, the semaphores   *)
(* of past deletes are used up and those of coming deletes untouched.                        *)
THEOREM InvariantHolds == Spec => []ManagerInv
<1> QED BY InitInv, NextInv, PTL DEF Spec

(* Type correctness. *)
THEOREM TypeCorrect == Spec => []TypeOK
<1>1. ManagerInv => TypeOK
  BY InvParts
<1> QED BY <1>1, InvariantHolds, PTL

(* RequestWriteAt lets one thread at a time write a file whose callers keep to it, whatever  *)
(* happens on the other files and however often the file is deleted.                         *)
THEOREM WritersExclude == Spec => []WriteExclusion
<1>1. ManagerInv => WriteExclusion
  <2> SUFFICES ASSUME ManagerInv, NEW f \in OrderlyFile
               PROVE  Cardinality(Doing("writing", f)) <= 1
    BY DEF WriteExclusion
  <2>1. Doing("writing", f) \subseteq HoldsW[f]
    BY DEF Doing, HoldsW, WPC, OrderlyFile
  <2>2. HoldsW[f] = {} \/ \E t \in Thread : HoldsW[f] = {t}
    BY InvParts DEF ExclusiveW
  <2>3. Doing("writing", f) = {} \/ \E t \in Thread : Doing("writing", f) = {t}
    BY <2>1, <2>2
  <2>4. Cardinality({}) = 0 /\ \A x : Cardinality({x}) = 1
    BY FS_EmptySet, FS_Singleton
  <2>5. Cardinality(Doing("writing", f)) \in {0, 1}
    BY <2>3, <2>4
  <2> QED BY <2>5
<1> QED BY <1>1, InvariantHolds, PTL

(* DeleteAt replaces the semaphores only while nobody writes, deletes, or holds a unit.      *)
THEOREM DeletesWait == Spec => []DeleteWaitsForWriter
<1>1. ManagerInv => DeleteWaitsForWriter
  <2> SUFFICES ASSUME ManagerInv, NEW f \in OrderlyFile, NEW t \in Doing("replace", f)
               PROVE  /\ Cardinality(Doing("replace", f)) = 1
                      /\ Doing("writing", f) = {}
                      /\ value[semaphoreW(f)] + value[semaphoreR(f)] = 0
    BY DEF DeleteWaitsForWriter
  <2>1. t \in Thread /\ t \in HoldsW[f] /\ t \in HoldsR[f] /\ pc[t] = "replace" /\ f \in File
    BY DEF Doing, HoldsW, HoldsR, WPC, RPC, OrderlyFile
  <2>2. /\ HoldsW[f] = {t} /\ value[semaphoreW(f)] = 0
        /\ HoldsR[f] = {t} /\ value[semaphoreR(f)] = 0
    BY <2>1, OnlyHolder, CurrentSemaphores
  <2>3. \A l \in {"replace", "writing"} : Doing(l, f) \subseteq {t}
    BY <2>1, <2>2 DEF Doing, HoldsW, WPC
  <2>4. Doing("replace", f) = {t} /\ Doing("writing", f) = {}
    BY <2>1, <2>3 DEF Doing
  <2> QED BY <2>2, <2>4, FS_Singleton
<1> QED BY <1>1, InvariantHolds, PTL
=============================================================================

-------------------------- MODULE Project2_proofs ---------------------------
(***************************************************************************)
(* Proofs about the two parts of the Project2 kernel.  VirtualMemory: its  *)
(* inductive invariant IInv, and that it implements PrivateMemory, for any *)
(* number of threads, frames and pages.  ForkWait: for any number of       *)
(* programs, children and IDs, the child lists are in order whatever the   *)
(* programs do; that a sleeping program has a child that wakes it, and     *)
(* only once, needs programs that use an ID for one child and wait for it  *)
(* once.                                                                   *)
(***************************************************************************)
EXTENDS VirtualMemory, ForkWait, SequenceTheorems, TLAPS

-----------------------------------------------------------------------------
(* VirtualMemory                                                           *)

(* What a page is. *)
LEMMA PageFacts ==
  /\ \A t \in Thread : \A v \in VPage(t) : <<t, v>> \in Page
  /\ \A p \in Page : p[1] \in Thread /\ p[2] \in VPage(p[1]) /\ p = <<p[1], p[2]>>
  /\ None \notin Page
  /\ None \notin Thread
BY VMAssumption DEF Page, VPage

(* What an instruction is, and what its next page is while it executes. *)
LEMMA InstructionFacts ==
  ASSUME NEW t \in Thread, NEW i \in Instruction(t)
  PROVE  /\ i.pages \in Seq(VPage(t))
         /\ i.value \in Value
BY VMAssumption DEF Instruction, Load, Store, Write

(* A store translates its code page, then the page it overwrites. *)
LEMMA StoreFacts ==
  ASSUME NEW t \in Thread, NEW i \in Instruction(t), i.op = "store"
  PROVE  /\ Len(i.pages) \in 1 .. 2
         /\ i.pages[Len(i.pages)] \in VPage(t)
         /\ i.value \in Value
<1>1. i.pages \in [1 .. 2 -> VPage(t)] /\ i.value \in Value
  BY DEF Instruction, Load, Store, Write
<1>2. i.pages \in Seq(VPage(t))
  BY InstructionFacts
<1>3. Len(i.pages) \in Nat /\ DOMAIN i.pages = 1 .. Len(i.pages)
  BY <1>2, LenProperties
<1>4. Len(i.pages) = 2
  BY <1>1, <1>3
<1> QED BY <1>1, <1>4

(* In a state of the invariant an executing instruction translates pages of its own thread. *)
LEMMA ExecutingFacts ==
  ASSUME TypeOK, RegisterFollowsThread, ReadsAreCurrent, Executing
  PROVE  /\ currentThread \in Thread /\ currentThread # None
         /\ status[currentThread] = "loaded"
         /\ machinePageTable = currentThread
         /\ NextVPage \in VPage(currentThread)
         /\ TranslatedPage = <<currentThread, NextVPage>>
         /\ TranslatedPage \in Page
         /\ instr.value \in Value
         /\ Len(got) \in Nat /\ Len(instr.pages) \in Nat
<1>1. currentThread \in Thread /\ currentThread # None /\ instr \in Instruction(currentThread)
  BY PageFacts DEF TypeOK, Executing
<1>2. instr.pages \in Seq(VPage(currentThread)) /\ instr.value \in Value
  BY <1>1, InstructionFacts
<1>3. Len(got) \in Nat /\ Len(instr.pages) \in Nat
  BY <1>2, LenProperties DEF TypeOK
<1>4. NextVPage \in VPage(currentThread)
  <2>1. Len(got) + 1 \in 1 .. Len(instr.pages)
    BY <1>3 DEF Executing
  <2> QED BY <1>2, <2>1, ElementOfSeq DEF NextVPage
<1>5. status[currentThread] = "loaded" /\ machinePageTable = currentThread
  BY <1>1 DEF Executing, ReadsAreCurrent, RegisterFollowsThread
<1> QED BY <1>1, <1>2, <1>3, <1>4, <1>5, PageFacts DEF TranslatedPage

-----------------------------------------------------------------------------
(* The kernel starts in a state that satisfies the invariant.                               *)
LEMMA InitIInv == Init => IInv
<1> SUFFICES ASSUME Init PROVE IInv
  OBVIOUS
<1> USE DEF Init
<1>1. TypeOK
  <2>1. got \in Seq([page : Page, value : Value])
    OBVIOUS
  <2> QED BY <2>1, VMAssumption DEF TypeOK, Entry, Unmapped
<1>2. FrameOwnership /\ OnlyLoadedOwn /\ CleanPagesInSwap
  BY DEF FrameOwnership, OnlyLoadedOwn, CleanPagesInSwap, Unmapped
<1>3. RegisterFollowsThread /\ ReadsAreCurrent
  BY PageFacts DEF RegisterFollowsThread, ReadsAreCurrent
<1> QED BY <1>1, <1>2, <1>3 DEF IInv

-----------------------------------------------------------------------------
(* Actions that leave memory alone.                                        *)

(* Dispatching another thread between two instructions preserves the invariant.             *)
LEMMA SwitchIInv ==
  ASSUME IInv, NEW n \in Thread, Switch(n)
  PROVE  IInv'
<1> USE DEF IInv, Switch, memoryVars, instrVars
<1>1. TypeOK'
  BY DEF TypeOK, RestoreState
<1>2. FrameOwnership' /\ CleanPagesInSwap'
  BY DEF FrameOwnership, CleanPagesInSwap
<1>3. OnlyLoadedOwn'
  BY DEF OnlyLoadedOwn, TypeOK
<1>4. RegisterFollowsThread'
  BY DEF RegisterFollowsThread, RestoreState
<1>5. ReadsAreCurrent'
  BY DEF ReadsAreCurrent
<1> QED BY <1>1, <1>2, <1>3, <1>4, <1>5

(* The end of the last thread, whose frames nobody frees, preserves the invariant.          *)
LEMMA FinishLastIInv ==
  ASSUME IInv, FinishLast
  PROVE  IInv'
<1> USE DEF IInv, FinishLast, memoryVars, instrVars
<1>1. TypeOK'
  BY DEF TypeOK
<1>2. FrameOwnership' /\ CleanPagesInSwap'
  BY DEF FrameOwnership, CleanPagesInSwap
<1>3. OnlyLoadedOwn'
  <2> SUFFICES ASSUME NEW p \in Page, pageTable[p].valid
               PROVE  status'[p[1]] = "finished"
    BY DEF OnlyLoadedOwn
  <2>1. p[1] \in Thread /\ currentThread \in Thread
    BY PageFacts DEF TypeOK
  <2>2. CASE p[1] = currentThread
    BY <2>1, <2>2 DEF TypeOK
  <2>3. CASE p[1] # currentThread
    BY <2>1, <2>3 DEF TypeOK
  <2> QED BY <2>2, <2>3
<1>4. RegisterFollowsThread' /\ ReadsAreCurrent'
  BY DEF RegisterFollowsThread, ReadsAreCurrent
<1> QED BY <1>1, <1>2, <1>3, <1>4

(* The beginning of an instruction preserves the invariant.                                 *)
LEMMA FetchIInv ==
  ASSUME IInv, Fetch
  PROVE  IInv'
<1> USE DEF IInv, Fetch, memoryVars
<1>1. got' \in Seq([page : Page, value : Value])
  OBVIOUS
<1>2. TypeOK'
  BY <1>1, VMAssumption DEF TypeOK
<1>3. FrameOwnership' /\ CleanPagesInSwap' /\ OnlyLoadedOwn' /\ RegisterFollowsThread'
  BY DEF FrameOwnership, CleanPagesInSwap, OnlyLoadedOwn, RegisterFollowsThread
<1>4. ReadsAreCurrent'
  BY DEF ReadsAreCurrent
<1> QED BY <1>2, <1>3, <1>4

(* The end of a reading instruction preserves the invariant.                                *)
LEMMA RetireIInv ==
  ASSUME IInv, Retire
  PROVE  IInv'
<1> USE DEF IInv, Retire, memoryVars
<1>1. got' \in Seq([page : Page, value : Value])
  OBVIOUS
<1>2. TypeOK'
  BY <1>1, VMAssumption DEF TypeOK
<1>3. FrameOwnership' /\ CleanPagesInSwap' /\ OnlyLoadedOwn' /\ RegisterFollowsThread'
  BY DEF FrameOwnership, CleanPagesInSwap, OnlyLoadedOwn, RegisterFollowsThread
<1>4. ReadsAreCurrent'
  BY DEF ReadsAreCurrent
<1> QED BY <1>2, <1>3, <1>4

(* ReadMem of a resident page preserves the invariant: what it reads is current.            *)
LEMMA ReadMemIInv ==
  ASSUME IInv, ReadMem
  PROVE  IInv'
<1> USE DEF IInv, ReadMem, memoryVars
<1> DEFINE e == [page |-> <<currentThread, NextVPage>>,
                 value |-> mainMemory[pageTable[TranslatedPage].frame]]
<1>0. got' = Append(got, e)
  OBVIOUS
<1>1. /\ TranslatedPage = <<currentThread, NextVPage>> /\ TranslatedPage \in Page
      /\ Len(got) \in Nat /\ Len(instr.pages) \in Nat
  BY ExecutingFacts
<1>2. e.value = Contents[TranslatedPage] /\ e \in [page : Page, value : Value]
  BY <1>1 DEF Contents, FrameOwnership, TypeOK
<1>3. got' \in Seq([page : Page, value : Value])
  BY <1>0, <1>2 DEF TypeOK
<1>5. TypeOK'
  BY <1>3 DEF TypeOK
<1>6. FrameOwnership' /\ CleanPagesInSwap' /\ OnlyLoadedOwn' /\ RegisterFollowsThread'
  BY DEF FrameOwnership, CleanPagesInSwap, OnlyLoadedOwn, RegisterFollowsThread
<1>7. ReadsAreCurrent'
  <2>1. Contents' = Contents
    BY DEF Contents
  <2>2. SUFFICES ASSUME NEW i \in DOMAIN got'
                 PROVE  /\ i <= Len(instr.pages)
                        /\ got'[i].page = <<currentThread, instr.pages[i]>>
                        /\ got'[i].value = Contents[got'[i].page]
    BY <2>1 DEF ReadsAreCurrent, Executing
  <2>3. i \in 1 .. Len(got) + 1 /\ got'[i] = IF i = Len(got) + 1 THEN e ELSE got[i]
    BY <1>0, <1>2 DEF TypeOK
  <2>4. CASE i = Len(got) + 1
    BY <1>1, <1>2, <2>3, <2>4 DEF Executing, NextVPage
  <2>5. CASE i # Len(got) + 1
    <3>1. i \in DOMAIN got
      BY <1>1, <2>3, <2>5 DEF TypeOK
    <3> QED BY <3>1, <2>3, <2>5 DEF ReadsAreCurrent, Executing
  <2> QED BY <2>4, <2>5
<1> QED BY <1>5, <1>6, <1>7

-----------------------------------------------------------------------------
(* Actions that change memory.                                             *)

(* Loading a program preserves the invariant: its pages were in no frame.                   *)
LEMMA RunUserProgIInv ==
  ASSUME IInv, RunUserProg
  PROVE  IInv'
<1> USE DEF IInv, RunUserProg, instrVars
<1> DEFINE t == currentThread
<1>0. t \in Thread /\ t # None /\ status[t] = "forked" /\ instr = None
  BY DEF TypeOK, ReadsAreCurrent
<1>1. \A p \in Page : p[1] = t => ~pageTable[p].valid
  BY <1>0 DEF OnlyLoadedOwn
<1>2. TypeOK'
  <2>1. swapFile' \in [Page -> Value]
    BY PageFacts, VMAssumption DEF TypeOK
  <2>2. pageTable' \in [Page -> Entry]
    BY DEF TypeOK, Entry, Unmapped
  <2> QED BY <1>0, <2>1, <2>2 DEF TypeOK
<1>3. FrameOwnership'
  BY <1>1 DEF FrameOwnership, TypeOK, Unmapped
<1>4. OnlyLoadedOwn'
  BY PageFacts DEF OnlyLoadedOwn, TypeOK, Unmapped
<1>5. CleanPagesInSwap'
  BY <1>1 DEF CleanPagesInSwap, TypeOK, Unmapped
<1>6. RegisterFollowsThread' /\ ReadsAreCurrent'
  BY <1>0 DEF RegisterFollowsThread, ReadsAreCurrent
<1> QED BY <1>2, <1>3, <1>4, <1>5, <1>6

(* Finish and ~AddrSpace preserve the invariant: exactly the frames of the thread go.       *)
LEMMA FinishIInv ==
  ASSUME IInv, NEW n \in Thread, Finish(n)
  PROVE  IInv'
<1> USE DEF IInv, Finish, DestroyAddrSpace, instrVars
<1> DEFINE t == currentThread
<1>0. t \in Thread /\ t # None /\ instr = None /\ n # t /\ n # None
  BY PageFacts DEF TypeOK
<1>1. FramesOf(t) \subseteq Frame
  BY DEF FramesOf, FrameOwnership
<1>2. ASSUME NEW p \in Page, pageTable[p].valid
      PROVE  pageTable[p].frame \in FramesOf(t) <=> p[1] = t
  BY <1>2 DEF FramesOf, FrameOwnership
<1>3. ASSUME NEW f \in Frame, PPT[f] # None
      PROVE  f \in FramesOf(t) <=> PPT[f][1] = t
  <2>1. PPT[f] \in Page /\ pageTable[PPT[f]].valid /\ pageTable[PPT[f]].frame = f
    BY <1>3 DEF FrameOwnership, TypeOK
  <2> QED BY <2>1, <1>2
<1>4. TypeOK'
  <2>1. pageTable' \in [Page -> Entry]
    BY DEF TypeOK, Entry, Unmapped
  <2>2. mainMemory' \in [Frame -> Value] /\ PPT' \in [Frame -> Page \cup {None}]
    BY VMAssumption DEF TypeOK
  <2> QED BY <1>0, <2>1, <2>2 DEF TypeOK, RestoreState
<1>5. FrameOwnership'
  <2>1. ASSUME NEW p \in Page, pageTable'[p].valid
        PROVE  pageTable'[p].frame \in Frame /\ PPT'[pageTable'[p].frame] = p
    <3>1. p[1] # t /\ pageTable'[p] = pageTable[p]
      BY <2>1 DEF Unmapped
    <3> QED BY <1>2, <2>1, <3>1 DEF FrameOwnership
  <2>2. ASSUME NEW f \in Frame, PPT'[f] # None
        PROVE  pageTable'[PPT'[f]].valid /\ pageTable'[PPT'[f]].frame = f
    <3>1. PPT'[f] = PPT[f] /\ PPT[f] \in Page /\ PPT[f][1] # t
      BY <1>3, <2>2 DEF TypeOK
    <3> QED BY <2>2, <3>1 DEF FrameOwnership
  <2>3. memoryManager' = {f \in Frame : PPT'[f] # None}
    BY <1>1 DEF FrameOwnership
  <2> QED BY <2>1, <2>2, <2>3 DEF FrameOwnership
<1>6. OnlyLoadedOwn'
  <2> SUFFICES ASSUME NEW p \in Page, pageTable'[p].valid
               PROVE  status'[p[1]] = "loaded"
    BY DEF OnlyLoadedOwn
  <2>1. p[1] \in Thread /\ p[1] # t /\ pageTable[p].valid
    BY PageFacts DEF Unmapped
  <2> QED BY <1>0, <2>1 DEF OnlyLoadedOwn, TypeOK
<1>7. CleanPagesInSwap'
  <2> SUFFICES ASSUME NEW p \in Page, pageTable'[p].valid, ~pageTable'[p].dirty
               PROVE  mainMemory'[pageTable'[p].frame] = swapFile'[p]
    BY DEF CleanPagesInSwap
  <2>1. p[1] # t /\ pageTable'[p] = pageTable[p]
    BY DEF Unmapped
  <2> QED BY <1>2, <2>1 DEF CleanPagesInSwap, FrameOwnership
<1>8. RegisterFollowsThread' /\ ReadsAreCurrent'
  BY <1>0 DEF RegisterFollowsThread, ReadsAreCurrent, RestoreState, TypeOK
<1> QED BY <1>4, <1>5, <1>6, <1>7, <1>8

(* WriteMem preserves the invariant: the page it changes is dirty and its own.              *)
LEMMA WriteMemIInv ==
  ASSUME IInv, WriteMem
  PROVE  IInv'
<1> USE DEF IInv, WriteMem
<1> DEFINE q == TranslatedPage
           f == pageTable[q].frame
<1>1. q \in Page /\ instr.value \in Value
  BY ExecutingFacts
<1>2. f \in Frame /\ PPT[f] = q
  BY <1>1 DEF FrameOwnership
<1>3. \A p \in Page : /\ pageTable'[p].valid = pageTable[p].valid
                      /\ pageTable'[p].frame = pageTable[p].frame
                      /\ p # q => pageTable'[p] = pageTable[p]
  BY <1>1 DEF TypeOK, Entry
<1>4. pageTable'[q].dirty
  BY <1>1 DEF TypeOK, Entry
<1>5. TypeOK'
  <2>1. pageTable' \in [Page -> Entry]
    BY <1>1 DEF TypeOK, Entry
  <2>2. mainMemory' \in [Frame -> Value]
    BY <1>1, <1>2 DEF TypeOK
  <2>3. got' \in Seq([page : Page, value : Value])
    OBVIOUS
  <2> QED BY <2>1, <2>2, <2>3, VMAssumption DEF TypeOK
<1>6. FrameOwnership'
  BY <1>3 DEF FrameOwnership, TypeOK
<1>7. OnlyLoadedOwn'
  BY <1>3 DEF OnlyLoadedOwn
<1>8. CleanPagesInSwap'
  <2> SUFFICES ASSUME NEW p \in Page, pageTable'[p].valid, ~pageTable'[p].dirty
               PROVE  mainMemory'[pageTable'[p].frame] = swapFile'[p]
    BY DEF CleanPagesInSwap
  <2>1. p # q /\ pageTable'[p] = pageTable[p] /\ pageTable[p].valid
    BY <1>3, <1>4
  <2>2. pageTable[p].frame \in Frame /\ pageTable[p].frame # f
    BY <1>2, <2>1 DEF FrameOwnership
  <2> QED BY <2>1, <2>2 DEF CleanPagesInSwap, TypeOK
<1>9. RegisterFollowsThread' /\ ReadsAreCurrent'
  BY DEF RegisterFollowsThread, ReadsAreCurrent
<1> QED BY <1>5, <1>6, <1>7, <1>8, <1>9

-----------------------------------------------------------------------------
(* The page fault.                                                         *)

(* Where the frame came from makes no difference: after the fault frame f holds the page,  *)
(* and if another page was in it, that one is invalid and its contents are in its file.    *)
FaultEffect(f, q) ==
  /\ PPT[f] # q
  /\ PPT' = [PPT EXCEPT ![f] = q]
  /\ memoryManager' = memoryManager \cup {f}
  /\ pageTable' \in [Page -> Entry]
  /\ pageTable'[q] = [valid |-> TRUE, dirty |-> FALSE, frame |-> f]
  /\ \A p \in Page \ {q} : IF p = PPT[f] THEN ~pageTable'[p].valid
                                         ELSE pageTable'[p] = pageTable[p]
  /\ swapFile' \in [Page -> Value]
  /\ \A p \in Page : swapFile'[p] = IF p = PPT[f] THEN mainMemory[f] ELSE swapFile[p]
  /\ mainMemory' = [mainMemory EXCEPT ![f] = swapFile'[q]]
  /\ loadedBefore' \subseteq Frame \X Frame

(* The page a fault loads is of currentThread; it goes to a frame without a valid owner.    *)
LEMMA FaultFacts ==
  ASSUME IInv, PageFault
  PROVE  /\ TranslatedPage \in Page
         /\ TranslatedPage = <<currentThread, NextVPage>>
         /\ currentThread \in Thread /\ status[currentThread] = "loaded"
         /\ ~pageTable[TranslatedPage].valid
         /\ \E f \in Frame : FaultEffect(f, TranslatedPage)
<1> DEFINE q == TranslatedPage
<1>1. /\ currentThread \in Thread /\ machinePageTable = currentThread
      /\ status[currentThread] = "loaded"
      /\ q \in Page /\ q = <<currentThread, NextVPage>> /\ ~pageTable[q].valid
  BY ExecutingFacts DEF PageFault, IInv
<1>2. PICK f \in Frame :
        \/ /\ FirstFree(f)
           /\ memoryManager' = memoryManager \cup {f}
           /\ MapAndLoad(f, NextVPage, swapFile, pageTable)
        \/ /\ memoryManager = Frame
           /\ Oldest(f)
           /\ MapAndLoad(f, NextVPage, SwapOut(f), Invalidate(f))
           /\ UNCHANGED memoryManager
  BY DEF PageFault, AllocatePage
<1>3. PPT[f] # q
  BY <1>1, PageFacts DEF IInv, FrameOwnership
<1>4. loadedBefore' \subseteq Frame \X Frame
  BY <1>2 DEF MapAndLoad, MakeYoungest, IInv, TypeOK
<1>5. CASE FirstFree(f) /\ memoryManager' = memoryManager \cup {f}
           /\ MapAndLoad(f, NextVPage, swapFile, pageTable)
  <2>1. PPT[f] = None
    BY <1>5 DEF FirstFree, IInv, FrameOwnership
  <2>2. /\ PPT' = [PPT EXCEPT ![f] = q]
        /\ pageTable' = [pageTable EXCEPT ![q] = [valid |-> TRUE, dirty |-> FALSE, frame |-> f]]
        /\ swapFile' = swapFile
        /\ mainMemory' = [mainMemory EXCEPT ![f] = swapFile[q]]
    BY <1>1, <1>5 DEF MapAndLoad, TranslatedPage
  <2>3. pageTable' \in [Page -> Entry]
    BY <1>1, <2>2 DEF IInv, TypeOK, Entry
  <2>4. FaultEffect(f, q)
    BY <1>1, <1>3, <1>4, <1>5, <2>1, <2>2, <2>3, PageFacts DEF FaultEffect, IInv, TypeOK
  <2> QED BY <1>1, <2>4
<1>6. CASE memoryManager = Frame /\ UNCHANGED memoryManager
           /\ MapAndLoad(f, NextVPage, SwapOut(f), Invalidate(f))
  <2> DEFINE victim == PPT[f]
  <2>1. victim # None /\ victim \in Page
        /\ pageTable[victim].valid /\ pageTable[victim].frame = f
    BY <1>6 DEF IInv, FrameOwnership, TypeOK
  <2>2. /\ PPT' = [PPT EXCEPT ![f] = q]
        /\ pageTable' = [Invalidate(f) EXCEPT ![q] = [valid |-> TRUE, dirty |-> FALSE, frame |-> f]]
        /\ swapFile' = SwapOut(f)
        /\ mainMemory' = [mainMemory EXCEPT ![f] = SwapOut(f)[q]]
    BY <1>1, <1>6 DEF MapAndLoad, TranslatedPage
  <2>3. /\ Invalidate(f) \in [Page -> Entry]
        /\ ~Invalidate(f)[victim].valid
        /\ \A p \in Page \ {victim} : Invalidate(f)[p] = pageTable[p]
    <3> DEFINE e == [pageTable[victim] EXCEPT !.valid = FALSE, !.dirty = FALSE]
    <3>1. Invalidate(f) = [pageTable EXCEPT ![victim] = e]
      BY <2>1 DEF Invalidate
    <3>2. pageTable \in [Page -> Entry]
      BY DEF IInv, TypeOK
    <3>3. e \in Entry /\ ~e.valid
      BY <3>2, <2>1 DEF Entry
    <3> HIDE DEF e
    <3> QED BY <3>1, <3>2, <3>3, <2>1
  <2>4. /\ swapFile' \in [Page -> Value]
        /\ \A p \in Page : swapFile'[p] = IF p = victim THEN mainMemory[f] ELSE swapFile[p]
    <3>1. CASE pageTable[victim].dirty
      BY <2>1, <2>2, <3>1 DEF SwapOut, IInv, TypeOK
    <3>2. CASE ~pageTable[victim].dirty
      BY <2>1, <2>2, <3>2 DEF SwapOut, IInv, TypeOK, CleanPagesInSwap
    <3> QED BY <3>1, <3>2
  <2>5. pageTable' \in [Page -> Entry]
    BY <1>1, <2>2, <2>3 DEF Entry
  <2>6. FaultEffect(f, q)
    BY <1>1, <1>3, <1>4, <1>6, <2>1, <2>2, <2>3, <2>4, <2>5 DEF FaultEffect
  <2> QED BY <1>1, <2>6
<1> QED BY <1>2, <1>5, <1>6

(* No page changes its contents: the victim's are in its file, the loaded page's came from  *)
(* its file.                                                                                *)
LEMMA FaultKeepsContents ==
  ASSUME IInv, PageFault
  PROVE  Contents' = Contents
<1> DEFINE q == TranslatedPage
<1>1. q \in Page /\ ~pageTable[q].valid
  BY FaultFacts
<1>2. PICK f \in Frame : FaultEffect(f, q)
  BY FaultFacts
<1>3. SUFFICES ASSUME NEW p \in Page PROVE Contents'[p] = Contents[p]
  BY DEF Contents
<1>4. CASE p = q
  BY <1>1, <1>2, <1>4 DEF FaultEffect, Contents, IInv, TypeOK
<1>5. CASE p # q /\ p = PPT[f]
  BY <1>2, <1>5, PageFacts DEF FaultEffect, Contents, IInv, FrameOwnership
<1>6. CASE p # q /\ p # PPT[f]
  <2>1. pageTable'[p] = pageTable[p] /\ swapFile'[p] = swapFile[p]
    BY <1>2, <1>6 DEF FaultEffect
  <2>2. pageTable[p].valid => pageTable[p].frame \in Frame \ {f}
    BY <1>6 DEF IInv, FrameOwnership
  <2> QED BY <1>2, <2>1, <2>2 DEF FaultEffect, Contents, IInv, TypeOK
<1> QED BY <1>4, <1>5, <1>6

(* allocatePage preserves the invariant, with and without an eviction.                      *)
LEMMA PageFaultIInv ==
  ASSUME IInv, PageFault
  PROVE  IInv'
<1> DEFINE q == TranslatedPage
<1>1. /\ q \in Page /\ q[1] = currentThread /\ currentThread \in Thread
      /\ status[currentThread] = "loaded" /\ ~pageTable[q].valid
  BY FaultFacts
<1>2. PICK f \in Frame : FaultEffect(f, q)
  BY FaultFacts
<1>3. /\ UNCHANGED <<currentThread, status, machinePageTable, instr>>
      /\ got' = <<>>
  BY DEF PageFault
<1>4. TypeOK'
  <2>1. PPT' \in [Frame -> Page \cup {None}] /\ mainMemory' \in [Frame -> Value]
    BY <1>1, <1>2 DEF FaultEffect, IInv, TypeOK
  <2>2. got' \in Seq([page : Page, value : Value])
    BY <1>3
  <2> QED BY <1>2, <1>3, <2>1, <2>2 DEF FaultEffect, IInv, TypeOK
<1>5. FrameOwnership'
  <2>1. ASSUME NEW p \in Page, pageTable'[p].valid
        PROVE  pageTable'[p].frame \in Frame /\ PPT'[pageTable'[p].frame] = p
    <3>1. CASE p = q
      BY <1>2, <3>1 DEF FaultEffect, IInv, TypeOK
    <3>2. CASE p # q
      <4>1. pageTable'[p] = pageTable[p] /\ p # PPT[f]
        BY <1>2, <2>1, <3>2 DEF FaultEffect
      <4> QED BY <1>2, <2>1, <4>1 DEF FaultEffect, IInv, FrameOwnership, TypeOK
    <3> QED BY <3>1, <3>2
  <2>2. ASSUME NEW g \in Frame, PPT'[g] # None
        PROVE  pageTable'[PPT'[g]].valid /\ pageTable'[PPT'[g]].frame = g
    <3>1. CASE g = f
      BY <1>2, <3>1 DEF FaultEffect, IInv, TypeOK
    <3>2. CASE g # f
      <4>1. PPT'[g] = PPT[g] /\ PPT[g] \in Page
        BY <1>2, <2>2, <3>2 DEF FaultEffect, IInv, TypeOK
      <4>2. pageTable[PPT[g]].valid /\ pageTable[PPT[g]].frame = g
        BY <2>2, <4>1 DEF IInv, FrameOwnership
      <4>3. PPT[g] # q /\ PPT[g] # PPT[f]
        BY <1>1, <2>2, <3>2, <4>1, <4>2 DEF IInv, FrameOwnership
      <4> QED BY <1>2, <4>1, <4>2, <4>3 DEF FaultEffect
    <3> QED BY <3>1, <3>2
  <2>3. memoryManager' = {g \in Frame : PPT'[g] # None}
    <3>1. q # None
      BY <1>1, PageFacts
    <3> QED BY <1>2, <3>1 DEF FaultEffect, IInv, FrameOwnership, TypeOK
  <2> QED BY <2>1, <2>2, <2>3 DEF FrameOwnership
<1>6. OnlyLoadedOwn'
  <2> SUFFICES ASSUME NEW p \in Page, pageTable'[p].valid
               PROVE  \/ status[p[1]] = "loaded"
                      \/ status[p[1]] = "finished" /\ currentThread = None
    BY <1>3 DEF OnlyLoadedOwn
  <2>1. CASE p = q
    BY <1>1, <2>1
  <2>2. CASE p # q
    BY <1>2, <2>2 DEF FaultEffect, IInv, OnlyLoadedOwn
  <2> QED BY <2>1, <2>2
<1>7. CleanPagesInSwap'
  <2> SUFFICES ASSUME NEW p \in Page, pageTable'[p].valid, ~pageTable'[p].dirty
               PROVE  mainMemory'[pageTable'[p].frame] = swapFile'[p]
    BY DEF CleanPagesInSwap
  <2>1. CASE p = q
    BY <1>2, <2>1 DEF FaultEffect, IInv, TypeOK
  <2>2. CASE p # q
    <3>1. pageTable'[p] = pageTable[p] /\ swapFile'[p] = swapFile[p] /\ p # PPT[f]
      BY <1>2, <2>2 DEF FaultEffect
    <3>2. pageTable[p].frame \in Frame \ {f}
      BY <3>1 DEF IInv, FrameOwnership
    <3> QED BY <1>2, <3>1, <3>2 DEF FaultEffect, IInv, CleanPagesInSwap, TypeOK
  <2> QED BY <2>1, <2>2
<1>8. RegisterFollowsThread'
  BY <1>3 DEF RegisterFollowsThread, IInv
<1>9. ReadsAreCurrent'
  BY <1>1, <1>3 DEF ReadsAreCurrent, IInv
<1> QED BY <1>4, <1>5, <1>6, <1>7, <1>8, <1>9 DEF IInv

(* A step that changes nothing preserves the invariant.                                     *)
LEMMA StutterIInv ==
  ASSUME IInv, UNCHANGED vars
  PROVE  IInv'
BY DEF IInv, vars, memoryVars, instrVars, TypeOK, FrameOwnership, OnlyLoadedOwn,
       CleanPagesInSwap, RegisterFollowsThread, ReadsAreCurrent, Contents

(* Every step preserves the invariant.                                                      *)
LEMMA NextIInv == IInv /\ [Next]_vars => IInv'
<1> SUFFICES ASSUME IInv, [Next]_vars PROVE IInv'
  OBVIOUS
<1>1. CASE RunUserProg
  BY <1>1, RunUserProgIInv
<1>2. CASE Fetch
  BY <1>2, FetchIInv
<1>3. CASE ReadMem
  BY <1>3, ReadMemIInv
<1>4. CASE WriteMem
  BY <1>4, WriteMemIInv
<1>5. CASE PageFault
  BY <1>5, PageFaultIInv
<1>6. CASE Retire
  BY <1>6, RetireIInv
<1>7. CASE FinishLast
  BY <1>7, FinishLastIInv
<1>8. ASSUME NEW n \in Thread, Switch(n) PROVE IInv'
  BY <1>8, SwitchIInv
<1>9. ASSUME NEW n \in Thread, Finish(n) PROVE IInv'
  BY <1>9, FinishIInv
<1>10. CASE UNCHANGED vars
  BY <1>10, StutterIInv
<1> QED
  BY <1>1, <1>2, <1>3, <1>4, <1>5, <1>6, <1>7, <1>8, <1>9, <1>10 DEF Next, Execute

(* Every reachable state satisfies the inductive invariant, and with it frame ownership,    *)
(* the lazy write-back and the page-table register.                                         *)
THEOREM InvariantHolds == Spec => []IInv
<1>1. Init => IInv
  BY InitIInv
<1>2. IInv /\ [Next]_vars => IInv'
  BY NextIInv
<1> QED BY <1>1, <1>2, PTL DEF Spec

(* Every state variable keeps its type.                                                     *)
THEOREM TypeCorrect == Spec => []TypeOK
<1>1. IInv => TypeOK
  BY DEF IInv
<1> QED BY <1>1, InvariantHolds, PTL

(* Page tables, PPT and the bitmap agree about who holds which frame, whatever Translate,   *)
(* allocatePage and ~AddrSpace do in whichever order.                                       *)
THEOREM FramesAreOwned == Spec => []FrameOwnership
<1>1. IInv => FrameOwnership
  BY DEF IInv
<1> QED BY <1>1, InvariantHolds, PTL

(* The page allocatePage does not write back on eviction is one the swap file holds.        *)
THEOREM LazyWriteBackIsSafe == Spec => []CleanPagesInSwap
<1>1. IInv => CleanPagesInSwap
  BY DEF IInv
<1> QED BY <1>1, InvariantHolds, PTL

(* A program that can run finds its own page table in the machine's register.               *)
THEOREM RegisterIsCurrent == Spec => []RegisterFollowsThread
<1>1. IInv => RegisterFollowsThread
  BY DEF IInv
<1> QED BY <1>1, InvariantHolds, PTL

-----------------------------------------------------------------------------
(* Refinement.                                                             *)

(* Both specifications mean the same pages.                                                 *)
LEMMA PageIsPMPage == PM!Page = Page
BY DEF PM!Page, Page, VPage

(* The memory the programs see is a memory of the abstract specification.                   *)
LEMMA ContentsType == IInv => Contents \in [Page -> Value]
BY DEF IInv, TypeOK, FrameOwnership, Contents

(* The same in the state after a step.                                                      *)
LEMMA ContentsTypeNext == IInv' => Contents' \in [Page -> Value]
BY DEF IInv, TypeOK, FrameOwnership, Contents

(* Initial states map to initial states of PrivateMemory.                                   *)
LEMMA InitRefines == Init => PM!Init
<1> SUFFICES ASSUME Init PROVE PM!Init
  OBVIOUS
<1>1. Contents \in [PM!Page -> Value]
  BY InitIInv, ContentsType, PageIsPMPage
<1>2. Running = {} /\ Outcome = <<>> /\ PendingStore = <<>>
  BY DEF Init, Running, Outcome, PendingStore
<1> QED BY <1>1, <1>2 DEF PM!Init

(* Loading a program touches no page of another thread. *)
LEMMA LoadRefines ==
  ASSUME IInv, IInv', RunUserProg
  PROVE  PM!Load(currentThread)
<1> DEFINE t == currentThread
<1>1. t \in Thread /\ status[t] = "forked" /\ instr = None /\ instr' = None
  BY DEF RunUserProg, IInv, TypeOK, ReadsAreCurrent, instrVars
<1>2. t \notin Running /\ Running' = Running \cup {t}
  BY <1>1 DEF Running, RunUserProg, IInv, TypeOK
<1>3. ASSUME NEW p \in Page, p[1] # t PROVE Contents'[p] = Contents[p]
  BY <1>3 DEF Contents, RunUserProg
<1>4. UNCHANGED <<PendingStore, Outcome>>
  BY <1>1 DEF Outcome, PendingStore
<1> QED BY <1>2, <1>3, <1>4, ContentsTypeNext, PageIsPMPage DEF PM!Load, PM!OnlyMemoryOf, IInv

(* A thread that finishes gives back its own frames: the pages of the others stay put. *)
LEMMA FinishRefines ==
  ASSUME IInv, IInv', NEW n \in Thread, Finish(n)
  PROVE  PM!Exit(currentThread) \/ UNCHANGED PM!vars
<1> DEFINE t == currentThread
<1>1. t \in Thread /\ t # None /\ instr = None /\ instr' = None
  BY DEF Finish, IInv, TypeOK, instrVars
<1>2. UNCHANGED <<PendingStore, Outcome>>
  BY <1>1 DEF Outcome, PendingStore
<1>3. ASSUME NEW p \in Page, p[1] # t PROVE Contents'[p] = Contents[p]
  <2>1. pageTable'[p] = pageTable[p] /\ swapFile'[p] = swapFile[p]
    BY <1>3 DEF Finish, DestroyAddrSpace
  <2>2. pageTable[p].valid => pageTable[p].frame \in Frame /\ pageTable[p].frame \notin FramesOf(t)
    BY <1>3 DEF FramesOf, IInv, FrameOwnership
  <2> QED BY <2>1, <2>2 DEF Contents, Finish, DestroyAddrSpace
<1>4. CASE status[t] = "loaded"
  <2>1. t \in Running /\ Running' = Running \ {t}
    BY <1>1, <1>4 DEF Running, Finish, IInv, TypeOK
  <2> QED BY <1>2, <1>3, <2>1, ContentsTypeNext, PageIsPMPage DEF PM!Exit, PM!OnlyMemoryOf
<1>5. CASE status[t] # "loaded"
  <2>1. \A p \in Page : p[1] = t => ~pageTable[p].valid
    BY <1>1, <1>5 DEF IInv, OnlyLoadedOwn
  <2>2. Running' = Running
    BY <1>1, <1>5 DEF Running, Finish, IInv, TypeOK
  <2>3. ASSUME NEW p \in Page, p[1] = t PROVE Contents'[p] = Contents[p]
    BY <2>1, <2>3 DEF Contents, Finish, DestroyAddrSpace, Unmapped
  <2>4. Contents' = Contents
    BY <1>3, <2>3 DEF Contents
  <2> QED BY <1>2, <2>2, <2>4 DEF PM!vars
<1> QED BY <1>4, <1>5

(* The end of the last thread is an exit of its program, or invisible.                      *)
LEMMA FinishLastRefines ==
  ASSUME IInv, IInv', FinishLast
  PROVE  PM!Exit(currentThread) \/ UNCHANGED PM!vars
<1> DEFINE t == currentThread
<1>1. t \in Thread /\ instr = None /\ instr' = None /\ Contents' = Contents
  BY DEF FinishLast, IInv, TypeOK, instrVars, memoryVars, Contents
<1>2. UNCHANGED <<PendingStore, Outcome>>
  BY <1>1 DEF Outcome, PendingStore
<1>3. CASE status[t] = "loaded"
  <2>1. t \in Running /\ Running' = Running \ {t}
    BY <1>1, <1>3 DEF Running, FinishLast, IInv, TypeOK
  <2> QED BY <1>1, <1>2, <2>1, ContentsTypeNext, PageIsPMPage DEF PM!Exit, PM!OnlyMemoryOf
<1>4. CASE status[t] # "loaded"
  <2>1. Running' = Running
    BY <1>1, <1>4 DEF Running, FinishLast, IInv, TypeOK
  <2> QED BY <1>1, <1>2, <2>1 DEF PM!vars
<1> QED BY <1>3, <1>4

(* The read that completes an instruction delivers values that memory holds all at once. *)
LEMMA ReadRefines ==
  ASSUME IInv, IInv', ReadMem
  PROVE  PM!Read(currentThread) \/ UNCHANGED PM!vars
<1> DEFINE t == currentThread
<1>1. /\ t \in Thread /\ status[t] = "loaded" /\ Len(got) \in Nat /\ Len(instr.pages) \in Nat
      /\ instr.pages \in Seq(VPage(t))
  BY ExecutingFacts, InstructionFacts DEF ReadMem, Executing, IInv, TypeOK
<1>2. Outcome = <<>>
  BY <1>1 DEF Outcome, ReadMem, Executing
<1>3. /\ Contents' = Contents /\ Running' = Running /\ instr' = instr /\ t' = t
      /\ PendingStore' = PendingStore
  BY DEF Contents, Running, ReadMem, memoryVars, PendingStore
<1>4. t \in Running
  BY <1>1 DEF Running
<1>5. CASE Outcome' # <<>>
  <2>1. Outcome' = got' /\ instr # None
    BY <1>3, <1>5 DEF Outcome
  <2>2. got' \in Seq([page : Page, value : Value])
    BY DEF IInv, TypeOK
  <2>3. ASSUME NEW i \in DOMAIN got'
        PROVE  /\ got'[i].page \in {t} \X (0 .. NumPages[t] - 1)
               /\ got'[i].value = Contents[got'[i].page]
               /\ got'[i] \in [page : Page, value : Value]
    <3>1. /\ i <= Len(instr.pages) /\ got'[i].page = <<t, instr.pages[i]>>
          /\ got'[i].value = Contents[got'[i].page]
      BY <1>3, <2>1 DEF IInv, ReadsAreCurrent
    <3>2. i \in 1 .. Len(instr.pages)
      BY <1>1, <2>2, <3>1
    <3>3. instr.pages[i] \in VPage(t)
      BY <1>1, <3>2, ElementOfSeq
    <3>4. <<t, instr.pages[i]>> \in {t} \X (0 .. NumPages[t] - 1)
      BY <3>3 DEF VPage
    <3>5. got'[i] \in [page : Page, value : Value]
      BY <2>2, LenProperties, ElementOfSeq
    <3> QED BY <3>1, <3>4, <3>5
  <2>4. got' \in Seq(PM!Reading(t))
    <3>1. \A i \in 1 .. Len(got') : got'[i] \in PM!Reading(t)
      BY <2>2, <2>3 DEF PM!Reading
    <3>2. Len(got') \in Nat /\ got' \in [1 .. Len(got') -> PM!Reading(t)]
      BY <2>2, <3>1, LenProperties
    <3> QED BY <3>2, SeqDef
  <2> QED BY <1>2, <1>3, <1>4, <1>5, <2>1, <2>3, <2>4 DEF PM!Read
<1>6. CASE Outcome' = <<>>
  BY <1>2, <1>3, <1>6 DEF PM!vars
<1> QED BY <1>5, <1>6

(* A store changes the page it names and no other, in whatever frame. *)
LEMMA WriteRefines ==
  ASSUME IInv, IInv', WriteMem
  PROVE  PM!Write(currentThread)
<1> DEFINE t == currentThread
           q == TranslatedPage
           f == pageTable[q].frame
<1>1. /\ t \in Thread /\ status[t] = "loaded" /\ Len(got) \in Nat /\ Len(instr.pages) \in Nat
      /\ q \in Page /\ q = <<t, NextVPage>> /\ NextVPage \in VPage(t) /\ instr.value \in Value
  BY ExecutingFacts DEF WriteMem, IInv
<1>2. Outcome = <<>> /\ Outcome' = <<>>
  BY <1>1 DEF Outcome, WriteMem, Executing
<1>3. Running' = Running /\ t \in Running
  BY <1>1 DEF Running, WriteMem
<1>4. Contents' = [Contents EXCEPT ![q] = instr.value]
  <2>1. f \in Frame /\ PPT[f] = q /\ pageTable[q].valid
    BY <1>1 DEF WriteMem, IInv, FrameOwnership
  <2>2. ASSUME NEW p \in Page
        PROVE  Contents'[p] = IF p = q THEN instr.value ELSE Contents[p]
    <3>1. /\ pageTable'[p].valid = pageTable[p].valid /\ pageTable'[p].frame = pageTable[p].frame
          /\ swapFile'[p] = swapFile[p]
      <4>1. q \in Page /\ pageTable \in [Page -> Entry]
        BY <1>1 DEF IInv, TypeOK
      <4>2. pageTable' = [pageTable EXCEPT ![q].dirty = TRUE] /\ swapFile' = swapFile
        BY DEF WriteMem
      <4> QED BY <4>1, <4>2 DEF Entry
    <3>2. CASE p = q
      BY <1>1, <2>1, <3>1, <3>2 DEF Contents, WriteMem, IInv, TypeOK
    <3>3. CASE p # q
      <4>1. pageTable[p].valid => pageTable[p].frame \in Frame /\ pageTable[p].frame # f
        BY <2>1, <3>3 DEF IInv, FrameOwnership
      <4> QED BY <3>1, <3>3, <4>1 DEF Contents, WriteMem, IInv, TypeOK
    <3> QED BY <3>2, <3>3
  <2>3. Contents' = [p \in Page |-> Contents'[p]] /\ Contents = [p \in Page |-> Contents[p]]
    BY DEF Contents
  <2> QED BY <1>1, <2>2, <2>3
<1>5. PendingStore = <<q, instr.value>> /\ PendingStore' = <<>>
  <2>1. instr # None /\ instr.op = "store" /\ instr' = None
    BY DEF WriteMem, Executing, Storing
  <2>2. Len(instr.pages) = Len(got) + 1
    BY DEF WriteMem, Storing
  <2> QED BY <1>1, <2>1, <2>2 DEF PendingStore, NextVPage
<1> QED BY <1>1, <1>2, <1>3, <1>4, <1>5 DEF PM!Write

(* The beginning of a store announces it; that of another instruction is invisible.         *)
LEMMA FetchRefines ==
  ASSUME IInv, Fetch
  PROVE  PM!Issue(currentThread) \/ UNCHANGED PM!vars
<1> DEFINE t == currentThread
<1>1. Contents' = Contents /\ Running' = Running /\ t' = t
  BY DEF Fetch, memoryVars, Contents, Running
<1>2. Outcome = <<>> /\ Outcome' = <<>> /\ PendingStore = <<>>
  <2>1. Len(got') = 0 /\ got' = <<>> /\ instr = None
    BY DEF Fetch
  <2> QED BY <2>1 DEF Outcome, PendingStore
<1>3. t \in Thread /\ t \in Running /\ instr' \in Instruction(t)
  BY DEF Fetch, IInv, TypeOK, Running
<1>4. CASE instr' # None /\ instr'.op = "store"
  <2>1. PendingStore' = <<<<t, instr'.pages[Len(instr'.pages)]>>, instr'.value>>
    BY <1>1, <1>4 DEF PendingStore
  <2>2. instr'.pages[Len(instr'.pages)] \in VPage(t) /\ instr'.value \in Value
    BY <1>3, <1>4, StoreFacts
  <2> QED BY <1>1, <1>2, <1>3, <2>1, <2>2 DEF PM!Issue, VPage
<1>5. CASE ~(instr' # None /\ instr'.op = "store")
  <2>1. PendingStore' = <<>>
    BY <1>5 DEF PendingStore
  <2> QED BY <1>1, <1>2, <2>1 DEF PM!vars
<1> QED BY <1>4, <1>5

(* Every step maps to a step of PrivateMemory or to a stutter.                              *)
LEMMA NextRefines == IInv /\ IInv' /\ [Next]_vars => [PM!Next]_(PM!vars)
<1> SUFFICES ASSUME IInv, IInv', [Next]_vars PROVE PM!Next \/ UNCHANGED PM!vars
  OBVIOUS
<1>0. currentThread # None => currentThread \in Thread
  BY DEF IInv, TypeOK
<1>1. CASE RunUserProg
  BY <1>0, <1>1, LoadRefines DEF PM!Next, RunUserProg
<1>2. CASE Fetch
  BY <1>0, <1>2, FetchRefines DEF PM!Next, Fetch
<1>3. CASE ReadMem
  BY <1>0, <1>3, ReadRefines DEF PM!Next, ReadMem, Executing, IInv, TypeOK
<1>4. CASE WriteMem
  BY <1>0, <1>4, WriteRefines DEF PM!Next, WriteMem, Executing, IInv, TypeOK
<1>5. CASE PageFault
  <2>1. Contents' = Contents /\ Running' = Running
    BY <1>5, FaultKeepsContents DEF PageFault, Running
  <2>2. Outcome = <<>> /\ Outcome' = <<>>
    BY <1>5, ExecutingFacts DEF PageFault, Executing, Outcome, IInv
  <2>3. PendingStore' = PendingStore
    BY <1>5 DEF PageFault, PendingStore
  <2> QED BY <2>1, <2>2, <2>3 DEF PM!vars
<1>6. CASE Retire
  <2>1. Contents' = Contents /\ Running' = Running /\ Outcome' = <<>>
    BY <1>6 DEF Retire, memoryVars, Contents, Running, Outcome
  <2>2. PendingStore' = PendingStore
    BY <1>6 DEF Retire, PendingStore
  <2> QED BY <2>1, <2>2 DEF PM!Next, PM!Deliver
<1>7. CASE FinishLast
  BY <1>0, <1>7, FinishLastRefines DEF PM!Next, FinishLast
<1>8. ASSUME NEW n \in Thread, Switch(n) PROVE UNCHANGED PM!vars
  BY <1>8 DEF Switch, memoryVars, instrVars, PM!vars, Contents, Running, Outcome, PendingStore
<1>9. ASSUME NEW n \in Thread, Finish(n) PROVE PM!Next \/ UNCHANGED PM!vars
  BY <1>0, <1>9, FinishRefines DEF PM!Next, Finish
<1>10. CASE UNCHANGED vars
  BY <1>10 DEF vars, memoryVars, instrVars, PM!vars, Contents, Running, Outcome, PendingStore
<1> QED
  BY <1>1, <1>2, <1>3, <1>4, <1>5, <1>6, <1>7, <1>8, <1>9, <1>10 DEF Next, Execute

(* The demand-paged memory implements a private memory per program, for every number of     *)
(* threads, frames, pages and values.                                                       *)
THEOREM Refinement == Spec => ImplementsPrivateMemory
<1>1. Init => PM!Init
  BY InitRefines
<1>2. IInv /\ IInv' /\ [Next]_vars => [PM!Next]_(PM!vars)
  BY NextRefines
<1>3. Spec => []IInv
  BY InvariantHolds
<1> QED BY <1>1, <1>2, <1>3, PTL DEF Spec, ImplementsPrivateMemory, PM!Spec

-----------------------------------------------------------------------------
(* ForkWait                                                                *)

Alive == {"running", "leaving"}

(* A born child has a parent and an ID; its parent's list holds it until it has ended, and   *)
(* nothing else unless a freed parent has stopped Nachos.                                    *)
FamilyInv ==
  /\ \A c \in Child : child[c] # "unborn" => parent[c] \in Program /\ threadID[c] \in ID
  /\ \A c \in Child : child[c] = "unborn" => parent[c] = Nil
  /\ \A p \in Program, c \in Child : parent[c] = p /\ child[c] \in Alive => c \in children[p]
  /\ halted = Nil =>
       \A p \in Program : \A c \in children[p] : parent[c] = p /\ child[c] \in Alive

ListInv == ForkWaitTypeOK /\ FamilyInv

-----------------------------------------------------------------------------
LEMMA InitList == ForkWaitInit => ListInv
BY ForkWaitAssumption DEF ForkWaitInit, ListInv, ForkWaitTypeOK, FamilyInv, Alive

(* Forking adds a child to both sides. *)
LEMMA ForkKeepsList ==
  ASSUME ListInv, NEW p \in Program, NEW i \in ID, Fork_POS(p, i)
  PROVE  ListInv'
<1> USE ForkWaitAssumption DEF ListInv
<1>1. PICK c \in Child :
        /\ child[c] = "unborn"
        /\ child' = [child EXCEPT ![c] = "running"]
        /\ parent' = [parent EXCEPT ![c] = p]
        /\ threadID' = [threadID EXCEPT ![c] = i]
        /\ children' = [children EXCEPT ![p] = @ \cup {c}]
  BY DEF Fork_POS
<1>2. /\ owed' = [owed EXCEPT ![p] = @ \cup {i}]
      /\ UNCHANGED <<program, childID, halted>>
  BY DEF Fork_POS
<1>3. ForkWaitTypeOK'
  BY <1>1, <1>2 DEF ForkWaitTypeOK
<1>4. FamilyInv'
  BY <1>1, <1>2 DEF ForkWaitTypeOK, FamilyInv, Alive
<1> QED BY <1>3, <1>4

(* Waiting does not touch the family. *)
LEMMA WaitKeepsList ==
  ASSUME ListInv, NEW p \in Program, NEW i \in ID, Wait_POS(p, i)
  PROVE  ListInv'
<1>1. ForkWaitTypeOK'
  BY DEF ListInv, Wait_POS, ForkWaitTypeOK, Halt
<1>2. UNCHANGED <<children, child, parent, threadID>> /\ halted = Nil
  BY DEF Wait_POS
<1>3. FamilyInv'
  BY <1>2 DEF ListInv, FamilyInv
<1> QED BY <1>1, <1>3 DEF ListInv

(* A child that ends leaves its parent's list and no other. *)
LEMMA RemovalKeepsFamily ==
  ASSUME ListInv, NEW c \in Child, child[c] \in Alive, halted = Nil,
         child' = [child EXCEPT ![c] = "ended"], RemoveFromParent(c),
         UNCHANGED <<parent, threadID, halted>>
  PROVE  FamilyInv' /\ children' \in [Program -> SUBSET Child]
<1> USE DEF ListInv
<1>1. parent[c] \in Program
  BY DEF FamilyInv, Alive
<1>2. children' = [children EXCEPT ![parent[c]] = @ \ {c}]
  BY DEF RemoveFromParent
<1>3. children' \in [Program -> SUBSET Child]
  BY <1>1, <1>2 DEF ForkWaitTypeOK
<1> QED BY <1>1, <1>2, <1>3 DEF ForkWaitTypeOK, FamilyInv, Alive

LEMMA ChildKeepsList ==
  ASSUME ListInv, NEW c \in Child, Exit_POS(c)
  PROVE  ListInv'
<1> USE DEF ListInv
<1>1. CASE WakeParent(c)
  <2>1. /\ child[c] = "running" /\ halted = Nil /\ UNCHANGED <<children, parent, threadID>>
        /\ child' = [child EXCEPT ![c] = "leaving"] \/ child' = child
    BY <1>1 DEF WakeParent
  <2>2. ForkWaitTypeOK'
    <3>1. program' \in [Program -> {"running", "asleep", "woken", "finished"}]
      <4>1. program' = program \/ program' = [program EXCEPT ![parent[c]] = "woken"]
        BY <1>1 DEF WakeParent
      <4> QED BY <4>1 DEF ForkWaitTypeOK
    <3>2. halted' \in Halt \cup {Nil}
      BY <1>1 DEF WakeParent, ForkWaitTypeOK, Halt
    <3> QED BY <1>1, <2>1, <3>1, <3>2 DEF WakeParent, ForkWaitTypeOK
  <2>3. FamilyInv'
    BY <2>1 DEF ForkWaitTypeOK, FamilyInv, Alive
  <2> QED BY <2>2, <2>3
<1>2. CASE EndUnawaited(c)
  <2>1. FamilyInv' /\ children' \in [Program -> SUBSET Child]
    BY <1>2, RemovalKeepsFamily DEF EndUnawaited, Alive
  <2>2. ForkWaitTypeOK'
    BY <1>2, <2>1 DEF EndUnawaited, ForkWaitTypeOK
  <2> QED BY <2>1, <2>2
<1>3. CASE EndUnexpected(c)
  BY <1>3 DEF EndUnexpected, ForkWaitTypeOK, FamilyInv, Halt
<1>4. CASE Leave(c)
  <2>1. CASE RemoveFromParent(c) /\ UNCHANGED halted
    <3>1. FamilyInv' /\ children' \in [Program -> SUBSET Child]
      BY <1>4, <2>1, RemovalKeepsFamily DEF Leave, Alive
    <3>2. ForkWaitTypeOK'
      BY <1>4, <2>1, <3>1 DEF Leave, ForkWaitTypeOK
    <3> QED BY <3>1, <3>2
  <2>2. CASE halted' = "freed parent" /\ UNCHANGED children
    <3>1. /\ child[c] = "leaving" /\ child' = [child EXCEPT ![c] = "ended"]
          /\ UNCHANGED <<program, childID, owed, parent, threadID>>
      BY <1>4 DEF Leave
    <3>2. halted' # Nil /\ halted' \in Halt
      BY <2>2, ForkWaitAssumption DEF Halt
    <3>3. ForkWaitTypeOK'
      BY <2>2, <3>1, <3>2 DEF ForkWaitTypeOK
    <3>4. child'[c] = "ended" /\ \A d \in Child : d # c => child'[d] = child[d]
      BY <3>1 DEF ForkWaitTypeOK
    <3>5. halted' # Nil
      BY <3>2
    <3>6. FamilyInv'
      <4>1. /\ \A d \in Child : child'[d] # "unborn" <=> child[d] # "unborn"
            /\ \A d \in Child : child'[d] \in Alive => child[d] \in Alive
        BY <3>1, <3>4 DEF Alive
      <4>2. parent' = parent /\ threadID' = threadID /\ children' = children
        BY <2>2, <3>1
      <4> QED BY <3>5, <4>1, <4>2 DEF FamilyInv
    <3> QED BY <3>3, <3>6
  <2> QED BY <1>4, <2>1, <2>2 DEF Leave
<1> QED BY <1>1, <1>2, <1>3, <1>4 DEF Exit_POS

LEMMA NextList == ListInv /\ [ForkWaitNext]_forkWaitVars => ListInv'
<1>1. ASSUME ListInv, UNCHANGED forkWaitVars PROVE ListInv'
  BY <1>1 DEF ListInv, ForkWaitTypeOK, FamilyInv, forkWaitVars
<1>2. ASSUME ListInv, NEW p \in Program, WaitReturns(p) \/ Exit(p) PROVE ListInv'
  <2>1. ForkWaitTypeOK'
    BY <1>2 DEF ListInv, ForkWaitTypeOK, WaitReturns, Exit
  <2>2. FamilyInv'
    BY <1>2 DEF ListInv, FamilyInv, WaitReturns, Exit
  <2> QED BY <2>1, <2>2 DEF ListInv
<1>3. ASSUME ListInv, NEW p \in Program, NEW i \in ID, Fork_POS(p, i) \/ Wait_POS(p, i)
      PROVE  ListInv'
  BY <1>3, ForkKeepsList, WaitKeepsList
<1>4. ASSUME ListInv, NEW c \in Child, Exit_POS(c) PROVE ListInv'
  BY <1>4, ChildKeepsList
<1>5. ASSUME ListInv, ForkWaitNext PROVE ListInv'
  BY <1>2, <1>3, <1>4, <1>5 DEF ForkWaitNext
<1> QED BY <1>1, <1>5

(* Types and child lists, whatever IDs the programs use. *)
THEOREM ListsHold == ForkWaitSpec => []ListInv
BY InitList, NextList, PTL DEF ForkWaitSpec

THEOREM ForkWaitTypeCorrect == ForkWaitSpec => []ForkWaitTypeOK
<1>1. ListInv => ForkWaitTypeOK
  BY DEF ListInv
<1> QED BY <1>1, ListsHold, PTL

(* Wait_POS finds no deleted thread on the list it walks. *)
THEOREM ListedChildrenAreAlive == ForkWaitSpec => []ChildrenAreAlive
<1>1. ListInv => ChildrenAreAlive
  BY DEF ListInv, ForkWaitTypeOK, FamilyInv, ChildrenAreAlive, Alive
<1> QED BY <1>1, ListsHold, PTL

-----------------------------------------------------------------------------
(* Programs that use an ID once.  An ID names one child of a program; a child that has       *)
(* woken its parent is owed no more; a program asleep has a child that runs, and one that is *)
(* woken has none left that could wake it again.                                             *)
OneChildPerID ==
  \A c, d \in Child :
    parent[c] \in Program /\ parent[c] = parent[d] /\ threadID[c] = threadID[d] => c = d
LeavingIsPaid ==
  \A c \in Child : child[c] = "leaving" => threadID[c] \notin owed[parent[c]]
WaitsOrRuns ==
  \A p \in Program : childID[p] # Nil <=> program[p] \in {"asleep", "woken"}
AwaitedIsPaid ==
  \A p \in Program : childID[p] \notin owed[p]
AsleepHasChild ==
  \A p \in Program : program[p] = "asleep" =>
    \E c \in Child : parent[c] = p /\ threadID[c] = childID[p] /\ child[c] = "running"
WokenHasNone ==
  \A p \in Program, c \in Child :
    program[p] = "woken" /\ parent[c] = p /\ threadID[c] = childID[p] => child[c] # "running"

WakeupInv ==
  OneChildPerID /\ LeavingIsPaid /\ WaitsOrRuns /\ AwaitedIsPaid /\ AsleepHasChild /\ WokenHasNone
  /\ NeverReadyTwice

OnceInv == ListInv /\ WakeupInv

LEMMA OnceParts ==
  OnceInv => /\ ForkWaitTypeOK /\ FamilyInv /\ OneChildPerID /\ LeavingIsPaid /\ WaitsOrRuns
             /\ AwaitedIsPaid /\ AsleepHasChild /\ WokenHasNone /\ NeverReadyTwice
BY DEF OnceInv, ListInv, WakeupInv

LEMMA InitOnce == ForkWaitInit => OnceInv
<1>1. ForkWaitInit => ListInv
  BY InitList
<1>2. ForkWaitInit => WakeupInv
  BY ForkWaitAssumption DEF ForkWaitInit, WakeupInv, Halt, OneChildPerID, LeavingIsPaid,
     WaitsOrRuns, AwaitedIsPaid, AsleepHasChild, WokenHasNone, NeverReadyTwice
<1> QED BY <1>1, <1>2 DEF OnceInv

LEMMA ForkKeepsWakeups ==
  ASSUME OncePerID, OnceInv, NEW p \in Program, NEW i \in ID, Fork_POS(p, i)
  PROVE  WakeupInv'
<1> USE OnceParts
<1>1. PICK c \in Child :
        /\ child[c] = "unborn"
        /\ child' = [child EXCEPT ![c] = "running"]
        /\ parent' = [parent EXCEPT ![c] = p]
        /\ threadID' = [threadID EXCEPT ![c] = i]
  BY DEF Fork_POS
<1>2. /\ program[p] = "running" /\ \A d \in Child : ~ (parent[d] = p /\ threadID[d] = i)
      /\ owed' = [owed EXCEPT ![p] = @ \cup {i}]
      /\ UNCHANGED <<program, childID, halted>>
  BY DEF Fork_POS
<1>3. parent[c] = Nil /\ parent'[c] = p /\ threadID'[c] = i /\ child'[c] = "running"
      /\ \A d \in Child : d # c => /\ parent'[d] = parent[d] /\ threadID'[d] = threadID[d]
                                   /\ child'[d] = child[d]
  BY <1>1 DEF ForkWaitTypeOK, FamilyInv
<1>4. childID[p] = Nil /\ i # Nil
  BY <1>2, ForkWaitAssumption DEF WaitsOrRuns
<1>5. /\ owed'[p] = owed[p] \cup {i}
      /\ \A q \in Program : q # p => owed'[q] = owed[q]
  BY <1>2 DEF ForkWaitTypeOK
<1>6. \A d, e \in Child :
        parent'[d] \in Program /\ parent'[d] = parent'[e] /\ threadID'[d] = threadID'[e] => d = e
  BY <1>2, <1>3 DEF OneChildPerID
<1>7. ASSUME NEW d \in Child, child'[d] = "leaving" PROVE threadID'[d] \notin owed'[parent'[d]]
  <2>1. /\ d # c /\ child[d] = "leaving" /\ parent[d] \in Program
        /\ threadID'[d] = threadID[d] /\ parent'[d] = parent[d]
    BY <1>3, <1>7 DEF FamilyInv
  <2>2. threadID[d] \notin owed[parent[d]]
    BY <2>1 DEF LeavingIsPaid
  <2> QED BY <1>2, <1>5, <2>1, <2>2
<1>8. \A q \in Program : childID'[q] \notin owed'[q]
  BY <1>2, <1>4, <1>5 DEF AwaitedIsPaid
<1>9. ASSUME NEW q \in Program, program'[q] = "asleep"
      PROVE  \E d \in Child : parent'[d] = q /\ threadID'[d] = childID'[q] /\ child'[d] = "running"
  <2>1. PICK d \in Child : parent[d] = q /\ threadID[d] = childID[q] /\ child[d] = "running"
    BY <1>2, <1>9 DEF AsleepHasChild
  <2> QED BY <1>1, <1>2, <1>3, <2>1
<1>10. ASSUME NEW q \in Program, NEW d \in Child,
              program'[q] = "woken", parent'[d] = q, threadID'[d] = childID'[q]
       PROVE  child'[d] # "running"
  <2>1. q # p /\ program[q] = "woken" /\ childID'[q] = childID[q]
    BY <1>2, <1>10
  <2>2. d # c /\ parent[d] = q /\ threadID[d] = childID[q]
    BY <1>3, <1>10, <2>1
  <2> QED BY <1>3, <2>1, <2>2 DEF WokenHasNone
<1>11. \A q \in Program : childID'[q] # Nil <=> program'[q] \in {"asleep", "woken"}
  BY <1>2 DEF WaitsOrRuns
<1>12. NeverReadyTwice'
  BY <1>2 DEF NeverReadyTwice
<1> QED BY <1>6, <1>7, <1>8, <1>9, <1>10, <1>11, <1>12 DEF WakeupInv, OneChildPerID,
        LeavingIsPaid, WaitsOrRuns, AwaitedIsPaid, AsleepHasChild, WokenHasNone

(* The program goes to sleep: it is still owed, so its child has not begun to leave.         *)
LEMMA WaitKeepsWakeups ==
  ASSUME OncePerID, OnceInv, NEW p \in Program, NEW i \in ID, Wait_POS(p, i)
  PROVE  WakeupInv'
<1> USE OnceParts
<1>1. /\ halted = Nil /\ program[p] = "running" /\ i \in owed[p]
      /\ owed' = [owed EXCEPT ![p] = @ \ {i}]
      /\ UNCHANGED <<child, parent, threadID>>
  BY DEF Wait_POS
<1>2. i # Nil /\ childID[p] = Nil
  BY <1>1, ForkWaitAssumption DEF WaitsOrRuns
<1>3. /\ owed'[p] = owed[p] \ {i}
      /\ \A q \in Program : q # p => owed'[q] = owed[q]
  BY <1>1 DEF ForkWaitTypeOK
<1>4. \A c \in Child : child[c] = "leaving" => threadID[c] \notin owed'[parent[c]]
  <2>1. ASSUME NEW c \in Child, child[c] = "leaving" PROVE threadID[c] \notin owed'[parent[c]]
    <3>1. parent[c] \in Program /\ threadID[c] \notin owed[parent[c]]
      BY <2>1 DEF LeavingIsPaid, FamilyInv
    <3> QED BY <1>3, <3>1
  <2> QED BY <2>1
<1>5. CASE IsInList(p, i)
  <2>1. program' = [program EXCEPT ![p] = "asleep"] /\ childID' = [childID EXCEPT ![p] = i]
        /\ halted' = halted
    BY <1>5 DEF Wait_POS
  <2>2. /\ program'[p] = "asleep" /\ childID'[p] = i
        /\ \A q \in Program : q # p => program'[q] = program[q] /\ childID'[q] = childID[q]
    BY <2>1 DEF ForkWaitTypeOK
  <2>3. PICK c \in Child : c \in children[p] /\ threadID[c] = i
    BY <1>5 DEF IsInList, Named, ForkWaitTypeOK
  <2>4. parent[c] = p /\ child[c] = "running"
    <3>1. parent[c] = p /\ child[c] \in {"running", "leaving"}
      BY <1>1, <2>3 DEF FamilyInv, Alive
    <3>2. child[c] # "leaving"
      BY <1>1, <2>3, <3>1 DEF LeavingIsPaid
    <3> QED BY <3>1, <3>2
  <2>5. ASSUME NEW q \in Program, program'[q] = "asleep"
        PROVE  \E d \in Child : parent[d] = q /\ threadID[d] = childID'[q] /\ child[d] = "running"
    <3>1. CASE q = p
      BY <2>2, <2>3, <2>4, <3>1
    <3>2. CASE q # p
      BY <2>2, <2>5, <3>2 DEF AsleepHasChild
    <3> QED BY <3>1, <3>2
  <2>6. \A q \in Program : childID'[q] # Nil <=> program'[q] \in {"asleep", "woken"}
    BY <1>2, <2>2 DEF WaitsOrRuns
  <2>7. \A q \in Program : childID'[q] \notin owed'[q]
    BY <1>3, <2>2 DEF AwaitedIsPaid
  <2>8. \A q \in Program, d \in Child :
          program'[q] = "woken" /\ parent[d] = q /\ threadID[d] = childID'[q]
            => child[d] # "running"
    BY <2>2 DEF WokenHasNone
  <2>9. AsleepHasChild' /\ WaitsOrRuns' /\ AwaitedIsPaid' /\ WokenHasNone'
    BY <1>1, <2>5, <2>6, <2>7, <2>8 DEF AsleepHasChild, WaitsOrRuns, AwaitedIsPaid, WokenHasNone
  <2>10. OneChildPerID' /\ LeavingIsPaid' /\ NeverReadyTwice'
    BY <1>1, <1>4, <2>1 DEF OneChildPerID, LeavingIsPaid, NeverReadyTwice
  <2> QED BY <2>9, <2>10 DEF WakeupInv
<1>6. CASE ~ IsInList(p, i)
  <2>1. halted' = "invalid child" /\ UNCHANGED <<program, childID>>
    BY <1>6 DEF Wait_POS
  <2>2. \A q \in Program : childID[q] \notin owed'[q]
    BY <1>3 DEF AwaitedIsPaid
  <2>3. AwaitedIsPaid' /\ WaitsOrRuns' /\ NeverReadyTwice'
    BY <2>1, <2>2 DEF AwaitedIsPaid, WaitsOrRuns, NeverReadyTwice
  <2>4. OneChildPerID' /\ LeavingIsPaid' /\ AsleepHasChild' /\ WokenHasNone'
    BY <1>1, <1>4, <2>1 DEF OneChildPerID, LeavingIsPaid, AsleepHasChild, WokenHasNone
  <2> QED BY <2>3, <2>4 DEF WakeupInv
<1> QED BY <1>5, <1>6

LEMMA ReturnKeepsWakeups ==
  ASSUME OnceInv, NEW p \in Program, WaitReturns(p) \/ Exit(p)
  PROVE  WakeupInv'
<1> USE OnceParts
<1>1. CASE WaitReturns(p)
  <2>1. /\ program[p] = "woken" /\ program' = [program EXCEPT ![p] = "running"]
        /\ childID' = [childID EXCEPT ![p] = Nil]
        /\ UNCHANGED <<children, owed, child, parent, threadID, halted>>
    BY <1>1 DEF WaitReturns
  <2>2. /\ program'[p] = "running" /\ childID'[p] = Nil
        /\ \A q \in Program : q # p => program'[q] = program[q] /\ childID'[q] = childID[q]
    BY <2>1 DEF ForkWaitTypeOK
  <2>3. \A q \in Program : Nil \notin owed[q]
    BY ForkWaitAssumption DEF ForkWaitTypeOK
  <2>4. WaitsOrRuns' /\ AwaitedIsPaid'
    BY <2>1, <2>2, <2>3 DEF WaitsOrRuns, AwaitedIsPaid
  <2>5. AsleepHasChild' /\ WokenHasNone'
    BY <2>1, <2>2 DEF AsleepHasChild, WokenHasNone
  <2>6. OneChildPerID' /\ LeavingIsPaid' /\ NeverReadyTwice'
    BY <2>1 DEF OneChildPerID, LeavingIsPaid, NeverReadyTwice
  <2> QED BY <2>4, <2>5, <2>6 DEF WakeupInv
<1>2. CASE Exit(p)
  <2>1. /\ program[p] = "running" /\ program' = [program EXCEPT ![p] = "finished"]
        /\ UNCHANGED <<childID, children, owed, child, parent, threadID, halted>>
    BY <1>2 DEF Exit
  <2>2. /\ program'[p] = "finished"
        /\ \A q \in Program : q # p => program'[q] = program[q]
    BY <2>1 DEF ForkWaitTypeOK
  <2>3. WaitsOrRuns' /\ AwaitedIsPaid'
    BY <2>1, <2>2 DEF WaitsOrRuns, AwaitedIsPaid
  <2>4. AsleepHasChild' /\ WokenHasNone'
    BY <2>1, <2>2 DEF AsleepHasChild, WokenHasNone
  <2>5. OneChildPerID' /\ LeavingIsPaid' /\ NeverReadyTwice'
    BY <2>1 DEF OneChildPerID, LeavingIsPaid, NeverReadyTwice
  <2> QED BY <2>3, <2>4, <2>5 DEF WakeupInv
<1> QED BY <1>1, <1>2

(* The child that wakes its parent finds it asleep; one that ends otherwise is not awaited. *)
LEMMA ChildKeepsWakeups ==
  ASSUME OnceInv, NEW c \in Child, Exit_POS(c)
  PROVE  WakeupInv'
<1> USE OnceParts
<1>1. CASE WakeParent(c)
  <2> DEFINE p == parent[c]
  <2>1. /\ child[c] = "running" /\ halted = Nil /\ childID[p] = threadID[c]
        /\ UNCHANGED <<childID, children, owed, parent, threadID>>
    BY <1>1 DEF WakeParent, IsAwaited
  <2>2. p \in Program /\ childID[p] # Nil
    BY <2>1, ForkWaitAssumption DEF FamilyInv
  <2>3. program[p] = "asleep"
    BY <2>1, <2>2 DEF WaitsOrRuns, WokenHasNone
  <2>4. /\ program' = [program EXCEPT ![p] = "woken"]
        /\ child' = [child EXCEPT ![c] = "leaving"] /\ halted' = halted
    BY <1>1, <2>3 DEF WakeParent
  <2>5. /\ program'[p] = "woken" /\ \A q \in Program : q # p => program'[q] = program[q]
        /\ child'[c] = "leaving" /\ \A d \in Child : d # c => child'[d] = child[d]
    BY <2>2, <2>4 DEF ForkWaitTypeOK
  <2>6. threadID[c] \notin owed[p]
    BY <2>1, <2>2 DEF AwaitedIsPaid
  <2>7. ASSUME NEW q \in Program, program'[q] = "asleep"
        PROVE  \E d \in Child : parent[d] = q /\ threadID[d] = childID[q] /\ child'[d] = "running"
    <3>1. q # p /\ program[q] = "asleep"
      BY <2>5, <2>7
    <3>2. PICK d \in Child : parent[d] = q /\ threadID[d] = childID[q] /\ child[d] = "running"
      BY <3>1 DEF AsleepHasChild
    <3> QED BY <2>5, <3>1, <3>2
  <2>8. ASSUME NEW q \in Program, NEW d \in Child,
               program'[q] = "woken", parent[d] = q, threadID[d] = childID[q]
        PROVE  child'[d] # "running"
    <3>1. CASE q = p
      <4>1. d = c
        BY <2>1, <2>2, <2>8, <3>1 DEF OneChildPerID
      <4> QED BY <2>5, <4>1
    <3>2. CASE q # p
      BY <2>5, <2>8, <3>2 DEF WokenHasNone
    <3> QED BY <3>1, <3>2
  <2>9. \A q \in Program : childID'[q] # Nil <=> program'[q] \in {"asleep", "woken"}
    BY <2>1, <2>2, <2>5 DEF WaitsOrRuns
  <2>10. LeavingIsPaid'
    BY <2>1, <2>5, <2>6 DEF LeavingIsPaid
  <2>11. OneChildPerID' /\ AwaitedIsPaid' /\ NeverReadyTwice'
    BY <2>1, <2>4 DEF OneChildPerID, AwaitedIsPaid, NeverReadyTwice
  <2> QED BY <2>1, <2>7, <2>8, <2>9, <2>10, <2>11
          DEF WakeupInv, AsleepHasChild, WokenHasNone, WaitsOrRuns
<1>2. ASSUME child' = [child EXCEPT ![c] = "ended"],
             UNCHANGED <<program, childID, owed, parent, threadID>>,
             NeverReadyTwice',
             child[c] = "leaving" \/ childID[parent[c]] # threadID[c]
      PROVE  WakeupInv'
  <2>1. child'[c] = "ended" /\ \A d \in Child : d # c => child'[d] = child[d]
    BY <1>2 DEF ForkWaitTypeOK
  <2>2. ASSUME NEW q \in Program, program[q] = "asleep"
        PROVE  \E d \in Child : parent[d] = q /\ threadID[d] = childID[q] /\ child'[d] = "running"
    <3>1. PICK d \in Child : parent[d] = q /\ threadID[d] = childID[q] /\ child[d] = "running"
      BY <2>2 DEF AsleepHasChild
    <3>2. d # c
      BY <1>2, <3>1
    <3> QED BY <2>1, <3>1, <3>2
  <2>3. AsleepHasChild' /\ WokenHasNone' /\ LeavingIsPaid'
    BY <1>2, <2>1, <2>2 DEF AsleepHasChild, WokenHasNone, LeavingIsPaid
  <2>4. OneChildPerID' /\ WaitsOrRuns' /\ AwaitedIsPaid'
    BY <1>2 DEF OneChildPerID, WaitsOrRuns, AwaitedIsPaid
  <2> QED BY <1>2, <2>3, <2>4 DEF WakeupInv
<1>3. CASE EndUnawaited(c)
  BY <1>2, <1>3 DEF EndUnawaited, IsAwaited, NeverReadyTwice
<1>4. CASE EndUnexpected(c)
  <2>1. /\ halted' \in {"parent not waiting", "freed parent"}
        /\ UNCHANGED <<program, childID, owed, child, parent, threadID>>
    BY <1>4 DEF EndUnexpected
  <2> QED BY <2>1 DEF WakeupInv, OneChildPerID, LeavingIsPaid, WaitsOrRuns, AwaitedIsPaid,
             AsleepHasChild, WokenHasNone, NeverReadyTwice
<1>5. CASE Leave(c)
  <2>1. NeverReadyTwice'
    BY <1>5 DEF Leave, NeverReadyTwice
  <2> QED BY <1>2, <1>5, <2>1 DEF Leave
<1> QED BY <1>1, <1>3, <1>4, <1>5 DEF Exit_POS

LEMMA NextOnce == ASSUME OncePerID PROVE OnceInv /\ [ForkWaitNext]_forkWaitVars => OnceInv'
<1> SUFFICES ASSUME OnceInv, [ForkWaitNext]_forkWaitVars PROVE OnceInv'
  OBVIOUS
<1>1. ListInv'
  BY NextList DEF OnceInv
<1>2. CASE UNCHANGED forkWaitVars
  BY <1>1, <1>2 DEF OnceInv, WakeupInv, forkWaitVars, OneChildPerID, LeavingIsPaid, WaitsOrRuns,
     AwaitedIsPaid, AsleepHasChild, WokenHasNone, NeverReadyTwice
<1>3. ASSUME NEW p \in Program, WaitReturns(p) \/ Exit(p) PROVE OnceInv'
  BY <1>1, <1>3, ReturnKeepsWakeups DEF OnceInv
<1>4. ASSUME NEW p \in Program, NEW i \in ID, Fork_POS(p, i) \/ Wait_POS(p, i) PROVE OnceInv'
  BY <1>1, <1>4, ForkKeepsWakeups, WaitKeepsWakeups DEF OnceInv
<1>5. ASSUME NEW c \in Child, Exit_POS(c) PROVE OnceInv'
  BY <1>1, <1>5, ChildKeepsWakeups DEF OnceInv
<1> QED BY <1>2, <1>3, <1>4, <1>5 DEF ForkWaitNext

THEOREM WakeupsHold == ASSUME OncePerID PROVE ForkWaitSpec => []OnceInv
BY InitOnce, NextOnce, PTL DEF ForkWaitSpec

(* A program asleep in Wait_POS has a live child that will wake it. *)
THEOREM SleepersHaveChildren == ASSUME OncePerID PROVE ForkWaitSpec => []SleeperHasChild
<1>1. OnceInv => SleeperHasChild
  BY OnceParts DEF FamilyInv, WaitsOrRuns, AsleepHasChild, SleeperHasChild, Named, Alive
<1> QED BY <1>1, WakeupsHold, PTL

(* No parent is made ready twice: the assertion in List::Append holds. *)
THEOREM ParentsWakeOnce == ASSUME OncePerID PROVE ForkWaitSpec => []NeverReadyTwice
<1>1. OnceInv => NeverReadyTwice
  BY OnceParts
<1> QED BY <1>1, WakeupsHold, PTL

=============================================================================

--------------------------- MODULE VirtualMemory ---------------------------
(***************************************************************************)
(* The demand-paged virtual memory of Project2: Machine::Translate and its *)
(* callers ReadMem and WriteMem (machine/translate.cc), the page-fault     *)
(* handler Kernel::allocatePage with its FIFO replacement (threads/        *)
(* kernel.cc), the loading and the destruction of an address space         *)
(* (userprog/addrspace.cc), and what a context switch does to the machine's*)
(* page-table register (threads/scheduler.cc).                             *)
(*                                                                         *)
(* Granularity.  A user instruction translates the pages it touches one    *)
(* after the other (its code page, then its data; the Write system call    *)
(* one character of the buffer after the other).  A page fault loads the   *)
(* page and runs the whole instruction again.  No timer tick falls between *)
(* the fault and the second execution, so threads switch only between      *)
(* instructions.  Which unfinished thread runs next is left open here: the *)
(* ready list is the business of the scheduler.                            *)
(***************************************************************************)
EXTENDS Naturals, Sequences

CONSTANTS
  Thread,       \* the threads; one that never loads a program is a kernel thread
  NumPages,     \* NumPages[t]: numPages of the address space t loads
  NumPhysPages, \* frames of main memory
  Value,        \* contents of a page, of a frame
  Zero,         \* the contents bzero leaves
  MaxBuffer,    \* bound: the most pages the buffer of a Write system call spans
  None          \* no thread, no page, no instruction

ASSUME VMAssumption ==
  /\ NumPages \in [Thread -> Nat \ {0}]
  /\ NumPhysPages \in Nat \ {0}
  /\ Zero \in Value
  /\ MaxBuffer \in Nat
  /\ None \notin Thread
  /\ None \notin Thread \X Nat

Frame == 0 .. NumPhysPages - 1
VPage(t) == 0 .. NumPages[t] - 1
Page == UNION {{t} \X VPage(t) : t \in Thread}

VARIABLES
  currentThread,    \* kernel->currentThread; None once the last thread has finished
  status,           \* status[t]: "forked", "loaded" (owns an address space) or "finished"
  machinePageTable, \* the thread whose page table machine->pageTable points to
  pageTable,        \* pageTable[<<t, v>>]: entry v of the page table of t
  swapFile,         \* swapFile[<<t, v>>]: page v of the file addrSpace of t
  PPT,              \* PPT[f]: the page (thread and virtual page) frame f holds, or None
  loadedBefore,     \* <<f, g>>: PPT[f].pageOrder < PPT[g].pageOrder
  memoryManager,    \* the set bits of the bitmap of frames
  mainMemory,       \* mainMemory[f]: contents of frame f
  instr,            \* the instruction currentThread is executing, or None
  got               \* the pages this execution of instr has read so far, with their values

memoryVars == <<pageTable, swapFile, PPT, loadedBefore, memoryManager, mainMemory>>
instrVars  == <<instr, got>>
vars == <<currentThread, status, machinePageTable, memoryVars, instrVars>>

-----------------------------------------------------------------------------
(* Instructions: a register instruction touches its code page, a load or a store also *)
(* a data page, the Write system call the consecutive pages of its buffer.            *)

Load(t)  == [op : {"load"},
             pages : [1 .. 1 -> VPage(t)] \cup [1 .. 2 -> VPage(t)],
             value : {Zero}]
Store(t) == [op : {"store"}, pages : [1 .. 2 -> VPage(t)], value : Value]
Write(t) == {[op |-> "write",
              pages |-> [i \in 1 .. n + 1 |-> IF i = 1 THEN code ELSE first + i - 2],
              value |-> Zero] :
               n \in 1 .. MaxBuffer, code \in VPage(t), first \in VPage(t)}
Instruction(t) == {i \in Load(t) \cup Store(t) \cup Write(t) : i.pages \in Seq(VPage(t))}

Entry == [valid : BOOLEAN, dirty : BOOLEAN, frame : Frame \cup {None}]
Unmapped == [valid |-> FALSE, dirty |-> FALSE, frame |-> None]

Init ==
  /\ currentThread \in Thread
  /\ status = [t \in Thread |-> "forked"]
  /\ machinePageTable = None
  /\ pageTable = [p \in Page |-> Unmapped]
  /\ swapFile = [p \in Page |-> Zero]
  /\ PPT = [f \in Frame |-> None]
  /\ loadedBefore = {}
  /\ memoryManager = {}
  /\ mainMemory = [f \in Frame |-> Zero]
  /\ instr = None
  /\ got = <<>>

-----------------------------------------------------------------------------
(* Loading and the life of a thread.                                       *)

(* Mutant: the register keeps the table of the thread that ran before. *)
RestoreStateOmitted(n) == UNCHANGED machinePageTable

(* RestoreUserState/RestoreState when n is dispatched: a thread without an address space *)
(* leaves the page-table register alone.                                                 *)
RestoreState(n) ==
  machinePageTable' = IF status[n] = "loaded" THEN n ELSE machinePageTable

(* RunUserProg: Load writes the program's image to the swap file and fills the page table *)
(* with invalid entries; Execute makes the page table the machine's.                      *)
RunUserProg ==
  LET t == currentThread IN
  /\ t # None /\ status[t] = "forked"
  /\ \E image \in [VPage(t) -> Value] :
       swapFile' = [p \in Page |-> IF p[1] = t THEN image[p[2]] ELSE swapFile[p]]
  /\ pageTable' = [p \in Page |-> IF p[1] = t THEN Unmapped ELSE pageTable[p]]
  /\ status' = [status EXCEPT ![t] = "loaded"]
  /\ machinePageTable' = t
  /\ UNCHANGED <<currentThread, PPT, loadedBefore, memoryManager, mainMemory, instrVars>>

(* Mutant: a switch between a fault and the second execution of the instruction. *)
SwitchMidInstruction(n) ==
  /\ currentThread # None
  /\ n # currentThread /\ status[n] # "finished"
  /\ currentThread' = n
  /\ RestoreState(n)
  /\ UNCHANGED <<status, memoryVars, instrVars>>

(* A timer tick, or Sleep, between two instructions: another thread is dispatched. *)
Switch(n) ==
  /\ currentThread # None /\ instr = None
  /\ n # currentThread /\ status[n] # "finished"
  /\ currentThread' = n
  /\ RestoreState(n)
  /\ UNCHANGED <<status, memoryVars, instrVars>>

(* ~AddrSpace: the frames of the valid pages of t are cleared and given back. *)
FramesOf(t) == {pageTable[p].frame : p \in {q \in Page : q[1] = t /\ pageTable[q].valid}}
(* Mutant: the frames go back to the bitmap only. *)
DestroyBitmapOnly(t) ==
  /\ memoryManager' = memoryManager \ FramesOf(t)
  /\ UNCHANGED <<PPT, mainMemory, pageTable>>

DestroyAddrSpace(t) ==
  /\ PPT' = [f \in Frame |-> IF f \in FramesOf(t) THEN None ELSE PPT[f]]
  /\ mainMemory' = [f \in Frame |-> IF f \in FramesOf(t) THEN Zero ELSE mainMemory[f]]
  /\ memoryManager' = memoryManager \ FramesOf(t)
  /\ pageTable' = [p \in Page |-> IF p[1] = t THEN Unmapped ELSE pageTable[p]]

(* Finish, Run(n, TRUE) and, on n's stack, CheckToBeDestroyed: it deletes the thread and, *)
(* through the deleted object, its address space.  Nothing is allocated in between, so    *)
(* the field still holds its value.                                                       *)
Finish(n) ==
  LET t == currentThread IN
  /\ t # None /\ instr = None
  /\ n # t /\ status[n] # "finished"
  /\ status' = [status EXCEPT ![t] = "finished"]
  /\ currentThread' = n
  /\ RestoreState(n)
  /\ DestroyAddrSpace(t)
  /\ UNCHANGED <<swapFile, loadedBefore, instrVars>>

(* The last thread finishes: the kernel idles for ever and nobody destroys its carcass. *)
FinishLast ==
  /\ currentThread # None /\ instr = None
  /\ \A n \in Thread \ {currentThread} : status[n] = "finished"
  /\ status' = [status EXCEPT ![currentThread] = "finished"]
  /\ currentThread' = None
  /\ UNCHANGED <<machinePageTable, memoryVars, instrVars>>

-----------------------------------------------------------------------------
(* Executing an instruction.                                               *)

Fetch ==
  /\ currentThread # None /\ status[currentThread] = "loaded" /\ instr = None
  /\ instr' \in Instruction(currentThread)
  /\ got' = <<>>
  /\ UNCHANGED <<currentThread, status, machinePageTable, memoryVars>>

NextVPage == instr.pages[Len(got) + 1]
Executing == instr # None /\ Len(got) < Len(instr.pages)
Storing   == instr.op = "store" /\ Len(got) + 1 = Len(instr.pages)
(* Translate indexes machine->pageTable, whoever's table that is. *)
TranslatedPage == <<machinePageTable, NextVPage>>

(* ReadMem of a resident page: of code, of data, of the buffer the Write call prints. *)
ReadMem ==
  /\ Executing /\ ~Storing
  /\ pageTable[TranslatedPage].valid
  /\ got' = Append(got, [page |-> <<currentThread, NextVPage>>,
                         value |-> mainMemory[pageTable[TranslatedPage].frame]])
  /\ UNCHANGED <<currentThread, status, machinePageTable, memoryVars, instr>>

(* A reading instruction has everything it asked for: its effect is in registers or on the *)
(* console, outside memory.                                                                *)
Retire ==
  /\ instr # None /\ instr.op # "store" /\ Len(got) = Len(instr.pages)
  /\ instr' = None /\ got' = <<>>
  /\ UNCHANGED <<currentThread, status, machinePageTable, memoryVars>>

(* Mutant: Translate forgets the dirty bit. *)
WriteMemStaysClean ==
  /\ Executing /\ Storing
  /\ pageTable[TranslatedPage].valid
  /\ mainMemory' = [mainMemory EXCEPT ![pageTable[TranslatedPage].frame] = instr.value]
  /\ instr' = None /\ got' = <<>>
  /\ UNCHANGED <<currentThread, status, machinePageTable, pageTable, swapFile, PPT,
                 loadedBefore, memoryManager>>

(* WriteMem to a resident page: Translate sets the dirty bit. *)
WriteMem ==
  /\ Executing /\ Storing
  /\ pageTable[TranslatedPage].valid
  /\ mainMemory' = [mainMemory EXCEPT ![pageTable[TranslatedPage].frame] = instr.value]
  /\ pageTable' = [pageTable EXCEPT ![TranslatedPage].dirty = TRUE]
  /\ instr' = None /\ got' = <<>>
  /\ UNCHANGED <<currentThread, status, machinePageTable, swapFile, PPT, loadedBefore,
                 memoryManager>>

-----------------------------------------------------------------------------
(* Kernel::allocatePage                                                    *)

(* Bitmap::FindAndSet: the first frame whose bit is clear. *)
FirstFree(f) ==
  /\ f \in Frame \ memoryManager
  /\ \A g \in Frame \ memoryManager : f <= g

(* Mutant: the replacement loop keeps the largest pageOrder. *)
Youngest(f) == \A g \in Frame : <<f, g>> \notin loadedBefore

(* The replacement loop: the first frame with the smallest pageOrder. *)
Oldest(f) ==
  /\ \A g \in Frame : <<g, f>> \notin loadedBefore
  /\ \A g \in Frame : g < f => <<f, g>> \in loadedBefore

(* Mutant: eviction without write-back. *)
SwapOutOmitted(f) == swapFile

(* Eviction saves a dirty page to its owner's swap file ... *)
SwapOut(f) ==
  IF PPT[f] # None /\ pageTable[PPT[f]].dirty
    THEN [swapFile EXCEPT ![PPT[f]] = mainMemory[f]] ELSE swapFile
(* Mutant: eviction leaves the owner's entry valid. *)
InvalidateOmitted(f) == pageTable

(* ... and invalidates the owner's page-table entry. *)
Invalidate(f) ==
  IF PPT[f] # None
    THEN [pageTable EXCEPT ![PPT[f]] = [@ EXCEPT !.valid = FALSE, !.dirty = FALSE]]
    ELSE pageTable

(* PAGE_ORDER++: f becomes the youngest frame. *)
MakeYoungest(f) ==
  loadedBefore' = {o \in loadedBefore : o[1] # f} \cup {<<g, f>> : g \in Frame \ {f}}

(* Frame f, freed by the bitmap or by eviction, receives page v of currentThread. *)
MapAndLoad(f, v, swap, table) ==
  /\ swapFile' = swap
  /\ pageTable' = [table EXCEPT ![<<machinePageTable, v>>] =
                     [valid |-> TRUE, dirty |-> FALSE, frame |-> f]]
  /\ PPT' = [PPT EXCEPT ![f] = <<currentThread, v>>]
  /\ mainMemory' = [mainMemory EXCEPT ![f] = swap[<<currentThread, v>>]]
  /\ MakeYoungest(f)

AllocatePage(v) ==
  \E f \in Frame :
    \/ /\ FirstFree(f)
       /\ memoryManager' = memoryManager \cup {f}
       /\ MapAndLoad(f, v, swapFile, pageTable)
    \/ /\ memoryManager = Frame
       /\ Oldest(f)
       /\ MapAndLoad(f, v, SwapOut(f), Invalidate(f))
       /\ UNCHANGED memoryManager

(* Translate finds the page invalid; the handler loads it and machine->Run executes the *)
(* instruction again from its beginning.                                                *)
PageFault ==
  /\ Executing
  /\ ~pageTable[TranslatedPage].valid
  /\ AllocatePage(NextVPage)
  /\ got' = <<>>
  /\ UNCHANGED <<currentThread, status, machinePageTable, instr>>

-----------------------------------------------------------------------------
Execute == ReadMem \/ WriteMem \/ PageFault \/ Retire

Next ==
  \/ RunUserProg \/ Fetch \/ Execute \/ FinishLast
  \/ \E n \in Thread : Switch(n) \/ Finish(n)

Spec == Init /\ [][Next]_vars

(* The simulated machine never stops in the middle of an instruction. *)
FairSpec == Spec /\ WF_vars(Execute)

-----------------------------------------------------------------------------
(* Properties                                                              *)

TypeOK ==
  /\ currentThread \in Thread \cup {None}
  /\ status \in [Thread -> {"forked", "loaded", "finished"}]
  /\ machinePageTable \in Thread \cup {None}
  /\ pageTable \in [Page -> Entry]
  /\ swapFile \in [Page -> Value]
  /\ PPT \in [Frame -> Page \cup {None}]
  /\ loadedBefore \subseteq Frame \X Frame
  /\ memoryManager \subseteq Frame
  /\ mainMemory \in [Frame -> Value]
  /\ instr # None => currentThread # None /\ instr \in Instruction(currentThread)
  /\ got \in Seq([page : Page, value : Value])

(* Frame ownership: the three structures allocatePage and ~AddrSpace keep in step - the     *)
(* page tables, PPT and the bitmap - agree about who holds which frame.  A valid entry      *)
(* names a frame PPT gives to that page, so no two pages share a frame; a set bit is the    *)
(* frame of a valid page, so no frame leaks when a program exits.                           *)
FrameOwnership ==
  /\ \A p \in Page : pageTable[p].valid =>
       pageTable[p].frame \in Frame /\ PPT[pageTable[p].frame] = p
  /\ \A f \in Frame : PPT[f] # None =>
       pageTable[PPT[f]].valid /\ pageTable[PPT[f]].frame = f
  /\ memoryManager = {f \in Frame : PPT[f] # None}

(* Only a program that is loaded holds pages; an exited one does only when it was the last. *)
OnlyLoadedOwn ==
  \A p \in Page : pageTable[p].valid =>
    \/ status[p[1]] = "loaded"
    \/ status[p[1]] = "finished" /\ currentThread = None

(* Lazy write-back: eviction skips the write to the swap file when the dirty bit is clear,  *)
(* which is right only if a clean resident page is what the swap file holds.                *)
CleanPagesInSwap ==
  \A p \in Page : pageTable[p].valid /\ ~pageTable[p].dirty =>
    mainMemory[pageTable[p].frame] = swapFile[p]

(* The page-table register is not saved with a thread: whenever a user program can run,     *)
(* RestoreState or Execute has pointed it at that program's own table.                      *)
RegisterFollowsThread ==
  currentThread # None /\ status[currentThread] = "loaded" => machinePageTable = currentThread

(* The memory a program sees: a page is where it was put last, in a frame or in the file.   *)
Contents == [p \in Page |-> IF pageTable[p].valid THEN mainMemory[pageTable[p].frame]
                                                  ELSE swapFile[p]]

(* What an instruction has read before a fault or between two faults of its later pages is  *)
(* still what memory holds when it retires.                                                 *)
ReadsAreCurrent ==
  instr # None =>
    /\ status[currentThread] = "loaded"
    /\ \A i \in DOMAIN got :
         /\ i <= Len(instr.pages) /\ got[i].page = <<currentThread, instr.pages[i]>>
         /\ got[i].value = Contents[got[i].page]

(* The inductive invariant of the proofs. *)
IInv ==
  /\ TypeOK
  /\ FrameOwnership
  /\ OnlyLoadedOwn
  /\ CleanPagesInSwap
  /\ RegisterFollowsThread
  /\ ReadsAreCurrent

(* What an instruction that has read all its pages is about to take away. *)
Outcome == IF instr # None /\ Len(got) = Len(instr.pages) THEN got ELSE <<>>
(* The page a store that is under way is about to overwrite. *)
PendingStore ==
  IF instr # None /\ instr.op = "store"
    THEN <<<<currentThread, instr.pages[Len(instr.pages)]>>, instr.value>> ELSE <<>>
Running == {t \in Thread : status[t] = "loaded"}

(* The paged memory implements one private memory per program, whatever is evicted, whoever *)
(* runs in between and whoever exits.                                                       *)
PM == INSTANCE PrivateMemory WITH contents <- Contents, running <- Running,
                                  store <- PendingStore, result <- Outcome
ImplementsPrivateMemory == PM!Spec

(* An instruction that touches no more pages than there are frames completes: running it    *)
(* again after each fault does not evict, for ever, a page it needs.                        *)
InstructionCompletes == (instr # None) ~> (instr = None)

=============================================================================

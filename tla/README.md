# Formal models of the NACHOS system design

The repository holds three generations of one operating system kernel on a simulated MIPS machine:
`Project1` (a process layer with priorities), `Project2` (system calls, demand-paged virtual memory,
round-robin with a quantum) and `nachosWithFS-DFSFinal`, here "the final kernel" (a real file system, a
file manager, a distributed file system over sockets). The machine, the semaphores, locks and conditions,
the drivers, the post office and the containers are the same source in all three, but for details; each is
modelled once, at the copy that `PROJECT.json` names.

This directory holds TLA+ models of the parts where the kernel's own logic is, TLC configurations that
check them on small instances, and proofs that TLAPS checks for every instance.

## 1. Inventory

| component | state | operations | what is hard | what makes it correct |
|---|---|---|---|---|
| virtual memory (`Project2/code/threads/kernel.cc`, `userprog/addrspace.cc`, `machine/translate.cc`) | page tables, PPT, bitmap, main memory, swap files, page-table register | Translate, ReadMem, WriteMem, allocatePage, Load, ~AddrSpace, RestoreState | a fault runs the instruction again; lazy write-back; eviction from other programs; threads with and without an address space | each program sees a private memory; frames are neither shared nor leaked; an instruction completes |
| fork, wait, exit (`Project2/code/userprog/exception.cc`) | child list, childID, threadID, parent | Fork_POS, Wait_POS, Exit, Exit_POS | order of child's end and parent's wait; tick between wake-up and removal; parent freed first | a sleeping parent has a child that wakes it, once |
| threads and round-robin scheduler (`threads/thread.cc`, `scheduler.cc`, `alarm.cc`, `machine/interrupt.cc`, `timer.cc`) | currentThread, status, ready list, toBeDestroyed, interrupt level; in Project2 TIME_QUANTUM, runningTime | Fork, Begin, Yield, Sleep, Finish, ReadyToRun, FindNextToRun, Run, CheckToBeDestroyed, Idle | code goes on after SWITCH in another thread; interrupts while idling; deleting the stack one runs on; a quantum that keeps even a sleeping thread on the processor | each thread is found at exactly one place; one carcass; every ready thread runs |
| process layer (`Project1/code/threads/process.cc`, `scheduler.cc`) | fields of each process, sorted ready list, currentProcess, lines still to print | NewProcess, ForkProcess, ForkThread, Join, Yield, myFinish, Termination, Finish | preemption by priority, by quantum and by join in one condition; children that end before the join | whoever runs has the highest priority; a process is ready once; joins are answered; every thread ends |
| semaphores (`threads/synch.cc`) | value, queue | P, V | the unit V adds is not reserved for the thread it wakes | no lost wake-up |
| lock, condition, SynchList (`threads/synch.cc`, `synchlist.cc`) | lockHolder, waitQueue of waiter semaphores, list | Acquire, Release, Wait, Signal; Append, RemoveFront, Apply | a signal between Release and P; overtaking; waiter semaphores are freed | an atomic FIFO queue |
| file manager (`threads/filemanager.cc`) | two semaphores per file, replaced on delete | RequestReadAt, RequestWriteAt, ReleaseReadAt, ReleaseWriteAt, DeleteAt | callers that mix the reader's and the writer's calls; a delete during a wait | writers exclude each other and deletes; every call returns |
| file system (`filesys/filesys.cc`, `filehdr.cc`, `directory.cc`, `openfile.cc`, `pbitmap.cc`) | the sectors of the disk, bitmap, directory, headers with indirect blocks, open files with a header of their own | Create, Remove, Open, Allocate, Deallocate, ByteToSector, extend, ReadAt, WriteAt | growth through several open files; boundaries of direct and indirect blocks; a stop between two writes; a disk that fills up in the middle of a call | no sector belongs to two files; a call on one file leaves the others alone; a write keeps the rest of its file |
| synchronous disk and console (`filesys/synchdisk.cc`, `userprog/synchconsole.cc`, `machine/disk.cc`, `console.cc`) | lock, semaphore, the request under way, the character read | ReadSector, WriteSector, PutChar, GetChar, CallBack | the interrupt against the P; the keyboard's poll, restarted by GetChar | one request at a time, each answered to the thread that made it |
| post office and network (`network/post.cc`, `machine/network.cc`) | mailboxes, the packet buffer, packets under way | Send, Receive, PostalDelivery, CallBack | lost packets; the poll of the socket against the postal worker | mail that arrives does so once and in order |
| DFS (`network/sender.cc`, `Listening` in `userprog/exception.cc`) | sockets of the host | WriteTo, ReadFrom, the server loop | calls of the host that block the whole kernel | here: the server's locking, in FileManager |
| MIPS simulator (`machine/mipssim.cc`, `translate.cc`, `machine.cc`) | registers, the load under way, saved registers of each thread | OneInstruction, DelayedLoad, Mult, ReadMem, WriteMem, SaveUserState, RestoreUserState | delayed loads and branches against faults and switches; overflow told from signs; unaligned words | a program cannot tell the simulator from a processor of its own, but for two cases of SRL, SRLV and DIV |
| containers (`lib/`) | lists, bitmaps, hash table | Append, RemoveFront, Insert, FindAndSet | Append asserts that the item is not on the list | as sequences and sets; the assertion is in the invariants |

How they interact: user instructions reach the kernel through `ExceptionHandler`; system calls and page
faults run on the thread's kernel stack. Everything that waits sleeps in a semaphore, the only place (with
`Wait_POS` and the end of a thread) that calls `Thread::Sleep`; everything that wakes goes through
`ReadyToRun`. Devices complete in interrupt handlers, which run at ticks: after each user instruction, and
each time kernel code turns interrupts back on. The timer's handler asks for a `Yield` after the tick.
Mailboxes and the disk lock are built from `Lock` and `Condition`, those from `Semaphore`. The file system
reads and writes through the synchronous disk, the file manager stands beside it: its callers ask it before
they call the file system.

The hazards of the code, with their lines, are listed in `PROJECT.json`.

## 2. Modules

    PrivateMemory <--implements-- VirtualMemory  |                          MCVirtualMemory
                                  ForkWait       |<- Project2_proofs
    MipsWords <- MipsCPU <--implements-- MipsSim                            MCMipsSim
    Semaphores <- Semaphores_proofs
      |- Threads     <- Threads_proofs                                      MCThreads
      |- SynchList   <- SynchList_proofs     --implements--> FIFOQueue      MCSynchList
      |- FileManager <- FileManager_proofs                                  MCFileManager
      |- DeviceCalls <- SynchDisk, SynchConsole, PostOffice
                          Devices            --implements--> MailChannel    MCDevices
                          Devices <- Devices_proofs --implements--> RequestReply (once per driver)
    Processes  <- Processes_proofs
    FileSystem <- FileSystem_proofs                                         MCFileSystem

An arrow `<-` is EXTENDS; "implements" is INSTANCE with a refinement mapping.

**Granularity.** The kernel runs on one processor and gives it away only at ticks and in `Sleep`. Code
between two such points is one step of the models. A step therefore ends where `P` or `V` turns interrupts
on; in `Threads`, which models the switch itself, it also ends at `SWITCH`.

**VirtualMemory** (Project2). `pageTable`, `PPT`, `memoryManager`, `mainMemory`, `swapFile` are the
variables of the code, one value per page instead of 128 bytes. `pageOrder` is a counter that only ever
grows; the model keeps the order it induces (`loadedBefore`), so no bound on the number of faults is
needed. An instruction is the sequence of pages it translates: `Fetch` picks one, `ReadMem`, `WriteMem`,
`PageFault` and `Retire` execute it. `PageFault` is the handler `allocatePage` as a whole, with the free
frame or the FIFO victim, the write-back, the invalidation, the new entries and the load. `Switch` is a
change of thread between two instructions; which thread comes next is left open, which covers the
quantum scheduler. `Finish` is `Thread::Finish` and, on the next thread's stack, `~AddrSpace`.
`PM == INSTANCE PrivateMemory` states what a program relies on: nothing but its own stores changes what
it loads.

**MipsWords, MipsCPU, MipsSim**. `MipsWords` has words of `WordSize` bits and what an instruction is:
operation and register fields, decoded. `MipsCPU` is the promise of `machine.h:80`, that user programs
cannot tell the simulator from real hardware: each thread has a processor of its own, an instruction runs
whole and once, products, quotients and shifts are those of the MIPS manual. `MipsSim` is the code: one set of
registers for all threads, `DelayedLoad` at the end of each instruction and in `RaiseException`, branches
through `NextPCReg`, `Mult` bit by bit, overflow told from signs, `Switch` with the registers saved and
restored, `PageFault` before any access with the instruction run again (faults that are handled exist in
Project2 only; `mipssim.cc` is the same in all three versions, and `SIM_FIX` is defined in
`build.linux/Makefile:194`). The refinement mapping gives a thread that waits its saved registers, with the
load under way applied. Programs keep what compilers keep (`KeepsDelaySlots`): nobody reads a register in
the delay slot of its load; and no instruction links into the register it reads (`LinksElsewhere`), which
the manual leaves undefined.

The code does not keep the promise in two cases that `machine.h:80` does not except, and `ImplementsCPU`
excepts exactly these steps: `ShiftsSign`, SRL or SRLV of a negative word, which shifts an `int` and so the
sign into the word (`mipssim.cc:520-530`); and `CrashesHost`, DIV of the smallest word by -1, where the
division of the host traps and Nachos ends (`mipssim.cc:232`), while MIPS division has no exception. Both
occur in the run, and without either exception TLC finds the instruction as a counterexample. A division
by zero, undefined on MIPS, is zero in both modules.

**Semaphores**. `Take` and `Wait` are the two ways through the loop of `P`; `Recheck` is the loop after
`Sleep` has returned; `V` wakes the front and adds a unit. `inP` remembers who has slept in a `P` it has
not left, which the code keeps on the thread's stack.

**Threads** (Project2 and the final kernel). `phase` says where `currentThread` is: in its own code with
interrupts on, in `Sleep`, in `Interrupt::Idle`, or just back from `SWITCH`. `Continue` is the end of
`Yield` or `Begin`; `ContinueInP` is the end of `Sleep` in the loop of `P`. A `DeviceInterrupt` may come at
any tick. `timeQuantum` and `runningTime` are Project2's: `FindNextToRun` gives nobody before the quantum is
used up, not even to a thread that sleeps, and the timer counts in `Yield` and in the idle loop. The counter
stops at the quantum, past which nothing looks at it. The final kernel is the quantum 0.

**SynchList**. `pc` walks through `Append`, `RemoveFront` and `Apply` and, inside `RemoveFront`, through
`Condition::Wait`. `live` holds the waiter semaphores that are allocated. `lockHolder` is set one step
after the lock's unit is taken, as in `Lock::Acquire`.

**FileManager** (final kernel). A semaphore is named by kind, file and generation; `DeleteAt` starts a new
generation, and threads asleep in the old one stay there. The operations are the combinations of calls the
system calls, the server and the thread tests make. `numOfReader` is left out: one test of it is an
assignment, the other guards an empty statement.

**ForkWait** (Project2). One program per parent; children end in `Exit_POS`, which wakes the parent in one
step and leaves the child list in another. A parent that has finished is freed memory: its children find
what it held last, or the run crashes. The two `exit(-1)` and the failed assertion stop the whole kernel
(`halted`). Its specification is called `ForkWaitSpec`, so that one module can hold the proofs of both
parts of the Project2 kernel.

**Processes** (Project1). The main program sets processes up as `ThreadTest` does (create, fork threads,
fork children, join), then ends; each thread prints some lines and calls `myFinish`. `ForkThread` turns
interrupts off and leaves them so, which is why the main program has no ticks. `Tick` with the timer due is
`Alarm::CallBack` and `Process::Yield` in one of three ways: to another process, to another thread of the
process, to nobody. `Terminate` is the end of the last thread, with the count at the parent.
`randomSlice` is the option `-rs`.

**FileSystem** (final kernel). A call reads what it needs at once and leaves its disk writes, in the order
of the code, in `todo`; `DiskWrite` performs the first of them. `Crash` may come between any two and boots
from the same disk. Bitmap and directory are files themselves; each is written in one step. `torn` says
that the call has written one of two structures that only agree together; a stop in that moment makes the
disk `damaged`, and nothing is promised of it any more. Each `OpenFile` keeps its own copy of the header
(`open`), which `extend` changes and nobody writes back. `Chain` is what `Allocate` and `extendFileSize` do
with the doubly indirect block, as a function of the bitmap. Removing a file closes its OpenFiles in the
model: what a program does with a removed file is its own error. Calls do not overlap:
`filesys.cc:170` assumes "no concurrent access".

**DeviceCalls, SynchDisk, SynchConsole, PostOffice, Devices**. Each driver is a module over `Semaphores`;
`pc` walks through its call, the actions of the interrupt handlers are those of its device. `Devices` puts
them in one kernel, whose threads call any of them. `MailChannel` is what the post office promises: a packet
sent is lost or arrives once, in order. It describes a box by the set of messages that are on their way to
it or in it: messages are numbered as they are sent, and the next to arrive is the one with the lowest
number, whichever of the queues along the way holds it. `RequestReply` is the protocol that disk, display
and network sender share; each is shown to implement it.

Operators marked "Mutant" state a plausible bug; no run uses them as they stand. Replacing the operator
that follows by one of them makes the property named in `PROJECT.json` fail, which shows that the property
depends on that code.

## 3. Runs

| run | instance | what it shows |
|---|---|---|
| `vm_safety` | programs of 2 and 1 pages, 2 frames, 2 values | types, `FrameOwnership`, `CleanPagesInSwap`, `RegisterFollowsThread`, `ImplementsPrivateMemory`, `InstructionCompletes` |
| `threads` | 3 threads, a lock, a device semaphore, values up to 2, quantum 0 and 2 | placement of threads, one carcass, no lost wake-up, `ReadyRuns`, `UnitIsTaken` |
| `synchlist` | 3 threads, 2 items, lists up to 2 | mutual exclusion, waiter semaphores, `ImplementsFIFOQueue`, progress |
| `fm_protocol` | 3 threads, 2 files, 2 deletes | writers, deletes, waiters |
| `fm_write_to` (violation) | 3 threads that call WriteTo | the second `WriteTo` never returns |
| `forkwait` | 2 programs, 3 children, 2 IDs, one child per ID | parents are woken, once |
| `forkwait_lost_wakeup` (violation) | the same, several waits under one ID | a parent sleeps for ever |
| `filesystem` | 2 files, 2 open files, 12 sectors of 2 bytes, stops between any two writes | `NoSharedSectors`, `FilesAreIsolated` |
| `fs_write_keeps` (violation) | 1 file that is extended | a write past the end loses what the file held |
| `devices` | 2 threads and the postal worker, disk, console, network | `OneRequestAtATime`, `ImplementsMailChannel`, `RequestsComplete` |
| `processes` | up to 4 processes of 2 priorities, 2 threads each | `HighestPriorityRuns`, `Placement`, `EverybodyEnds` |
| `mips` | every instruction on 8-bit words, 36 pairs of operands, 2 threads, faults and switches anywhere | `ImplementsCPU`: hardware steps, but for two cases the code gets wrong |

**Bounds.**

* `vm_safety`: two frames for three pages make every fault after the second evict, from the own program and
  from the other; a store makes a page dirty and a switch puts another program in between.
* `threads`, `synchlist`, `fm_protocol`: three threads let one hold, one wait and one overtake, and let two
  wait in one queue. Two items distinguish FIFO from LIFO. Two deletes of one file race with each other and
  with a writer. A quantum of 2 has a tick that does not use it up.
* `forkwait`: three children allow two at once under one parent and one under the other.
* `filesystem`: the code has 29 direct pointers, 32 pointers in a block of pointers, sectors of 128 bytes
  and adds 4000 bytes when it extends (`Slack`), which is 32 sectors, more than the direct table. The
  instance keeps those proportions with 2, 4, 2 bytes and 5: files without, with one and with two blocks of
  pointers, extensions of files that fill the direct table and that do not, and a disk of 12 sectors, 4 of
  them the system's, that is full after two files. `FileSize` and `WriteRange` hit each of the boundaries.
  `fs_write_keeps` has one sector more, so that the extension it shows succeeds.
* `devices`: one keystroke or the end of the input, two letters, one mailbox; two threads want the same
  device or different ones.
* `processes`: a parent and its child at one priority and others at another; a quantum of two interrupts
  with two lines to print, so that a thread is preempted before, between and after them. With interrupts at
  random there is one process less.
* `mips`: 8-bit words have every sign and carry case; operands are 0, 1, 6 and the words around the change
  of sign; the memory has 8 bytes, two words. The programs together hold every instruction, and each keeps
  its delay slots. Every shift sees negative words and others.

`MaxValue`, `MaxItems`, `MaxDeletes`, `MaxUnits`, `MaxBuffer`, `MaxInput`, `MaxMail`, `MaxProcess`,
`MaxRandom`, `MaxThread` are guards of the caller, not of the operation they bound; the calls that are
bounded are the ones that nothing in the kernel limits.

**Deadlock** checking is off in every run: the system may really stop, with every thread finished, every
thread asleep (the machine then idles), after `exit(-1)`, or at the end of a program.

**Fairness.** `Threads` assumes that the timer keeps coming, also while the machine idles
(`Timer::SetInterrupt` schedules the next one each time), and that code with interrupts off runs to its
end; it assumes nothing of what threads and devices do. Under it TLC shows `ReadyRuns`: every ready thread
gets the processor. That justifies the weak fairness of each thread's steps in `SynchList`, `FileManager`,
`ForkWait` and `Devices`. The devices add that simulated time, which every tick and every idle loop
advances, reaches each pending interrupt (`Interrupt::CheckIfDue`); nothing is assumed of keyboard and
peers. `Processes` assumes only that the processor goes on. In `VirtualMemory` the machine does not stop in
the middle of an instruction (`WF_vars(Execute)`). `FileSystem` and `MipsSim` have safety properties only.
Nobody is assumed to make a call. A `P` can be overtaken for ever (TLC finds it), so progress through a lock
is promised only when calls do not keep coming: `CallsForEver` is the escape in `ItemsFindTakers`,
`AppendReturns`, `WaiterIsServed` and `CallsReturn`. While a server of the distributed
file system waits for a connection the host has the whole kernel blocked, and none of this holds; see below.

**What the violations show** is told in `PROJECT.json` under `findings`, each with the text it contradicts.

## 4. Proofs

`Project2_proofs` proves of `VirtualMemory`, for any set of threads, any number of pages and frames and any contents:

* `InvariantHolds`: `Spec => []IInv`. `IInv` is the type invariant, `FrameOwnership`, `OnlyLoadedOwn`,
  `CleanPagesInSwap`, `RegisterFollowsThread` and `ReadsAreCurrent`. None of the parts is inductive alone:
  a fault writes through the machine's register (so the register must be the current thread's) into a
  frame that PPT and bitmap call free (so they must agree with the tables), and evicts without writing a
  clean page (so the file must hold it). `ReadsAreCurrent` says that what an instruction has read is still
  in memory when a later page of it faults.
* `TypeCorrect`, `FramesAreOwned`, `LazyWriteBackIsSafe`, `RegisterIsCurrent`: its consequences.
* `Refinement`: `Spec => ImplementsPrivateMemory`. A fault leaves the programs' memory as it was
  (`FaultKeepsContents`), a store is one abstract write, the last read of an instruction is the abstract read.

`Semaphores_proofs` proves, for any number of threads and semaphores, `SemaphoresAreSafe`: types, order of
the queues (`QueuesHoldWaiters`) and `NoLostWakeup` are inductive together. A `V` moves the front of the
queue to the woken threads, which needs that it stands there once; a `P` takes a woken thread away only
with a unit; a thread goes to sleep only where there is none. The modules built on `Semaphores` inherit it:
their steps are steps of `SemaphoreSpec` or leave the semaphores alone.

`Threads_proofs` proves `ImplementsSemaphores` (that inheritance, for the thread system), and with it
`TypeCorrect`, `ThreadsArePlaced`, `CarcassIsAlone` and `WakeupsAreKept`, for any time quantum. The strengthening is
`ProcessorInv`: a thread in its own code is in no `P`, so that no `V` can ever wake a carcass; a thread in
`Sleep` does not count as running, so that the one that idles may be dispatched itself; a finishing thread
stays blocked, so that it is never the next to run on the stack it is about to lose.

`SynchList_proofs` proves `LockExcludes`, `WaitersAreAlive`, `SignalsAreKept` and the `Refinement` of
`FIFOQueue`, for any number of threads and items. `MonitorInv` says where the lock's one unit is (free, or
with the one thread whose `pc` is inside), that the waiter semaphores in the queue belong to threads that
have queued and not been signalled, and that a waiter's own semaphore has a unit exactly between its signal
and the return of its P. In the refinement the abstract operation is the step in which the thread that holds
the lock changes or tests the list; every other step is a stutter.

`FileManager_proofs` proves `WritersExclude` and `DeletesWait` for the files whose callers all keep to the
protocol of the tests (`OrderlyFile`), whatever is done to the others, for any number of threads, files and
deletes. The strengthening: of the current semaphores of such a file each is free with one unit or held by
one thread, which is at one of the points between its P and its V (`ExclusiveW`, `ExclusiveR`); those that
deletes have dropped have no unit and never get one (`Generations`), so that a thread stranded in them cannot
come back; and who waits for the second semaphore waits for the current one, because it holds the first
(`WaitsInCurrent`). The same statement without `OrderlyFile` is false: each `Read` adds a unit to semaphoreW.

`Project2_proofs` proves of `ForkWait`: `ListsHold` (types and child lists, whatever IDs the programs use),
with `ForkWaitTypeCorrect` and `ListedChildrenAreAlive`; and, under one child and one wait per ID,
`SleepersHaveChildren` and `ParentsWakeOnce`: a sleeper's ID is carried by exactly one child that is still
listed and has not called, so that the wake-up is still to come and comes once. Without that condition both
are false, as `forkwait_lost_wakeup` shows for the first.

`Devices_proofs` proves, for any number of threads, keystrokes, messages and boxes and any order of
interrupts:

* `DriversFollowProtocol`: disk, display and network sender implement `RequestReply` in one kernel. The
  protocol's own invariant (`RequestReply!IInv`: one caller is inside, and the request or its answer is the
  one it waits for) is proved inductive once and used three times. `KeyboardInv` adds the keyboard: of a poll
  under way, a character on offer and a reader that fetches one there is at most one, and none only when the
  input has ended. Hence `RequestsAreExclusive`, and `DriversLoseNoWakeup`, for the drivers' steps are steps
  of `SemaphoreSpec`.
* `MailArrivesInOrder`: `Spec => ImplementsMailChannel`. A message goes through the wire, the buffer of
  `NetworkInput`, the hand of the postal worker and a mailbox; `HandoverInv` says that the buffer is full
  exactly while its V has not been taken or the worker has yet to fetch the packet, so that no packet is read
  over or fetched twice; `OrderInv` that what is further on its way was sent earlier, across all four places.
  Every hand-over is then a stutter of the channel, and `Receive` takes the lowest number.
* `TypeCorrect`, of all drivers, devices and the queues between them.

`Processes_proofs` proves, for any number of processes and threads, any priorities and any quantum:

* `InvariantHolds`: `Spec => []IInv`. `ThreadInv` and `RunningInv` say where each thread of a process is: on
  its list, done, or the one that runs. `FamilyInv`: a process that waits lacks exactly as many counts as it
  has children still to end, so the count that wakes it is the last one, and comes. `ReadyInv`: the list is
  sorted, holds each process once and none that is deleted, and nobody on it is of higher priority than
  the process that runs. This is not inductive, because a join marks a process as waiting that may still be
  ready: its last child's `Termination` would put it on the list a second time. `ParentFirst` excludes that:
  while the main program sets up, and while a ready process waits, it is on the list before each of its
  children, and the list serves equal priorities in order. `FixedSliceInv` is what the timer at fixed intervals gives:
  an interrupt is due whenever a thread is in its code, so `myFinish` never returns and nobody is stranded.
* `TypeCorrect`, `HighestPriority`, `PlacementHolds`: its consequences. `InsertQueue` and its neighbours say
  what `SortedList::Insert` does to a sorted list, for every list.

`FileSystem_proofs` proves, for a disk, a directory, headers, tables and files of any size:

* `InvariantHolds`: `Spec => []IInv`. Neither `NoSharedSectors` nor `FilesAreIsolated` says anything of the
  middle of a call, so neither is inductive. `FinalInv` speaks of the end: there are a directory and a bitmap
  which the writes still to come produce, and owners of the sectors (`Data`, `Doubly` and `Blocks`: the
  contents of a file, its doubly indirect sectors, the blocks that belong to each of those) under which that
  end is good. Good means that owners are disjoint, in the bitmap and not the system's; that headers on
  disk and in memory name only sectors of their own file; that a table leads only to blocks of its own
  doubly indirect sector and those only to data of the file (`HeadersOK`, `OwnersOK`, `ChainsOK`, `OpenOK`). A
  sector's content is described as what it `Becomes` when the pending writes are done. A file may own more than
  its header on disk reaches: what a growth through an `OpenFile` found stays marked in the bitmap and is
  never given back. `ForeignOK` keeps the writes of a call out of every other file. `CrashInv` speaks of
  a stop: unless the call has written one of two linked structures, the disk is good as it stands, and the writes before the
  first link leave it so (`Harmless`); from it follows what a reboot finds.
* The steps: `DiskWriteKeeps` performs a write; for each call there is a lemma that the end it plans is good
  (`CreateKeeps`, `RemoveKeeps`, `WriteAtKeeps`, `WriteDataKeeps`). They rest on what the operators do for all
  arguments: `FindFree` and `FindEnough` (the k-th call of `FindAndSet` answers a free sector that no other
  call gets, as long as there are k), `ChainFacts`, `AllocateFacts` and `ExtendFacts` (tables lead to old
  pointers or to newly found sectors, also where a full disk leaves -1 in them), `PlaceFacts` (whatever
  ByteToSector finds, by its own way of counting, is a sector of the file or none).
* `SectorsNotShared` and `TypeCorrect` follow at rest. `Isolated` is the action property: a reader's view of
  a file depends on the sectors the file owns only (`SameView`), and a write of somebody else's call is to none
  of them.

Why these: the tests of the kernel run one schedule. The theorems cover every order of ticks, interrupts
and wake-ups and every number of threads, on which the assertions in `Scheduler::Run`, `List::Append` and
the device simulators depend, and for the file system every size, every growth and every point at which the
machine may stop.

The assumptions are the named ones of the modules (`VMAssumption`, `SemaphoreAssumption`,
`ThreadsAssumption`, `SynchListAssumption`, `ForkWaitAssumption`, `FileManagerAssumption`,
`DevicesAssumption`, `ConsoleAssumption`, `PostOfficeAssumption`, `ProcessAssumption`,
`FileSystemAssumption`); TLC evaluates them in every run. Those of `FileSystem` are the proportions of the
code's constants: a doubly indirect table of 32 by 32 pointers covers the 1024 sectors of the disk, what
`extend` adds is at least the direct table, and nothing is written past the end of that table.

Only model-checked: everything about liveness (`InstructionCompletes`, `ReadyRuns`, `UnitIsTaken`,
`ItemsFindTakers`, `AppendReturns`, `WaiterIsServed`, `WaitEnds`, `RequestsComplete`, `EverybodyEnds`), which
is out of the prover's reach; and `ImplementsCPU`, whose multiplication is a fold over the bits of a word:
what it computes for every width is an induction over data. Every invariant that a passing run checks is
stated by a theorem.

## 5. Not modelled

* The exchange of the distributed file system. A request is a connection of the host with one message each
  way; the calls (`accept`, `connect`, `read`) block the host process, and with it every thread of the
  machine, and the kernel keeps no state between them. `src/README.md:27` calls the communication
  "asychronous"; by the code a machine does nothing else while it waits for a connection or an answer, two
  machines that call each other in the middle of a request would wait for ever, and a file that begins with
  a zero byte has an answer of length zero, which the caller waits for in vain. What the server does with
  the file manager is in `FileManager`.
* `Write` of Project2 prints while it reads its buffer and prints again after a fault; the console is not
  part of `VirtualMemory`. The kernel stack, which grows with every fault because `allocatePage` calls
  `Machine::Run` and never returns. The one-character names of swap files.
* Fatal errors of user programs (addresses outside the program, misaligned addresses, `Halt`): they end the
  kernel. `MipsSim` stops there.
* In the file manager the table of names, taken as filled; a file that was not created since boot has the
  index -1 there. In the file system formatting, `List` and `Print`, the position of `Read` and `Write`, and
  calls that overlap.
* `P` and `V` of Project1, where `V` has its `ReadyToRun` commented out (`Project1/code/threads/synch.cc:111`):
  no thread of a process calls them. `Condition::Broadcast` and `HashTable`, which nobody uses.
* The bit fields of instructions (programs are decoded), disk latency and the track buffer, headers and sizes
  of mail, network addresses of other machines.
* Logging, statistics, the host's system calls (`lib/debug.cc`, `sysdep.cc`, `machine/stats.cc`), user test
  programs, `coff2noff`, build files and the C++ examples: no state of the kernel.

Two of the three copies of each shared file are counted in the repository's size and modelled once.

## 6. What could come next

The proof of `ImplementsCPU` for the instructions other than multiplication and division. The sockets of the
distributed file system as a module between machines, on top of `FileManager`. Overlapping calls of the file
system, which the code excludes by assumption while its own tests make them.

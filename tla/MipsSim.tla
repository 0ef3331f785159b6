------------------------------- MODULE MipsSim -------------------------------
(***************************************************************************)
(* The MIPS simulator (machine/mipssim.cc) under the kernel: threads share *)
(* one set of registers, a load takes effect after the next instruction, a *)
(* branch after its delay slot; between two instructions an interrupt may  *)
(* come and another thread may get the processor, and any access may fault *)
(* and the instruction starts again.  machine.cc, translate.cc and         *)
(* mipssim.cc are the same in the three versions of the kernel.            *)
(*                                                                         *)
(* The memory of a thread is its own, as VirtualMemory shows.              *)
(***************************************************************************)
EXTENDS MipsWords, SequencesExt

CONSTANTS
  Thread,
  Programs,      \* bound: what the threads may run, [Thread -> Seq(instruction)]
  Data,          \* bound: values of registers 4 and 5 at the start
  InitialMemory

(* Compilers leave the register of a load alone in its delay slot, but for the two halves  *)
(* of an unaligned load, and put no load, branch or system call into that of a branch.     *)
Unaligned == {"LWL", "LWR"}
KeepsDelaySlots(p) ==
  \A j \in 1 .. Len(p) - 1 :
    /\ p[j].op \in LoadOp /\ p[j].rt # 0 =>
         \/ p[j].rt \notin {p[j+1].rs, p[j+1].rt, p[j+1].rd}
         \/ {p[j].op, p[j+1].op} \subseteq Unaligned /\ p[j+1].rs # p[j].rt
    /\ p[j].op \in BranchOp \cup JumpOp =>
         p[j+1].op \notin LoadOp \cup BranchOp \cup JumpOp \cup {"SYSCALL"}
    /\ p[j+1].op = "SYSCALL" => p[j].op \notin LoadOp
(* The manual leaves open what an instruction does that links into the register it reads.  *)
LinksElsewhere(p) ==
  \A j \in 1 .. Len(p) :
    /\ p[j].op = "JALR" => p[j].rd # p[j].rs
    /\ p[j].op \in {"BGEZAL", "BLTZAL"} => p[j].rs # 31
ASSUME ProgramAssumption ==
  /\ \A program \in Programs : \A t \in Thread :
       KeepsDelaySlots(program[t]) /\ LinksElsewhere(program[t])
  /\ Data \subseteq Word

VARIABLES
  program,    \* program[t]: the code of t
  registers,  \* registers of the machine: gpr, hi, lo, PCReg, NextPCReg, LoadReg, LoadValueReg
  saved,      \* saved[t]: userRegisters of a thread that does not run
  current,    \* the user program that has the processor
  mem,        \* mem[t]: the bytes of its address space
  halted      \* Nachos has ended: an exception that is not handled, or the host's own

vars == <<program, registers, saved, current, mem, halted>>

Start(a, b) ==
  [gpr |-> [r \in GPR |-> CASE r = 4 -> a [] r = 5 -> b [] OTHER -> 0],
   hi |-> 0, lo |-> 0, pc |-> 1, next |-> 2, load |-> 0, value |-> 0]

Init ==
  /\ program \in Programs
  /\ \E a, b \in Data : registers = Start(a, b)
  /\ saved = [t \in Thread |-> Start(1, 2)]
  /\ current \in Thread
  /\ mem = [t \in Thread |-> InitialMemory]
  /\ halted = FALSE

-----------------------------------------------------------------------------
instr == program[current][registers.pc]
rs == registers.gpr[instr.rs]
rt == registers.gpr[instr.rt]
(* The machine executes an instruction that is one of op. *)
Executing(op) ==
  /\ ~halted
  /\ registers.pc \in DOMAIN program[current]
  /\ instr.op \in op

DelayedLoad(r, nextReg, nextValue) ==
  [r EXCEPT !.gpr = Set(@, r.load, r.value), !.load = nextReg, !.value = nextValue]

(* The end of OneInstruction. *)
Retire(r, nextReg, nextValue, pcAfter) ==
  /\ registers' = [DelayedLoad(r, nextReg, nextValue) EXCEPT !.pc = r.next, !.next = pcAfter]
  /\ UNCHANGED <<program, saved, current, halted>>
pcAfter == registers.next + 1
Put(r, value) == [registers EXCEPT !.gpr = Set(@, r, value)]
Continue(r) == Retire(r, 0, 0, pcAfter) /\ UNCHANGED mem

(* RaiseException, to a handler that ends Nachos. *)
Halt ==
  /\ registers' = DelayedLoad(registers, 0, 0)
  /\ halted' = TRUE
  /\ UNCHANGED <<program, saved, current, mem>>

(* The host ends the process that is Nachos. *)
Crash ==
  /\ halted' = TRUE
  /\ UNCHANGED <<program, registers, saved, current, mem>>

Plain == Executing(PlainOp) /\ Continue(Put(Dest(instr), Result(instr, registers.gpr)))

(* ADD, ADDI, SUB: overflow is told from the signs. *)
Operand == IF instr.op = "ADDI" THEN W(instr.extra) ELSE rt
Sum == IF instr.op = "SUB" THEN W(rs - Operand) ELSE W(rs + Operand)
Overflow ==
  /\ (Negative(rs) = Negative(Operand)) = (instr.op # "SUB")
  /\ IF instr.op = "ADDI" THEN Negative(Operand) # Negative(Sum) ELSE Negative(rs) # Negative(Sum)
Add ==
  /\ Executing({"ADD", "ADDI", "SUB"})
  /\ IF Overflow THEN Halt ELSE Continue(Put(Dest(instr), Sum))

(* SRL and SRLV shift an int, and so the sign into the word. *)
ShiftAmount == IF instr.op = "SRL" THEN instr.extra ELSE rs % WordSize
ShiftRightLogical ==
  /\ Executing({"SRL", "SRLV"})
  /\ Continue(Put(instr.rd, ShiftRight(rt, ShiftAmount)))

-----------------------------------------------------------------------------
(* Mult: the magnitudes bit by bit, in two words each, then the sign. *)
Double == 2^WordSize
MultStep(s, i) ==
  LET lo == W(s.lo + s.bLo)
      hi == W(s.hi + s.bHi + Bool(lo < s.bLo))
      added == IF s.a % 2 = 1 THEN [s EXCEPT !.lo = lo, !.hi = hi] ELSE s
  IN [added EXCEPT !.bHi = W(2 * @ + Bool(Negative(s.bLo))), !.bLo = W(2 * @),
                   !.a = ShiftRight(@, 1)]
Mult(a, b, signedArith) ==
  LET negative == signedArith /\ Negative(a) # Negative(b)
      positive(w) == IF signedArith /\ Negative(w) THEN W(-w) ELSE w
      s == FoldLeft(MultStep, [a |-> positive(a), bLo |-> positive(b), bHi |-> 0, lo |-> 0, hi |-> 0],
                    [i \in 1 .. WordSize |-> i])
      lo == W(-s.lo)
  IN CASE a = 0 \/ b = 0 -> <<0, 0>>
       [] negative -> <<W(Double - 1 - s.hi + Bool(lo = 0)), lo>>
       [] OTHER -> <<s.hi, s.lo>>

HiLo(pair) == [registers EXCEPT !.hi = pair[1], !.lo = pair[2]]
Multiply ==
  /\ Executing({"MULT", "MULTU"})
  /\ Continue(HiLo(Mult(rs, rt, instr.op = "MULT")))

(* DIV, DIVU.  The host's own division traps at the one quotient that does not fit. *)
Unquotable == instr.op = "DIV" /\ rs = SIGN_BIT /\ rt = Double - 1
Divide ==
  /\ Executing({"DIV", "DIVU"})
  /\ CASE rt = 0 -> Continue(HiLo(<<0, 0>>))
       [] instr.op = "DIVU" /\ rt # 0 -> Continue(HiLo(<<rs % rt, rs \div rt>>))
       [] Unquotable -> Crash
       [] OTHER -> Continue(HiLo(<<W(Remainder(Signed(rs), Signed(rt))),
                                   W(Quotient(Signed(rs), Signed(rt)))>>))

MoveHiLo ==
  \/ Executing({"MFHI"}) /\ Continue(Put(instr.rd, registers.hi))
  \/ Executing({"MFLO"}) /\ Continue(Put(instr.rd, registers.lo))
  \/ Executing({"MTHI"}) /\ Continue(HiLo(<<rs, registers.lo>>))
  \/ Executing({"MTLO"}) /\ Continue(HiLo(<<registers.hi, rs>>))

-----------------------------------------------------------------------------
(* Branches and jumps *)

(* BGEZAL and BLTZAL link first and then test. *)
Linked == IF instr.op \in LinkOp THEN Put(31, pcAfter) ELSE registers
tested == Linked.gpr[instr.rs]
Taken ==
  CASE instr.op = "BEQ" -> tested = rt
    [] instr.op = "BNE" -> tested # rt
    [] instr.op \in {"BGEZ", "BGEZAL"} -> ~Negative(tested)
    [] instr.op \in {"BLTZ", "BLTZAL"} -> Negative(tested)
    [] instr.op = "BGTZ" -> tested # 0 /\ ~Negative(tested)
    [] instr.op = "BLEZ" -> tested = 0 \/ Negative(tested)

Branch ==
  /\ Executing(BranchOp)
  /\ Retire(Linked, 0, 0, IF Taken THEN registers.next + instr.extra ELSE pcAfter)
  /\ UNCHANGED mem
Jump ==
  /\ Executing({"J", "JAL"})
  /\ Retire(Linked, 0, 0, instr.extra)
  /\ UNCHANGED mem
JumpRegister ==
  /\ Executing({"JR", "JALR"})
  /\ LET r == IF instr.op = "JALR" THEN Put(instr.rd, pcAfter) ELSE registers
     IN Retire(r, 0, 0, r.gpr[instr.rs])
  /\ UNCHANGED mem

-----------------------------------------------------------------------------
(* Loads and stores *)

address == Address(instr, registers.gpr)
byte == address % 4
InWord(k) == mem[current][Accessed(instr, registers.gpr) + k]
ReadMem(size) ==
  CASE size = 1 -> InWord(0)
    [] size = 2 -> InWord(0) + InWord(1) * 2^ByteSize
    [] size = 4 -> WordOf([k \in 0 .. 3 |-> InWord(k)])

(* LB and LH extend the sign. *)
Extended(value, size) ==
  IF instr.op \in {"LB", "LH"} /\ (value \div 2^(size * ByteSize - 1)) % 2 = 1
    THEN value + Double - 2^(size * ByteSize) ELSE value

(* Mutant: the half that is on its way is not looked at. *)
TargetOfLoadStale == rt
(* LWL and LWR keep a part of the register, or of what is to be loaded into it. *)
TargetOfLoad == IF registers.load = instr.rt THEN registers.value ELSE rt

Lower(w, n) == w % 2^(n * ByteSize)            \* the n lower bytes, in place
Upper(w, n) == w - Lower(w, n)                 \* all but those
Left(w, n)  == W(w * 2^(n * ByteSize))         \* w << n bytes
Right(w, n) == w \div 2^(n * ByteSize)
LoadLeft(value)  == LET n == 3 - byte IN Lower(TargetOfLoad, n) + Left(value, n)
LoadRight(value) == Upper(TargetOfLoad, 4 - byte) + Right(value, byte)

(* A misaligned address, or one that is not in the address space: AddressErrorException.   *)
Faulty == AddressError(instr, registers.gpr)

Load ==
  /\ Executing(LoadOp)
  /\ LET value == ReadMem(Size(instr))
     IN IF Faulty THEN Halt
        ELSE /\ Retire(registers, instr.rt,
                       CASE instr.op = "LWL" -> LoadLeft(value)
                         [] instr.op = "LWR" -> LoadRight(value)
                         [] OTHER -> Extended(value, Size(instr)), pcAfter)
             /\ UNCHANGED mem

(* SWL and SWR read the word, change a part of it and write it. *)
StoreLeft(value)  == LET n == byte + 1 IN Upper(value, n) + Right(rt, 3 - byte)
StoreRight(value) == Lower(value, byte) + Left(rt, byte)
WriteMem(size, value) ==
  LET at == Accessed(instr, registers.gpr)
  IN mem' = [mem EXCEPT ![current] = [a \in DOMAIN @ |->
               IF a \in at .. at + size - 1 THEN ByteOf(value, a - at) ELSE @[a]]]

Store ==
  /\ Executing(StoreOp)
  /\ IF Faulty THEN Halt
     ELSE /\ WriteMem(Size(instr), CASE instr.op = "SWL" -> StoreLeft(ReadMem(4))
                                     [] instr.op = "SWR" -> StoreRight(ReadMem(4))
                                     [] OTHER -> rt)
          /\ Retire(registers, 0, 0, pcAfter)

-----------------------------------------------------------------------------
(* OP_SYSCALL with SC_Add: the handler moves the PC to the next word. *)
Syscall ==
  /\ Executing({"SYSCALL"})
  /\ LET r == DelayedLoad(registers, 0, 0)
     IN registers' = [r EXCEPT !.gpr = Set(@, 2, W(@[4] + @[5])),
                               !.pc = @ + 1, !.next = r.pc + 2]
  /\ UNCHANGED <<program, saved, current, mem, halted>>

Reserved == Executing({"RES"}) /\ Halt

(* The fetch or an access faults; the handler brings the page in, and OneInstruction starts *)
(* again.                                                                                   *)
PageFault ==
  /\ ~halted
  /\ registers' = DelayedLoad(registers, 0, 0)
  /\ UNCHANGED <<program, saved, current, mem, halted>>

(* A due interrupt, or an exception, in whose handling the thread loses the processor.     *)
(* SaveUserState and RestoreUserState copy every register.                                 *)
Switch(t) ==
  /\ ~halted /\ t # current
  /\ saved' = [saved EXCEPT ![current] = DelayedLoad(registers, 0, 0)]
  /\ registers' = saved[t]
  /\ current' = t
  /\ UNCHANGED <<program, mem, halted>>

OneInstruction ==
  \/ Plain \/ Add \/ ShiftRightLogical
  \/ Multiply \/ Divide \/ MoveHiLo
  \/ Branch \/ Jump \/ JumpRegister
  \/ Load \/ Store
  \/ Syscall \/ Reserved

Next == OneInstruction \/ PageFault \/ \E t \in Thread : Switch(t)

Spec == Init /\ [][Next]_vars

-----------------------------------------------------------------------------
(* What a thread sees: its registers, with the load under way applied. *)
View(t) ==
  LET r == DelayedLoad(IF t = current THEN registers ELSE saved[t], 0, 0)
  IN [reg |-> r.gpr, hi |-> r.hi, lo |-> r.lo, pc |-> r.pc, next |-> r.next]
CPU == INSTANCE MipsCPU WITH cpu <- [t \in Thread |-> View(t)], trapped <- halted

(* Two instructions that contradict machine.h:80.  MIPS shifts zeros into the word and     *)
(* divides without an exception, so that the smallest word by -1 is itself.                *)
ShiftsSign == ShiftRightLogical /\ Negative(rt) /\ ShiftAmount # 0
CrashesHost == Divide /\ Unquotable

(* Every step of the simulator, shared with another program and interrupted and faulting   *)
(* anywhere, but for a right shift of a negative word by SRL or SRLV and the division of   *)
(* the smallest word by -1, is a step of hardware that runs one instruction of one program *)
(* after the other, or changes nothing the programs see: loads that are under way, delay   *)
(* slots, restarts, the other rules of sign and overflow, and the bitwise multiplication.  *)
(* "User programs shouldn't be able to tell" (machine/machine.h:80) promises it of those   *)
(* two as well, where the code does not keep it.                                           *)
ImplementsCPU == CPU!Init /\ [][CPU!Next \/ ShiftsSign \/ CrashesHost]_(CPU!vars)
=============================================================================

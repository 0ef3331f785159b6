------------------------------- MODULE MipsCPU -------------------------------
(***************************************************************************)
(* "User programs shouldn't be able to tell that they are running on our   *)
(* simulator or on the real hardware" (machine/machine.h:80).  Here every  *)
(* thread has a processor of its own, an instruction runs whole and once,  *)
(* and what it loads is there at once: nobody looks in the delay slot.     *)
(***************************************************************************)
EXTENDS MipsWords

CONSTANT Thread

VARIABLES program, cpu, mem, trapped

vars == <<program, cpu, mem, trapped>>

Init ==
  /\ \A t \in Thread :
       /\ cpu[t].reg \in [GPR -> Word] /\ cpu[t].reg[0] = 0
       /\ cpu[t].pc = 1 /\ cpu[t].next = 2
       /\ mem[t] \in [0 .. MemorySize - 1 -> Byte]
  /\ trapped = FALSE

Current(t) == program[t][cpu[t].pc]
Rs(t) == cpu[t].reg[Current(t).rs]
Rt(t) == cpu[t].reg[Current(t).rt]
Running(t) == ~trapped /\ cpu[t].pc \in DOMAIN program[t]

(* The processor of t after its instruction, up to what the instruction is about. *)
After(t, pcAfter) == [cpu[t] EXCEPT !.pc = cpu[t].next, !.next = pcAfter]
Sequential(t) == After(t, cpu[t].next + 1)
Becomes(t, c) == cpu' = [cpu EXCEPT ![t] = c]

Arithmetic(t) ==
  LET i == Current(t)
      exact == CASE i.op = "ADD"  -> Signed(Rs(t)) + Signed(Rt(t))
                 [] i.op = "ADDI" -> Signed(Rs(t)) + i.extra
                 [] i.op = "SUB"  -> Signed(Rs(t)) - Signed(Rt(t))
      value == CASE i.op \in {"ADD", "ADDI", "SUB"} -> W(exact)
                 [] i.op = "SRL"  -> Rt(t) \div 2^i.extra
                 [] i.op = "SRLV" -> Rt(t) \div 2^(Rs(t) % WordSize)
                 [] i.op = "MFHI" -> cpu[t].hi
                 [] i.op = "MFLO" -> cpu[t].lo
                 [] i.op \in PlainOp -> Result(i, cpu[t].reg)
  IN /\ i.op \in PlainOp \cup {"ADD", "ADDI", "SUB", "SRL", "SRLV", "MFHI", "MFLO"}
     /\ i.op \in {"ADD", "ADDI", "SUB"} => exact \in -SIGN_BIT .. SIGN_BIT - 1
     /\ Becomes(t, [Sequential(t) EXCEPT !.reg = Set(@, Dest(i), value)])
     /\ UNCHANGED mem

(* Multiplication and division have no exceptions.  A quotient by zero is undefined: zero  *)
(* is one of the words it may be.                                                          *)
HiLo(t) ==
  LET i == Current(t)
      product == IF i.op = "MULT" THEN Signed(Rs(t)) * Signed(Rt(t)) ELSE Rs(t) * Rt(t)
      hilo == CASE i.op \in {"MULT", "MULTU"} -> <<W(product \div 2^WordSize), W(product)>>
                [] i.op = "MTHI" -> <<Rs(t), cpu[t].lo>>
                [] i.op = "MTLO" -> <<cpu[t].hi, Rs(t)>>
                [] i.op \in {"DIV", "DIVU"} /\ Rt(t) = 0 -> <<0, 0>>
                [] i.op = "DIVU" -> <<Rs(t) % Rt(t), Rs(t) \div Rt(t)>>
                [] i.op = "DIV" -> <<W(Remainder(Signed(Rs(t)), Signed(Rt(t)))),
                                     W(Quotient(Signed(Rs(t)), Signed(Rt(t))))>>
  IN /\ i.op \in {"MULT", "MULTU", "DIV", "DIVU", "MTHI", "MTLO"}
     /\ Becomes(t, [Sequential(t) EXCEPT !.hi = hilo[1], !.lo = hilo[2]])
     /\ UNCHANGED mem

Jump(t) ==
  LET i == Current(t)
      a == Signed(Rs(t))
      taken == CASE i.op = "BEQ" -> Rs(t) = Rt(t)
                 [] i.op = "BNE" -> Rs(t) # Rt(t)
                 [] i.op \in {"BGEZ", "BGEZAL"} -> a >= 0
                 [] i.op \in {"BLTZ", "BLTZAL"} -> a < 0
                 [] i.op = "BGTZ" -> a > 0
                 [] i.op = "BLEZ" -> a <= 0
                 [] OTHER -> TRUE
      target == CASE i.op \in {"J", "JAL"} -> i.extra
                  [] i.op \in {"JR", "JALR"} -> Rs(t)
                  [] OTHER -> cpu[t].next + i.extra
      c == After(t, IF taken THEN target ELSE cpu[t].next + 1)
      link == cpu[t].next + 1
  IN /\ i.op \in BranchOp \cup JumpOp
     /\ Becomes(t, CASE i.op \in LinkOp -> [c EXCEPT !.reg = Set(@, 31, link)]
                     [] i.op = "JALR" -> [c EXCEPT !.reg = Set(@, i.rd, link)]
                     [] OTHER -> c)
     /\ UNCHANGED mem

(* The bytes of the register that an unaligned load or store is about, lowest first: LWR   *)
(* and SWR from byte 0 on, LWL and SWL up to byte 3.                                       *)
Load(t) ==
  LET i == Current(t)
      at == Address(i, cpu[t].reg)
      byte(k) == mem[t][at + k]
      old(k) == ByteOf(Rt(t), k)
      extended(n, v) == IF v >= 2^(n * ByteSize - 1) THEN W(v - 2^(n * ByteSize)) ELSE v
      value == CASE i.op = "LBU" -> byte(0)
                 [] i.op = "LB"  -> extended(1, byte(0))
                 [] i.op = "LHU" -> byte(0) + byte(1) * 2^ByteSize
                 [] i.op = "LH"  -> extended(2, byte(0) + byte(1) * 2^ByteSize)
                 [] i.op = "LW"  -> WordOf([k \in 0 .. 3 |-> byte(k)])
                 [] i.op = "LWR" -> WordOf([k \in 0 .. 3 |->
                                      IF k <= 3 - (at % 4) THEN byte(k) ELSE old(k)])
                 [] i.op = "LWL" -> WordOf([k \in 0 .. 3 |->
                                      IF k >= 3 - (at % 4) THEN byte(k - 3) ELSE old(k)])
  IN /\ i.op \in LoadOp /\ ~AddressError(i, cpu[t].reg)
     /\ Becomes(t, [Sequential(t) EXCEPT !.reg = Set(@, i.rt, value)])
     /\ UNCHANGED mem

Store(t) ==
  LET i == Current(t)
      at == Address(i, cpu[t].reg)
      written == CASE i.op = "SWR" -> at .. at + 3 - (at % 4)
                   [] i.op = "SWL" -> at - (at % 4) .. at
                   [] OTHER -> at .. at + Size(i) - 1
      from(a) == IF i.op = "SWL" THEN a - at + 3 ELSE a - at
  IN /\ i.op \in StoreOp /\ ~AddressError(i, cpu[t].reg)
     /\ Becomes(t, Sequential(t))
     /\ mem' = [mem EXCEPT ![t] = [a \in DOMAIN @ |->
                  IF a \in written THEN ByteOf(Rt(t), from(a)) ELSE @[a]]]

(* The system call Add. *)
Syscall(t) ==
  /\ Current(t).op = "SYSCALL"
  /\ Becomes(t, [Sequential(t) EXCEPT !.reg = Set(@, 2, W(@[4] + @[5]))])
  /\ UNCHANGED mem

Step(t) ==
  /\ Running(t)
  /\ Arithmetic(t) \/ HiLo(t) \/ Jump(t) \/ Load(t) \/ Store(t) \/ Syscall(t)
  /\ UNCHANGED <<program, trapped>>

(* An instruction without a result ends the machine: Nachos handles no such exception. *)
Trap(t) ==
  LET i == Current(t)
      a == Signed(Rs(t))  b == Signed(Rt(t))
      InRange(n) == n \in -SIGN_BIT .. SIGN_BIT - 1
  IN /\ Running(t)
     /\ \/ i.op \in LoadOp \cup StoreOp /\ AddressError(i, cpu[t].reg)
        \/ i.op = "ADD"  /\ ~InRange(a + b)
        \/ i.op = "ADDI" /\ ~InRange(a + i.extra)
        \/ i.op = "SUB"  /\ ~InRange(a - b)
        \/ i.op = "RES"
     /\ trapped' = TRUE
     /\ UNCHANGED <<program, cpu, mem>>

Next == \E t \in Thread : Step(t) \/ Trap(t)

Spec == Init /\ [][Next]_vars
=============================================================================

------------------------------ MODULE MCMipsSim ------------------------------
(* Programs and data for TLC.  Together the programs hold every instruction. *)
EXTENDS MipsSim

CONSTANTS t1, t2

R(op, rd, s, t) == [op |-> op, rs |-> s, rt |-> t, rd |-> rd, extra |-> 0]
S(op, rd, t, n) == [op |-> op, rs |-> 0, rt |-> t, rd |-> rd, extra |-> n]
I(op, t, s, n)  == [op |-> op, rs |-> s, rt |-> t, rd |-> 0, extra |-> n]
J(op, n)        == [op |-> op, rs |-> 0, rt |-> 0, rd |-> 0, extra |-> n]

Logic  == <<R("AND", 2, 4, 5), R("OR", 31, 4, 5), R("XOR", 2, 2, 4), R("NOR", 2, 2, 31),
            I("ANDI", 4, 4, 5), I("ORI", 5, 5, -2), I("XORI", 2, 5, 3), I("LUI", 31, 0, 7)>>
Adding == <<R("ADDU", 2, 4, 5), I("ADDIU", 31, 4, -3), R("SUBU", 2, 2, 31), R("ADD", 2, 4, 5),
            R("SUB", 31, 4, 5), I("ADDI", 2, 4, 6), I("ADDI", 2, 4, -6)>>
Compare == <<R("SLT", 2, 4, 5), R("SLTU", 31, 4, 5), I("SLTI", 2, 4, -1), I("SLTIU", 31, 4, -1)>>
Shifts == <<S("SLL", 2, 4, 3), S("SRA", 31, 4, 2), R("SLLV", 2, 5, 4), R("SRAV", 31, 5, 4),
            S("SRL", 31, 4, 1), R("SRLV", 2, 5, 4)>>
HiAndLo == <<R("MULT", 0, 4, 5), R("MFHI", 2, 0, 0), R("MFLO", 31, 0, 0), R("MULTU", 0, 4, 5),
             R("DIVU", 0, 4, 5), R("MTHI", 0, 4, 0), R("MTLO", 0, 5, 0), R("DIV", 0, 4, 5)>>
(* Each branch skips the next instruction but one, after its delay slot. *)
Branches == <<I("BGEZ", 0, 4, 2), I("ADDIU", 2, 2, 1), I("BLTZ", 0, 4, 2), I("ADDIU", 2, 2, 2),
              I("BGTZ", 0, 5, 2), I("ADDIU", 2, 2, 4), I("BLEZ", 0, 5, 2), I("ADDIU", 2, 2, 1),
              I("BEQ", 5, 4, 2), I("ADDIU", 2, 2, 2), I("BNE", 5, 4, 2), I("ADDIU", 2, 2, 4),
              I("BGEZAL", 0, 4, 2), I("ADDIU", 2, 2, 1), I("BLTZAL", 0, 4, 2), I("ADDIU", 2, 2, 1),
              J("RES", 0)>>
Calls  == <<J("JAL", 6), I("ADDIU", 4, 4, 1), J("SYSCALL", 0), R("JALR", 31, 5, 0),
            I("ADDIU", 2, 2, 1), I("ADDIU", 5, 0, 9), R("JR", 0, 31, 0), I("ADDIU", 4, 4, 1),
            J("J", 12), I("ADDIU", 2, 2, 1), J("RES", 0)>>
Loads  == <<I("LB", 2, 0, 0), I("LBU", 31, 0, 0), I("LH", 2, 0, 2), I("LHU", 31, 0, 2),
            I("LW", 2, 0, 4), I("SW", 4, 0, 0), I("ADDU", 2, 2, 2), I("LW", 5, 4, 0)>>
Stores == <<I("SB", 4, 0, 1), I("SH", 5, 0, 2), I("LW", 2, 0, 0), I("SH", 4, 5, 0)>>
(* A word from any address into any other. *)
Unalign == <<I("ANDI", 4, 4, 3), I("ANDI", 5, 5, 3), I("LWR", 2, 4, 0), I("LWL", 2, 4, 3),
             I("SWR", 4, 5, 0), I("SWL", 2, 5, 3), I("LWL", 4, 5, 1), I("LWR", 4, 5, 1)>>
Other  == <<I("LW", 2, 0, 0), I("BEQ", 0, 0, 2), R("ADDU", 31, 4, 5), J("RES", 0), R("ADDU", 4, 2, 5)>>

MCPrograms ==
  {[t \in Thread |-> IF t = t1 THEN p ELSE Other] :
     p \in {Logic, Adding, Compare, Shifts, HiAndLo, Branches, Calls, Loads, Stores, Unalign}}
MCData == {0, 1, 6, 127, 128, 255}
MCMemory == [a \in 0 .. MemorySize - 1 |-> <<3, 0, 1, 2, 2, 3, 0, 1>>[a + 1]]
=============================================================================

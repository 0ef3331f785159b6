------------------------------ MODULE MipsWords ------------------------------
(***************************************************************************)
(* Words, and the instructions on which the simulator and the hardware     *)
(* agree by definition.  A word has WordSize bits (32), a byte a quarter   *)
(* of that, an immediate half of it; a program is a sequence of decoded    *)
(* instructions [op, rs, rt, rd, extra], and code addresses count them.    *)
(***************************************************************************)
EXTENDS Integers, Sequences, FiniteSets, Bitwise

CONSTANTS WordSize, MemorySize

ASSUME WordAssumption ==
  /\ WordSize \in Nat /\ WordSize > 0 /\ WordSize % 4 = 0
  /\ MemorySize \in Nat /\ MemorySize % 4 = 0

Word     == 0 .. 2^WordSize - 1
ByteSize == WordSize \div 4
Byte     == 0 .. 2^ByteSize - 1
GPR      == {0, 2, 4, 5, 31}   \* of the 32 registers: zero, a result, two arguments, a link

W(n) == n % 2^WordSize
SIGN_BIT == 2^(WordSize - 1)
Negative(w) == w >= SIGN_BIT
Signed(w) == IF Negative(w) THEN w - 2^WordSize ELSE w
Low(n) == n % 2^(WordSize \div 2)          \* n & 0xffff
ByteOf(w, k) == (w \div 2^(ByteSize * k)) % 2^ByteSize
WordOf(b) == b[0] + b[1] * 2^ByteSize + b[2] * 2^(2 * ByteSize) + b[3] * 2^(3 * ByteSize)
ShiftRight(w, n) == W(Signed(w) \div 2^n)  \* of an int in C

(* C division, which rounds towards zero. *)
Quotient(a, b) ==
  LET abs(n) == IF n < 0 THEN -n ELSE n
      q == abs(a) \div abs(b)
  IN IF (a < 0) = (b < 0) THEN q ELSE -q
Remainder(a, b) == a - b * Quotient(a, b)

-----------------------------------------------------------------------------
ImmediateOp == {"ADDI", "ADDIU", "ANDI", "ORI", "XORI", "SLTI", "SLTIU", "LUI"}
LogicalOp == {"AND", "ANDI", "OR", "ORI", "XOR", "XORI", "NOR"}
CompareOp == {"SLT", "SLTI", "SLTU", "SLTIU"}
ShiftOp   == {"SLL", "SLLV", "SRA", "SRAV"}
PlainOp   == {"ADDU", "ADDIU", "SUBU", "LUI"} \cup LogicalOp \cup CompareOp \cup ShiftOp
BranchOp == {"BEQ", "BNE", "BGEZ", "BGTZ", "BLEZ", "BLTZ", "BGEZAL", "BLTZAL"}
JumpOp   == {"J", "JAL", "JR", "JALR"}
LinkOp   == {"BGEZAL", "BLTZAL", "JAL"}
LoadOp   == {"LB", "LBU", "LH", "LHU", "LW", "LWL", "LWR"}
StoreOp  == {"SB", "SH", "SW", "SWL", "SWR"}

Dest(i) == IF i.op \in ImmediateOp THEN i.rt ELSE i.rd
Bool(b) == IF b THEN 1 ELSE 0

(* What a plain instruction puts into its destination register. *)
Logical(i, a, b) ==
  CASE i.op = "AND"  -> a & b
    [] i.op = "ANDI" -> a & Low(i.extra)
    [] i.op = "OR"   -> a | b
    [] i.op = "ORI"  -> a | Low(i.extra)
    [] i.op = "XOR"  -> a ^^ b
    [] i.op = "XORI" -> a ^^ Low(i.extra)
    [] i.op = "NOR"  -> 2^WordSize - 1 - (a | b)
Compared(i, a, b) ==
  CASE i.op = "SLT"   -> Signed(a) < Signed(b)
    [] i.op = "SLTI"  -> Signed(a) < i.extra
    [] i.op = "SLTU"  -> a < b
    [] i.op = "SLTIU" -> a < W(i.extra)
Shifted(i, a, b) ==
  CASE i.op = "SLL"  -> W(b * 2^i.extra)
    [] i.op = "SLLV" -> W(b * 2^(a % WordSize))
    [] i.op = "SRA"  -> ShiftRight(b, i.extra)
    [] i.op = "SRAV" -> ShiftRight(b, a % WordSize)
Result(i, reg) ==
  LET a == reg[i.rs]  b == reg[i.rt]
  IN CASE i.op = "ADDU"  -> W(a + b)
       [] i.op = "ADDIU" -> W(a + i.extra)
       [] i.op = "SUBU"  -> W(a - b)
       [] i.op = "LUI"   -> W(i.extra * 2^(WordSize \div 2))
       [] i.op \in LogicalOp -> Logical(i, a, b)
       [] i.op \in CompareOp -> Bool(Compared(i, a, b))
       [] i.op \in ShiftOp   -> Shifted(i, a, b)

Set(reg, r, v) == [reg EXCEPT ![r] = IF r = 0 THEN 0 ELSE v]

(* The address of a load or store, and whether it is one. *)
Address(i, reg) == W(reg[i.rs] + i.extra)
Size(i) == CASE i.op \in {"LB", "LBU", "SB"} -> 1
             [] i.op \in {"LH", "LHU", "SH"} -> 2
             [] OTHER -> 4
(* The unaligned instructions access the word around the address. *)
Accessed(i, reg) ==
  LET at == Address(i, reg)
  IN IF i.op \in {"LWL", "LWR", "SWL", "SWR"} THEN at - (at % 4) ELSE at
AddressError(i, reg) ==
  LET at == Accessed(i, reg) IN (at % Size(i)) # 0 \/ at >= MemorySize
=============================================================================

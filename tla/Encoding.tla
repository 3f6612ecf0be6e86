------------------------------ MODULE Encoding ------------------------------
(***************************************************************************)
(* Instruction words as bits, and what an instruction means.  A word is    *)
(* its two halves: lo holds bits 15..0, hi bits 31..16.  A meaning is the  *)
(* action an engine takes with the operands it extracted, independent of   *)
(* the encoding it came from, so that decoders can be compared.            *)
(***************************************************************************)
EXTENDS Integers

Half == 0 .. 65535

\* Bits h down to l of w.
Bits(w, h, l) ==
  IF h < 16 THEN (w.lo \div 2^l) % 2^(h - l + 1)
  ELSE IF l > 15 THEN (w.hi \div 2^(l - 16)) % 2^(h - l + 1)
  ELSE (w.lo \div 2^l) + 2^(16 - l) * (w.hi % 2^(h - 15))

\* sext: the low n bits of v as a two's complement number.
Sext(v, n) == IF v >= 2^(n - 1) THEN v - 2^n ELSE v

Reg32 == 0 .. 31

\* An operation op of width w: destination rd, first operand register a, second
\* operand b (a register, or an immediate when ri is "i"), and imm, the offset
\* of a memory access or a jump.
Meaning(w, op, rd, a, ri, b, imm) ==
  [w |-> w, op |-> op, rd |-> rd, a |-> a, ri |-> ri, b |-> b, imm |-> imm]

RegOp(w, op, rd, a, b)   == Meaning(w, op, rd, a, "r", b, 0)
ImmOp(w, op, rd, a, imm) == Meaning(w, op, rd, a, "i", imm, 0)
LoadOp(w, op, rd, a, imm) == Meaning(w, op, rd, a, "i", 0, imm)
StoreOp(w, op, a, b, imm) == Meaning(w, op, 0, a, "r", b, imm)
BranchOp(w, op, a, b, imm) == Meaning(w, op, 0, a, "r", b, imm)
JalOp(w, rd, imm)     == Meaning(w, "jal", rd, 0, "i", 0, imm)
JalrOp(w, rd, a, imm) == Meaning(w, "jalr", rd, a, "i", 0, imm)
UpperOp(w, op, rd, imm) == Meaning(w, op, rd, 0, "i", 0, imm)
Plain(w, op) == Meaning(w, op, 0, 0, "i", 0, 0)
Nop(w)     == Plain(w, "nop")
Illegal(w) == Plain(w, "illegal")

\* The operations by funct3.
AluName    == [f3 \in 0 .. 7 |-> <<"add", "sll", "slt", "sltu", "xor", "srl", "or", "and">>[f3 + 1]]
MulName    == [f3 \in 0 .. 7 |-> <<"mul", "mulh", "mulhsu", "mulhu", "div", "divu", "rem", "remu">>[f3 + 1]]
LoadName   == [f3 \in {0, 1, 2, 4, 5} |-> <<"lb", "lh", "lw", "", "lbu", "lhu">>[f3 + 1]]
StoreName  == [f3 \in 0 .. 2 |-> <<"sb", "sh", "sw">>[f3 + 1]]
BranchName == [f3 \in {0, 1, 4, 5, 6, 7} |-> <<"beq", "bne", "", "", "blt", "bge", "bltu", "bgeu">>[f3 + 1]]

AluOps    == {AluName[f3] : f3 \in 0 .. 7} \cup {"sub", "sra"}
ShiftOps  == {"sll", "srl", "sra"}
MulOps    == {MulName[f3] : f3 \in 0 .. 7}
LoadOps   == {LoadName[f3] : f3 \in DOMAIN LoadName}
StoreOps  == {StoreName[f3] : f3 \in DOMAIN StoreName}
BranchOps == {BranchName[f3] : f3 \in DOMAIN BranchName}

\* Opcodes of the 32-bit encodings.
LOAD == 3
CUSTOM0 == 11
MISCMEM == 15
OPIMM == 19
AUIPC == 23
STORE == 35
OP == 51
LUI == 55
BRANCH == 99
JALR == 103
JAL == 111
SYSTEM == 115
=============================================================================

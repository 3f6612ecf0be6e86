------------------------------ MODULE Decoders ------------------------------
(***************************************************************************)
(* Four decoders of one instruction set: purg.c as the machine of Purg,    *)
(* purv.c, the record purvs.c lowers the instruction into, and the op word *)
(* transcode.c packs for purva.  Every word purg executes is given to the  *)
(* others as well.                                                         *)
(***************************************************************************)
EXTENDS Purg, TranscodeDecode

VARIABLE rec   \* the slot of purvs's record buffer, reused by every window

allVars == <<vars, rec>>

\* What earlier instructions left in the slot: lw x30, -1(x29), then
\* sub x31, x30, x29.  Every field differs from what a decoder may rely on.
UsedSlot ==
  LET lw  == [lo |-> 3 + 30 * 2^7 + 2 * 2^12 + 2^15, hi |-> 14 + 65520]
      sub == [lo |-> 51 + 31 * 2^7, hi |-> 15 + 29 * 2^4 + 32 * 2^9]
      zero == [op |-> "add", rd |-> 0, rs1 |-> 0, rs2 |-> 0, imm |-> 0]
  IN DecodeOne(DecodeOne(zero, lw, 0), sub, 4)

DInit == Init /\ rec = UsedSlot

\* The word purg has just executed, at address at, is lowered into the slot.
DNext ==
  /\ Next
  /\ rec' = IF loops' = loops + 1 THEN DecodeOne(rec, insn', pcnext)
            ELSE IF loops' = 0 THEN UsedSlot ELSE rec

DSpec == DInit /\ [][DNext]_allVars

\* Reserved encodings, on which the engines may differ: an immediate of 0 in C.LUI
\* and C.ADDI16SP, bit 5 of a compressed shift amount, a funct7 no operation has,
\* and a funct3 in JALR.
Reserved(w) ==
  LET f3 == Bits(w, 14, 12)
      f7 == Bits(w, 31, 25)
  IN \/ Bits(w, 1, 0) # 3 /\ Sel(w) = <<3, 1>> /\ Shamt(w) = 0
     \/ Bits(w, 1, 0) # 3 /\ Shamt(w) > 31
          /\ (Sel(w) = <<0, 2>> \/ (Sel(w) = <<4, 1>> /\ Bits(w, 11, 10) < 2))
     \/ Bits(w, 6, 0) = OP /\ (f7 \notin {0, 1, 32} \/ (f7 = 32 /\ f3 \notin {0, 5}))
     \/ Bits(w, 6, 0) = OPIMM /\ ((f3 = 1 /\ f7 # 0) \/ (f3 = 5 /\ f7 \notin {0, 32}))
     \/ Bits(w, 6, 0) = JALR /\ f3 # 0

Executed == loops > 0

\* Register r before the instruction executed last.
Was(r) == IF r \in DOMAIN was THEN was[r] ELSE 0

\* An instruction with its pc-relative operands made absolute.
Baked(m, at) ==
  CASE m.op = "auipc" -> [m EXCEPT !.op = "lui", !.imm = at + @]
    [] m.op \in BranchOps \cup {"jal"} -> [m EXCEPT !.imm = at + @]
    [] OTHER -> m

\* Every instruction purg.c executes does what purv.c does with the same word: same
\* operation, registers, immediate and width, illegal for the one if for the other.
\* The two decoders share no text: purg reads bit-field structs and unions, purv
\* shifts and masks.
PurgAgrees == Executed /\ ~Reserved(insn) => did = PurvDecode(insn)

\* The illegal-instruction hook of purg.c runs in a Loop exactly when that
\* instruction is illegal or somebody raised for it: a raise before the Loop, in a
\* fetch or in a hook is neither lost nor carried to the next instruction.
IllegalOnce == Executed => illegals = (IF did.op = "illegal" \/ forced THEN 1 ELSE 0)

\* The values and the next pc of purg.c are the ones purv.c's shared actions
\* compute: wrap-around, signed and unsigned comparison, shift amounts, the high
\* halves of products, the quotients by 0 and of the most negative number, and a
\* jump through the register that takes the link.
ValuesAgree ==
  Executed /\ ~moved /\ ~Reserved(insn) =>
     LET a == Was(did.a)
         b == IF did.ri = "r" THEN Was(did.b) ELSE Wrap(did.b)
     IN /\ did.op \in AluOps => out = PurvAlu(did.op, a, b)
        /\ did.op \in MulOps => out = PurvMul(did.op, a, b)
        /\ did.op \in BranchOps => pcnext = pc + (IF PurvTaken(did.op, a, b) THEN did.imm ELSE did.w)
        /\ did.op \in {"jal", "jalr"} => out = Wrap(pc + did.w)
        /\ did.op = "jalr" => pcnext \in {a + did.imm, a + did.imm - 1} /\ pcnext % 2 = 0

\* The record purvs.c lowers an instruction into makes its handler do what purv.c
\* does, whatever an earlier instruction left in the slot; and step_one, the second
\* decoder purvs uses to find instruction boundaries, agrees with the first.
PurvsAgrees ==
  Executed /\ ~moved /\ ~Reserved(insn) =>
     LET m == PurvDecode(insn)
         s == StepOne(insn, pc)
     IN /\ PurvsEffect(rec, m.w) = Baked(m, pc)
        /\ s.w = m.w
        /\ s.jump = (m.op = "jal")
        /\ s.jump => s.target = pc + m.imm /\ s.link = (m.rd # 0)

\* Packing an instruction into an op word and unpacking it in purva's handler loses
\* nothing: registers in their slots, immediates and displacements within their
\* fields, no handler that writes x0.  Where nothing is fused or dropped an op is at
\* a quarter of its address; jumps are to word boundaries, as in RV32IM code.
TranscodeAgrees ==
  LET m == PurvDecode(insn)
      d == TcDecode(insn, pc)
      at == pc \div 4
      packed == Emit(d, at, d.target \div 4)
  IN Executed /\ ~moved /\ ~Reserved(insn) /\ m.w = 4 /\ pc % 4 = 0 /\ d.op # "memop"
       /\ (m.op \in BranchOps \cup {"jal"} => m.imm % 4 = 0)
     => /\ PurvaEffect(d.op, packed, at) = Baked(m, pc)
        /\ packed \in 0 .. 2^26 - 1
=============================================================================

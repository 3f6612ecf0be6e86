----------------------------- MODULE PurvsDecode -----------------------------
(***************************************************************************)
(* The decoder of emu/purvs/purvs.c: decode_one lowers an instruction into *)
(* a record of a buffer that is reused, and writes only the fields the     *)
(* handler of its op reads; step_one is the lean second decoder of the pc  *)
(* fixup.  A record d has the fields of the code; what decode_one does not *)
(* write keeps what an earlier instruction left there.  The operand        *)
(* expressions are the same text as in purv.c and are taken from           *)
(* PurvDecode.  Ops: "addi" for RISCV_OP_ADDI and so on.                   *)
(***************************************************************************)
EXTENDS PurvDecode

\* The leaf op of an immediate form, and the operation it stands for.
ImmName  == [op \in AluOps |-> CASE op = "add" -> "addi" [] op = "sll" -> "slli" [] op = "slt" -> "slti"
               [] op = "sltu" -> "sltiu" [] op = "xor" -> "xori" [] op = "srl" -> "srli" [] op = "or" -> "ori"
               [] op = "and" -> "andi" [] op = "sra" -> "srai" [] op = "sub" -> "none"]
ImmOps == {ImmName[op] : op \in AluOps \ {"sub"}}
BaseName == [i \in ImmOps |-> CHOOSE op \in AluOps : ImmName[op] = i]

\* Writes to the head and to the immediate slot of record d.
SetI(d, op, rd, rs1, imm) == [d EXCEPT !.op = op, !.rd = rd, !.rs1 = rs1, !.imm = imm]
SetR(d, op, rd, rs1, rs2) == [d EXCEPT !.op = op, !.rd = rd, !.rs1 = rs1, !.rs2 = rs2]
SetJ(d, op, rd, imm)      == [d EXCEPT !.op = op, !.rd = rd, !.imm = imm]

\* load_op, store_op, branch_op.
ByF3(names, f3) == IF f3 \in DOMAIN names THEN names[f3] ELSE "illegal"

\* The 32-bit half.  rd and rs1 are written for every opcode.
DecodeOne32(d0, w, off) ==
  LET rd == Bits(w, 11, 7)
      rs1 == Bits(w, 19, 15)
      rs2 == Bits(w, 24, 20)
      f3 == Bits(w, 14, 12)
      f7 == Bits(w, 31, 25)
      opcode == Bits(w, 6, 0)
      d == [d0 EXCEPT !.rd = rd, !.rs1 = rs1]
  IN CASE opcode = OPIMM ->
            IF f3 \in {1, 5}
              THEN [d EXCEPT !.imm = rs2, !.op = IF f3 = 5 /\ f7 = 32 THEN "srai" ELSE ImmName[AluName[f3]]]
              ELSE [d EXCEPT !.imm = IImm(w), !.op = ImmName[AluName[f3]]]
       [] opcode = OP ->
            [d EXCEPT !.rs2 = rs2,
                      !.op = IF f7 = 1 THEN MulName[f3]
                             ELSE IF f7 = 32 THEN (IF f3 = 0 THEN "sub" ELSE "sra")
                             ELSE AluName[f3]]
       [] opcode = LOAD   -> [d EXCEPT !.op = ByF3(LoadName, f3), !.imm = IImm(w)]
       [] opcode = STORE  -> [d EXCEPT !.op = ByF3(StoreName, f3), !.rs2 = rs2, !.imm = SImm(w)]
       [] opcode = BRANCH -> [d EXCEPT !.op = ByF3(BranchName, f3), !.rs2 = rs2, !.imm = off + BImm(w)]
       [] opcode = JAL    -> [d EXCEPT !.op = "jal", !.imm = off + JImm(w)]
       [] opcode = JALR   -> [d EXCEPT !.op = "jalr", !.imm = IImm(w)]
       [] opcode = LUI    -> [d EXCEPT !.op = "lui", !.imm = UImm(w)]
       [] opcode = AUIPC  -> [d EXCEPT !.op = "lui", !.imm = off + UImm(w)]
       [] opcode = MISCMEM ->
            [d EXCEPT !.op = IF rd # 0 \/ rs1 # 0 \/ f3 \notin {0, 1} THEN "illegal" ELSE "nop"]
       [] opcode = SYSTEM ->
            [d EXCEPT !.op = IF f3 # 0 \/ rd # 0 \/ rs1 # 0 \/ Bits(w, 31, 20) > 1 THEN "illegal"
                             ELSE IF Bits(w, 31, 20) = 0 THEN "ecall" ELSE "ebreak"]
       [] OTHER -> [d EXCEPT !.op = "illegal"]

\* C.ADDI4SPN, C.LW, C.SW.
DecodeOneQ0(d, c) ==
  LET m == PurvQ0(c)   \* same offsets; the record's ops and fields
  IN CASE Bits(c, 15, 13) = 0 -> IF m.op = "illegal" THEN SetI(d, "illegal", RdP(c), 2, 0)
                                 ELSE SetI(d, "addi", RdP(c), 2, m.b)
       [] Bits(c, 15, 13) = 2 -> SetI(d, "lw", RdP(c), RsP(c), m.imm)
       [] Bits(c, 15, 13) = 6 -> [d EXCEPT !.op = "sw", !.rs1 = RsP(c), !.rs2 = RdP(c), !.imm = m.imm]
       [] OTHER -> [d EXCEPT !.op = "illegal"]

\* Mutated form: the compressed branches leave rs2 as an earlier record had it.
DecodeOneQ1Stale(d, c, off) ==
  LET f3 == Bits(c, 15, 13)
      rd == Bits(c, 11, 7)
      r == RsP(c)
      k == Bits(c, 11, 10)
  IN CASE f3 = 0 -> SetI(d, "addi", rd, rd, CiImm(c))
       [] f3 \in {1, 5} -> SetJ(d, "jal", IF f3 = 1 THEN 1 ELSE 0, off + CjImm(c))
       [] f3 = 2 -> SetI(d, "addi", rd, 0, CiImm(c))
       [] f3 = 3 -> LET m == PurvLui16(c)
                    IN IF m.op = "add" THEN SetI(d, "addi", 2, 2, m.b) ELSE SetJ(d, m.op, rd, m.imm)
       [] f3 = 4 /\ k < 3 -> SetI(d, <<"srli", "srai", "andi">>[k + 1], r, r,
                                  IF k = 2 THEN CiImm(c) ELSE Shamt(c))
       [] f3 = 4 /\ k = 3 ->
            IF Bits(c, 12, 12) = 1 THEN [d EXCEPT !.op = "illegal", !.rd = r, !.rs1 = r]
            ELSE SetR(d, <<"sub", "xor", "or", "and">>[Bits(c, 6, 5) + 1], r, r, RdP(c))
       [] f3 \in {6, 7} ->
            [d EXCEPT !.op = IF f3 = 6 THEN "beq" ELSE "bne", !.rs1 = r, !.imm = off + CbImm(c)]

\* Quadrant 1.
DecodeOneQ1(d, c, off) ==
  LET f3 == Bits(c, 15, 13)
      rd == Bits(c, 11, 7)
      r == RsP(c)
      k == Bits(c, 11, 10)
  IN CASE f3 = 0 -> SetI(d, "addi", rd, rd, CiImm(c))
       [] f3 \in {1, 5} -> SetJ(d, "jal", IF f3 = 1 THEN 1 ELSE 0, off + CjImm(c))
       [] f3 = 2 -> SetI(d, "addi", rd, 0, CiImm(c))
       [] f3 = 3 -> LET m == PurvLui16(c)   \* same immediates, 0 is illegal here too
                    IN IF m.op = "add" THEN SetI(d, "addi", 2, 2, m.b) ELSE SetJ(d, m.op, rd, m.imm)
       [] f3 = 4 /\ k < 3 -> SetI(d, <<"srli", "srai", "andi">>[k + 1], r, r,
                                  IF k = 2 THEN CiImm(c) ELSE Shamt(c))
       [] f3 = 4 /\ k = 3 ->
            IF Bits(c, 12, 12) = 1 THEN [d EXCEPT !.op = "illegal", !.rd = r, !.rs1 = r]
            ELSE SetR(d, <<"sub", "xor", "or", "and">>[Bits(c, 6, 5) + 1], r, r, RdP(c))
       [] f3 \in {6, 7} ->
            [d EXCEPT !.op = IF f3 = 6 THEN "beq" ELSE "bne", !.rs1 = r, !.rs2 = 0,
                      !.imm = off + CbImm(c)]

\* Quadrant 2.
DecodeOneQ2(d, c) ==
  LET f3 == Bits(c, 15, 13)
      rd == Bits(c, 11, 7)
      rs2 == Bits(c, 6, 2)
      link == Bits(c, 12, 12) = 1
  IN CASE f3 = 0 -> SetI(d, "slli", rd, rd, Shamt(c))
       [] f3 = 2 -> SetI(d, "lw", rd, 2, PurvQ2(c).imm)
       [] f3 = 4 /\ ~link /\ rs2 = 0 -> SetI(d, "jalr", 0, rd, 0)
       [] f3 = 4 /\ ~link /\ rs2 # 0 -> SetR(d, "add", rd, 0, rs2)
       [] f3 = 4 /\ link /\ rs2 = 0 /\ rd = 0 -> [d EXCEPT !.op = "ebreak"]
       [] f3 = 4 /\ link /\ rs2 = 0 /\ rd # 0 -> SetI(d, "jalr", 1, rd, 0)
       [] f3 = 4 /\ link /\ rs2 # 0 -> SetR(d, "add", rd, rd, rs2)
       [] f3 = 6 -> [d EXCEPT !.op = "sw", !.rs1 = 2, !.rs2 = rs2, !.imm = PurvQ2(c).imm]
       [] OTHER -> [d EXCEPT !.op = "illegal"]

\* decode_one: the record after lowering the instruction w at off into d.  rd is
\* written first for every encoding.
DecodeOne(d, w, off) ==
  LET e == [d EXCEPT !.rd = Bits(w, 11, 7)]
  IN CASE Bits(w, 1, 0) = 3 -> DecodeOne32(d, w, off)
       [] Bits(w, 1, 0) = 0 -> DecodeOneQ0(e, w)
       [] Bits(w, 1, 0) = 1 -> DecodeOneQ1(e, w, off)
       [] Bits(w, 1, 0) = 2 -> DecodeOneQ2(e, w)

\* What the handler of the record's op does: the fields it reads, wr(), the
\* test of rd before a load.  width is what decode_one returned.
PurvsEffect(d, width) ==
  PurvEffect(
    CASE d.op \in ImmOps -> ImmOp(width, BaseName[d.op], d.rd, d.rs1, d.imm)
      [] d.op \in AluOps \cup MulOps -> RegOp(width, d.op, d.rd, d.rs1, d.rs2)
      [] d.op \in LoadOps   -> LoadOp(width, d.op, d.rd, d.rs1, d.imm)
      [] d.op \in StoreOps  -> StoreOp(width, d.op, d.rs1, d.rs2, d.imm)
      [] d.op \in BranchOps -> BranchOp(width, d.op, d.rs1, d.rs2, d.imm)
      [] d.op = "jal"  -> JalOp(width, d.rd, d.imm)
      [] d.op = "jalr" -> JalrOp(width, d.rd, d.rs1, d.imm)
      [] d.op = "lui"  -> UpperOp(width, "lui", d.rd, d.imm)
      [] OTHER -> Plain(width, d.op))

\* step_one: the width, and for an unconditional jump its target and whether it
\* links.
StepOne(w, pc) ==
  CASE Bits(w, 6, 0) = JAL -> [w |-> 4, jump |-> TRUE, link |-> Bits(w, 11, 7) # 0, target |-> pc + JImm(w)]
    [] Bits(w, 1, 0) = 1 /\ Bits(w, 15, 13) \in {1, 5} ->
         [w |-> 2, jump |-> TRUE, link |-> Bits(w, 15, 13) = 1, target |-> pc + CjImm(w)]
    [] OTHER -> [w |-> IF Bits(w, 1, 0) = 3 THEN 4 ELSE 2, jump |-> FALSE, link |-> FALSE, target |-> 0]
=============================================================================

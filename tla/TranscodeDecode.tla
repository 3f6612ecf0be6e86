--------------------------- MODULE TranscodeDecode ---------------------------
(***************************************************************************)
(* The decoder of emu/purva/transcode.c (decode): RV32IM only, targets as  *)
(* absolute addresses, upper immediates as their 20 bits, and a pure write *)
(* to x0 folded into a nop, because the op handlers of purva write their   *)
(* destination without a test.                                             *)
(***************************************************************************)
EXTENDS PurvsDecode

\* Mutated form: a write to x0 is left to a handler that has no guard.
TcFoldNone(d) == d

\* The last statement of decode.
TcFold(d) ==
  IF d.rd = 0 /\ d.op \in AluOps \cup ImmOps \cup MulOps \cup {"lui", "auipc"}
    THEN [d EXCEPT !.op = "nop"] ELSE d

\* decode, for the instruction word w at off.
TcDecode(w, off) ==
  LET rd == Bits(w, 11, 7)
      rs1 == Bits(w, 19, 15)
      f3 == Bits(w, 14, 12)
      f7 == Bits(w, 31, 25)
      opcode == Bits(w, 6, 0)
      d == [op |-> "illegal", rd |-> rd, rs1 |-> rs1, rs2 |-> Bits(w, 24, 20), imm |-> 0, target |-> 0]
  IN TcFold(
     CASE opcode = OPIMM /\ f3 = 1 -> [d EXCEPT !.op = "slli", !.imm = Bits(w, 24, 20)]
       [] opcode = OPIMM /\ f3 = 5 ->
            [d EXCEPT !.op = IF f7 = 32 THEN "srai" ELSE "srli", !.imm = Bits(w, 24, 20)]
       [] opcode = OPIMM /\ f3 \notin {1, 5} -> [d EXCEPT !.op = ImmName[AluName[f3]], !.imm = IImm(w)]
       [] opcode = OP ->
            [d EXCEPT !.op = IF f7 = 1 THEN MulName[f3]
                             ELSE IF f7 = 32 THEN (IF f3 = 0 THEN "sub" ELSE "sra")
                             ELSE AluName[f3]]
       [] opcode = LOAD   -> [d EXCEPT !.op = ByF3(LoadName, f3), !.imm = IImm(w)]
       [] opcode = STORE  -> [d EXCEPT !.op = ByF3(StoreName, f3), !.imm = SImm(w)]
       [] opcode = BRANCH -> [d EXCEPT !.op = ByF3(BranchName, f3), !.target = off + BImm(w)]
       [] opcode = JAL    -> [d EXCEPT !.op = "jal", !.target = off + JImm(w)]
       [] opcode = JALR   -> [d EXCEPT !.op = "jalr", !.imm = IImm(w)]
       [] opcode \in {LUI, AUIPC} ->
            [d EXCEPT !.op = IF opcode = LUI THEN "lui" ELSE "auipc", !.imm = Bits(w, 31, 12)]
       [] opcode = CUSTOM0 -> [d EXCEPT !.op = IF f7 = 0 THEN "memop" ELSE "illegal", !.imm = f3]
       [] opcode = MISCMEM ->
            [d EXCEPT !.op = IF rd # 0 \/ rs1 # 0 \/ f3 \notin {0, 1} THEN "illegal" ELSE "nop"]
       [] opcode = SYSTEM ->
            [d EXCEPT !.op = IF f3 # 0 \/ rd # 0 \/ rs1 # 0 \/ Bits(w, 31, 20) > 1 THEN "illegal"
                             ELSE IF Bits(w, 31, 20) = 0 THEN "ecall" ELSE "ebreak"]
       [] OTHER -> d)

\* emit, when the op lands at op-word offset at and its target at op-word offset
\* tw: the low 26 bits of the word.  A nop has none, a trap has zeros.
Emit(d, at, tw) ==
  LET delta4 == (tw - at) * 4
      A(r) == r * 2^21
      B(r) == r * 2^16
  IN CASE d.op \in AluOps \cup MulOps -> A(d.rd) + B(d.rs1) + d.rs2 * 2^11
       [] d.op \in ImmOps \cup LoadOps \cup {"jalr"} -> A(d.rd) + B(d.rs1) + (d.imm % 2^16)
       [] d.op \in StoreOps  -> A(d.rs2) + B(d.rs1) + (d.imm % 2^16)
       [] d.op \in BranchOps -> A(d.rs1) + B(d.rs2) + (delta4 % 2^16)
       [] d.op = "jal"       -> A(d.rd) + (delta4 % 2^21)
       [] d.op \in {"lui", "auipc"} -> A(d.rd) + (d.imm % 2^20)
       [] d.op = "memop"     -> A(d.rd) + B(d.rs1) + d.rs2 * 2^11 + (d.imm % 8)
       [] OTHER -> 0

\* The packed-op field accessors of transcode.h.
TC_A(w) == (w \div 2^21) % 32
TC_B(w) == (w \div 2^16) % 32
TC_C(w) == (w \div 2^11) % 32
TC_IMM(w)  == Sext(w % 2^16, 16)
TC_JOFF(w) == Sext(w % 2^21, 21)
TC_UIMM(w) == w % 2^20

\* The handler of purva.c for op, on the packed word w at op-word offset at.  The
\* arithmetic handlers write their destination without a test, a load tests it.
PurvaEffect(op, w, at) ==
  CASE op \in {"slli", "srli", "srai"} -> ImmOp(4, BaseName[op], TC_A(w), TC_B(w), TC_IMM(w) % 32)
    [] op \in ImmOps \ {"slli", "srli", "srai"} -> ImmOp(4, BaseName[op], TC_A(w), TC_B(w), TC_IMM(w))
    [] op \in AluOps \cup MulOps -> RegOp(4, op, TC_A(w), TC_B(w), TC_C(w))
    [] op \in LoadOps   -> IF TC_A(w) = 0 THEN Nop(4) ELSE LoadOp(4, op, TC_A(w), TC_B(w), TC_IMM(w))
    [] op \in StoreOps  -> StoreOp(4, op, TC_B(w), TC_A(w), TC_IMM(w))
    [] op \in BranchOps -> BranchOp(4, op, TC_A(w), TC_B(w), (at + TC_IMM(w) \div 4) * 4)
    [] op = "jal"   -> JalOp(4, TC_A(w), (at + TC_JOFF(w) \div 4) * 4)
    [] op = "jalr"  -> JalrOp(4, TC_A(w), TC_B(w), TC_IMM(w))
    [] op = "lui"   -> UpperOp(4, "lui", TC_A(w), Sext(TC_UIMM(w), 20) * 2^12)
    [] op = "auipc" -> UpperOp(4, "lui", TC_A(w), at * 4 + Sext(TC_UIMM(w), 20) * 2^12)
    [] OTHER -> Plain(4, op)
=============================================================================

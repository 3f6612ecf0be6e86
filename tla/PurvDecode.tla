----------------------------- MODULE PurvDecode -----------------------------
(***************************************************************************)
(* The decoder of emu/purv.c: the first half of the body of                *)
(* RiscvEmulatorLoop, up to the goto into the shared actions.  An action   *)
(* that only writes x0 does nothing (wr, and the test before a load).      *)
(***************************************************************************)
EXTENDS Encoding

\* wr() drops a write to x0, "a load into x0 has no effect", a shift looks at
\* five bits.
PurvEffect(m) ==
  IF m.rd = 0 /\ m.op \in AluOps \cup MulOps \cup LoadOps \cup {"lui", "auipc"} THEN Nop(m.w)
  ELSE IF m.op \in ShiftOps /\ m.ri = "i" THEN [m EXCEPT !.b = @ % 32]
  ELSE m

\* Mutated form: the last bit of a branch's offset is taken for its sign.
BImmSwapped(w) ==
  Sext(Bits(w, 7, 7) * 2^12 + Bits(w, 31, 31) * 2^11
       + Bits(w, 30, 25) * 2^5 + Bits(w, 11, 8) * 2, 13)

\* The immediates of the 32-bit formats.
IImm(w) == Sext(Bits(w, 31, 20), 12)
SImm(w) == Sext(Bits(w, 31, 25) * 2^5 + Bits(w, 11, 7), 12)
BImm(w) ==
  Sext(Bits(w, 31, 31) * 2^12 + Bits(w, 7, 7) * 2^11
       + Bits(w, 30, 25) * 2^5 + Bits(w, 11, 8) * 2, 13)
UImm(w) == Sext(Bits(w, 31, 12), 20) * 2^12
JImm(w) ==
  Sext(Bits(w, 31, 31) * 2^20 + Bits(w, 19, 12) * 2^12
       + Bits(w, 20, 20) * 2^11 + Bits(w, 30, 21) * 2, 21)

\* alu: the operation by funct3, with funct7 0x20 choosing sub and sra.
PurvAluOp(f3, f7) ==
  IF f7 = 32 /\ f3 = 0 THEN "sub" ELSE IF f7 = 32 /\ f3 = 5 THEN "sra" ELSE AluName[f3]

\* OPIMM: for the shifts the immediate is a shift amount and a funct7.
PurvOpImm(w, rd, rs1, f3) ==
  IF f3 \in {1, 5}
    THEN ImmOp(4, PurvAluOp(f3, Bits(w, 31, 25)), rd, rs1, Bits(w, 24, 20))
    ELSE ImmOp(4, PurvAluOp(f3, 0), rd, rs1, IImm(w))

\* OP: funct7 1 is RV32M.
PurvOp(w, rd, rs1, f3) ==
  LET f7 == Bits(w, 31, 25)
      op == IF f7 = 1 THEN MulName[f3] ELSE PurvAluOp(f3, f7)
  IN RegOp(4, op, rd, rs1, Bits(w, 24, 20))

\* SYSTEM: ecall and ebreak; every other one is illegal here.
PurvSystem(w, rd, rs1, f3) ==
  IF f3 = 0 /\ rd = 0 /\ rs1 = 0 /\ Bits(w, 31, 20) = 0 THEN Plain(4, "ecall")
  ELSE IF f3 = 0 /\ rd = 0 /\ rs1 = 0 /\ Bits(w, 31, 20) = 1 THEN Plain(4, "ebreak")
  ELSE Illegal(4)

\* The 32-bit encodings.
PurvDecode32(w) ==
  LET rd == Bits(w, 11, 7)
      rs1 == Bits(w, 19, 15)
      rs2 == Bits(w, 24, 20)
      f3 == Bits(w, 14, 12)
      opcode == Bits(w, 6, 0)
  IN CASE opcode = OPIMM -> PurvOpImm(w, rd, rs1, f3)
       [] opcode = OP    -> PurvOp(w, rd, rs1, f3)
       [] opcode = LOAD /\ f3 \in DOMAIN LoadName -> LoadOp(4, LoadName[f3], rd, rs1, IImm(w))
       [] opcode = STORE /\ f3 \in DOMAIN StoreName -> StoreOp(4, StoreName[f3], rs1, rs2, SImm(w))
       [] opcode = BRANCH /\ f3 \in DOMAIN BranchName -> BranchOp(4, BranchName[f3], rs1, rs2, BImm(w))
       [] opcode = JAL   -> JalOp(4, rd, JImm(w))
       [] opcode = JALR  -> JalrOp(4, rd, rs1, IImm(w))
       [] opcode = LUI   -> UpperOp(4, "lui", rd, UImm(w))
       [] opcode = AUIPC -> UpperOp(4, "auipc", rd, UImm(w))
       [] opcode = MISCMEM /\ rd = 0 /\ rs1 = 0 /\ f3 \in {0, 1} -> Nop(4)
       [] opcode = SYSTEM -> PurvSystem(w, rd, rs1, f3)
       [] OTHER -> Illegal(4)

\* The compressed fields: x8..x15, the 6-bit immediate, as shift amount and
\* as signed number.
RdP(c)   == Bits(c, 4, 2) + 8
RsP(c)   == Bits(c, 9, 7) + 8
Shamt(c) == Bits(c, 6, 2) + Bits(c, 12, 12) * 2^5
CiImm(c) == Sext(Shamt(c), 6)

\* The case label: funct3 and quadrant.
Sel(c) == <<Bits(c, 15, 13), Bits(c, 1, 0)>>

\* Quadrant 0: stack addresses, word loads and stores.
PurvQ0(c) ==
  LET sp == Bits(c, 12, 11) * 2^4 + Bits(c, 10, 7) * 2^6 + Bits(c, 6, 6) * 2^2 + Bits(c, 5, 5) * 2^3
      off == Bits(c, 12, 10) * 2^3 + Bits(c, 6, 6) * 2^2 + Bits(c, 5, 5) * 2^6
  IN CASE Sel(c) = <<0, 0>> /\ sp # 0 -> ImmOp(2, "add", RdP(c), 2, sp)
       [] Sel(c) = <<2, 0>> -> LoadOp(2, "lw", RdP(c), RsP(c), off)
       [] Sel(c) = <<6, 0>> -> StoreOp(2, "sw", RsP(c), RdP(c), off)
       [] OTHER -> Illegal(2)

\* C.J and C.JAL.
CjImm(c) ==
  Sext(Bits(c, 12, 12) * 2^11 + Bits(c, 11, 11) * 2^4 + Bits(c, 10, 9) * 2^8
       + Bits(c, 8, 8) * 2^10 + Bits(c, 7, 7) * 2^6 + Bits(c, 6, 6) * 2^7
       + Bits(c, 5, 3) * 2 + Bits(c, 2, 2) * 2^5, 12)

\* C.LUI, and C.ADDI16SP when rd is sp; an immediate of 0 is reserved.
PurvLui16(c) ==
  LET rd == Bits(c, 11, 7)
      sp16 == Sext(Bits(c, 6, 6) * 2^4 + Bits(c, 2, 2) * 2^5 + Bits(c, 5, 5) * 2^6
                   + Bits(c, 4, 3) * 2^7 + Bits(c, 12, 12) * 2^9, 10)
      up == Sext(Bits(c, 6, 2) * 2^12 + Bits(c, 12, 12) * 2^17, 18)
  IN CASE rd = 2 /\ sp16 # 0 -> ImmOp(2, "add", 2, 2, sp16)
       [] rd # 2 /\ up # 0 -> UpperOp(2, "lui", rd, up)
       [] OTHER -> Illegal(2)

\* C.MISC-ALU: shifts, andi, and the register operations; bit 12 is RV64 only.
PurvMiscAlu(c) ==
  LET r == RsP(c)
      k == Bits(c, 11, 10)
  IN CASE k = 0 -> ImmOp(2, "srl", r, r, Shamt(c))
       [] k = 1 -> ImmOp(2, "sra", r, r, Shamt(c))
       [] k = 2 -> ImmOp(2, "and", r, r, CiImm(c))
       [] k = 3 /\ Bits(c, 12, 12) = 0 ->
            RegOp(2, <<"sub", "xor", "or", "and">>[Bits(c, 6, 5) + 1], r, r, RdP(c))
       [] OTHER -> Illegal(2)

\* C.BEQZ and C.BNEZ.
CbImm(c) ==
  Sext(Bits(c, 12, 12) * 2^8 + Bits(c, 11, 10) * 2^3 + Bits(c, 6, 5) * 2^6
       + Bits(c, 4, 3) * 2 + Bits(c, 2, 2) * 2^5, 9)

\* Quadrant 1.
PurvQ1(c) ==
  LET f3 == Bits(c, 15, 13)
      rd == Bits(c, 11, 7)
  IN CASE f3 = 0 -> ImmOp(2, "add", rd, rd, CiImm(c))
       [] f3 = 1 -> JalOp(2, 1, CjImm(c))
       [] f3 = 5 -> JalOp(2, 0, CjImm(c))
       [] f3 = 2 -> ImmOp(2, "add", rd, 0, CiImm(c))
       [] f3 = 3 -> PurvLui16(c)
       [] f3 = 4 -> PurvMiscAlu(c)
       [] f3 = 6 -> BranchOp(2, "beq", RsP(c), 0, CbImm(c))
       [] f3 = 7 -> BranchOp(2, "bne", RsP(c), 0, CbImm(c))

\* C.JR, C.MV, C.EBREAK, C.JALR, C.ADD.
PurvJumpMove(c) ==
  LET rd == Bits(c, 11, 7)
      rs2 == Bits(c, 6, 2)
      link == Bits(c, 12, 12) = 1
  IN CASE ~link /\ rs2 = 0 -> JalrOp(2, 0, rd, 0)
       [] ~link /\ rs2 # 0 -> RegOp(2, "add", rd, 0, rs2)
       [] link /\ rs2 = 0 /\ rd = 0 -> Plain(2, "ebreak")
       [] link /\ rs2 = 0 /\ rd # 0 -> JalrOp(2, 1, rd, 0)
       [] OTHER -> RegOp(2, "add", rd, rd, rs2)

\* Quadrant 2.
PurvQ2(c) ==
  LET rd == Bits(c, 11, 7)
  IN CASE Sel(c) = <<0, 2>> -> ImmOp(2, "sll", rd, rd, Shamt(c))
       [] Sel(c) = <<2, 2>> ->
            LoadOp(2, "lw", rd, 2, Bits(c, 6, 4) * 2^2 + Bits(c, 3, 2) * 2^6 + Bits(c, 12, 12) * 2^5)
       [] Sel(c) = <<4, 2>> -> PurvJumpMove(c)
       [] Sel(c) = <<6, 2>> ->
            StoreOp(2, "sw", 2, Bits(c, 6, 2), Bits(c, 12, 9) * 2^2 + Bits(c, 8, 7) * 2^6)
       [] OTHER -> Illegal(2)

\* What purv does with the instruction word w.
PurvDecode(w) ==
  PurvEffect(CASE Bits(w, 1, 0) = 3 -> PurvDecode32(w)
               [] Bits(w, 1, 0) = 0 -> PurvQ0(w)
               [] Bits(w, 1, 0) = 1 -> PurvQ1(w)
               [] Bits(w, 1, 0) = 2 -> PurvQ2(w))
=============================================================================

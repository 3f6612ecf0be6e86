----------------------------- MODULE PurgDecode -----------------------------
(***************************************************************************)
(* What emu/purg.c does with an instruction word: the decode and execute   *)
(* switches of RiscvEmulatorLoop, as a meaning.  Every register write is   *)
(* under rdnum != 0 in the code, case by case; WritesRd stands for it.     *)
(***************************************************************************)
EXTENDS PurgFields

\* The case labels of the compressed switches: funct3 above the quadrant.
OPCODE16 == [ADDI4SPN |-> 0, LW |-> 8, SW |-> 24, ADDI |-> 1, JAL |-> 5, LI |-> 9, LUI_ADDI16SP |-> 13,
             MISCALU |-> 17, J |-> 21, BEQZ |-> 25, BNEZ |-> 29, SLLI |-> 2, LWSP |-> 10,
             JALR_MV_ADD |-> 18, SWSP |-> 26]

\* The labels inside MISCALU and JALR_MV_ADD.
FUNCT3_FUNCT2 == [SRLI |-> 16, SRAI |-> 17, ANDI |-> 18]
FUNCT6_FUNCT2 == [SUB |-> 140, XOR |-> 141, OR |-> 142, AND |-> 143]
FUNCT4_MV == 8

\* The labels of the 32-bit arithmetic cases: funct7 above funct3.
FUNCT7_FUNCT3 ==
  [k \in {0, 1, 2, 3, 4, 5, 6, 7} \cup 8 .. 15 \cup {256, 261} |->
     CASE k < 8 -> AluName[k] [] k \in 8 .. 15 -> MulName[k - 8] [] k = 256 -> "sub" [] k = 261 -> "sra"]
IMM11_5_FUNCT3 == [k \in {1, 5, 261} |-> CASE k = 1 -> "sll" [] k = 5 -> "srl" [] k = 261 -> "sra"]

\* if (rdnum != 0) { ... }
WritesRd(m) == IF m.rd = 0 THEN Nop(m.w) ELSE m

\* The decode switch: the register numbers and the immediate of each encoding.
PurgMiscAluFields(w) ==
  IF Untangle(w, TypeCBImm, CBFunct) \in {16, 17, 18}
    THEN [rd |-> Get(w, TypeCBImm, "rdp") + 8, rs2 |-> -1, imm |-> Sext(Untangle(w, TypeCBImm, CBImmPlace), 6)]
    ELSE [rd |-> Get(w, TypeCA, "rdp") + 8, rs2 |-> Get(w, TypeCA, "rs2p") + 8, imm |-> 0]

\* C.SRLI, C.SRAI, C.ANDI, C.SUB, C.XOR, C.OR, C.AND.  A shift takes its amount
\* as (uint8_t)imm: with bit 5 set it is 224 or more, and the shift undefined.
PurgMiscAlu(w) ==
  LET f == PurgMiscAluFields(w)
      f32 == Untangle(w, TypeCBImm, CBFunct)
      f62 == Untangle(w, TypeCA, CAFunct)
  IN CASE f32 = FUNCT3_FUNCT2.SRLI -> ImmOp(2, "srl", f.rd, f.rd, f.imm % 256)
       [] f32 = FUNCT3_FUNCT2.SRAI -> ImmOp(2, "sra", f.rd, f.rd, f.imm % 256)
       [] f32 = FUNCT3_FUNCT2.ANDI -> ImmOp(2, "and", f.rd, f.rd, f.imm)
       [] f62 = FUNCT6_FUNCT2.SUB -> RegOp(2, "sub", f.rd, f.rd, f.rs2)
       [] f62 = FUNCT6_FUNCT2.XOR -> RegOp(2, "xor", f.rd, f.rd, f.rs2)
       [] f62 = FUNCT6_FUNCT2.OR  -> RegOp(2, "or", f.rd, f.rd, f.rs2)
       [] f62 = FUNCT6_FUNCT2.AND -> RegOp(2, "and", f.rd, f.rd, f.rs2)
       [] OTHER -> Illegal(2)

\* C.ADDI16SP and C.LUI: neither rejects an immediate of 0.
PurgLuiAddi16sp(w) ==
  LET rd == Get(w, TypeCILui, "rd")
      nz == Sext(Untangle(w, TypeCIAddi16sp, CIAddi16spImm), 10)
  IN CASE rd = 2 /\ nz = 0 -> Nop(2)
       [] rd = 2 /\ nz # 0 -> ImmOp(2, "add", 2, 2, nz)
       [] rd # 2 -> WritesRd(UpperOp(2, "lui", rd, Sext(Untangle(w, TypeCILui, CILuiImm), 18)))

\* C.JR, C.MV, C.EBREAK, C.JALR, C.ADD.
PurgJalrMvAdd(w) ==
  LET rd == Get(w, TypeCR, "rd")
      rs2 == Get(w, TypeCR, "rs2")
      mv == Get(w, TypeCR, "funct4") = FUNCT4_MV
  IN CASE mv /\ rs2 = 0  -> JalrOp(2, 0, rd, 0)
       [] mv /\ rs2 # 0  -> WritesRd(RegOp(2, "add", rd, 0, rs2))
       [] ~mv /\ rd = 0 /\ rs2 = 0 -> Plain(2, "ebreak")
       [] ~mv /\ rd # 0 /\ rs2 = 0 -> JalrOp(2, 1, rd, 0)
       [] ~mv /\ rs2 # 0 -> WritesRd(RegOp(2, "add", rd, rd, rs2))

\* ADDI, LI, SLLI share the decoding of TypeCI.
PurgCI(w, op, from0) ==
  LET rd == Get(w, TypeCI, "rd")
      imm == Sext(Untangle(w, TypeCI, CIImm), 6)
  IN WritesRd(ImmOp(2, op, rd, IF from0 THEN 0 ELSE rd, IF op = "sll" THEN imm % 256 ELSE imm))

\* JAL, J and BEQZ, BNEZ.
PurgCJ(w, rd) == JalOp(2, rd, Sext(Untangle(w, TypeCJ, CJPlace), 12))
PurgCB(w, op) == BranchOp(2, op, Get(w, TypeCB, "rs1p") + 8, 0, Sext(Untangle(w, TypeCB, CBPlace), 9))

\* ADDI4SPN, LW, SW, LWSP, SWSP.
PurgAddi4spn(w) ==
  LET imm == Untangle(w, TypeCIW, CIWImm)
  IN IF imm # 0 THEN ImmOp(2, "add", Get(w, TypeCIW, "rdp") + 8, 2, imm) ELSE Illegal(2)
PurgLw(w) ==
  LoadOp(2, "lw", Get(w, TypeCL, "rdp") + 8, Get(w, TypeCL, "rs1p") + 8, Untangle(w, TypeCL, CLImm))
PurgSw(w) ==
  StoreOp(2, "sw", Get(w, TypeCS, "rs1p") + 8, Get(w, TypeCS, "rs2p") + 8, Untangle(w, TypeCS, CSImm))
PurgLwsp(w) ==
  WritesRd(LoadOp(2, "lw", Get(w, TypeCILwsp, "rd"), 2, Untangle(w, TypeCILwsp, CILwspImm)))
PurgSwsp(w) == StoreOp(2, "sw", 2, Get(w, TypeCSS, "rs2"), Untangle(w, TypeCSS, CSSImm))

\* The switch over the compressed encodings.
PurgDecode16(w) ==
  LET opfunct3 == Untangle(w, OpcodeC, OpcodeCPlace)
  IN CASE opfunct3 = OPCODE16.ADDI4SPN -> PurgAddi4spn(w)
       [] opfunct3 = OPCODE16.LW   -> PurgLw(w)
       [] opfunct3 = OPCODE16.SW   -> PurgSw(w)
       [] opfunct3 = OPCODE16.ADDI -> PurgCI(w, "add", FALSE)
       [] opfunct3 = OPCODE16.JAL  -> PurgCJ(w, 1)
       [] opfunct3 = OPCODE16.LI   -> PurgCI(w, "add", TRUE)
       [] opfunct3 = OPCODE16.LUI_ADDI16SP -> PurgLuiAddi16sp(w)
       [] opfunct3 = OPCODE16.MISCALU -> PurgMiscAlu(w)
       [] opfunct3 = OPCODE16.J    -> PurgCJ(w, 0)
       [] opfunct3 = OPCODE16.BEQZ -> PurgCB(w, "beq")
       [] opfunct3 = OPCODE16.BNEZ -> PurgCB(w, "bne")
       [] opfunct3 = OPCODE16.SLLI -> PurgCI(w, "sll", FALSE)
       [] opfunct3 = OPCODE16.LWSP -> PurgLwsp(w)
       [] opfunct3 = OPCODE16.JALR_MV_ADD -> PurgJalrMvAdd(w)
       [] opfunct3 = OPCODE16.SWSP -> PurgSwsp(w)
       [] OTHER -> Illegal(2)

\* JUMPANDLINKREGISTER, LOAD and IMMEDIATE, of TypeI.
PurgJalr(w) ==
  IF Get(w, TypeI, "funct3") = 0
    THEN JalrOp(4, Get(w, TypeI, "rd"), Get(w, TypeI, "rs1"), Sext(Get(w, TypeI, "imm"), 12))
    ELSE Illegal(4)
PurgLoad(w) ==
  LET f3 == Get(w, TypeI, "funct3")
  IN IF f3 \in DOMAIN LoadName
       THEN WritesRd(LoadOp(4, LoadName[f3], Get(w, TypeI, "rd"), Get(w, TypeS, "rs1"),
                            Sext(Get(w, TypeI, "imm"), 12)))
       ELSE Illegal(4)
PurgImmediate(w) ==
  LET f3 == Get(w, TypeI, "funct3")
      shift == Untangle(w, TypeIShift, TypeIFunct)
      rd == Get(w, TypeI, "rd")
      rs1 == Get(w, TypeI, "rs1")
  IN CASE f3 \in {1, 5} /\ shift \in DOMAIN IMM11_5_FUNCT3 ->
            WritesRd(ImmOp(4, IMM11_5_FUNCT3[shift], rd, rs1, Get(w, TypeIShift, "shamt")))
       [] f3 \notin {1, 5} -> WritesRd(ImmOp(4, AluName[f3], rd, rs1, Sext(Get(w, TypeI, "imm"), 12)))
       [] OTHER -> Illegal(4)

\* OPERATION.
PurgOperationWord(w) ==
  LET k == Untangle(w, TypeR, TypeRFunct)
  IN IF k \in DOMAIN FUNCT7_FUNCT3
       THEN WritesRd(RegOp(4, FUNCT7_FUNCT3[k], Get(w, TypeR, "rd"), Get(w, TypeR, "rs1"), Get(w, TypeR, "rs2")))
       ELSE Illegal(4)

\* STORE and BRANCH.
PurgStore(w) ==
  LET f3 == Get(w, TypeS, "funct3")
  IN IF f3 \in DOMAIN StoreName
       THEN StoreOp(4, StoreName[f3], Get(w, TypeS, "rs1"), Get(w, TypeS, "rs2"),
                    Sext(Untangle(w, TypeS, TypeSImm), 12))
       ELSE Illegal(4)
PurgBranch(w) ==
  LET f3 == Get(w, TypeB, "funct3")
  IN IF f3 \in DOMAIN BranchName
       THEN BranchOp(4, BranchName[f3], Get(w, TypeB, "rs1"), Get(w, TypeB, "rs2"),
                     Sext(Untangle(w, TypeB, TypeBImm), 13))
       ELSE Illegal(4)

\* ADDUPPERIMMEDIATE2PC and LOADUPPERIMMEDIATE; JUMPANDLINK.
PurgUpper(w, op) == WritesRd(UpperOp(4, op, Get(w, TypeU, "rd"), Sext(Get(w, TypeU, "imm31_12"), 20) * 2^12))
PurgJal(w) == JalOp(4, Get(w, TypeJ, "rd"), Sext(Untangle(w, TypeJ, TypeJImm), 21))

\* SYSTEM and MISCMEM.
PurgSystem(w) ==
  LET bare == Get(w, TypeI, "rd") = 0 /\ Get(w, TypeI, "funct3") = 0 /\ Get(w, TypeI, "rs1") = 0
  IN CASE bare /\ Get(w, TypeI, "imm") = 0 -> Plain(4, "ecall")
       [] bare /\ Get(w, TypeI, "imm") = 1 -> Plain(4, "ebreak")
       [] OTHER -> Illegal(4)
PurgMiscmem(w) ==
  IF Get(w, TypeI, "rd") = 0 /\ Get(w, TypeI, "rs1") = 0 /\ Get(w, TypeI, "funct3") \in {0, 1}
    THEN Nop(4) ELSE Illegal(4)

\* The switch over the 32-bit encodings.
PurgDecode32(w) ==
  LET opcode == Get(w, TypeI, "opcode")
  IN CASE opcode = JALR   -> PurgJalr(w)
       [] opcode = OP     -> PurgOperationWord(w)
       [] opcode = OPIMM  -> PurgImmediate(w)
       [] opcode = LOAD   -> PurgLoad(w)
       [] opcode = STORE  -> PurgStore(w)
       [] opcode = BRANCH -> PurgBranch(w)
       [] opcode = AUIPC  -> PurgUpper(w, "auipc")
       [] opcode = LUI    -> PurgUpper(w, "lui")
       [] opcode = JAL    -> PurgJal(w)
       [] opcode = SYSTEM -> PurgSystem(w)
       [] opcode = MISCMEM -> PurgMiscmem(w)
       [] OTHER -> Illegal(4)

\* What purg does with the instruction word w.
PurgDecode(w) == IF Get(w, OpcodeC, "op") = 3 THEN PurgDecode32(w) ELSE PurgDecode16(w)
=============================================================================

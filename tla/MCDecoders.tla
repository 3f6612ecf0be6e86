----------------------------- MODULE MCDecoders -----------------------------
(***************************************************************************)
(* Every compressed halfword; a sample of the 32-bit words: every opcode   *)
(* and funct3, the funct7 values, and each bit of the second half alone.   *)
(***************************************************************************)
EXTENDS Decoders

\* First halves of 32-bit words: opcode, rd, funct3, the low bit of rs1.
Opcodes == {LOAD, CUSTOM0, MISCMEM, OPIMM, AUIPC, STORE, OP, LUI, BRANCH, JALR, JAL, SYSTEM, 127}
Lows32 == {o + rd * 2^7 + f3 * 2^12 + r * 2^15 :
             o \in Opcodes, rd \in {0, 1, 21}, f3 \in 0 .. 7, r \in {0, 1}}

\* Arithmetic and branches on x1 and x2, jalr x1, x1 in both widths, ecall, a load,
\* a store, an illegal word and a compressed nop.
MCProbeLows ==
  {51 + 3 * 2^7 + f3 * 2^12 + 2^15 : f3 \in 0 .. 7} \cup
  {99 + 4 * 2^8 + f3 * 2^12 + 2^15 : f3 \in {0, 1, 4, 5, 6, 7}} \cup
  {103 + 2^7 + 2^15, 36994, 115, 3 + 3 * 2^7 + 2 * 2^12, 35 + 2 * 2^12, 127, 1}
MCProbeHighs == {0, 32, 32 + 2^9, 32 + 32 * 2^9}

MCLowHalves == {h \in Half : h % 4 # 3} \cup Lows32 \cup MCProbeLows
MCHighHalves ==
  {2^i : i \in 0 .. 15} \cup {65535 - 2^i : i \in 0 .. 15} \cup {65535, 21845, 43690, 64 + 32 * 2^9}
  \cup MCProbeHighs
=============================================================================

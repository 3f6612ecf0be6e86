----------------------------- MODULE PurgFields -----------------------------
(***************************************************************************)
(* The bit-field structs and unions of emu/purg.c.  A struct lays fields   *)
(* over the instruction word: field |-> <<high bit, low bit>>.  A union    *)
(* puts the pieces of an immediate back together: field |-> the bit of the *)
(* immediate where the piece starts.                                       *)
(***************************************************************************)
EXTENDS Encoding, FiniteSetsExt

\* The field f of the layout.
Get(w, layout, f) == Bits(w, layout[f][1], layout[f][2])

\* The immediate whose pieces the union places.
Untangle(w, layout, place) ==
  MapThenSumSet(LAMBDA f : Get(w, layout, f) * 2^place[f], DOMAIN place)

TypeB == [opcode |-> <<6, 0>>, imm11 |-> <<7, 7>>, imm4_1 |-> <<11, 8>>, funct3 |-> <<14, 12>>,
          rs1 |-> <<19, 15>>, rs2 |-> <<24, 20>>, imm10_5 |-> <<30, 25>>, imm12 |-> <<31, 31>>]
TypeBImm == [imm4_1 |-> 1, imm10_5 |-> 5, imm11 |-> 11, imm12 |-> 12]

TypeCR == [rs2 |-> <<6, 2>>, rd |-> <<11, 7>>, funct4 |-> <<15, 12>>]
TypeCI == [imm4_0 |-> <<6, 2>>, rd |-> <<11, 7>>, imm5 |-> <<12, 12>>]
TypeCIAddi16sp == [imm5 |-> <<2, 2>>, imm8_7 |-> <<4, 3>>, imm6 |-> <<5, 5>>, imm4 |-> <<6, 6>>,
                   rd |-> <<11, 7>>, imm9 |-> <<12, 12>>]
TypeCILui == [imm16_12 |-> <<6, 2>>, rd |-> <<11, 7>>, imm17 |-> <<12, 12>>]
TypeCILwsp == [imm7_6 |-> <<3, 2>>, imm4_2 |-> <<6, 4>>, rd |-> <<11, 7>>, imm5 |-> <<12, 12>>]
TypeCSS == [rs2 |-> <<6, 2>>, imm7_6 |-> <<8, 7>>, imm5_2 |-> <<12, 9>>]
TypeCIW == [rdp |-> <<4, 2>>, imm3 |-> <<5, 5>>, imm2 |-> <<6, 6>>, imm9_6 |-> <<10, 7>>,
            imm5_4 |-> <<12, 11>>]
TypeCL == [rdp |-> <<4, 2>>, imm6 |-> <<5, 5>>, imm2 |-> <<6, 6>>, rs1p |-> <<9, 7>>,
           imm5_3 |-> <<12, 10>>]
TypeCS == [rs2p |-> <<4, 2>>, imm6 |-> <<5, 5>>, imm2 |-> <<6, 6>>, rs1p |-> <<9, 7>>,
           imm5_3 |-> <<12, 10>>]
TypeCA == [rs2p |-> <<4, 2>>, funct2 |-> <<6, 5>>, rdp |-> <<9, 7>>, funct6 |-> <<15, 10>>]
TypeCB == [imm5 |-> <<2, 2>>, imm2_1 |-> <<4, 3>>, imm7_6 |-> <<6, 5>>, rs1p |-> <<9, 7>>,
           imm4_3 |-> <<11, 10>>, imm8 |-> <<12, 12>>]
TypeCBImm == [imm4_0 |-> <<6, 2>>, rdp |-> <<9, 7>>, funct2 |-> <<11, 10>>, imm5 |-> <<12, 12>>,
              funct3 |-> <<15, 13>>]
TypeCJ == [imm5 |-> <<2, 2>>, imm3_1 |-> <<5, 3>>, imm7 |-> <<6, 6>>, imm6 |-> <<7, 7>>,
           imm10 |-> <<8, 8>>, imm9_8 |-> <<10, 9>>, imm4 |-> <<11, 11>>, imm11 |-> <<12, 12>>]

CIImm == [imm4_0 |-> 0, imm5 |-> 5]
CIAddi16spImm == [imm4 |-> 4, imm5 |-> 5, imm6 |-> 6, imm8_7 |-> 7, imm9 |-> 9]
CILuiImm == [imm16_12 |-> 12, imm17 |-> 17]
CILwspImm == [imm4_2 |-> 2, imm5 |-> 5, imm7_6 |-> 6]
CSSImm == [imm5_2 |-> 2, imm7_6 |-> 6]
CIWImm == [imm2 |-> 2, imm3 |-> 3, imm5_4 |-> 4, imm9_6 |-> 6]
CLImm == [imm2 |-> 2, imm5_3 |-> 3, imm6 |-> 6]
CSImm == [imm2 |-> 2, imm5_3 |-> 3, imm6 |-> 6]
CAFunct == [funct2 |-> 0, funct6 |-> 2]
CBPlace == [imm2_1 |-> 1, imm4_3 |-> 3, imm5 |-> 5, imm7_6 |-> 6, imm8 |-> 8]
CBImmPlace == [imm4_0 |-> 0, imm5 |-> 5]
CBFunct == [funct2 |-> 0, funct3 |-> 2]
CJPlace == [imm3_1 |-> 1, imm4 |-> 4, imm5 |-> 5, imm6 |-> 6, imm7 |-> 7, imm9_8 |-> 8,
            imm10 |-> 10, imm11 |-> 11]

\* The selector of the compressed switches: funct3 and quadrant.
OpcodeC == [op |-> <<1, 0>>, funct3 |-> <<15, 13>>]
OpcodeCPlace == [op |-> 0, funct3 |-> 2]

TypeI == [opcode |-> <<6, 0>>, rd |-> <<11, 7>>, funct3 |-> <<14, 12>>, rs1 |-> <<19, 15>>,
          imm |-> <<31, 20>>]
TypeIShift == [rd |-> <<11, 7>>, funct3 |-> <<14, 12>>, rs1 |-> <<19, 15>>, shamt |-> <<24, 20>>,
               imm11_5 |-> <<31, 25>>]
TypeIFunct == [funct3 |-> 0, imm11_5 |-> 3]
TypeJ == [rd |-> <<11, 7>>, imm19_12 |-> <<19, 12>>, imm11 |-> <<20, 20>>, imm10_1 |-> <<30, 21>>,
          imm20 |-> <<31, 31>>]
TypeJImm == [imm10_1 |-> 1, imm11 |-> 11, imm19_12 |-> 12, imm20 |-> 20]
TypeR == [rd |-> <<11, 7>>, funct3 |-> <<14, 12>>, rs1 |-> <<19, 15>>, rs2 |-> <<24, 20>>,
          funct7 |-> <<31, 25>>]
TypeRFunct == [funct3 |-> 0, funct7 |-> 3]
TypeS == [imm4_0 |-> <<11, 7>>, funct3 |-> <<14, 12>>, rs1 |-> <<19, 15>>, rs2 |-> <<24, 20>>,
          imm11_5 |-> <<31, 25>>]
TypeSImm == [imm4_0 |-> 0, imm11_5 |-> 5]
TypeU == [rd |-> <<11, 7>>, imm31_12 |-> <<31, 12>>]
=============================================================================

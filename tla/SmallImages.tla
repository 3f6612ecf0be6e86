----------------------------- MODULE SmallImages ---------------------------
(***************************************************************************)
(* Every image with a length in Lens over a small alphabet of instructions *)
(* placed at even offsets: both widths, forward, backward and out-of-range *)
(* transfers, jumps into the middle of an instruction, and the traps.      *)
(***************************************************************************)
EXTENDS Isa

CONSTANTS
  Lens,   \* the code lengths to enumerate
  Kinds   \* the kinds of instruction to enumerate

I(width, kind, rd, rs, imm) ==
  [w |-> width, k |-> kind, rd |-> rd, rs |-> rs, imm |-> imm]

AllInsns == {
  I(2, "alu", 1, 0, 1),            \* c.li x1, 1
  I(4, "mem", 0, 0, 0),            \* a 32-bit store
  I(4, "auipc", 1, 0, 2),
  I(2, "branch", 0, 1, AddrMod - 2),
  I(4, "branch", 0, 1, 6),
  I(2, "jal", 0, 0, 4),            \* c.j
  I(4, "jal", 1, 0, 2),            \* jal into its own second half
  I(2, "jalr", 1, 1, 0),           \* c.jalr x1
  I(2, "ebreak", 0, 0, 0),
  I(4, "ecall", 0, 0, 0) }

Alphabet == {ins \in AllInsns : ins.k \in Kinds}

Odd == I(2, "illegal", 0, 0, 0)

MCImages ==
  UNION { LET slots == {a \in 0 .. (n - 1) : a % 2 = 0} IN
          { [len |-> n, insn |-> [a \in 0 .. (n - 1) |-> IF a % 2 = 0 THEN f[a] ELSE Odd]]
            : f \in [slots -> Alphabet] }
        : n \in Lens }
=============================================================================

----------------------------- MODULE MCGdbstub -----------------------------
\* The stub on chosen guest programs.
EXTENDS Gdbstub

I(width, kind, rd, rs, imm) ==
  [w |-> width, k |-> kind, rd |-> rd, rs |-> rs, imm |-> imm]

Program(f) == [len |-> Len(f), insn |-> [a \in 0 .. (Len(f) - 1) |-> f[a + 1]]]
Odd == I(2, "illegal", 0, 0, 0)

\* A loop that sets x1 and makes a system call that may clear it, or exit.
Loop == Program(<<I(2, "lui", 1, 0, 2), Odd, I(2, "ecall", 0, 0, 0), Odd,
                  I(2, "jal", 0, 0, AddrMod - 4), Odd>>)

\* A store that may fault, an ebreak, and the end of the code behind it.
Stops == Program(<<I(2, "mem", 0, 0, 0), Odd, I(2, "ebreak", 0, 0, 0), Odd>>)

Both == {Loop, Stops}
=============================================================================

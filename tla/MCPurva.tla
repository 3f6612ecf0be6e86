------------------------------ MODULE MCPurva ------------------------------
(***************************************************************************)
(* Programs of three free instructions and a last jump.  Frames: every mix *)
(* of stack adjustment, saves and restores in and out of canonical order.  *)
(* Pairs: every mix of the loads, stores, shifts and branches that fuse.   *)
(* Addresses: an auipc of a code or data address, one or two instructions  *)
(* that complete it, and instructions that fuse or vanish around them.     *)
(***************************************************************************)
EXTENDS Purva

I(op, rd, rs1, rs2, imm, target) ==
  [op |-> op, rd |-> rd, rs1 |-> rs1, rs2 |-> rs2, imm |-> imm, target |-> target,
   rel |-> NoRel]

Ranks == <<1, 8>>            \* ra, s0
Registers == [r \in {0, 1, 2, 5, 8} |->
  CASE r = 1 -> AddrMod - 4 [] r \in {2, 8} -> Half [] OTHER -> 0]
Cells == [vt |-> 8, code |-> 12]

Ret == I("jalr", 0, 1, 0, 0, 0)

Frames == {
  I("addi", 2, 2, 0, -8, 0), I("addi", 2, 2, 0, 8, 0),
  I("sw", 0, 2, 1, 4, 0), I("sw", 0, 2, 8, 0, 0), I("sw", 0, 2, 8, 4, 0), I("sw", 0, 2, 1, 0, 0),
  I("lw", 1, 2, 0, 4, 0), I("lw", 8, 2, 0, 0, 0),
  I("beq", 0, 5, 0, 0, 2) }

Pairs == {
  I("slli", 5, 8, 0, 1, 0), I("add", 5, 8, 5, 0, 0), I("addi", 0, 8, 0, 0, 0),
  I("lw", 5, 8, 0, 0, 0), I("lw", 5, 5, 0, 0, 0), I("lw", 8, 5, 0, 8, 0), I("lbu", 5, 8, 0, 4, 0),
  I("sw", 0, 5, 5, 4, 0), I("beq", 0, 5, 0, 0, 0), I("bne", 0, 0, 5, 0, 2),
  I("jal", 1, 0, 0, 0, 2), I("jalr", 1, 5, 0, 0, 0), I("ecall", 0, 0, 0, 0, 0) }

Four(set, last) ==
  {[i \in 0 .. 3 |-> IF i = 3 THEN last ELSE f[i]] : f \in [0 .. 2 -> set]}

\* A linked auipc of the symbol at instruction to, or of a word in the data: -1 is
\* the last read-only word, -2 the first writable one.  The instructions that
\* complete it.
Distance(at, to, add) ==
  (CASE to = -1 -> -4 [] to = -2 -> Half [] OTHER -> 4 * to) + add - 4 * at
Auipc(at, to, add) ==
  [I("auipc", 5, 0, 0, HiPart(Distance(at, to, add)), 0)
     EXCEPT !.rel = [kind |-> "hi", to |-> IF to < 0 THEN -1 ELSE to, add |-> add]]
Completing == {I("addi", 5, 5, 0, 0, 0), I("lw", 8, 5, 0, 0, 0), I("lw", 5, 5, 0, 0, 0),
               I("sw", 0, 5, 8, 0, 0), I("jalr", 1, 5, 0, 0, 0)}
Completes(c, hi, imm) == [c EXCEPT !.imm = imm, !.rel = [kind |-> "lo", to |-> hi, add |-> 0]]
Fillers == {I("addi", 0, 0, 0, 0, 0), I("lw", 5, 5, 0, 0, 0), I("beq", 0, 5, 0, 0, 0),
            I("jalr", 1, 5, 0, 0, 0)}

Linked(to, add, c, d, o) ==
  LET hi(at) == Auipc(at, to, add)
      lo(e, at) == Completes(e, at, LoPart(Distance(at, to, add)))
  IN {<<hi(0), lo(c, 0), lo(d, 0)>>, <<hi(0), lo(c, 0), o>>, <<hi(0), o, lo(c, 0)>>,
      <<o, hi(1), lo(c, 1)>>}

Addresses ==
  {[i \in 0 .. 3 |-> IF i = 3 THEN I("jal", 0, 0, 0, 0, 0) ELSE s[i + 1]] :
     s \in UNION {Linked(to, add, c, d, o) :
       to \in {-2, -1, 0, 2, 3}, add \in {0, -1}, c \in Completing, d \in Completing, o \in Fillers}}

\* The host's writable buffer is longer than the band frame_top checks for.
ASSUME HostStack == BandFits

MCPrograms ==
  Four(Frames, Ret) \cup Four(Pairs, I("jal", 0, 0, 0, 0, 0)) \cup Addresses

\* What the refinement theorem assumes of programs and constants.
ASSUME Hypotheses == (\A c \in MCPrograms : IsLinked(c)) /\ RegistersFit /\ StepsFit /\ CodeFits
=============================================================================

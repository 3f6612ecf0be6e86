--------------------------- MODULE SourceProgram ---------------------------
(***************************************************************************)
(* What transcode.h promises of a transcoded program: running it is        *)
(* running the RV32IM instructions it was made from, several at a time.    *)
(* Code addresses are those of op space, where every instruction that can  *)
(* be reached has one (tctool rewrites the pointers the program holds);    *)
(* nops are dropped and cost nothing.                                      *)
(***************************************************************************)
EXTENDS Tctool, RegionMemory

CONSTANTS
  MaxUnit,             \* most instructions one op stands for
  HostReg, HostWords   \* a0, and what a continuing trap leaves there

VARIABLES
  code, map, opend,    \* the program, its op indices, and the op count
  st, pc, x, mem,      \* idle or running; op-space pc, registers, memory
  max, k               \* budget and instructions retired in this call

vars == <<code, map, opend, st, pc, x, mem, max, k>>

n == Cardinality(DOMAIN code)
Outside(a) == a >= 4 * opend

\* Op-space address of instruction i; -1 when no op starts there.
AddressOf(i) == IF i = n THEN 4 * opend ELSE IF i \in DOMAIN map THEN 4 * map[i] ELSE -1

\* The instruction behind op index d: the nops that lead up to it are skipped.
HeadOf(d) ==
  LET hs == {i \in DOMAIN map : map[i] = d}
  IN CHOOSE i \in hs : \A j \in hs : j <= i

Put(y, rd, v) == IF rd = 0 THEN y ELSE [y EXCEPT ![rd] = v]
Even(v) == v - (v % 2)

\* Where the program is: at instruction i, or (i = -1) at op-space address a.
At(i, y, m) == [i |-> i, a |-> 0, x |-> y, m |-> m, jumped |-> FALSE]
Jump(i, a, y, m) == [i |-> i, a |-> a, x |-> y, m |-> m, jumped |-> TRUE]

\* The whole instructions in an addend; the rest of it is an offset from one.
Whole(add) == IF add >= 0 THEN add \div 4 ELSE 0 - ((0 - add) \div 4)

\* The code address the auipc at h stands for, as the program sees it, and the part
\* of it the auipc leaves to the instructions that complete it.
AddressAt(h) ==
  LET r == code[h].rel
  IN AddressOf(r.to + Whole(r.add)) + r.add - 4 * Whole(r.add)
LowAt(h) == LoPart(AddressAt(h) - AddressOf(h))

\* The instruction at i.  Those that complete a code address take its low part.
Instruction(i) ==
  IF code[i].rel.kind = "lo" /\ code[i].rel.to \in CodeHi(code)
    THEN [Decode(code, i) EXCEPT !.imm = LowAt(code[i].rel.to)]
    ELSE Decode(code, i)

\* What an auipc leaves: a code address but for its low part, or the constant.
Upper(i) == IF i \in CodeHi(code) THEN AddressAt(i) - LowAt(i) ELSE 4 * i + code[i].imm

\* Instruction c, not a trap, in state s, by the RISC-V manual.
Effect(s, c) ==
  LET y == s.x
      src == Wrap(y[c.rs1] + c.imm)
      next(z, m) == At(s.i + 1, z, m)
  IN CASE c.op = "add"   -> next(Put(y, c.rd, Wrap(y[c.rs1] + y[c.rs2])), s.m)
       [] c.op = "addi"  -> next(Put(y, c.rd, src), s.m)
       [] c.op = "slli"  -> next(Put(y, c.rd, Wrap(y[c.rs1] * 2^c.imm)), s.m)
       [] c.op = "auipc" -> next(Put(y, c.rd, Wrap(Upper(s.i))), s.m)
       [] c.op = "lw"    -> next(Put(y, c.rd, LoadWord(s.m, src)), s.m)
       [] c.op = "lbu"   -> next(Put(y, c.rd, LoadByte(s.m, src)), s.m)
       [] c.op = "sw"    -> next(y, StoreWord(s.m, src, y[c.rs2]))
       [] c.op = "nop"   -> next(y, s.m)
       [] c.op = "beq"   -> IF y[c.rs1] = y[c.rs2] THEN Jump(c.target, 0, y, s.m) ELSE next(y, s.m)
       [] c.op = "bne"   -> IF y[c.rs1] # y[c.rs2] THEN Jump(c.target, 0, y, s.m) ELSE next(y, s.m)
       [] c.op = "jal"   -> Jump(c.target, 0, Put(y, c.rd, AddressOf(s.i + 1)), s.m)
       [] c.op = "jalr"  -> Jump(-1, Even(src), Put(y, c.rd, AddressOf(s.i + 1)), s.m)

One(s) == Effect(s, Instruction(s.i))

IsTrapAt(i) == code[i].op \in {"ecall", "ebreak", "illegal"}

\* The first instruction from i on that is not a nop, or the end.
Awake(i) ==
  CHOOSE j \in i .. n : /\ j = n \/ Decode(code, j).op # "nop"
                        /\ \A h \in i .. (j - 1) : Decode(code, h).op = "nop"

\* What one instruction makes of s, as a sequence of one state; nops are passed
\* over.  At a trap and outside the program there is no such state.
OneMore(s) ==
  LET i == IF s.i = -1 THEN n ELSE Awake(s.i)
  IN IF i = n \/ IsTrapAt(i) THEN <<>> ELSE <<One([s EXCEPT !.i = i])>>

\* c instructions from s on; nops are not counted.
Runs(s, c) ==
  LET f[j \in 0 .. c] == IF j = 0 THEN <<s>>
                         ELSE IF f[j - 1] = <<>> THEN <<>> ELSE OneMore(f[j - 1][1])
  IN f[c]

\* The op-space pc of a state; addresses inside the code lose their low bits.
Settled(a) == IF Outside(a) THEN a ELSE a - (a % 4)
PcOf(s) == IF s.i = -1 THEN Settled(s.a) ELSE AddressOf(s.i)

Init ==
  /\ st = "idle" /\ max = 0 /\ k = 0

Enter ==
  /\ st = "idle" /\ ~Outside(pc) /\ st' = "run" /\ max' \in Nat /\ k' = 0
  /\ UNCHANGED <<code, map, opend, pc, x, mem>>

\* Fuel: what was replaced, except that the two instructions that load a data
\* address cost one.
Charge(i, c) == IF c = 2 /\ Decode(code, i).op = "auipc" THEN 1 ELSE c

\* Some instructions run.  The call ends because the pc is outside the code or
\* the budget is used up; and a jump is never taken with the budget used up.
Advance(c) ==
  LET from == At(HeadOf(pc \div 4), x, mem)
      to == Runs(from, c)
  IN /\ st = "run" /\ ~Outside(pc) /\ to # <<>>
     /\ pc' = PcOf(to[1]) /\ x' = to[1].x /\ mem' = to[1].m
     /\ k' = k + Charge(from.i, c)
     /\ \/ st' = "run" /\ (to[1].jumped => k' < max)
        \/ st' = "idle" /\ (Outside(pc') \/ k' >= max)
     /\ UNCHANGED <<code, map, opend, max>>

\* A trap calls the host, which may change a0, and stop the run there.
Trap ==
  /\ st = "run" /\ ~Outside(pc) /\ IsTrapAt(HeadOf(pc \div 4))
  /\ k' = k + 1
  /\ x' \in {x} \cup {Put(x, HostReg, v) : v \in HostWords}
  /\ \/ st' = "idle" /\ pc' = pc
     \/ st' = "run" /\ pc' = pc + 4 /\ k' < max
     \/ st' = "idle" /\ pc' = pc + 4 /\ k' >= max
  /\ UNCHANGED <<code, map, opend, mem, max>>

\* A call with the pc outside the code does nothing.
Refuse ==
  /\ st = "idle" /\ Outside(pc) /\ max' \in Nat /\ k' = 0
  /\ UNCHANGED <<code, map, opend, st, pc, x, mem>>

Next == Enter \/ (\E c \in 1 .. MaxUnit : Advance(c)) \/ Trap \/ Refuse

Spec == Init /\ [][Next]_vars
=============================================================================

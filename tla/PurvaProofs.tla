---------------------------- MODULE PurvaProofs ----------------------------
(***************************************************************************)
(* For every program a linker can hand over, every word size, save band    *)
(* and budget: whatever a branch, a jump or a code pointer names keeps an  *)
(* op of its own; the saves and restores that frame_top lets through       *)
(* unchecked stay inside the host's buffer; and running the ops, fusions   *)
(* and relocations included, is running the source program.  The last      *)
(* takes the most: where each unit's op went, what it says of the          *)
(* instructions it stands for, what these do one after another, and that   *)
(* the op's handler does the same.                                         *)
(***************************************************************************)
EXTENDS Purva, FiniteSetTheorems, WellFoundedInduction, TLAPS

(* Induction and recursion over the numbers up to m.                        *)

\* A set of naturals with 0 and with the successor of each member is all of them.
LEMMA SetInduction ==
  ASSUME NEW S, 0 \in S, \A n \in Nat : n \in S => n + 1 \in S
  PROVE Nat \subseteq S
  <1> DEFINE R == {ss \in Nat \X Nat : ss[1] < ss[2]}
             T == Nat \ S
  <1>1. IsWellFoundedOn(R, Nat)
    BY NatLessThanWellFounded, Zenon DEF OpToRel
  <1>2. SUFFICES ASSUME T # {} PROVE FALSE
    OBVIOUS
  <1>3. PICK m \in T : \A y \in T : <<y, m>> \notin R
    <2> HIDE DEF R, T
    <2>1. T \subseteq Nat
      BY DEF T
    <2> QED BY <1>1, <1>2, <2>1, WFMin
  <1>4. m \in Nat \ {0}
    OBVIOUS
  <1>5. m - 1 \in Nat /\ <<m - 1, m>> \in R
    BY <1>4
  <1>6. m - 1 \in S
    BY <1>3, <1>5
  <1>7. m - 1 + 1 = m
    BY <1>4
  <1> QED BY <1>3, <1>5, <1>6, <1>7

\* The steps of a recursion up to m with values in S.
StepsTo(m, S) == [1 .. m -> [S -> S]]

\* A recursion whose step stays in a set defines a function into it.
LEMMA RecursionTo ==
  ASSUME NEW S, NEW b \in S, NEW m \in Nat, NEW G \in StepsTo(m, S)
  PROVE \E f \in [0 .. m -> S] : f[0] = b /\ \A j \in 1 .. m : f[j] = G[j][f[j - 1]]
  <1> DEFINE Is(g, q) == /\ g \in [0 .. q -> S] /\ g[0] = b
                         /\ \A j \in 1 .. q : g[j] = G[j][g[j - 1]]
             E == {q \in Nat : q <= m => \E g : Is(g, q)}
  <1>1. 0 \in E
    <2>1. Is([j \in 0 .. 0 |-> b], 0)
      OBVIOUS
    <2> QED BY <2>1
  <1>2. ASSUME NEW q \in Nat, q \in E PROVE q + 1 \in E
    <2> SUFFICES ASSUME q + 1 <= m PROVE \E g : Is(g, q + 1)
      OBVIOUS
    <2>1. PICK g : Is(g, q)
      BY <1>2
    <2> DEFINE h == [j \in 0 .. q + 1 |-> IF j = q + 1 THEN G[q + 1][g[q]] ELSE g[j]]
    <2>2. g[q] \in S /\ q + 1 \in 1 .. m
      BY <2>1
    <2>3. G[q + 1][g[q]] \in S
      BY <2>2 DEF StepsTo
    <2>4. h \in [0 .. q + 1 -> S] /\ h[0] = b
      BY <2>1, <2>3
    <2>5. ASSUME NEW j \in 1 .. q + 1 PROVE h[j] = G[j][h[j - 1]]
      <3>1. CASE j = q + 1
        BY <3>1
      <3>2. CASE j \in 1 .. q
        BY <2>1, <3>2
      <3> QED BY <3>1, <3>2
    <2>6. Is(h, q + 1)
      BY <2>4, <2>5
    <2> HIDE DEF h, Is
    <2> QED BY <2>6
  <1>3. Nat \subseteq E
    <2> HIDE DEF E
    <2> QED BY <1>1, <1>2, SetInduction
  <1> QED BY <1>3

\* A set of numbers up to m has a largest member.
LEMMA LargestExists ==
  ASSUME NEW m \in Nat, NEW S, S \subseteq 0 .. m, S # {}
  PROVE \E c \in S : \A d \in S : d <= c
  <1> DEFINE E == {q \in Nat : (\E c \in S : c >= m - q) => \E c \in S : \A d \in S : d <= c}
  <1>1. 0 \in E
    OBVIOUS
  <1>2. ASSUME NEW q \in Nat, q \in E PROVE q + 1 \in E
    <2> SUFFICES ASSUME NEW c \in S, c >= m - (q + 1) PROVE \E e \in S : \A d \in S : d <= e
      OBVIOUS
    <2>1. CASE \E e \in S : e >= m - q
      BY <1>2, <2>1
    <2>2. CASE ~\E e \in S : e >= m - q
      <3>1. ASSUME NEW d \in S PROVE d <= c
        <4>1. d \in Nat /\ c \in Nat /\ ~(d >= m - q)
          BY <2>2
        <4> QED BY <4>1
      <3> QED BY <3>1
    <2> QED BY <2>1, <2>2
  <1>3. Nat \subseteq E
    <2> HIDE DEF E
    <2> QED BY <1>1, <1>2, SetInduction
  <1>4. m \in E
    BY <1>3
  <1>5. \E c \in S : c >= m - m
    <2>1. PICK c : c \in S
      OBVIOUS
    <2>2. c \in 0 .. m
      BY <2>1
    <2> QED BY <2>1, <2>2
  <1> QED BY <1>4, <1>5

-----------------------------------------------------------------------------
(* Units.                                                                   *)

Regs == DOMAIN Start
Ranks == 0 .. (Len(RankReg) - 1)
FrameOps == {"PROLOGUE", "EPILOGUE"}
PairOps == {"LWLW", "VCALL", "LWSW"}
BzOps == {"LW_BZ", "LBU_BZ"}
Jumps == Branches \cup BzOps \cup {"jal"}
Simple == (InsnOps \cup {"SHADD", "LWX"}) \ {"ecall", "ebreak", "illegal"}

\* A unit, or an op, whose fields are what its handler takes them for.
IsOp(u) ==
  /\ u = Unit(u.op, u.rd, u.rs1, u.rs2, u.imm, u.target, u.width)
  /\ u.op \in FrameOps => u.rs1 \subseteq Ranks /\ u.imm \in Int
  /\ u.op \in PairOps => u.rs1 \in Regs /\ u.imm[1] \in Int /\ u.imm[2] \in Int
  /\ u.op = "LWSW" => u.rs2 \in Regs
  /\ u.op \in Simple => u.rs1 \in Regs /\ u.rs2 \in Regs /\ u.imm \in Int
  /\ u.op \in BzOps => u.rs1 \in Regs /\ u.imm \in Int
  /\ u.op \in Jumps => u.target \in Nat
  /\ u.op \in {"LI", "SHADD"} => u.imm \in Nat

\* u, if it matched, is an op, lies in the program and has no target inside.
Fits(c, T, i, u) ==
  u.op # "none" =>
    /\ IsOp(u) /\ u.width \in Nat \ {0} /\ i + u.width <= Cardinality(DOMAIN c)
    /\ \A t \in (i + 1) .. (i + u.width - 1) : t \notin T

\* The instructions are numbered from 0.
LEMMA Numbered ==
  ASSUME NEW c, IsProgram(c)
  PROVE Cardinality(DOMAIN c) \in Nat /\ DOMAIN c = 0 .. (Cardinality(DOMAIN c) - 1)
  BY FS_CardinalityType DEF IsProgram

\* A decoded instruction is one of the program or a nop.
LEMMA DecodeFacts ==
  ASSUME NEW c, IsProgram(c), NEW i \in DOMAIN c
  PROVE LET d == Decode(c, i) IN
          /\ d = Unit(d.op, d.rd, d.rs1, d.rs2, d.imm, d.target, d.width)
          /\ d.op \in InsnOps \cup {"nop"} /\ d.rd \in Regs /\ d.rs1 \in Regs /\ d.rs2 \in Regs
          /\ d.imm \in Int /\ (d.op = "slli" => d.imm \in Nat)
          /\ d.op \in Jumps => d.target \in DOMAIN c /\ d.target \in Nat
          /\ d.width = 1 /\ d.rs2 = c[i].rs2 /\ d.rd = c[i].rd /\ d.imm = c[i].imm
  <1> DEFINE d == Decode(c, i)
             o == IF c[i].rd = 0 /\ c[i].op \in Zeroable THEN "nop" ELSE c[i].op
  <1>1. d = Unit(o, c[i].rd, c[i].rs1, c[i].rs2, c[i].imm, c[i].target, 1)
    BY DEF Decode
  <1>2. /\ d = Unit(d.op, d.rd, d.rs1, d.rs2, d.imm, d.target, d.width)
        /\ d.op = o /\ d.rd = c[i].rd /\ d.rs1 = c[i].rs1 /\ d.rs2 = c[i].rs2
        /\ d.imm = c[i].imm /\ d.target = c[i].target /\ d.width = 1
    <2> HIDE DEF o, d
    <2> QED BY <1>1 DEF Unit
  <1> HIDE DEF d
  <1>3. IsInsn(c[i], DOMAIN c) /\ \A t \in DOMAIN c : t \in Nat
    BY Numbered DEF IsProgram
  <1>4. /\ c[i].op \in InsnOps /\ c[i].rd \in Regs /\ c[i].rs1 \in Regs /\ c[i].rs2 \in Regs
        /\ c[i].imm \in Int /\ (c[i].op = "slli" => c[i].imm \in Nat)
        /\ c[i].op \in Branches \cup {"jal"} => c[i].target \in DOMAIN c
    BY <1>3 DEF IsInsn, Regs
  <1>5. o \in {c[i].op, "nop"} /\ (o = "nop" \/ o = c[i].op)
    OBVIOUS
  <1>6. "nop" \notin InsnOps /\ \A q \in InsnOps : q \in Jumps => q \in Branches \cup {"jal"}
    BY DEF InsnOps, Jumps, BzOps, Branches
  <1>7. o \in InsnOps \cup {"nop"} /\ (o = "slli" => c[i].imm \in Nat)
    BY <1>4, <1>5
  <1>8. o \in Jumps => c[i].target \in DOMAIN c /\ c[i].target \in Nat
    <2>1. "nop" \notin Jumps
      BY DEF Jumps, Branches, BzOps
    <2> QED BY <1>3, <1>4, <1>5, <1>6, <2>1
  <1> HIDE DEF o
  <1>9. /\ d.op \in InsnOps \cup {"nop"} /\ d.rd \in Regs /\ d.rs1 \in Regs /\ d.rs2 \in Regs
        /\ d.imm \in Int /\ (d.op = "slli" => d.imm \in Nat)
        /\ d.op \in Jumps => d.target \in DOMAIN c /\ d.target \in Nat
    BY ONLY <1>2, <1>4, <1>7, <1>8
  <1> QED BY ONLY <1>2, <1>9 DEF d

\* So it fits where it stands.
LEMMA DecodeFits ==
  ASSUME NEW c, IsProgram(c), NEW T, NEW i \in DOMAIN c
  PROVE Fits(c, T, i, Decode(c, i)) /\ Decode(c, i).op # "none"
  <1> DEFINE d == Decode(c, i)
             n == Cardinality(DOMAIN c)
  <1>1. /\ d = Unit(d.op, d.rd, d.rs1, d.rs2, d.imm, d.target, d.width)
        /\ d.op \in InsnOps \cup {"nop"} /\ d.rs1 \in Regs /\ d.rs2 \in Regs
        /\ d.imm \in Int /\ (d.op \in Jumps => d.target \in Nat) /\ d.width = 1
    BY DecodeFacts
  <1>2. n \in Nat /\ i \in 0 .. (n - 1)
    BY Numbered
  <1> HIDE DEF d, n
  <1>3. d.op \notin FrameOps \cup PairOps \cup BzOps \cup {"LI", "SHADD", "none"}
    BY <1>1 DEF InsnOps, FrameOps, PairOps, BzOps
  <1>4. IsOp(d)
    BY <1>1, <1>3 DEF IsOp, PairOps
  <1>5. d.width \in Nat \ {0} /\ i + d.width <= n /\ \A t \in (i + 1) .. (i + d.width - 1) : t \notin T
    BY <1>1, <1>2
  <1> QED BY <1>3, <1>4, <1>5 DEF Fits, d, n

\* The fields of a unit.
LEMMA UnitFields ==
  ASSUME NEW op, NEW rd, NEW rs1, NEW rs2, NEW imm, NEW target, NEW width
  PROVE LET u == Unit(op, rd, rs1, rs2, imm, target, width) IN
          /\ u.op = op /\ u.rd = rd /\ u.rs1 = rs1 /\ u.rs2 = rs2 /\ u.imm = imm
          /\ u.target = target /\ u.width = width
  BY DEF Unit

\* When a unit is an op, from its fields.
LEMMA UnitIsOp ==
  ASSUME NEW op, NEW rd, NEW rs1, NEW rs2, NEW imm, NEW target, NEW width,
         op \in FrameOps => rs1 \subseteq Ranks /\ imm \in Int,
         op \in PairOps => rs1 \in Regs /\ imm[1] \in Int /\ imm[2] \in Int,
         op = "LWSW" => rs2 \in Regs,
         op \in Simple => rs1 \in Regs /\ rs2 \in Regs /\ imm \in Int,
         op \in BzOps => rs1 \in Regs /\ imm \in Int,
         op \in Jumps => target \in Nat,
         op \in {"LI", "SHADD"} => imm \in Nat
  PROVE IsOp(Unit(op, rd, rs1, rs2, imm, target, width))
  <1> DEFINE u == Unit(op, rd, rs1, rs2, imm, target, width)
  <1>1. /\ u.op = op /\ u.rd = rd /\ u.rs1 = rs1 /\ u.rs2 = rs2 /\ u.imm = imm
        /\ u.target = target /\ u.width = width
    BY UnitFields
  <1>2. u = Unit(u.op, u.rd, u.rs1, u.rs2, u.imm, u.target, u.width)
    BY <1>1
  <1> HIDE DEF u
  <1>3. IsOp(u)
    BY <1>1, <1>2 DEF IsOp
  <1> QED BY <1>3 DEF u

\* Two instructions made into one op: the second is no target.
LEMMA TwoFit ==
  ASSUME NEW c, NEW T, NEW i \in Nat, Cardinality(DOMAIN c) \in Nat,
         i + 2 <= Cardinality(DOMAIN c), i + 1 \notin T,
         NEW u, u.op # "none" => IsOp(u) /\ u.width = 2
  PROVE Fits(c, T, i, u)
  <1>1. \A t \in (i + 1) .. (i + 2 - 1) : t = i + 1
    OBVIOUS
  <1> QED BY <1>1 DEF Fits

\* NoUnit matches nothing.
LEMMA NoUnitFits == NoUnit.op = "none" /\ \A c, T, i : Fits(c, T, i, NoUnit)
  BY DEF NoUnit, Unit, Fits

\* The instructions a pair is made of.
Second(c, T, i) == /\ i \in DOMAIN c /\ i + 1 \in DOMAIN c /\ i + 1 \notin T
                   /\ Cardinality(DOMAIN c) \in Nat /\ i + 2 <= Cardinality(DOMAIN c) /\ i \in Nat

LEMMA ShaddFits ==
  ASSUME NEW c, IsProgram(c), NEW T, NEW i, Second(c, T, i)
  PROVE Fits(c, T, i, FuseShadd(Decode(c, i), Decode(c, i + 1)))
  <1> DEFINE a == Decode(c, i)
             b == Decode(c, i + 1)
             other == IF b.rs1 = a.rd THEN b.rs2 ELSE b.rs1
             u == FuseShadd(a, b)
  <1>1. /\ a.rs1 \in Regs /\ b.rs1 \in Regs /\ b.rs2 \in Regs /\ a.imm \in Int
        /\ a.op = "slli" => a.imm \in Nat
    BY DecodeFacts DEF Second
  <1>2. other \in Regs
    BY <1>1
  <1>3. u = NoUnit \/ (a.op = "slli" /\ u = Unit("SHADD", a.rd, other, a.rs1, a.imm, 0, 2))
    BY DEF FuseShadd
  <1> HIDE DEF a, b, other, u
  <1>4. ASSUME a.op = "slli" PROVE IsOp(Unit("SHADD", a.rd, other, a.rs1, a.imm, 0, 2))
    BY <1>1, <1>2, <1>4, UnitIsOp DEF FrameOps, PairOps, BzOps, Jumps, Branches
  <1>5. u.op # "none" => IsOp(u) /\ u.width = 2
    BY <1>3, <1>4, NoUnitFits, UnitFields
  <1>6. Fits(c, T, i, u)
    BY <1>5, TwoFit DEF Second
  <1> QED BY <1>6 DEF u, a, b

LEMMA LwxFits ==
  ASSUME NEW c, IsProgram(c), NEW T, NEW i, Second(c, T, i)
  PROVE Fits(c, T, i, FuseLwx(Decode(c, i), Decode(c, i + 1)))
  <1> DEFINE a == Decode(c, i)
             b == Decode(c, i + 1)
             f == Field(b.imm, IdxRange)
             u == FuseLwx(a, b)
  <1>1. a.rs1 \in Regs /\ a.rs2 \in Regs /\ b.imm \in Int
    BY DecodeFacts DEF Second
  <1>2. f \in Int
    <2>1. IdxRange \in Nat /\ 2 * IdxRange > 0 /\ 2 * IdxRange \in Nat
      BY MachineAssumption
    <2> HIDE DEF b
    <2>2. b.imm + IdxRange \in Int
      BY <1>1, <2>1
    <2>3. (b.imm + IdxRange) % (2 * IdxRange) \in Int
      BY <2>1, <2>2
    <2> QED BY <2>1, <2>3 DEF Field
  <1>3. u = NoUnit \/ u = Unit("LWX", a.rd, a.rs1, a.rs2, f, 0, 2)
    BY DEF FuseLwx
  <1> HIDE DEF a, b, f, u
  <1>4. IsOp(Unit("LWX", a.rd, a.rs1, a.rs2, f, 0, 2))
    BY <1>1, <1>2, UnitIsOp DEF FrameOps, PairOps, BzOps, Jumps, Branches
  <1>5. u.op # "none" => IsOp(u) /\ u.width = 2
    BY <1>3, <1>4, NoUnitFits, UnitFields
  <1>6. Fits(c, T, i, u)
    BY <1>5, TwoFit DEF Second
  <1> QED BY <1>6 DEF u, a, b

LEMMA LwswFits ==
  ASSUME NEW c, IsProgram(c), NEW T, NEW i, Second(c, T, i)
  PROVE Fits(c, T, i, FuseLwsw(Decode(c, i), Decode(c, i + 1)))
  <1> DEFINE a == Decode(c, i)
             b == Decode(c, i + 1)
             u == FuseLwsw(a, b)
  <1>1. a.rs1 \in Regs /\ b.rs1 \in Regs /\ a.imm \in Int /\ b.imm \in Int
    BY DecodeFacts DEF Second
  <1>2. u = NoUnit \/ u = Unit("LWSW", a.rd, a.rs1, b.rs1, <<a.imm, b.imm>>, 0, 2)
    BY DEF FuseLwsw
  <1> HIDE DEF a, b, u
  <1>3. IsOp(Unit("LWSW", a.rd, a.rs1, b.rs1, <<a.imm, b.imm>>, 0, 2))
    BY <1>1, UnitIsOp DEF FrameOps, PairOps, BzOps, Jumps, Branches, Simple, InsnOps
  <1>4. u.op # "none" => IsOp(u) /\ u.width = 2
    BY <1>2, <1>3, NoUnitFits, UnitFields
  <1>5. Fits(c, T, i, u)
    BY <1>4, TwoFit DEF Second
  <1> QED BY <1>5 DEF u, a, b

LEMMA LoadBzFits ==
  ASSUME NEW c, IsProgram(c), NEW T, NEW i, Second(c, T, i)
  PROVE Fits(c, T, i, FuseLoadBz(Decode(c, i), Decode(c, i + 1)))
  <1> DEFINE a == Decode(c, i)
             b == Decode(c, i + 1)
             o == IF a.op = "lw" THEN "LW_BZ" ELSE "LBU_BZ"
             z == IF b.op = "beq" THEN 1 ELSE 0
             u == FuseLoadBz(a, b)
  <1>1. a.rs1 \in Regs /\ a.imm \in Int /\ (b.op \in Jumps => b.target \in Nat)
    BY DecodeFacts DEF Second
  <1>2. u = NoUnit \/ (b.op \in Branches /\ u = Unit(o, a.rd, a.rs1, z, a.imm, b.target, 2))
    BY DEF FuseLoadBz
  <1>3. o \in BzOps
    BY DEF BzOps
  <1> HIDE DEF a, b, o, z, u
  <1>4. o \notin FrameOps \cup PairOps \cup Simple \cup {"LI", "SHADD", "LWSW"}
    BY <1>3 DEF BzOps, FrameOps, PairOps, Simple, InsnOps
  <1>5. ASSUME b.op \in Branches PROVE IsOp(Unit(o, a.rd, a.rs1, z, a.imm, b.target, 2))
    <2>1. b.target \in Nat
      BY <1>1, <1>5 DEF Jumps
    <2> QED BY <1>1, <1>4, <2>1, UnitIsOp
  <1>6. u.op # "none" => IsOp(u) /\ u.width = 2
    BY <1>2, <1>5, NoUnitFits, UnitFields
  <1>7. Fits(c, T, i, u)
    BY <1>6, TwoFit DEF Second
  <1> QED BY <1>7 DEF u, a, b

\* A field reads back as a number.
LEMMA FieldIsInt ==
  ASSUME NEW v \in Int, NEW r \in Nat \ {0}
  PROVE Field(v, r) \in Int
  <1>1. 2 * r \in Nat /\ 2 * r > 0 /\ v + r \in Int
    OBVIOUS
  <1>2. (v + r) % (2 * r) \in Int
    BY <1>1
  <1> QED BY <1>2 DEF Field

LEMMA LwlwFits ==
  ASSUME NEW c, IsProgram(c), NEW T, NEW i, Second(c, T, i)
  PROVE Fits(c, T, i, FuseLwlw(c, T, i, Decode(c, i), Decode(c, i + 1)))
  <1> DEFINE a == Decode(c, i)
             b == Decode(c, i + 1)
             o == <<Field(a.imm, PairRange), Field(b.imm, PairRange)>>
             u == FuseLwlw(c, T, i, a, b)
             n == Cardinality(DOMAIN c)
             third == i + 3 <= n /\ i + 2 \notin T
  <1>1. a.rs1 \in Regs /\ a.imm \in Int /\ b.imm \in Int
    BY DecodeFacts DEF Second
  <1>2. o[1] \in Int /\ o[2] \in Int
    <2>1. PairRange \in Nat \ {0}
      BY MachineAssumption
    <2>2. Field(a.imm, PairRange) \in Int /\ Field(b.imm, PairRange) \in Int
      BY <1>1, <2>1, FieldIsInt
    <2> QED BY <2>2
  <1>3. \/ u = NoUnit
        \/ third /\ u = Unit("VCALL", a.rd, a.rs1, 0, o, 0, 3)
        \/ u = Unit("LWLW", a.rd, a.rs1, 0, o, 0, 2)
    BY DEF FuseLwlw
  <1>4. n \in Nat /\ i \in Nat /\ i + 2 <= n /\ i + 1 \notin T
    BY DEF Second
  <1> HIDE DEF a, b, o, u, n
  <1>5. \A q \in {"VCALL", "LWLW"} : q \notin FrameOps \cup BzOps \cup Simple \cup Jumps \cup {"LI", "SHADD", "LWSW"}
    BY DEF FrameOps, BzOps, Simple, Jumps, Branches, InsnOps
  <1>6. IsOp(Unit("VCALL", a.rd, a.rs1, 0, o, 0, 3)) /\ IsOp(Unit("LWLW", a.rd, a.rs1, 0, o, 0, 2))
    BY <1>1, <1>2, <1>5, UnitIsOp
  <1>7. ASSUME u = NoUnit PROVE Fits(c, T, i, u)
    BY <1>7, NoUnitFits
  <1>8. ASSUME third /\ u = Unit("VCALL", a.rd, a.rs1, 0, o, 0, 3) PROVE Fits(c, T, i, u)
    <2>1. u.width = 3 /\ IsOp(u)
      BY <1>6, <1>8, UnitFields
    <2>2. \A t \in (i + 1) .. (i + 3 - 1) : t = i + 1 \/ t = i + 2
      BY <1>4
    <2>3. \A t \in (i + 1) .. (i + 3 - 1) : t \notin T
      BY <1>4, <1>8, <2>2
    <2> QED BY <1>8, <2>1, <2>3 DEF Fits, n
  <1>9. ASSUME u = Unit("LWLW", a.rd, a.rs1, 0, o, 0, 2) PROVE Fits(c, T, i, u)
    <2>1. u.width = 2 /\ IsOp(u)
      BY <1>6, <1>9, UnitFields
    <2> QED BY <1>4, <2>1, TwoFit DEF n
  <1>10. Fits(c, T, i, u)
    BY <1>3, <1>7, <1>8, <1>9
  <1> QED BY <1>10 DEF u, a, b

\* A word is a number below AddrMod.
LEMMA WordFacts == AddrMod \in Nat /\ AddrMod > 0 /\ \A v \in Int : Wrap(v) \in Nat /\ Wrap(v) < AddrMod
  <1>1. ByteMod \in Nat /\ ByteMod > 0
    BY ByteAssumption
  <1>2. \A q, r \in Nat : q > 0 /\ r > 0 => q * r \in Nat /\ q * r > 0
    OBVIOUS
  <1>3. AddrMod \in Nat /\ AddrMod > 0
    BY <1>1, <1>2, WordAssumption
  <1>4. \A v \in Int : v % AddrMod \in Nat /\ v % AddrMod < AddrMod
    BY <1>3
  <1> QED BY <1>3, <1>4 DEF Wrap

\* A load-immediate loads a word.
LEMMA LoadImmIsOp ==
  ASSUME NEW rd, NEW v \in Nat, NEW b, NEW e
  PROVE LET u == LoadImm(rd, v, b, e) IN u.op # "none" => IsOp(u) /\ u.width = e
  <1> DEFINE u == LoadImm(rd, v, b, e)
  <1>1. u = NoUnit \/ u = Unit("LI", rd, 0, 0, v, 0, e)
    BY DEF LoadImm
  <1> HIDE DEF u
  <1>2. IsOp(Unit("LI", rd, 0, 0, v, 0, e))
    BY UnitIsOp DEF FrameOps, PairOps, BzOps, Simple, Jumps, Branches, InsnOps
  <1>3. u.op # "none" => IsOp(u) /\ u.width = e
    BY <1>1, <1>2, NoUnitFits, UnitFields
  <1> QED BY <1>3 DEF u

LEMMA LaFits ==
  ASSUME NEW c, IsProgram(c), NEW T, NEW i \in DOMAIN c
  PROVE Fits(c, T, i, FuseLa(c, T, i))
  <1> DEFINE u == FuseLa(c, T, i)
             n == Cardinality(DOMAIN c)
  <1>1. CASE i + 2 > n \/ i + 1 \in T
    BY <1>1, NoUnitFits DEF FuseLa
  <1>2. CASE ~(i + 2 > n \/ i + 1 \in T)
    <2> DEFINE a == Decode(c, i)
               b == Decode(c, i + 1)
               final == Wrap(4 * i + a.imm + b.imm)
               near == Signed(final) \in (0 - LiRange) .. (LiRange - 1)
    <2>1. n \in Nat /\ i \in Nat /\ DOMAIN c = 0 .. (n - 1)
      BY Numbered
    <2>2. i + 2 <= n /\ i + 1 \in DOMAIN c /\ i + 1 \notin T
      <3> HIDE DEF n
      <3> QED BY <1>2, <2>1
    <2>3. a.imm \in Int /\ b.imm \in Int
      BY <2>2, DecodeFacts
    <2>4. u = NoUnit \/ u = LoadImm(a.rd, final, near, 2)
      <3> HIDE DEF a, b, final, near
      <3> QED BY <1>2 DEF FuseLa, a, b, final, near
    <2> HIDE DEF a, b, near
    <2>5. 4 * i + a.imm + b.imm \in Int
      BY <2>1, <2>3
    <2>6. final \in Nat
      BY <2>5, WordFacts
    <2> HIDE DEF final, u
    <2>7. u.op # "none" => IsOp(u) /\ u.width = 2
      BY <2>4, <2>6, LoadImmIsOp, NoUnitFits
    <2>8. Fits(c, T, i, u)
      BY <2>1, <2>2, <2>7, TwoFit
    <2> QED BY <2>8 DEF u
  <1> QED BY <1>1, <1>2

LEMMA LoneAuipcFits ==
  ASSUME NEW c, IsProgram(c), NEW T, NEW i \in DOMAIN c
  PROVE Fits(c, T, i, LoneAuipc(Decode(c, i), i))
  <1> DEFINE d == Decode(c, i)
             val == Wrap(4 * i + d.imm)
             near == Signed(val) \in (0 - LiRange) .. (0 - LoRange - 1)
             u == LoneAuipc(d, i)
             n == Cardinality(DOMAIN c)
  <1>1. n \in Nat /\ i \in 0 .. (n - 1)
    BY Numbered
  <1>2. d.imm \in Int
    BY DecodeFacts
  <1>3. u = NoUnit \/ u = LoadImm(d.rd, val, near, 1)
    BY DEF LoneAuipc
  <1> HIDE DEF d, near, u, n
  <1>4. val \in Nat
    BY <1>1, <1>2, WordFacts
  <1> HIDE DEF val
  <1>5. u.op # "none" => IsOp(u) /\ u.width = 1
    BY <1>3, <1>4, LoadImmIsOp, NoUnitFits
  <1>6. i + 1 <= n /\ \A t \in (i + 1) .. (i + 1 - 1) : t \notin T
    BY <1>1
  <1>7. Fits(c, T, i, u)
    BY <1>5, <1>6 DEF Fits, n
  <1> QED BY <1>7 DEF u, d

\* The first attempt that matched is one of the attempts.
LEMMA FirstMatches ==
  ASSUME NEW s, NEW m \in Nat, DOMAIN s = 1 .. m
  PROVE \/ FirstOf(s) = NoUnit /\ \A j \in 1 .. m : s[j].op = "none"
        \/ \E j \in 1 .. m : s[j].op # "none" /\ FirstOf(s) = s[j]
  <1> DEFINE M == {j \in DOMAIN s : s[j].op # "none"}
             Q == {m - j : j \in M}
  <1>1. CASE M = {}
    BY <1>1 DEF FirstOf
  <1>2. CASE M # {}
    <2>1. M \subseteq 1 .. m
      OBVIOUS
    <2>2. FirstOf(s) = s[CHOOSE j \in M : \A h \in M : j <= h]
      BY <1>2 DEF FirstOf
    <2>3. \A j \in M : s[j].op # "none"
      OBVIOUS
    <2> HIDE DEF M
    <2>4. Q \subseteq 0 .. m /\ Q # {}
      <3>1. \A j \in M : m - j \in 0 .. m
        BY <2>1
      <3>2. PICK j : j \in M
        BY <1>2
      <3>3. m - j \in Q
        BY <3>2
      <3> QED BY <3>1, <3>3
    <2>5. PICK e \in Q : \A d \in Q : d <= e
      BY <2>4, LargestExists
    <2>6. PICK j \in M : e = m - j
      BY <2>5
    <2>7. ASSUME NEW h \in M PROVE j <= h
      <3>1. m - h <= e
        BY <2>5
      <3> QED BY <2>1, <2>6, <3>1
    <2>8. (CHOOSE q \in M : \A h \in M : q <= h) \in M
      BY <2>7
    <2> QED BY <2>1, <2>2, <2>3, <2>8
  <1> QED BY <1>1, <1>2

\* Attempts that all fit; attempts none of which matched.
AllFit(c, T, i, s, m) == m \in Nat /\ DOMAIN s = 1 .. m /\ \A j \in 1 .. m : Fits(c, T, i, s[j])
NoneMatches(s, m) == \A j \in 1 .. m : s[j].op = "none"

\* The first of several attempts fits when each of them does.
LEMMA FirstFits ==
  ASSUME NEW c, NEW T, NEW i, NEW s, NEW m, AllFit(c, T, i, s, m)
  PROVE Fits(c, T, i, FirstOf(s)) /\ (FirstOf(s).op = "none" => NoneMatches(s, m))
  BY FirstMatches, NoUnitFits DEF AllFit, NoneMatches

LEMMA PairFits ==
  ASSUME NEW c, IsProgram(c), NEW T, NEW i \in DOMAIN c
  PROVE Fits(c, T, i, FusePair(c, T, i))
  <1> DEFINE n == Cardinality(DOMAIN c)
  <1>1. CASE i + 2 > n \/ i + 1 \in T
    BY <1>1, NoUnitFits DEF FusePair
  <1>2. CASE ~(i + 2 > n \/ i + 1 \in T)
    <2>1. n \in Nat /\ i \in Nat /\ DOMAIN c = 0 .. (n - 1)
      BY Numbered
    <2>2. Second(c, T, i)
      <3>1. i + 1 \in 0 .. (n - 1) /\ i + 2 <= n
        <4> HIDE DEF n
        <4> QED BY <1>2, <2>1
      <3> HIDE DEF n
      <3>2. i + 1 \in DOMAIN c
        BY <2>1, <3>1
      <3> QED BY <1>2, <2>1, <3>1, <3>2 DEF Second, n
    <2> DEFINE a == Decode(c, i)
               b == Decode(c, i + 1)
               s == <<FuseShadd(a, b), FuseLwx(a, b), FuseLwlw(c, T, i, a, b),
                      FuseLwsw(a, b), FuseLoadBz(a, b)>>
    <2>3. FusePair(c, T, i) = FirstOf(s)
      <3> HIDE DEF s
      <3> QED BY <1>2 DEF FusePair, s
    <2>4. /\ Fits(c, T, i, FuseShadd(a, b)) /\ Fits(c, T, i, FuseLwx(a, b))
          /\ Fits(c, T, i, FuseLwlw(c, T, i, a, b)) /\ Fits(c, T, i, FuseLwsw(a, b))
          /\ Fits(c, T, i, FuseLoadBz(a, b))
      BY <2>2, ShaddFits, LwxFits, LwlwFits, LwswFits, LoadBzFits
    <2>5. AllFit(c, T, i, s, 5)
      <3> HIDE DEF a, b
      <3> QED BY <2>4 DEF AllFit
    <2> HIDE DEF s
    <2> QED BY <2>3, <2>5, FirstFits
  <1> QED BY <1>1, <1>2

\* The rank of a saved register names a place in the list.
LEMMA RankIsPlace ==
  ASSUME NEW r, RankOf(r) >= 0
  PROVE RankOf(r) \in Ranks
  <1>1. Len(RankReg) \in Nat /\ DOMAIN RankReg = 1 .. Len(RankReg)
    BY MachineAssumption
  <1> DEFINE j == CHOOSE q \in DOMAIN RankReg : RankReg[q] = r
  <1>2. CASE \E q \in DOMAIN RankReg : RankReg[q] = r
    <2>1. j \in 1 .. Len(RankReg)
      BY <1>1, <1>2
    <2>2. RankOf(r) = j - 1
      BY <1>2 DEF RankOf
    <2> HIDE DEF j
    <2> QED BY <1>1, <2>1, <2>2 DEF Ranks
  <1>3. CASE ~\E q \in DOMAIN RankReg : RankReg[q] = r
    <2>1. RankOf(r) = -1
      BY <1>3 DEF RankOf
    <2> QED BY <2>1
  <1> QED BY <1>2, <1>3

\* A frame op, from its registers.
LEMMA FrameIsOp ==
  ASSUME NEW op \in FrameOps, NEW R, \A r \in R : RankOf(r) \in Ranks, NEW N \in Int, NEW e
  PROVE LET u == FrameUnit(op, R, N, e) IN u.op = op /\ IsOp(u) /\ u.width = e
  <1> DEFINE mask == {RankOf(r) : r \in R}
  <1>1. FrameUnit(op, R, N, e) = Unit(op, 0, mask, 0, N, 0, e)
    BY DEF FrameUnit, Unit
  <1>2. mask \subseteq Ranks
    OBVIOUS
  <1> HIDE DEF mask
  <1>3. op \notin PairOps \cup BzOps \cup Simple \cup Jumps \cup {"LI", "SHADD", "LWSW"}
    BY DEF FrameOps, PairOps, BzOps, Simple, Jumps, Branches, InsnOps
  <1>4. IsOp(Unit(op, 0, mask, 0, N, 0, e))
    BY <1>2, <1>3, UnitIsOp
  <1> QED BY <1>1, <1>4, UnitFields

\* The longest of the runs that fit is one of them.
LEMMA LongestFits ==
  ASSUME NEW m \in Nat, NEW S, S \subseteq 0 .. m, S # {}
  PROVE (CHOOSE c \in S : \A d \in S : d <= c) \in S
  <1>1. \E c \in S : \A d \in S : d <= c
    BY LargestExists
  <1> QED BY <1>1

\* What the run of saves, or of restores, looks like.
LEMMA PrologueFits ==
  ASSUME NEW c, IsProgram(c), NEW T, NEW i \in DOMAIN c
  PROVE Fits(c, T, i, FusePrologue(c, T, i))
  <1> DEFINE n == Cardinality(DOMAIN c)
             a == Decode(c, i)
             N == 0 - a.imm
             save(j) == /\ j \notin T /\ Decode(c, j).op = "sw" /\ Decode(c, j).rs1 = SpReg
                        /\ RankOf(Decode(c, j).rs2) >= 0
             S == {q \in 0 .. Len(RankReg) : i + 1 + q <= n
                                             /\ \A j \in (i + 1) .. (i + 1 + q - 1) : save(j)}
             cnt == CHOOSE q \in S : \A d \in S : d <= q
             slots == [q \in 1 .. cnt |-> [reg |-> c[i + q].rs2, off |-> c[i + q].imm]]
             R == {slots[q].reg : q \in 1 .. cnt}
             u == FusePrologue(c, T, i)
  <1>1. u = NoUnit \/ u = FrameUnit("PROLOGUE", R, N, 1 + cnt)
    BY DEF FusePrologue, RunOf
  <1>2. n \in Nat /\ i \in 0 .. (n - 1) /\ DOMAIN c = 0 .. (n - 1)
    BY Numbered
  <1>3. a.imm \in Int
    BY DecodeFacts
  <1>4. Len(RankReg) \in Nat
    BY MachineAssumption
  <1> HIDE DEF n, a, u
  <1>5. cnt \in S
    <2>1. 0 \in S
      BY <1>2, <1>4
    <2>2. S \subseteq 0 .. Len(RankReg)
      OBVIOUS
    <2> HIDE DEF S
    <2> QED BY <1>4, <2>1, <2>2, LongestFits
  <1>6. cnt \in Nat /\ i + 1 + cnt <= n /\ \A j \in (i + 1) .. (i + 1 + cnt - 1) : save(j)
    <2> HIDE DEF cnt
    <2> QED BY <1>4, <1>5
  <1> HIDE DEF S, cnt
  <1>7. \A r \in R : RankOf(r) \in Ranks
    <2>1. ASSUME NEW q \in 1 .. cnt PROVE RankOf(c[i + q].rs2) \in Ranks
      <3>1. i + q \in (i + 1) .. (i + 1 + cnt - 1) /\ i + q \in DOMAIN c
        BY <1>2, <1>6
      <3>2. RankOf(Decode(c, i + q).rs2) >= 0
        BY <1>6, <3>1
      <3>3. Decode(c, i + q).rs2 = c[i + q].rs2
        BY <3>1, DecodeFacts
      <3> QED BY <3>2, <3>3, RankIsPlace
    <2> QED BY <2>1
  <1>8. N \in Int
    BY <1>3
  <1> HIDE DEF R, N
  <1>9. u.op # "none" => IsOp(u) /\ u.width = 1 + cnt
    BY <1>1, <1>7, <1>8, FrameIsOp, NoUnitFits DEF FrameOps
  <1>10. 1 + cnt \in Nat \ {0} /\ i + (1 + cnt) <= n
    BY <1>2, <1>6
  <1>11. \A t \in (i + 1) .. (i + (1 + cnt) - 1) : t \notin T
    <2>1. i + (1 + cnt) - 1 = i + 1 + cnt - 1
      BY <1>2, <1>6
    <2> QED BY <1>6, <2>1
  <1>12. Fits(c, T, i, u)
    BY <1>9, <1>10, <1>11 DEF Fits, n
  <1> QED BY <1>12 DEF u

LEMMA EpilogueFits ==
  ASSUME NEW c, IsProgram(c), NEW T, NEW i \in DOMAIN c
  PROVE Fits(c, T, i, FuseEpilogue(c, T, i))
  <1> DEFINE n == Cardinality(DOMAIN c)
             restore(j) == /\ j = i \/ j \notin T
                           /\ Decode(c, j).op = "lw" /\ Decode(c, j).rs1 = SpReg
                           /\ RankOf(Decode(c, j).rd) >= 0
             S == {q \in 0 .. Len(RankReg) : i + q <= n
                                             /\ \A j \in i .. (i + q - 1) : restore(j)}
             cnt == CHOOSE q \in S : \A d \in S : d <= q
             o == i + cnt
             slots == [q \in 1 .. cnt |-> [reg |-> c[i + q - 1].rd, off |-> c[i + q - 1].imm]]
             R == {slots[q].reg : q \in 1 .. cnt}
             ends == cnt > 0 /\ o + 2 <= n /\ {o, o + 1} \cap T = {}
             u == FuseEpilogue(c, T, i)
  <1>1. u = NoUnit \/ (ends /\ u = FrameUnit("EPILOGUE", R, c[o].imm, cnt + 2))
    <2> DEFINE ad == Decode(c, o)
               rt == Decode(c, o + 1)
               ok == /\ cnt > 0 /\ o + 2 <= n /\ {o, o + 1} \cap T = {}
                     /\ /\ ad.op = "addi" /\ ad.rd = SpReg /\ ad.rs1 = SpReg /\ ad.imm \in 1 .. FrameMax
                        /\ rt.op = "jalr" /\ rt.rd = 0 /\ rt.rs1 = RaReg /\ rt.imm = 0
                        /\ FrameCanonical(slots, ad.imm)
    <2>1. u = IF ok THEN FrameUnit("EPILOGUE", R, c[o].imm, cnt + 2) ELSE NoUnit
      BY DEF FuseEpilogue, RunOf
    <2>2. ok => ends
      <3> HIDE DEF cnt, n, ad, rt
      <3> QED OBVIOUS
    <2> HIDE DEF ok, ends, u, R
    <2> QED BY <2>1, <2>2
  <1>2. n \in Nat /\ i \in 0 .. (n - 1) /\ DOMAIN c = 0 .. (n - 1)
    BY Numbered
  <1>3. Len(RankReg) \in Nat
    BY MachineAssumption
  <1> HIDE DEF n, u
  <1>4. cnt \in S
    <2>1. 0 \in S
      BY <1>2, <1>3
    <2>2. S \subseteq 0 .. Len(RankReg)
      OBVIOUS
    <2> HIDE DEF S
    <2> QED BY <1>3, <2>1, <2>2, LongestFits
  <1>5. cnt \in Nat /\ i + cnt <= n /\ \A j \in i .. (i + cnt - 1) : restore(j)
    <2> HIDE DEF cnt
    <2> QED BY <1>3, <1>4
  <1> HIDE DEF S, cnt
  <1>6. CASE u = NoUnit
    BY <1>6, NoUnitFits DEF u
  <1>7. CASE ends /\ u = FrameUnit("EPILOGUE", R, c[o].imm, cnt + 2)
    <2>1. o \in DOMAIN c /\ o + 2 <= n /\ {o, o + 1} \cap T = {} /\ cnt > 0
      BY <1>2, <1>5, <1>7
    <2>2. c[o].imm \in Int
      BY <2>1, DecodeFacts
    <2>3. \A r \in R : RankOf(r) \in Ranks
      <3>1. ASSUME NEW q \in 1 .. cnt PROVE RankOf(c[i + q - 1].rd) \in Ranks
        <4>1. i + q - 1 \in i .. (i + cnt - 1) /\ i + q - 1 \in DOMAIN c
          BY <1>2, <1>5
        <4>2. RankOf(Decode(c, i + q - 1).rd) >= 0
          BY <1>5, <4>1
        <4>3. Decode(c, i + q - 1).rd = c[i + q - 1].rd
          BY <4>1, DecodeFacts
        <4> QED BY <4>2, <4>3, RankIsPlace
      <3> QED BY <3>1
    <2> DEFINE imm == c[o].imm
    <2>4. imm \in Int
      BY <2>2
    <2>5. u = FrameUnit("EPILOGUE", R, imm, cnt + 2)
      BY <1>7
    <2> HIDE DEF R, imm
    <2>6. IsOp(u) /\ u.width = cnt + 2
      BY <2>3, <2>4, <2>5, FrameIsOp DEF FrameOps
    <2>7. cnt + 2 \in Nat \ {0} /\ i + (cnt + 2) <= n
      BY <1>2, <1>5, <2>1
    <2>8. ASSUME NEW t \in (i + 1) .. (i + (cnt + 2) - 1) PROVE t \notin T
      <3>1. t = o \/ t = o + 1 \/ (t \in i .. (i + cnt - 1) /\ t # i)
        BY <1>2, <1>5
      <3> QED BY <1>5, <2>1, <3>1
    <2>9. Fits(c, T, i, u)
      BY <2>6, <2>7, <2>8 DEF Fits, n
    <2> QED BY <2>9 DEF u
  <1> QED BY <1>1, <1>6, <1>7

\* A unit starts at every instruction, and it fits.
LEMMA StepFits ==
  ASSUME NEW c, IsProgram(c), NEW T, NEW i \in DOMAIN c
  PROVE Fits(c, T, i, Step(c, T, i)) /\ Step(c, T, i).op # "none"
  <1> DEFINE d == Decode(c, i)
             s == <<FusePrologue(c, T, i), FuseEpilogue(c, T, i), FuseLa(c, T, i),
                    FusePair(c, T, i), LoneAuipc(d, i), d>>
  <1>1. Step(c, T, i) = FirstOf(s)
    BY DEF Step
  <1>2. /\ Fits(c, T, i, FusePrologue(c, T, i)) /\ Fits(c, T, i, FuseEpilogue(c, T, i))
        /\ Fits(c, T, i, FuseLa(c, T, i)) /\ Fits(c, T, i, FusePair(c, T, i))
        /\ Fits(c, T, i, LoneAuipc(d, i)) /\ Fits(c, T, i, d) /\ d.op # "none"
    BY PrologueFits, EpilogueFits, LaFits, PairFits, LoneAuipcFits, DecodeFits
  <1> HIDE DEF d
  <1>3. AllFit(c, T, i, s, 6) /\ s[6].op # "none"
    BY <1>2 DEF AllFit
  <1> HIDE DEF s
  <1>4. ~NoneMatches(s, 6)
    <2>1. 6 \in 1 .. 6
      OBVIOUS
    <2> QED BY <1>3, <2>1 DEF NoneMatches
  <1> QED BY <1>1, <1>3, <1>4, FirstFits

\* Induction up to m.
LEMMA UpTo ==
  ASSUME NEW m \in Nat, NEW S, 0 \in S, \A q \in 1 .. m : q - 1 \in S => q \in S
  PROVE 0 .. m \subseteq S
  <1> DEFINE E == {q \in Nat : q <= m => q \in S}
  <1>1. 0 \in E
    OBVIOUS
  <1>2. ASSUME NEW q \in Nat, q \in E PROVE q + 1 \in E
    <2>1. q + 1 - 1 = q /\ (q + 1 <= m => q + 1 \in 1 .. m /\ q <= m)
      OBVIOUS
    <2> QED BY <1>2, <2>1
  <1>3. Nat \subseteq E
    <2> HIDE DEF E
    <2> QED BY <1>1, <1>2, SetInduction
  <1> QED BY <1>3

\* words_before: the sums over the units up to m.
IsSum(us, m, f) == f = [h \in 0 .. m |-> IF h = 0 THEN 0 ELSE f[h - 1] + OpWords(us[h].u.op)]

LEMMA SumExists ==
  ASSUME NEW us, NEW m \in Nat
  PROVE \E f : IsSum(us, m, f)
  <1> DEFINE G == [h \in 1 .. m |-> [v \in Nat |-> v + OpWords(us[h].u.op)]]
             z == 0
             NN == Nat
  <1>1. \A h \in 1 .. m : OpWords(us[h].u.op) \in Nat
    BY DEF OpWords
  <1>2. z \in NN /\ G \in StepsTo(m, NN)
    BY <1>1 DEF StepsTo
  <1>3. \A h \in 1 .. m : \A v \in NN : G[h][v] = v + OpWords(us[h].u.op)
    OBVIOUS
  <1> HIDE DEF G, z, NN
  <1>4. PICK f \in [0 .. m -> NN] : f[0] = z /\ \A h \in 1 .. m : f[h] = G[h][f[h - 1]]
    BY <1>2, RecursionTo
  <1>5. \A h \in 1 .. m : h - 1 \in 0 .. m
    OBVIOUS
  <1>6. \A h \in 1 .. m : f[h] = f[h - 1] + OpWords(us[h].u.op)
    BY <1>3, <1>4, <1>5
  <1>7. \A h \in 0 .. m : h = 0 \/ h \in 1 .. m
    OBVIOUS
  <1>8. IsSum(us, m, f)
    BY <1>4, <1>6, <1>7 DEF IsSum, z
  <1> QED BY <1>8

LEMMA SumFacts ==
  ASSUME NEW us, NEW m \in Nat, NEW f, IsSum(us, m, f)
  PROVE /\ f[0] = 0 /\ \A h \in 1 .. m : f[h] = f[h - 1] + OpWords(us[h].u.op)
        /\ \A h \in 0 .. m : f[h] \in Nat
  <1>1. f[0] = 0 /\ \A h \in 1 .. m : f[h] = f[h - 1] + OpWords(us[h].u.op)
    <2>1. \A h \in 0 .. m : f[h] = IF h = 0 THEN 0 ELSE f[h - 1] + OpWords(us[h].u.op)
      BY Zenon DEF IsSum
    <2>2. 0 \in 0 .. m /\ \A h \in 1 .. m : h \in 0 .. m /\ h # 0
      OBVIOUS
    <2> QED BY <2>1, <2>2
  <1>2. \A h \in 1 .. m : OpWords(us[h].u.op) \in Nat
    BY DEF OpWords
  <1> DEFINE E == {h \in 0 .. m : f[h] \in Nat}
  <1>3. 0 \in E
    BY <1>1
  <1>4. ASSUME NEW h \in 1 .. m, h - 1 \in E PROVE h \in E
    BY <1>1, <1>2, <1>4
  <1>5. 0 .. m \subseteq E
    <2> HIDE DEF E
    <2> QED BY <1>3, <1>4, UpTo
  <1> QED BY <1>1, <1>5

\* The ops before a unit: none before the first, then those of the one before more.
LEMMA WordsBeforeFacts ==
  ASSUME NEW us, NEW j \in Nat \ {0}
  PROVE /\ WordsBefore(us, j) \in Nat /\ WordsBefore(us, 1) = 0
        /\ WordsBefore(us, j + 1) = WordsBefore(us, j) + OpWords(us[j].u.op)
  <1> DEFINE sum(i) == CHOOSE f : IsSum(us, i - 1, f)
  <1>1. ASSUME NEW i \in Nat \ {0} PROVE WordsBefore(us, i) = sum(i)[i - 1] /\ IsSum(us, i - 1, sum(i))
    <2>1. i - 1 \in Nat
      OBVIOUS
    <2>2. \E f : IsSum(us, i - 1, f)
      BY <2>1, SumExists
    <2>3. WordsBefore(us, i) = sum(i)[i - 1]
      BY DEF WordsBefore, IsSum
    <2> QED BY <2>2, <2>3
  <1> DEFINE f == sum(j)
             g == sum(j + 1)
             m == j - 1
             o == 1
  <1>2. WordsBefore(us, j) = f[m] /\ IsSum(us, m, f) /\ m \in Nat
    BY <1>1
  <1>3. WordsBefore(us, j + 1) = g[j] /\ IsSum(us, j, g)
    <2>1. j + 1 \in Nat \ {0} /\ j + 1 - 1 = j
      OBVIOUS
    <2> HIDE DEF sum
    <2> QED BY <1>1, <2>1
  <1>4. WordsBefore(us, o) = 0
    <2>1. o \in Nat \ {0} /\ o - 1 = 0 /\ o - 1 \in Nat
      OBVIOUS
    <2>2. WordsBefore(us, o) = sum(o)[o - 1] /\ IsSum(us, o - 1, sum(o))
      <3> HIDE DEF sum, o
      <3> QED BY <1>1, <2>1
    <2> HIDE DEF sum, o
    <2> QED BY <2>1, <2>2, SumFacts
  <1> HIDE DEF f, g, m
  <1>5. /\ f[0] = 0 /\ \A h \in 1 .. m : f[h] = f[h - 1] + OpWords(us[h].u.op)
        /\ \A h \in 0 .. m : f[h] \in Nat
    BY <1>2, SumFacts
  <1>6. g[0] = 0 /\ \A h \in 1 .. j : g[h] = g[h - 1] + OpWords(us[h].u.op)
    BY <1>3, SumFacts
  <1>7. m \in 0 .. m /\ j \in 1 .. j /\ j - 1 = m /\ \A h \in 1 .. m : h \in 1 .. j
    BY <1>2 DEF m
  <1> DEFINE E == {h \in 0 .. m : g[h] = f[h]}
  <1>8. 0 \in E
    BY <1>2, <1>5, <1>6
  <1>9. ASSUME NEW h \in 1 .. m, h - 1 \in E PROVE h \in E
    BY <1>2, <1>5, <1>6, <1>7, <1>9
  <1>10. 0 .. m \subseteq E
    <2> HIDE DEF E
    <2> QED BY <1>2, <1>8, <1>9, UpTo
  <1>11. g[m] = f[m]
    BY <1>7, <1>10
  <1>12. g[j] = g[m] + OpWords(us[j].u.op)
    BY <1>6, <1>7
  <1>13. WordsBefore(us, j) \in Nat
    BY <1>2, <1>5, <1>7
  <1> QED BY <1>2, <1>3, <1>4, <1>11, <1>12, <1>13 DEF o

(* The walk over the program.                                               *)

\* The unit at i, with its head.
UnitAt(c, T, i) == [head |-> i, u |-> Step(c, T, i)]
UnitSet(c, T) == {UnitAt(c, T, i) : i \in DOMAIN c}

\* The walk from i on: its first unit starts there, each starts where the one before
\* it ends, the last ends with the program; a target from i on heads a unit.
Walks(c, T, i) ==
  LET n == Cardinality(DOMAIN c) IN
  {s \in Seq(UnitSet(c, T)) :
     /\ \A t \in T : t \in i .. (n - 1) => \E j \in 1 .. Len(s) : s[j].head = t
     /\ IF i = n THEN Len(s) = 0 ELSE Len(s) > 0 /\ s[1].head = i
     /\ \A j \in 1 .. Len(s) :
          s[j].head + s[j].u.width = IF j = Len(s) THEN n ELSE s[j + 1].head}

\* A sequence with an element put in front.
LEMMA InFront ==
  ASSUME NEW S, NEW v \in S, NEW r \in Seq(S)
  PROVE LET s == <<v>> \o r IN
          /\ s \in Seq(S) /\ Len(s) = Len(r) + 1 /\ s[1] = v
          /\ \A j \in 1 .. Len(r) : j + 1 \in 1 .. Len(s) /\ s[j + 1] = r[j]
  <1>1. <<v>> \in Seq(S) /\ Len(<<v>>) = 1 /\ <<v>>[1] = v
    OBVIOUS
  <1>2. <<v>> \o r \in Seq(S) /\ Len(<<v>> \o r) = Len(r) + 1
    BY <1>1
  <1>3. (<<v>> \o r)[1] = v
    BY <1>1
  <1>4. \A j \in 1 .. Len(r) : j + 1 \in 1 .. Len(<<v>> \o r) /\ (<<v>> \o r)[j + 1] = r[j]
    BY <1>1, <1>2
  <1> QED BY <1>2, <1>3, <1>4

\* A unit in front of a walk from where it ends is a walk.
LEMMA WalkOn ==
  ASSUME NEW c, IsProgram(c), NEW T, NEW i \in DOMAIN c,
         NEW r \in Walks(c, T, i + Step(c, T, i).width)
  PROVE <<UnitAt(c, T, i)>> \o r \in Walks(c, T, i)
  <1> DEFINE n == Cardinality(DOMAIN c)
             e == Step(c, T, i).width
             v == UnitAt(c, T, i)
             s == <<v>> \o r
  <1>1. n \in Nat /\ i \in 0 .. (n - 1)
    BY Numbered
  <1>2. e \in Nat \ {0} /\ i + e <= n /\ \A t \in (i + 1) .. (i + e - 1) : t \notin T
    BY StepFits DEF Fits
  <1>3. v \in UnitSet(c, T) /\ v.head = i /\ v.u.width = e
    BY DEF UnitSet, UnitAt
  <1>4. r \in Seq(UnitSet(c, T)) /\ Len(r) \in Nat
        /\ (\A t \in T : t \in (i + e) .. (n - 1) => \E j \in 1 .. Len(r) : r[j].head = t)
        /\ (IF i + e = n THEN Len(r) = 0 ELSE Len(r) > 0 /\ r[1].head = i + e)
        /\ \A j \in 1 .. Len(r) :
             r[j].head + r[j].u.width = IF j = Len(r) THEN n ELSE r[j + 1].head
    BY DEF Walks
  <1> HIDE DEF v, n, e
  <1>5. /\ s \in Seq(UnitSet(c, T)) /\ Len(s) = Len(r) + 1 /\ s[1] = v
        /\ \A j \in 1 .. Len(r) : j + 1 \in 1 .. Len(s) /\ s[j + 1] = r[j]
    BY <1>3, <1>4, InFront
  <1> HIDE DEF s
  <1>6. ASSUME NEW t \in T, t \in i .. (n - 1) PROVE \E j \in 1 .. Len(s) : s[j].head = t
    <2>1. CASE t = i
      <3>1. 1 \in 1 .. Len(s)
        BY <1>4, <1>5
      <3> QED BY <1>3, <1>5, <2>1, <3>1
    <2>2. CASE t # i
      <3>1. t \in (i + e) .. (n - 1)
        BY <1>1, <1>2, <1>6, <2>2
      <3>2. PICK j \in 1 .. Len(r) : r[j].head = t
        BY <1>4, <3>1
      <3> QED BY <1>5, <3>2
    <2> QED BY <2>1, <2>2
  <1>7. i # n /\ Len(s) > 0 /\ s[1].head = i
    BY <1>1, <1>3, <1>4, <1>5
  <1>8. ASSUME NEW j \in 1 .. Len(s)
        PROVE s[j].head + s[j].u.width = IF j = Len(s) THEN n ELSE s[j + 1].head
    <2>1. CASE j = 1
      <3>1. s[j].head + s[j].u.width = i + e
        BY <1>3, <1>5, <2>1
      <3>2. CASE Len(r) = 0
        BY <1>1, <1>2, <1>4, <1>5, <2>1, <3>1, <3>2
      <3>3. CASE Len(r) # 0
        <4>1. 1 \in 1 .. Len(r) /\ j # Len(s)
          BY <1>4, <1>5, <2>1, <3>3
        <4>2. s[1 + 1] = r[1]
          BY <1>5, <4>1
        <4> QED BY <1>4, <2>1, <3>1, <3>3, <4>1, <4>2
      <3> QED BY <3>2, <3>3
    <2>2. CASE j # 1
      <3> DEFINE q == j - 1
      <3>1. q \in 1 .. Len(r) /\ q + 1 = j /\ (q = Len(r) <=> j = Len(s))
        BY <1>4, <1>5, <2>2
      <3> HIDE DEF q
      <3>2. s[j] = r[q] /\ (q # Len(r) => q + 1 \in 1 .. Len(r) /\ s[j + 1] = r[q + 1])
        <4>1. q # Len(r) => q + 1 \in 1 .. Len(r)
          BY <1>4, <3>1
        <4> QED BY <1>5, <3>1, <4>1
      <3> QED BY <1>4, <3>1, <3>2
    <2> QED BY <2>1, <2>2
  <1>9. s \in Walks(c, T, i)
    BY <1>5, <1>6, <1>7, <1>8 DEF Walks, n
  <1> QED BY <1>9 DEF s, v

\* The recursion of the walk, and that it has a solution.
IsWalk(c, T, n, f) ==
  f = [i \in 0 .. n |->
         IF i = n THEN <<>>
         ELSE LET u == Step(c, T, i) IN <<[head |-> i, u |-> u]>> \o f[i + u.width]]

LEMMA WalkExists ==
  ASSUME NEW c, IsProgram(c), NEW T, NEW n, n = Cardinality(DOMAIN c)
  PROVE \E f : IsWalk(c, T, n, f)
  <1> DEFINE Next1(f, i) == <<UnitAt(c, T, i)>> \o f[i + Step(c, T, i).width]
             Body(f, i) == IF i = n THEN <<>> ELSE Next1(f, i)
             Is(f, q) == f = [i \in (n - q) .. n |-> Body(f, i)]
             E == {q \in Nat : q <= n => \E f : Is(f, q)}
  <1>1. n \in Nat /\ DOMAIN c = 0 .. (n - 1)
    BY Numbered
  <1>2. 0 \in E
    <2> DEFINE f == [i \in (n - 0) .. n |-> <<>>]
    <2>1. \A i \in (n - 0) .. n : i = n
      BY <1>1
    <2>2. Is(f, 0)
      BY <2>1
    <2> HIDE DEF f, Is
    <2> QED BY <2>2
  <1>3. ASSUME NEW q \in Nat, q \in E PROVE q + 1 \in E
    <2> SUFFICES ASSUME q + 1 <= n PROVE \E f : Is(f, q + 1)
      OBVIOUS
    <2>1. PICK f : Is(f, q)
      BY <1>1, <1>3
    <2> DEFINE a == n - (q + 1)
               g == [i \in a .. n |-> IF i = a THEN Next1(f, a) ELSE f[i]]
    <2>2. a \in DOMAIN c /\ a \in Nat /\ a + 1 = n - q /\ a # n
      <3>1. n \in Nat
        BY <1>1
      <3>2. a \in 0 .. (n - 1) /\ a + 1 = n - q
        BY ONLY <3>1, q \in Nat, q + 1 <= n
      <3> HIDE DEF a
      <3> QED BY ONLY <1>1, <3>2
    <2>3. DOMAIN f = (a + 1) .. n /\ \A i \in (a + 1) .. n : f[i] = Body(f, i)
      <3> HIDE DEF Body, a
      <3> QED BY <2>1, <2>2
    <2> HIDE DEF a
    <2>4. \A i \in a .. (n - 1) : i + Step(c, T, i).width \in (i + 1) .. n
      <3> TAKE i \in a .. (n - 1)
      <3>1. i \in DOMAIN c /\ i \in Nat
        <4>1. n \in Nat /\ a \in Nat
          BY <1>1, <2>2
        <4>2. i \in 0 .. (n - 1)
          BY ONLY <4>1, i \in a .. (n - 1)
        <4> QED BY ONLY <1>1, <4>2
      <3>2. Step(c, T, i).width \in Nat \ {0} /\ i + Step(c, T, i).width <= n
        BY <3>1, StepFits DEF Fits
      <3> QED BY <3>1, <3>2
    <2>5. ASSUME NEW i \in a .. n PROVE g[i] = Body(g, i)
      <3>1. CASE i = n
        <4>1. g[i] = f[n]
          BY <2>2, <3>1
        <4>2. n \in (a + 1) .. n
          BY <1>1, <2>2
        <4> QED BY <2>3, <3>1, <4>1, <4>2
      <3>2. CASE i \in a .. (n - 1)
        <4>1. i + Step(c, T, i).width \in (i + 1) .. n
          BY <2>4, <3>2
        <4> DEFINE h == i + Step(c, T, i).width
        <4>2. h \in a .. n /\ h # a
          <5> HIDE DEF h
          <5>1. h \in (i + 1) .. n
            BY <4>1 DEF h
          <5> QED BY <1>1, <2>2, <3>2, <5>1
        <4> HIDE DEF h
        <4>3. g[h] = f[h]
          BY <4>2
        <4>4. Next1(g, i) = Next1(f, i)
          <5> HIDE DEF g
          <5> QED BY <4>3 DEF h
        <4>5. g[i] = Next1(f, i)
          <5>1. CASE i = a
            BY <5>1
          <5>2. CASE i # a
            <6>1. i \in (a + 1) .. n /\ i # n
              BY <1>1, <2>2, <3>2, <5>2
            <6>2. g[i] = f[i]
              BY <5>2
            <6> HIDE DEF g, Next1
            <6> QED BY <2>3, <6>1, <6>2
          <5> QED BY <5>1, <5>2
        <4>6. i # n
          BY <1>1, <2>2, <3>2
        <4> HIDE DEF g, Next1
        <4> QED BY <4>4, <4>5, <4>6
      <3>3. i = n \/ i \in a .. (n - 1)
        BY <1>1, <2>2
      <3> QED BY <3>1, <3>2, <3>3
    <2>6. Is(g, q + 1)
      <3>1. DOMAIN g = a .. n /\ g = [i \in a .. n |-> g[i]]
        OBVIOUS
      <3>2. g = [i \in a .. n |-> Body(g, i)]
        <4> HIDE DEF g, Body
        <4> QED BY <2>5, <3>1
      <3> HIDE DEF g, Body
      <3> QED BY <3>2 DEF a
    <2> HIDE DEF g, Is
    <2> QED BY <2>6
  <1>4. Nat \subseteq E
    <2> HIDE DEF E
    <2> QED BY <1>2, <1>3, SetInduction
  <1>5. PICK f : Is(f, n)
    <2> HIDE DEF Is
    <2> QED BY <1>1, <1>4
  <1>6. f = [i \in 0 .. n |-> Body(f, i)]
    <2>1. n - n = 0
      BY <1>1
    <2> HIDE DEF Body
    <2> QED BY <1>5, <2>1
  <1>7. IsWalk(c, T, n, f)
    BY <1>6 DEF UnitAt, IsWalk
  <1> QED BY <1>7

\* Both passes walk the whole program.
LEMMA UnitsWalk ==
  ASSUME NEW c, IsProgram(c), NEW T
  PROVE Units(c, T) \in Walks(c, T, 0)
  <1> DEFINE n == Cardinality(DOMAIN c)
             from == CHOOSE f : IsWalk(c, T, n, f)
             E == {q \in 0 .. n : \A i \in (n - q) .. n : from[i] \in Walks(c, T, i)}
  <1>1. Units(c, T) = from[0]
    BY DEF Units, IsWalk
  <1>2. n \in Nat /\ DOMAIN c = 0 .. (n - 1)
    BY Numbered
  <1>3. IsWalk(c, T, n, from)
    <2>1. n = Cardinality(DOMAIN c)
      OBVIOUS
    <2> HIDE DEF n
    <2>2. \E f : IsWalk(c, T, n, f)
      BY <2>1, WalkExists
    <2> QED BY <2>2
  <1>4. \A i \in 0 .. n : from[i] = IF i = n THEN <<>>
                                    ELSE <<UnitAt(c, T, i)>> \o from[i + Step(c, T, i).width]
    <2> HIDE DEF from, n
    <2> QED BY <1>3 DEF UnitAt, IsWalk
  <1>5. n = Cardinality(DOMAIN c)
    OBVIOUS
  <1> HIDE DEF from, n
  <1>6. from[n] \in Walks(c, T, n)
    <2>1. from[n] = <<>>
      <3>1. n \in 0 .. n
        BY ONLY <1>2
      <3> QED BY <1>4, <3>1
    <2>2. <<>> \in Seq(UnitSet(c, T)) /\ Len(<<>>) = 0
      OBVIOUS
    <2>3. \A t : t \notin n .. (n - 1)
      BY ONLY <1>2
    <2> QED BY <1>5, <2>1, <2>2, <2>3 DEF Walks
  <1>7. 0 \in E
    <2>1. 0 \in 0 .. n /\ \A i \in (n - 0) .. n : i = n
      BY ONLY <1>2
    <2> QED BY <1>6, <2>1
  <1>8. ASSUME NEW q \in 1 .. n, q - 1 \in E PROVE q \in E
    <2> DEFINE a == n - q
    <2>1. a \in 0 .. (n - 1) /\ a \in 0 .. n /\ a # n /\ q \in 0 .. n /\ a \in Nat
      BY ONLY <1>2, q \in 1 .. n
    <2>2. \A i \in (n - (q - 1)) .. n : from[i] \in Walks(c, T, i)
      BY <1>8
    <2>3. a \in DOMAIN c
      BY ONLY <1>2, <2>1
    <2> DEFINE h == a + Step(c, T, a).width
    <2>4. h \in (n - (q - 1)) .. n
      <3>1. Step(c, T, a).width \in Nat \ {0} /\ a + Step(c, T, a).width <= n
        <4> HIDE DEF a
        <4> QED BY <1>5, <2>3, StepFits DEF Fits
      <3> DEFINE e == Step(c, T, a).width
      <3> HIDE DEF e
      <3>2. e \in Nat \ {0} /\ a + e <= n
        BY <3>1 DEF e
      <3>3. a + e \in (n - (q - 1)) .. n
        BY ONLY <1>2, <3>2, q \in 1 .. n
      <3> QED BY <3>3 DEF e
    <2>5. from[h] \in Walks(c, T, h)
      <3> HIDE DEF h
      <3> QED BY <2>2, <2>4
    <2>6. from[a] = <<UnitAt(c, T, a)>> \o from[h]
      <3> HIDE DEF a
      <3> QED BY <1>4, <2>1
    <2>7. from[a] \in Walks(c, T, a)
      <3> HIDE DEF a
      <3> QED BY <2>3, <2>5, <2>6, WalkOn
    <2>8. ASSUME NEW i \in a .. n PROVE from[i] \in Walks(c, T, i)
      <3>1. i = a \/ i \in (n - (q - 1)) .. n
        BY ONLY <1>2, q \in 1 .. n, i \in a .. n
      <3> HIDE DEF a
      <3> QED BY <2>2, <2>7, <3>1
    <2> QED BY <2>1, <2>8
  <1>9. 0 .. n \subseteq E
    <2> HIDE DEF E
    <2> QED BY <1>2, <1>7, <1>8, UpTo
  <1>10. n \in E
    <2>1. n \in 0 .. n
      BY ONLY <1>2
    <2> QED BY <1>9, <2>1
  <1>11. 0 \in (n - n) .. n
    BY ONLY <1>2
  <1>12. \A i \in (n - n) .. n : from[i] \in Walks(c, T, i)
    BY <1>10
  <1>13. from[0] \in Walks(c, T, 0)
    <2> DEFINE z == 0
    <2> HIDE DEF z
    <2>1. z \in (n - n) .. n
      BY <1>11 DEF z
    <2>2. from[z] \in Walks(c, T, z)
      BY <1>12, <2>1
    <2> QED BY <2>2 DEF z
  <1> QED BY <1>1, <1>13

\* build_map: op indices, one for every target.
LEMMA MapFacts ==
  ASSUME NEW c, IsProgram(c), NEW T, NEW us, us = Units(c, T)
  PROVE /\ us \in Seq(UnitSet(c, T))
        /\ \A i \in DOMAIN BuildMap(us) : BuildMap(us)[i] \in Nat
        /\ \A t \in T : t \in DOMAIN c => t \in DOMAIN BuildMap(us)
  <1>1. us \in Walks(c, T, 0)
    BY UnitsWalk
  <1>2. us \in Seq(UnitSet(c, T)) /\ DOMAIN us = 1 .. Len(us) /\ Len(us) \in Nat
    BY <1>1 DEF Walks
  <1>3. DOMAIN BuildMap(us) = {us[j].head : j \in DOMAIN us}
    BY DEF BuildMap
  <1>4. ASSUME NEW i \in DOMAIN BuildMap(us) PROVE BuildMap(us)[i] \in Nat
    <2> DEFINE q == CHOOSE j \in DOMAIN us : us[j].head = i
    <2>1. \E j \in DOMAIN us : us[j].head = i
      BY <1>3
    <2>2. q \in DOMAIN us
      BY <2>1
    <2>3. BuildMap(us)[i] = WordsBefore(us, q)
      BY <1>3 DEF BuildMap
    <2> HIDE DEF q
    <2>4. q \in Nat \ {0}
      BY <1>2, <2>2
    <2> QED BY <2>3, <2>4, WordsBeforeFacts
  <1>5. ASSUME NEW t \in T, t \in DOMAIN c PROVE t \in DOMAIN BuildMap(us)
    <2>1. t \in 0 .. (Cardinality(DOMAIN c) - 1)
      BY <1>5, Numbered
    <2>2. \E j \in 1 .. Len(us) : us[j].head = t
      BY <1>1, <2>1 DEF Walks
    <2> QED BY <1>2, <1>3, <2>2
  <1> QED BY <1>2, <1>4, <1>5

(* The ops.                                                                 *)

\* A word of the program: an op, or the displacement of the one before it.
IsWord(o) == o.op # "disp" => IsOp(o)

\* The op words of a program.
AreOps(ops) == (\E S : ops \in Seq(S)) /\ \A j \in DOMAIN ops : IsWord(ops[j])

\* What the units can be emitted as.
Emitted(us) ==
  {[us[j].u EXCEPT !.target = a] : j \in DOMAIN us, a \in Nat}
    \cup {[us[j].u EXCEPT !.op = "disp"] : j \in DOMAIN us} \cup {us[j].u : j \in DOMAIN us}

\* Retargeting an op, or giving it another number to add, leaves it an op.
LEMMA Retargeted ==
  ASSUME NEW o, IsOp(o), NEW a \in Nat
  PROVE IsOp([o EXCEPT !.target = a])
  <1> DEFINE v == [o EXCEPT !.target = a]
  <1>1. o = Unit(o.op, o.rd, o.rs1, o.rs2, o.imm, o.target, o.width)
    BY DEF IsOp
  <1>2. v = Unit(o.op, o.rd, o.rs1, o.rs2, o.imm, a, o.width)
    <2>1. DOMAIN o = {"op", "rd", "rs1", "rs2", "imm", "target", "width"}
      BY <1>1 DEF Unit
    <2> QED BY <1>1, <2>1 DEF Unit
  <1> HIDE DEF v
  <1>3. IsOp(Unit(o.op, o.rd, o.rs1, o.rs2, o.imm, a, o.width))
    BY UnitIsOp DEF IsOp
  <1>4. IsOp(v)
    BY <1>2, <1>3
  <1> QED BY <1>4 DEF v

LEMMA Reencoded ==
  ASSUME NEW o, IsOp(o), o.op \in Imm16Low \cup {"auipc"}, NEW a \in Int
  PROVE IsOp([o EXCEPT !.imm = a])
  <1> DEFINE v == [o EXCEPT !.imm = a]
  <1>1. o = Unit(o.op, o.rd, o.rs1, o.rs2, o.imm, o.target, o.width)
    BY DEF IsOp
  <1>2. v = Unit(o.op, o.rd, o.rs1, o.rs2, a, o.target, o.width)
    <2>1. DOMAIN o = {"op", "rd", "rs1", "rs2", "imm", "target", "width"}
      BY <1>1 DEF Unit
    <2> QED BY <1>1, <2>1 DEF Unit
  <1> HIDE DEF v
  <1>3. o.op \notin FrameOps \cup PairOps \cup {"LI", "SHADD", "LWSW"}
    BY DEF Imm16Low, FrameOps, PairOps
  <1>4. IsOp(Unit(o.op, o.rd, o.rs1, o.rs2, a, o.target, o.width))
    <2>1. /\ o.op \in Simple => o.rs1 \in Regs /\ o.rs2 \in Regs
          /\ o.op \in BzOps => o.rs1 \in Regs
          /\ o.op \in Jumps => o.target \in Nat
      BY DEF IsOp
    <2> QED BY <1>3, <2>1, UnitIsOp
  <1>5. IsOp(v)
    BY <1>2, <1>4
  <1> QED BY <1>5 DEF v

\* emit produces words.
LEMMA EmitTyped ==
  ASSUME NEW us, NEW j \in DOMAIN us, NEW at \in Nat, NEW map, \A i \in DOMAIN map : map[i] \in Nat
  PROVE Emit(us[j].u, at, map) \in Seq(Emitted(us))
  <1> DEFINE o == us[j].u
             tw == TargetWord(map, o.target, at)
  <1>1. tw \in Nat
    BY DEF TargetWord
  <1>2. /\ [o EXCEPT !.target = tw] \in Emitted(us) /\ [o EXCEPT !.op = "disp"] \in Emitted(us)
        /\ o \in Emitted(us)
    <2> HIDE DEF tw
    <2> QED BY <1>1 DEF Emitted
  <1>3. \/ Emit(o, at, map) = <<>>
        \/ Emit(o, at, map) = <<[o EXCEPT !.target = tw], [o EXCEPT !.op = "disp"]>>
        \/ Emit(o, at, map) = <<[o EXCEPT !.target = tw]>>
        \/ Emit(o, at, map) = <<o>>
    <2> HIDE DEF o
    <2> QED BY DEF Emit
  <1> DEFINE v1 == [o EXCEPT !.target = tw]
             v2 == [o EXCEPT !.op = "disp"]
             U == Emitted(us)
  <1> HIDE DEF v1, v2, U
  <1>4. v1 \in U /\ v2 \in U /\ o \in U
    BY <1>2 DEF v1, v2, U
  <1>5. <<>> \in Seq(U) /\ <<v1, v2>> \in Seq(U) /\ <<v1>> \in Seq(U) /\ <<o>> \in Seq(U)
    <2> HIDE DEF o
    <2> QED BY <1>4
  <1> QED BY <1>3, <1>5 DEF v1, v2, U

\* An emitted word is an op or a displacement.
LEMMA EmittedIsWord ==
  ASSUME NEW c, IsProgram(c), NEW T, NEW us \in Seq(UnitSet(c, T)), NEW v \in Emitted(us)
  PROVE IsWord(v)
  <1>1. ASSUME NEW j \in DOMAIN us PROVE IsOp(us[j].u)
    <2>1. us[j] \in UnitSet(c, T)
      OBVIOUS
    <2>2. PICK i \in DOMAIN c : us[j] = UnitAt(c, T, i)
      BY <2>1 DEF UnitSet
    <2>3. us[j].u = Step(c, T, i)
      BY <2>2 DEF UnitAt
    <2> QED BY <2>3, StepFits DEF Fits
  <1>2. CASE \E j \in DOMAIN us, a \in Nat : v = [us[j].u EXCEPT !.target = a]
    <2>1. IsOp(v)
      BY <1>1, <1>2, Retargeted
    <2> QED BY <2>1 DEF IsWord
  <1>3. CASE \E j \in DOMAIN us : v = [us[j].u EXCEPT !.op = "disp"]
    <2>1. PICK j \in DOMAIN us : v = [us[j].u EXCEPT !.op = "disp"]
      BY <1>3
    <2> DEFINE o == us[j].u
    <2>2. DOMAIN o = {"op", "rd", "rs1", "rs2", "imm", "target", "width"}
      <3>1. o = Unit(o.op, o.rd, o.rs1, o.rs2, o.imm, o.target, o.width)
        BY <1>1 DEF IsOp
      <3> HIDE DEF o
      <3> QED BY <3>1 DEF Unit
    <2>3. v.op = "disp"
      <3>1. v = [o EXCEPT !.op = "disp"]
        BY <2>1
      <3> HIDE DEF o
      <3> QED BY <2>2, <3>1
    <2> QED BY <2>3 DEF IsWord
  <1>4. CASE \E j \in DOMAIN us : v = us[j].u
    BY <1>1, <1>4 DEF IsWord
  <1> QED BY <1>2, <1>3, <1>4 DEF Emitted

\* transcode_ex: the op words after each unit.
IsOps(us, map, m, f) ==
  f = [j \in 0 .. m |-> IF j = 0 THEN <<>> ELSE f[j - 1] \o Emit(us[j].u, Len(f[j - 1]), map)]
OpsAfter(us, map) == CHOOSE f : IsOps(us, map, Len(us), f)

LEMMA OpsAfterFacts ==
  ASSUME NEW c, NEW T, NEW us \in Seq(UnitSet(c, T)), NEW map, \A i \in DOMAIN map : map[i] \in Nat
  PROVE /\ OpsAfter(us, map)[0] = <<>>
        /\ \A j \in 1 .. Len(us) : OpsAfter(us, map)[j]
             = OpsAfter(us, map)[j - 1] \o Emit(us[j].u, Len(OpsAfter(us, map)[j - 1]), map)
        /\ \A j \in 0 .. Len(us) : OpsAfter(us, map)[j] \in Seq(Emitted(us))
  <1> DEFINE m == Len(us)
             U == Emitted(us)
             ops == OpsAfter(us, map)
             G == [j \in 1 .. m |-> [s \in Seq(U) |-> s \o Emit(us[j].u, Len(s), map)]]
  <1>1. m \in Nat /\ DOMAIN us = 1 .. m
    OBVIOUS
  <1>2. ops = CHOOSE f : IsOps(us, map, m, f)
    BY DEF OpsAfter
  <1> HIDE DEF m, ops
  <1>3. ASSUME NEW j \in 1 .. m, NEW s \in Seq(U)
        PROVE s \o Emit(us[j].u, Len(s), map) \in Seq(U)
    <2>1. Len(s) \in Nat
      BY <1>3
    <2>2. Emit(us[j].u, Len(s), map) \in Seq(U)
      BY <1>1, <2>1, EmitTyped
    <2> HIDE DEF U
    <2> QED BY <1>3, <2>2
  <1> DEFINE Z == Seq(U)
             b == << >>
  <1>4. b \in Z
    OBVIOUS
  <1> HIDE DEF U
  <1>5. G \in StepsTo(m, Z)
    BY <1>3 DEF StepsTo
  <1>6. \A j \in 1 .. m : \A s \in Z : G[j][s] = s \o Emit(us[j].u, Len(s), map)
    OBVIOUS
  <1> HIDE DEF G, Z, b
  <1>7. \A j \in 0 .. m : j = 0 \/ j \in 1 .. m
    BY <1>1
  <1>8. \E f : IsOps(us, map, m, f)
    <2>1. PICK f \in [0 .. m -> Z] : f[0] = b /\ \A j \in 1 .. m : f[j] = G[j][f[j - 1]]
      BY <1>1, <1>4, <1>5, RecursionTo
    <2>2. \A j \in 1 .. m : f[j] = f[j - 1] \o Emit(us[j].u, Len(f[j - 1]), map)
      <3>1. \A j \in 1 .. m : j - 1 \in 0 .. m
        BY <1>1
      <3> QED BY <1>6, <2>1, <3>1
    <2>3. IsOps(us, map, m, f)
      BY <2>1, <2>2, <1>7 DEF b, IsOps
    <2> QED BY <2>3
  <1>9. IsOps(us, map, m, ops)
    BY <1>2, <1>8
  <1>10. \A j \in 0 .. m :
           ops[j] = IF j = 0 THEN <<>> ELSE ops[j - 1] \o Emit(us[j].u, Len(ops[j - 1]), map)
    BY <1>9, Zenon DEF IsOps
  <1>11. ops[0] = <<>> /\ \A j \in 1 .. m : ops[j] = ops[j - 1] \o Emit(us[j].u, Len(ops[j - 1]), map)
    <2>1. 0 \in 0 .. m /\ \A j \in 1 .. m : j \in 0 .. m /\ j # 0
      BY <1>1
    <2> QED BY <1>10, <2>1
  <1> DEFINE E == {j \in 0 .. m : ops[j] \in Z}
  <1>12. 0 \in E
    BY <1>1, <1>4, <1>11 DEF b
  <1>13. ASSUME NEW j \in 1 .. m, j - 1 \in E PROVE j \in E
    <2>1. j \in 0 .. m /\ ops[j - 1] \in Z
      BY <1>1, <1>13
    <2>2. ops[j] \in Z
      BY <1>3, <1>11, <2>1 DEF Z
    <2> QED BY <2>1, <2>2
  <1>14. 0 .. m \subseteq E
    <2> HIDE DEF E
    <2> QED BY <1>1, <1>12, <1>13, UpTo
  <1>15. \A j \in 0 .. m : ops[j] \in Seq(U)
    BY <1>14 DEF Z
  <1> QED BY <1>11, <1>15 DEF ops, m, U

\* transcode_ex: op words, and an op index for every target.
LEMMA TranscodeIs ==
  ASSUME NEW c, IsProgram(c), NEW e
  PROVE LET us == Units(c, CollectTargets(c, e)) IN
          /\ TranscodeEx(c, e).map = BuildMap(us)
          /\ TranscodeEx(c, e).ops = OpsAfter(us, BuildMap(us))[Len(us)]
  BY DEF TranscodeEx, OpsAfter, IsOps

LEMMA TranscodeFacts ==
  ASSUME NEW c, IsProgram(c), NEW e
  PROVE LET t == TranscodeEx(c, e) IN
          /\ AreOps(t.ops)
          /\ \A i \in DOMAIN t.map : t.map[i] \in Nat
          /\ \A i \in CollectTargets(c, e) : i \in DOMAIN c => i \in DOMAIN t.map
  <1> DEFINE T == CollectTargets(c, e)
             us == Units(c, T)
             map == BuildMap(us)
             m == Len(us)
             ops == OpsAfter(us, map)
             t == TranscodeEx(c, e)
  <1>1. t.ops = ops[m] /\ t.map = map
    BY TranscodeIs
  <1>2. /\ us \in Seq(UnitSet(c, T)) /\ \A i \in DOMAIN map : map[i] \in Nat
        /\ \A i \in T : i \in DOMAIN c => i \in DOMAIN map
    BY MapFacts
  <1>3. m \in 0 .. m
    <2>1. m \in Nat
      BY <1>2
    <2> HIDE DEF m
    <2> QED BY <2>1
  <1> HIDE DEF t, T, us, map
  <1>4. ops[m] \in Seq(Emitted(us))
    BY <1>2, <1>3, OpsAfterFacts
  <1>5. \A v \in Emitted(us) : IsWord(v)
    BY <1>2, EmittedIsWord
  <1> HIDE DEF ops, m
  <1>6. AreOps(ops[m])
    <2>1. \A j \in DOMAIN ops[m] : ops[m][j] \in Emitted(us)
      BY <1>4
    <2> QED BY <1>4, <1>5, <2>1 DEF AreOps
  <1>7. /\ AreOps(t.ops) /\ \A i \in DOMAIN t.map : t.map[i] \in Nat
        /\ \A i \in T : i \in DOMAIN c => i \in DOMAIN t.map
    BY <1>1, <1>2, <1>6
  <1> QED BY <1>7 DEF t, T

\* A function on 1 .. m is a sequence.
LEMMA FunctionIsSeq ==
  ASSUME NEW f, NEW m \in Nat, DOMAIN f = 1 .. m, f = [j \in 1 .. m |-> f[j]]
  PROVE \E S : f \in Seq(S)
  <1> DEFINE S == {f[j] : j \in 1 .. m}
  <1>1. f \in [1 .. m -> S]
    OBVIOUS
  <1> HIDE DEF S
  <1>2. f \in Seq(S)
    BY <1>1
  <1> QED BY <1>2

\* A displacement is a whole number, and so are its parts.
LEMMA PartsAreInts ==
  ASSUME NEW d \in Int
  PROVE HiPart(d) \in Int /\ LoPart(d) \in Int
  <1> DEFINE r == 2 * LoRange
  <1>1. r \in Nat /\ r > 0 /\ LoRange \in Nat
    BY MachineAssumption
  <1> HIDE DEF r
  <1>2. (d + LoRange) \div r \in Int
    BY <1>1
  <1> DEFINE q == (d + LoRange) \div r
  <1> HIDE DEF q
  <1>3. q * r \in Int
    BY <1>1, <1>2 DEF q
  <1>4. HiPart(d) = q * r
    BY DEF HiPart, q, r
  <1>5. LoPart(d) = d - HiPart(d)
    BY DEF LoPart
  <1> QED BY <1>3, <1>4, <1>5

\* apply_pcrel_code_fixups leaves op words.
LEMMA FixupsFacts ==
  ASSUME NEW c, IsProgram(c), NEW t, AreOps(t.ops), \A i \in DOMAIN t.map : t.map[i] \in Nat,
         \A f \in Fixups(c) : Fixable(c, t, f)
  PROVE AreOps(ApplyFixups(c, t))
  <1> DEFINE s == ApplyFixups(c, t)
             high(j) == {f \in Fixups(c) : t.map[f[1]] + 1 = j}
             low(j) == {f \in Fixups(c) : t.map[f[2]] + 1 = j}
             d(F) == Displacement(c, t, CHOOSE f \in F : TRUE)
  <1>1. s = [j \in DOMAIN t.ops |->
               IF high(j) # {} THEN [t.ops[j] EXCEPT !.imm = HiPart(d(high(j)))]
               ELSE IF low(j) # {} THEN [t.ops[j] EXCEPT !.imm = LoPart(d(low(j)))]
               ELSE t.ops[j]]
    BY DEF ApplyFixups
  <1>2. ASSUME NEW f \in Fixups(c) PROVE Displacement(c, t, f) \in Int
    <2>1. f[1] \in CodeHi(c)
      BY DEF Fixups
    <2>2. f[1] \in DOMAIN c /\ c[f[1]].rel.kind = "hi"
      BY <2>1 DEF CodeHi
    <2>3. c[f[1]].rel.add \in Int
      BY <2>2 DEF IsProgram, IsInsn
    <2>4. t.map[f[1]] \in Nat /\ t.map[c[f[1]].rel.to] \in Nat
      BY DEF Fixable
    <2> QED BY <2>3, <2>4 DEF Displacement
  <1>3. \A F \in SUBSET Fixups(c) : F # {} => d(F) \in Int /\ (CHOOSE f \in F : TRUE) \in F
    BY <1>2
  <1>4. \A f \in Fixups(c) : /\ t.ops[t.map[f[1]] + 1].op = "auipc"
                            /\ t.ops[t.map[f[2]] + 1].op \in Imm16Low
    BY DEF Fixable
  <1> HIDE DEF s
  <1>5. ASSUME NEW j \in DOMAIN t.ops PROVE IsWord(s[j])
    <2>1. IsWord(t.ops[j])
      BY DEF AreOps
    <2>2. CASE high(j) # {}
      <3>1. s[j] = [t.ops[j] EXCEPT !.imm = HiPart(d(high(j)))]
        <4> HIDE DEF high, low, d
        <4> QED BY <1>1, <2>2
      <3>2. d(high(j)) \in Int
        <4>1. high(j) \in SUBSET Fixups(c)
          OBVIOUS
        <4> HIDE DEF high, d
        <4> QED BY <1>3, <2>2, <4>1
      <3>3. t.ops[j].op = "auipc"
        BY <1>4, <2>2
      <3>4. IsOp(t.ops[j])
        BY <2>1, <3>3 DEF IsWord
      <3> DEFINE a == HiPart(d(high(j)))
      <3>5. a \in Int
        <4> HIDE DEF high, d
        <4> QED BY <3>2, PartsAreInts
      <3> HIDE DEF a, d, high
      <3>6. IsOp([t.ops[j] EXCEPT !.imm = a])
        BY <3>3, <3>4, <3>5, Reencoded
      <3> QED BY <3>1, <3>6 DEF IsWord, a
    <2>3. CASE high(j) = {} /\ low(j) # {}
      <3>1. s[j] = [t.ops[j] EXCEPT !.imm = LoPart(d(low(j)))]
        <4> HIDE DEF high, low, d
        <4> QED BY <1>1, <2>3
      <3>2. d(low(j)) \in Int
        <4>1. low(j) \in SUBSET Fixups(c)
          OBVIOUS
        <4> HIDE DEF high, low, d
        <4> QED BY <1>3, <2>3, <4>1
      <3>3. t.ops[j].op \in Imm16Low
        BY <1>4, <2>3
      <3>4. IsOp(t.ops[j])
        <4>1. "disp" \notin Imm16Low
          BY DEF Imm16Low
        <4> QED BY <2>1, <3>3, <4>1 DEF IsWord
      <3> DEFINE a == LoPart(d(low(j)))
      <3>5. a \in Int
        <4> HIDE DEF low, d
        <4> QED BY <3>2, PartsAreInts
      <3> HIDE DEF a, d, high, low
      <3>6. IsOp([t.ops[j] EXCEPT !.imm = a])
        BY <3>3, <3>4, <3>5, Reencoded
      <3> QED BY <3>1, <3>6 DEF IsWord, a
    <2>4. CASE high(j) = {} /\ low(j) = {}
      <3>1. s[j] = t.ops[j]
        <4> HIDE DEF high, low, d
        <4> QED BY <1>1, <2>4
      <3> QED BY <2>1, <3>1
    <2> HIDE DEF high, low
    <2> QED BY <2>2, <2>3, <2>4
  <1>6. \E S : s \in Seq(S)
    <2>1. PICK S : t.ops \in Seq(S)
      BY DEF AreOps
    <2>2. DOMAIN t.ops = 1 .. Len(t.ops) /\ Len(t.ops) \in Nat
      BY <2>1
    <2>3. DOMAIN s = 1 .. Len(t.ops) /\ s = [j \in 1 .. Len(t.ops) |-> s[j]]
      <3> HIDE DEF high, low, d
      <3> QED BY <1>1, <2>2
    <2> QED BY <2>2, <2>3, FunctionIsSeq
  <1>7. DOMAIN s = DOMAIN t.ops
    BY <1>1
  <1>8. AreOps(s)
    BY <1>5, <1>6, <1>7 DEF AreOps
  <1> QED BY <1>8 DEF s

\* resolve_data_auipc leaves op words: each bare auipc becomes a load-immediate.
LEMMA ResolveFacts ==
  ASSUME NEW c, IsProgram(c), NEW t, NEW ops, AreOps(ops), \A i \in DOMAIN t.map : t.map[i] \in Nat
  PROVE AreOps(ResolveData(c, t, ops))
  <1> DEFINE s == ResolveData(c, t, ops)
             here(i, j) == Bare(ops, t, i) /\ t.map[i] + 1 = j
             h(j) == CHOOSE i \in DataHi(c) : here(i, j)
  <1>1. s = [j \in DOMAIN ops |->
               IF \E i \in DataHi(c) : here(i, j)
                 THEN Unit("LI", ops[j].rd, 0, 0, DataValue(ops, t, h(j)), 0, 1) ELSE ops[j]]
    BY DEF ResolveData
  <1> HIDE DEF s
  <1>2. ASSUME NEW j \in DOMAIN ops PROVE IsWord(s[j])
    <2>1. IsWord(ops[j])
      BY DEF AreOps
    <2>2. CASE \E i \in DataHi(c) : here(i, j)
      <3>1. h(j) \in DataHi(c) /\ here(h(j), j)
        <4> HIDE DEF here
        <4> QED BY <2>2
      <3> DEFINE i == h(j)
      <3>2. s[j] = Unit("LI", ops[j].rd, 0, 0, DataValue(ops, t, i), 0, 1)
        <4> HIDE DEF here, h
        <4> QED BY <1>1, <2>2
      <3> HIDE DEF h
      <3>3. i \in Nat /\ t.map[i] + 1 = j /\ ops[j].op = "auipc"
        <4>1. i \in DOMAIN c /\ t.map[i] + 1 = j /\ ops[t.map[i] + 1].op = "auipc"
          BY <3>1 DEF DataHi, Bare
        <4>2. i \in 0 .. (Cardinality(DOMAIN c) - 1)
          BY <4>1, Numbered
        <4> QED BY <4>1, <4>2
      <3>4. ops[j].imm \in Int
        <4>1. IsOp(ops[j]) /\ ops[j].op \in Simple
          BY <2>1, <3>3 DEF IsWord, Simple, InsnOps
        <4> QED BY <4>1 DEF IsOp
      <3>5. DataValue(ops, t, i) \in Nat
        <4>1. 4 * i + ops[t.map[i] + 1].imm \in Int
          BY <3>3, <3>4
        <4> QED BY <4>1, WordFacts DEF DataValue
      <3> DEFINE v == DataValue(ops, t, i)
      <3> HIDE DEF v
      <3>6. IsOp(Unit("LI", ops[j].rd, 0, 0, v, 0, 1))
        BY <3>5, UnitIsOp DEF FrameOps, PairOps, BzOps, Simple, Jumps, Branches, InsnOps, v
      <3> QED BY <3>2, <3>6 DEF IsWord, v
    <2>3. CASE ~\E i \in DataHi(c) : here(i, j)
      <3>1. s[j] = ops[j]
        <4> HIDE DEF here, h
        <4> QED BY <1>1, <2>3
      <3> QED BY <2>1, <3>1
    <2> QED BY <2>2, <2>3
  <1>3. \E S : s \in Seq(S)
    <2>1. PICK S : ops \in Seq(S)
      BY DEF AreOps
    <2>2. DOMAIN ops = 1 .. Len(ops) /\ Len(ops) \in Nat
      BY <2>1
    <2>3. DOMAIN s = 1 .. Len(ops) /\ s = [j \in 1 .. Len(ops) |-> s[j]]
      <3> HIDE DEF here, h
      <3> QED BY <1>1, <2>2
    <2> QED BY <2>2, <2>3, FunctionIsSeq
  <1>4. DOMAIN s = DOMAIN ops
    BY <1>1
  <1>5. AreOps(s)
    BY <1>2, <1>3, <1>4 DEF AreOps
  <1> QED BY <1>5 DEF s

\* tctool: what it does not refuse is op words, with an op for every target.
LEMMA ToolFacts ==
  ASSUME NEW c, IsProgram(c), NEW e, e \subseteq DOMAIN c, Tool(c, e).ok
  PROVE LET t == Tool(c, e) IN
          /\ AreOps(t.ops)
          /\ \A i \in DOMAIN t.map : t.map[i] \in Nat
          /\ \A i \in DOMAIN c : c[i].op \in Branches \cup {"jal"} => c[i].target \in DOMAIN t.map
          /\ t.ext \subseteq DOMAIN t.map
  <1> DEFINE E == ExtAddrs(c, e)
             t == TranscodeEx(c, E)
             ops == ApplyFixups(c, t)
             u == Tool(c, e)
  <1>1. u = IF AllPaired(c) /\ \A f \in Fixups(c) : Fixable(c, t, f)
              THEN Resolve(c, E, t, ops) ELSE Refusal
    BY DEF Tool, ToolFor, Reencode
  <1>2. /\ AreOps(t.ops)
        /\ \A i \in DOMAIN t.map : t.map[i] \in Nat
        /\ \A i \in CollectTargets(c, E) : i \in DOMAIN c => i \in DOMAIN t.map
    BY TranscodeFacts
  <1>3. u.ok
    OBVIOUS
  <1> HIDE DEF u, ops, t
  <1>4. ~Refusal.ok
    BY DEF Refusal
  <1>5. (\A f \in Fixups(c) : Fixable(c, t, f)) /\ u = Resolve(c, E, t, ops)
    BY <1>1, <1>3, <1>4
  <1>6. u = [ok |-> TRUE, ext |-> E, map |-> t.map, ops |-> ResolveData(c, t, ops)]
    <2> HIDE DEF E
    <2> QED BY <1>3, <1>4, <1>5 DEF Resolve
  <1>7. AreOps(ops)
    BY <1>2, <1>5, FixupsFacts DEF ops
  <1>8. AreOps(u.ops) /\ u.map = t.map /\ u.ext = E
    <2>1. AreOps(ResolveData(c, t, ops))
      BY <1>2, <1>7, ResolveFacts
    <2> HIDE DEF E
    <2> QED BY <1>6, <2>1
  <1>9. ASSUME NEW i \in DOMAIN c, c[i].op \in Branches \cup {"jal"} PROVE c[i].target \in DOMAIN t.map
    <2>1. c[i].target \in DOMAIN c
      BY <1>9 DEF IsProgram, IsInsn
    <2>2. c[i].target \in CollectTargets(c, E)
      <3> HIDE DEF E
      <3> QED BY <1>9 DEF CollectTargets
    <2> QED BY <1>2, <2>1, <2>2
  <1>10. E \subseteq DOMAIN t.map
    <2>1. E \subseteq CollectTargets(c, E)
      BY DEF CollectTargets
    <2>2. E \subseteq DOMAIN c
      <3>1. ASSUME NEW f \in Fixups(c) PROVE f[2] \in DOMAIN c
        BY DEF Fixups
      <3> QED BY <3>1 DEF ExtAddrs
    <2> HIDE DEF E
    <2> QED BY <1>2, <2>1, <2>2
  <1>11. /\ AreOps(u.ops)
         /\ \A i \in DOMAIN u.map : u.map[i] \in Nat
         /\ \A i \in DOMAIN c : c[i].op \in Branches \cup {"jal"} => c[i].target \in DOMAIN u.map
         /\ u.ext \subseteq DOMAIN u.map
    <2> HIDE DEF E
    <2> QED BY <1>2, <1>8, <1>9, <1>10
  <1> QED BY <1>11 DEF u

-----------------------------------------------------------------------------
(* The machine's data.                                                      *)

RegFile == [Regs -> Nat]
Buffer == [0 .. (WLen - 1) -> Nat]

\* What the machine's operators give back are numbers.
LEMMA ByteIsNat ==
  ASSUME NEW v \in Nat, NEW j \in 0 .. 3
  PROVE ByteOf(v, j) \in Nat
  <1>1. ByteMod \in Nat /\ ByteMod > 0
    BY ByteAssumption
  <1>2. \A q, r \in Nat : q > 0 /\ r > 0 => q * r \in Nat /\ q * r > 0
    OBVIOUS
  <1>3. /\ ByteMod * ByteMod \in Nat /\ ByteMod * ByteMod > 0
        /\ ByteMod * ByteMod * ByteMod \in Nat /\ ByteMod * ByteMod * ByteMod > 0
    BY <1>1, <1>2
  <1>4. j = 0 \/ j = 1 \/ j = 2 \/ j = 3
    OBVIOUS
  <1>5. Weight(j) \in Nat /\ Weight(j) > 0
    BY <1>1, <1>3, <1>4 DEF Weight
  <1> DEFINE r == Weight(j)
             q == v \div r
  <1> HIDE DEF r
  <1>6. q \in Nat
    BY <1>5 DEF r
  <1> HIDE DEF q
  <1>7. q % ByteMod \in Nat
    BY <1>1, <1>6
  <1>8. ByteOf(v, j) = q % ByteMod
    BY DEF ByteOf, q, r
  <1> QED BY <1>7, <1>8

LEMMA PutKeeps ==
  ASSUME NEW b \in Buffer, NEW o \in Int, NEW v \in Nat
  PROVE PutWord(b, o, v) \in Buffer
  <1>1. WLen \in Nat
    BY WritableAssumption, WordFacts
  <1>2. ASSUME NEW q \in 0 .. (WLen - 1), q \in o .. (o + 3) PROVE ByteOf(v, q - o) \in Nat
    <2>1. q - o \in 0 .. 3
      BY <1>1, <1>2
    <2> QED BY <2>1, ByteIsNat
  <1>3. DOMAIN b = 0 .. (WLen - 1) /\ \A q \in 0 .. (WLen - 1) : b[q] \in Nat
    BY DEF Buffer
  <1> QED BY <1>2, <1>3 DEF PutWord, Buffer

LEMMA WordIsNat ==
  ASSUME NEW b \in Buffer, NEW o \in 0 .. (WLen - 4)
  PROVE WordAt(b, o) \in Nat
  <1>1. WLen \in Nat
    BY WritableAssumption, WordFacts
  <1>2. o \in 0 .. (WLen - 1) /\ o + 1 \in 0 .. (WLen - 1) /\ o + 2 \in 0 .. (WLen - 1)
        /\ o + 3 \in 0 .. (WLen - 1)
    BY <1>1
  <1>3. b[o] \in Nat /\ b[o + 1] \in Nat /\ b[o + 2] \in Nat /\ b[o + 3] \in Nat
    BY <1>2 DEF Buffer
  <1>4. \A q, r \in Nat : q * r \in Nat
    OBVIOUS
  <1>5. Weight(1) \in Nat /\ Weight(2) \in Nat /\ Weight(3) \in Nat
    BY <1>4, ByteAssumption DEF Weight
  <1>6. b[o + 1] * Weight(1) \in Nat /\ b[o + 2] * Weight(2) \in Nat /\ b[o + 3] * Weight(3) \in Nat
    BY <1>3, <1>4, <1>5
  <1>7. \A q, r, s, t \in Nat : q + r + s + t \in Nat
    OBVIOUS
  <1> QED BY <1>3, <1>6, <1>7 DEF WordAt

LEMMA RelIsNat ==
  ASSUME NEW a \in Int
  PROVE Rel(a) \in Nat /\ Rel(a) < AddrMod
  <1>1. a - WBase \in Int
    BY WritableAssumption, WordFacts
  <1> QED BY <1>1, WordFacts DEF Rel

LEMMA HitIsInside ==
  ASSUME NEW a \in Int, NEW e \in {1, 4}, Hits(a, e)
  PROVE Rel(a) \in 0 .. (WLen - e)
  <1>1. Rel(a) \in Nat /\ WLen \in Nat
    BY RelIsNat, WritableAssumption, WordFacts
  <1> QED BY <1>1 DEF Hits

LEMMA LoadsAreNat ==
  ASSUME NEW b \in Buffer, NEW a \in Int
  PROVE LoadWord(b, a) \in Nat /\ LoadByte(b, a) \in Nat
  <1>1. CbWord \in Nat /\ CbWord % ByteMod \in Nat
    <2>1. CbWord \in Nat
      BY CbAssumption, WordFacts
    <2> QED BY <2>1, ByteAssumption
  <1>2. LoadWord(b, a) \in Nat
    BY <1>1, HitIsInside, WordIsNat DEF LoadWord
  <1>3. ASSUME Hits(a, 1) PROVE b[Rel(a)] \in Nat
    BY <1>3, HitIsInside DEF Buffer
  <1> QED BY <1>1, <1>2, <1>3 DEF LoadByte

LEMMA StoreKeeps ==
  ASSUME NEW b \in Buffer, NEW a \in Int, NEW v \in Nat
  PROVE StoreWord(b, a, v) \in Buffer
  BY PutKeeps, RelIsNat DEF StoreWord

LEMMA EvenIsNat ==
  ASSUME NEW v \in Nat
  PROVE Even(v) \in Nat
  <1>1. v % 2 \in 0 .. 1 /\ v % 2 <= v
    OBVIOUS
  <1> QED BY <1>1 DEF Even

-----------------------------------------------------------------------------
(* The invariants.                                                          *)

DataInv == x \in RegFile /\ mem \in Buffer /\ spc \in Nat /\ p \in Nat
OpsInv == AreOps(tc.ops)

\* Where an instruction number or the hi half of a pointer cell leads.
LEMMA PatchedIsBuffer ==
  ASSUME NEW t, \A i \in DOMAIN t.map : t.map[i] \in Nat, NEW e \in Nat
  PROVE Patched(t, e) \in Buffer
  <1> DEFINE b == [o \in 0 .. (WLen - 1) |-> 0]
             b2 == PutWord(b, PtrCells.vt, WBase + PtrCells.code)
             v == IF e \in DOMAIN t.map THEN 4 * t.map[e] ELSE 4 * e
  <1>1. b \in Buffer
    BY DEF Buffer
  <1>2. PtrCells.vt \in Nat /\ PtrCells.code \in Nat
    BY MachineAssumption
  <1>3. WBase \in Nat
    BY WritableAssumption, WordFacts
  <1>4. b2 \in Buffer
    <2>1. WBase + PtrCells.code \in Nat
      BY <1>2, <1>3
    <2> HIDE DEF b
    <2> QED BY <1>1, <1>2, <2>1, PutKeeps
  <1>5. v \in Nat
    OBVIOUS
  <1>6. Patched(t, e) = PutWord(b2, PtrCells.code, v)
    BY DEF Patched
  <1> HIDE DEF b2, v
  <1> QED BY <1>2, <1>4, <1>5, <1>6, PutKeeps

LEMMA InitHolds == Init => DataInv /\ OpsInv /\ TargetsKept
  <1> SUFFICES ASSUME Init PROVE DataInv /\ OpsInv /\ TargetsKept
    OBVIOUS
  <1>1. IsProgram(code) /\ ExtTargets \subseteq DOMAIN code
    BY ProgramAssumption DEF Init
  <1>2. PICK e \in ExtTargets : LET t == Tool(code, {e}) IN
          t.ok /\ ext = t.ext /\ tc = [ops |-> t.ops, map |-> t.map] /\ mem = Patched(tc, e)
    BY DEF Init
  <1> DEFINE t == Tool(code, {e})
  <1>3. t.ok /\ ext = t.ext /\ tc = [ops |-> t.ops, map |-> t.map] /\ mem = Patched(tc, e)
    BY <1>2
  <1>4. /\ AreOps(t.ops)
        /\ \A i \in DOMAIN t.map : t.map[i] \in Nat
        /\ \A i \in DOMAIN code : code[i].op \in Branches \cup {"jal"} => code[i].target \in DOMAIN t.map
        /\ t.ext \subseteq DOMAIN t.map
    <2>1. {e} \subseteq DOMAIN code
      BY <1>1
    <2> QED BY <1>1, <1>3, <2>1, ToolFacts
  <1> HIDE DEF t
  <1>5. tc.ops = t.ops /\ tc.map = t.map
    BY <1>3
  <1>6. OpsInv /\ TargetsKept
    BY <1>3, <1>4, <1>5 DEF OpsInv, TargetsKept
  <1>7. e \in Nat
    <2>1. e \in 0 .. (Cardinality(DOMAIN code) - 1)
      BY <1>1, Numbered
    <2> QED BY <2>1
  <1>8. mem \in Buffer
    <2>1. \A i \in DOMAIN tc.map : tc.map[i] \in Nat
      BY <1>4, <1>5
    <2> QED BY <1>3, <1>7, <2>1, PatchedIsBuffer
  <1>9. x \in RegFile
    <2>1. x = Start /\ Start \in [DOMAIN Start -> Word]
      BY MachineAssumption DEF Init
    <2>2. Word \subseteq Nat
      BY WordFacts DEF Word
    <2> QED BY <2>1, <2>2 DEF RegFile, Regs
  <1>10. spc \in Nat /\ p \in Nat
    BY DEF Init
  <1> QED BY <1>6, <1>8, <1>9, <1>10 DEF DataInv

\* The word at the cursor is an op.
LEMMA CurrentOp ==
  ASSUME DataInv, OpsInv, AtOp
  PROVE IsOp(w)
  <1>1. PICK S : tc.ops \in Seq(S)
    BY DEF OpsInv, AreOps
  <1>2. DOMAIN tc.ops = 1 .. Len(tc.ops) /\ Len(tc.ops) \in Nat
    BY <1>1
  <1>3. p \in Nat /\ p < Len(tc.ops)
    BY DEF DataInv, AtOp, n_ops
  <1>4. p + 1 \in DOMAIN tc.ops
    BY <1>2, <1>3
  <1>5. IsWord(tc.ops[p + 1])
    BY <1>4 DEF OpsInv, AreOps
  <1> QED BY <1>5 DEF IsWord, AtOp, w

\* The three ways on keep the cursor and the pc numbers.
LEMMA GoOnKeeps ==
  ASSUME DataInv, NEW a \in Nat, NEW b, GoOn(a, b)
  PROVE p' \in Nat /\ spc' \in Nat
  BY DEF DataInv, GoOn

LEMMA RelocKeeps ==
  ASSUME DataInv, NEW a \in Nat, NEW b, Reloc(a, b)
  PROVE p' \in Nat /\ spc' \in Nat
  <1>1. 4 * a \in Nat
    OBVIOUS
  <1> QED BY <1>1 DEF DataInv, Reloc, Leave

LEMMA IndirectKeeps ==
  ASSUME DataInv, NEW a \in Nat, NEW b, Indirect(a, b)
  PROVE p' \in Nat /\ spc' \in Nat
  <1>1. a \div 4 \in Nat
    OBVIOUS
  <1> QED BY <1>1 DEF DataInv, Indirect, Leave

\* A register file with one more number in it is a register file.
LEMMA SetKeeps ==
  ASSUME NEW y \in RegFile, NEW r, NEW v \in Nat
  PROVE [y EXCEPT ![r] = v] \in RegFile
  BY DEF RegFile

LEMMA CallKeeps ==
  ASSUME DataInv, NEW b, Call(b)
  PROVE DataInv'
  <1>1. spc \div 4 \in Nat
    BY DEF DataInv
  <1> QED BY <1>1 DEF DataInv, Call

(* The handlers.                                                            *)

\* The fields of a simple op.
LEMMA SimpleFacts ==
  ASSUME DataInv, OpsInv, AtOp, w.op \in Simple
  PROVE /\ w.rs1 \in Regs /\ w.rs2 \in Regs /\ w.imm \in Int
        /\ Base \in Nat /\ x[w.rs2] \in Nat /\ Wrap(Base + w.imm) \in Nat
  <1>1. w.rs1 \in Regs /\ w.rs2 \in Regs /\ w.imm \in Int
    BY CurrentOp DEF IsOp
  <1>2. x[w.rs1] \in Nat /\ x[w.rs2] \in Nat
    BY <1>1 DEF DataInv, RegFile
  <1>3. Base \in Nat
    BY <1>2 DEF Base
  <1>4. Base + w.imm \in Int
    BY <1>1, <1>3
  <1> QED BY <1>1, <1>2, <1>3, <1>4, WordFacts

LEMMA AluKeeps ==
  ASSUME DataInv, OpsInv, Alu
  PROVE DataInv'
  <1> DEFINE v == CASE w.op = "add"   -> Wrap(Base + x[w.rs2])
                    [] w.op = "addi"  -> Wrap(Base + w.imm)
                    [] w.op = "slli"  -> Wrap(Base * 2^(w.imm % WordBits))
                    [] w.op = "auipc" -> Wrap(4 * p + w.imm)
                    [] w.op = "LI"    -> w.imm
                    [] w.op = "SHADD" -> Wrap(Base + x[w.rs2] * 2^w.imm)
             cost == IF w.op = "SHADD" THEN 2 ELSE 1
  <1>1. /\ AtOp /\ w.op \in {"add", "addi", "slli", "auipc", "LI", "SHADD"}
        /\ x' = [x EXCEPT ![w.rd] = v] /\ GoOn(1, cost) /\ mem' = mem
    BY DEF Alu, Op, SetX
  <1> HIDE DEF v, cost
  <1>2. v \in Nat
    <2>1. CASE w.op \in {"add", "addi", "slli", "auipc", "SHADD"}
      <3>1. w.op \in Simple
        BY <2>1 DEF Simple, InsnOps
      <3>2. Base \in Nat /\ x[w.rs2] \in Nat /\ w.imm \in Int /\ Wrap(Base + w.imm) \in Nat
        BY <1>1, <3>1, SimpleFacts
      <3>3. CASE w.op = "add"
        <4>1. Base + x[w.rs2] \in Int
          BY <3>2
        <4> QED BY <3>3, <4>1, WordFacts DEF v
      <3>4. CASE w.op = "addi"
        BY <3>2, <3>4 DEF v
      <3>5. CASE w.op = "slli"
        <4>1. w.imm % WordBits \in Nat
          <5>1. WordBits \in Nat /\ WordBits > 0
            BY MachineAssumption
          <5>2. \A q \in Int : q % WordBits \in Nat
            BY ONLY <5>1
          <5> QED BY <3>2, <5>2
        <4> DEFINE h == w.imm % WordBits
        <4> HIDE DEF h
        <4>2. 2^h \in Int
          BY <4>1 DEF h
        <4>3. Base * 2^h \in Int
          BY <3>2, <4>2
        <4>4. v = Wrap(Base * 2^h)
          BY <3>5 DEF v, h
        <4> QED BY <4>3, <4>4, WordFacts
      <3>6. CASE w.op = "auipc"
        <4>1. 4 * p + w.imm \in Int
          BY <3>2 DEF DataInv
        <4> QED BY <3>6, <4>1, WordFacts DEF v
      <3>7. CASE w.op = "SHADD"
        <4>1. w.imm \in Nat
          BY <1>1, <3>7, CurrentOp DEF IsOp
        <4> DEFINE h == w.imm
        <4> HIDE DEF h
        <4>2. 2^h \in Int
          BY <4>1 DEF h
        <4>3. Base + x[w.rs2] * 2^h \in Int
          BY <3>2, <4>2
        <4>4. v = Wrap(Base + x[w.rs2] * 2^h)
          BY <3>7 DEF v, h
        <4> QED BY <4>3, <4>4, WordFacts
      <3> QED BY <2>1, <3>3, <3>4, <3>5, <3>6, <3>7
    <2>2. CASE w.op = "LI"
      <3>1. w.imm \in Nat
        BY <1>1, <2>2, CurrentOp DEF IsOp
      <3> QED BY <2>2, <3>1 DEF v
    <2> QED BY <1>1, <2>1, <2>2
  <1>3. x' \in RegFile
    BY <1>1, <1>2, SetKeeps DEF DataInv
  <1>4. p' \in Nat /\ spc' \in Nat
    <2>1. 1 \in Nat
      OBVIOUS
    <2> QED BY <1>1, <2>1, GoOnKeeps
  <1> QED BY <1>1, <1>3, <1>4 DEF DataInv

LEMMA LoadKeeps ==
  ASSUME DataInv, OpsInv, Load
  PROVE DataInv'
  <1> DEFINE a == Wrap(Base + w.imm)
             v == IF w.op = "lw" THEN LoadWord(mem, a) ELSE LoadByte(mem, a)
  <1>1. AtOp /\ w.op \in {"lw", "lbu"} /\ SetLoaded(w.rd, v) /\ GoOn(1, 1) /\ mem' = mem
    BY DEF Load, Op
  <1>2. a \in Nat
    BY <1>1, SimpleFacts DEF Simple, InsnOps
  <1> HIDE DEF a
  <1>3. v \in Nat
    BY <1>2, LoadsAreNat DEF DataInv
  <1> HIDE DEF v
  <1>4. x' \in RegFile
    BY <1>1, <1>3, SetKeeps DEF DataInv, SetLoaded
  <1>5. p' \in Nat /\ spc' \in Nat
    <2>1. 1 \in Nat
      OBVIOUS
    <2> QED BY <1>1, <2>1, GoOnKeeps
  <1> QED BY <1>1, <1>4, <1>5 DEF DataInv

LEMMA StoreStepKeeps ==
  ASSUME DataInv, OpsInv, Store
  PROVE DataInv'
  <1> DEFINE a == Wrap(Base + w.imm)
  <1>1. /\ AtOp /\ w.op = "sw" /\ mem' = StoreWord(mem, a, x[w.rs2]) /\ GoOn(1, 1) /\ x' = x
    BY DEF Store, Op
  <1>2. a \in Nat /\ x[w.rs2] \in Nat
    BY <1>1, SimpleFacts DEF Simple, InsnOps
  <1> HIDE DEF a
  <1>3. mem' \in Buffer
    BY <1>1, <1>2, StoreKeeps DEF DataInv
  <1>4. p' \in Nat /\ spc' \in Nat
    <2>1. 1 \in Nat
      OBVIOUS
    <2> QED BY <1>1, <2>1, GoOnKeeps
  <1> QED BY <1>1, <1>3, <1>4 DEF DataInv

LEMMA LwxKeeps ==
  ASSUME DataInv, OpsInv, Lwx
  PROVE DataInv'
  <1> DEFINE v == LoadWord(mem, Wrap(Base + x[w.rs2] + w.imm))
  <1>1. AtOp /\ w.op = "LWX" /\ x' = [x EXCEPT ![w.rd] = v] /\ GoOn(1, 2) /\ mem' = mem
    BY DEF Lwx, Op, SetX
  <1>2. Base + x[w.rs2] + w.imm \in Int
    <2>1. Base \in Nat /\ x[w.rs2] \in Nat /\ w.imm \in Int
      BY <1>1, SimpleFacts DEF Simple
    <2> QED BY <2>1
  <1>3. v \in Nat
    BY <1>2, WordFacts, LoadsAreNat DEF DataInv
  <1> HIDE DEF v
  <1>4. x' \in RegFile
    BY <1>1, <1>3, SetKeeps DEF DataInv
  <1>5. p' \in Nat /\ spc' \in Nat
    <2>1. 1 \in Nat
      OBVIOUS
    <2> QED BY <1>1, <2>1, GoOnKeeps
  <1> QED BY <1>1, <1>4, <1>5 DEF DataInv

\* The fields of an op that stands for two accesses.
LEMMA PairFacts ==
  ASSUME DataInv, OpsInv, AtOp, w.op \in PairOps
  PROVE /\ w.imm[1] \in Int /\ w.imm[2] \in Int /\ Base \in Nat
        /\ LoadWord(mem, Wrap(Base + w.imm[1])) \in Nat /\ Indirected \in Nat
  <1>1. w.rs1 \in Regs /\ w.imm[1] \in Int /\ w.imm[2] \in Int
    BY CurrentOp DEF IsOp
  <1>2. x[w.rs1] \in Nat
    BY <1>1 DEF DataInv, RegFile
  <1>3. Base \in Nat
    BY <1>2 DEF Base
  <1>4. Base + w.imm[1] \in Int
    BY <1>1, <1>3
  <1> DEFINE v == LoadWord(mem, Wrap(Base + w.imm[1]))
  <1>5. v \in Nat
    BY <1>4, WordFacts, LoadsAreNat DEF DataInv
  <1> HIDE DEF v
  <1>6. v + w.imm[2] \in Int
    BY <1>1, <1>5
  <1>7. LoadWord(mem, Wrap(v + w.imm[2])) \in Nat
    BY <1>6, WordFacts, LoadsAreNat DEF DataInv
  <1>8. Indirected \in Nat
    BY <1>7 DEF Indirected, v
  <1> QED BY <1>1, <1>3, <1>5, <1>8 DEF v

LEMMA LwlwKeeps ==
  ASSUME DataInv, OpsInv, Lwlw
  PROVE DataInv'
  <1>1. AtOp /\ w.op = "LWLW" /\ x' = [x EXCEPT ![w.rd] = Indirected] /\ GoOn(1, 2) /\ mem' = mem
    BY DEF Lwlw, Op, SetX
  <1>2. Indirected \in Nat
    BY <1>1, PairFacts DEF PairOps
  <1>3. x' \in RegFile
    BY <1>1, <1>2, SetKeeps DEF DataInv
  <1>4. p' \in Nat /\ spc' \in Nat
    <2>1. 1 \in Nat
      OBVIOUS
    <2> QED BY <1>1, <2>1, GoOnKeeps
  <1> QED BY <1>1, <1>3, <1>4 DEF DataInv

LEMMA LwswKeeps ==
  ASSUME DataInv, OpsInv, Lwsw
  PROVE DataInv'
  <1> DEFINE v == LoadWord(mem, Wrap(Base + w.imm[1]))
             a == Wrap(x'[w.rs2] + w.imm[2])
  <1>1. /\ AtOp /\ w.op = "LWSW" /\ x' = [x EXCEPT ![w.rd] = v]
        /\ mem' = StoreWord(mem, a, v) /\ GoOn(1, 2)
    BY DEF Lwsw, Op, SetX
  <1>2. v \in Nat /\ w.imm[2] \in Int /\ w.rs2 \in Regs
    BY <1>1, PairFacts, CurrentOp DEF PairOps, IsOp
  <1> HIDE DEF v
  <1>3. x' \in RegFile
    BY <1>1, <1>2, SetKeeps DEF DataInv
  <1>4. a \in Nat
    <2>1. x'[w.rs2] \in Nat
      BY <1>2, <1>3 DEF RegFile
    <2>2. x'[w.rs2] + w.imm[2] \in Int
      BY <1>2, <2>1
    <2> QED BY <2>2, WordFacts
  <1> HIDE DEF a
  <1>5. mem' \in Buffer
    BY <1>1, <1>2, <1>4, StoreKeeps DEF DataInv
  <1>6. p' \in Nat /\ spc' \in Nat
    <2>1. 1 \in Nat
      OBVIOUS
    <2> QED BY <1>1, <2>1, GoOnKeeps
  <1> QED BY <1>3, <1>5, <1>6 DEF DataInv

LEMMA BranchKeeps ==
  ASSUME DataInv, OpsInv, Branch
  PROVE DataInv'
  <1>1. AtOp /\ w.op \in Branches /\ (Reloc(w.target, 1) \/ GoOn(1, 1)) /\ x' = x /\ mem' = mem
    BY DEF Branch, Op
  <1>2. w.target \in Nat
    BY <1>1, CurrentOp DEF IsOp, Jumps
  <1>3. p' \in Nat /\ spc' \in Nat
    <2>1. 1 \in Nat
      OBVIOUS
    <2> QED BY <1>1, <1>2, <2>1, GoOnKeeps, RelocKeeps
  <1> QED BY <1>1, <1>3 DEF DataInv

LEMMA LoadBzKeeps ==
  ASSUME DataInv, OpsInv, LoadBz
  PROVE DataInv'
  <1> DEFINE a == Wrap(Base + w.imm)
             v == IF w.op = "LW_BZ" THEN LoadWord(mem, a) ELSE LoadByte(mem, a)
  <1>1. /\ AtOp /\ w.op \in BzOps /\ x' = [x EXCEPT ![w.rd] = v]
        /\ Reloc(w.target, 2) \/ GoOn(2, 2)
        /\ mem' = mem
    BY DEF LoadBz, Op, SetX, BzOps
  <1>2. w.rs1 \in Regs /\ w.imm \in Int /\ w.target \in Nat
    BY <1>1, CurrentOp DEF IsOp, Jumps
  <1>3. v \in Nat
    <2>1. x[w.rs1] \in Nat
      BY <1>2 DEF DataInv, RegFile
    <2>2. Base + w.imm \in Int
      BY <1>2, <2>1 DEF Base
    <2>3. a \in Nat
      BY <2>2, WordFacts
    <2> HIDE DEF a
    <2> QED BY <2>3, LoadsAreNat DEF DataInv
  <1> HIDE DEF v
  <1>4. x' \in RegFile
    BY <1>1, <1>3, SetKeeps DEF DataInv
  <1>5. p' \in Nat /\ spc' \in Nat
    <2>1. 2 \in Nat
      OBVIOUS
    <2> QED BY <1>1, <1>2, <2>1, GoOnKeeps, RelocKeeps
  <1> QED BY <1>1, <1>4, <1>5 DEF DataInv

LEMMA LinkKeeps ==
  ASSUME DataInv, NEW r
  PROVE Link(r) \in RegFile
  <1>1. 4 * p + 4 \in Nat
    BY DEF DataInv
  <1> QED BY <1>1, SetKeeps DEF Link, DataInv

LEMMA JalKeeps ==
  ASSUME DataInv, OpsInv, Jal
  PROVE DataInv'
  <1>1. AtOp /\ w.op = "jal" /\ x' = Link(w.rd) /\ Reloc(w.target, 1) /\ mem' = mem
    BY DEF Jal, Op
  <1>2. w.target \in Nat
    BY <1>1, CurrentOp DEF IsOp, Jumps
  <1>3. p' \in Nat /\ spc' \in Nat
    BY <1>1, <1>2, RelocKeeps
  <1>4. x' \in RegFile
    BY <1>1, LinkKeeps
  <1> QED BY <1>1, <1>3, <1>4 DEF DataInv

LEMMA JalrKeeps ==
  ASSUME DataInv, OpsInv, Jalr
  PROVE DataInv'
  <1> DEFINE a == Wrap(Base + w.imm)
  <1>1. AtOp /\ w.op = "jalr" /\ x' = Link(w.rd) /\ Indirect(Even(a), 1) /\ mem' = mem
    BY DEF Jalr, Op
  <1>2. a \in Nat
    BY <1>1, SimpleFacts DEF Simple, InsnOps
  <1> HIDE DEF a
  <1>3. Even(a) \in Nat
    BY <1>2, EvenIsNat
  <1>4. p' \in Nat /\ spc' \in Nat
    BY <1>1, <1>3, IndirectKeeps
  <1>5. x' \in RegFile
    BY <1>1, LinkKeeps
  <1> QED BY <1>1, <1>4, <1>5 DEF DataInv

LEMMA VcallKeeps ==
  ASSUME DataInv, OpsInv, Vcall
  PROVE DataInv'
  <1> DEFINE t == Even(Indirected)
             y == [x EXCEPT ![w.rd] = t]
  <1>1. /\ AtOp /\ w.op = "VCALL" /\ x' = [x EXCEPT ![w.rd] = t, ![RaReg] = 4 * p + 4]
        /\ Indirect(t, 3) /\ mem' = mem
    BY DEF Vcall, Op
  <1>2. t \in Nat
    BY <1>1, PairFacts, EvenIsNat DEF PairOps
  <1> HIDE DEF t
  <1>3. x' = [y EXCEPT ![RaReg] = 4 * p + 4]
    BY <1>1
  <1>4. y \in RegFile
    BY <1>2, SetKeeps DEF DataInv
  <1> HIDE DEF y
  <1>5. 4 * p + 4 \in Nat
    BY DEF DataInv
  <1>6. x' \in RegFile
    BY <1>3, <1>4, <1>5, SetKeeps
  <1>7. p' \in Nat /\ spc' \in Nat
    BY <1>1, <1>2, IndirectKeeps
  <1> QED BY <1>1, <1>6, <1>7 DEF DataInv

LEMMA TrapKeeps ==
  ASSUME DataInv, NEW stop, Trap(stop)
  PROVE DataInv'
  <1>1. x' \in RegFile
    <2>1. HostWords \subseteq Nat
      BY MachineAssumption, WordFacts DEF Word
    <2>2. x' = x \/ \E v \in HostWords : x' = [x EXCEPT ![HostReg] = v]
      BY DEF Trap
    <2> QED BY <2>1, <2>2, SetKeeps DEF DataInv
  <1>2. 4 * p \in Nat /\ 4 * p + 4 \in Nat /\ p + 1 \in Nat
    BY DEF DataInv
  <1>3. p' \in Nat /\ spc' \in Nat /\ mem' = mem
    <2> DEFINE a == 4 * p
    <2> HIDE DEF a
    <2> QED BY <1>2 DEF Trap, Leave
  <1> QED BY <1>1, <1>3 DEF DataInv

(* Frames.                                                                  *)

\* The current frame op: a mask of ranks and a frame size.
LEMMA FrameFacts ==
  ASSUME DataInv, OpsInv, AtOp, w.op \in FrameOps
  PROVE w.rs1 \subseteq Ranks /\ w.imm \in Int /\ x[SpReg] \in Nat
  <1>1. w.rs1 \subseteq Ranks /\ w.imm \in Int
    BY CurrentOp DEF IsOp
  <1>2. SpReg \in Regs
    BY MachineAssumption DEF Regs
  <1> QED BY <1>1, <1>2 DEF DataInv, RegFile

\* No register is saved deeper than all of them are.
LEMMA DepthBounds ==
  ASSUME NEW mask \in SUBSET Ranks, NEW r \in mask
  PROVE Depth(mask, r) \in 4 .. SaveSpan
  <1> DEFINE B == {q \in mask : q < r}
             D == 0 .. (r - 1)
             e == Cardinality(B)
  <1>1. Len(RankReg) \in Nat
    BY MachineAssumption
  <1>2. r \in 0 .. (Len(RankReg) - 1)
    BY DEF Ranks
  <1>3. B \subseteq D
    <2>1. ASSUME NEW q \in mask, q < r PROVE q \in D
      <3>1. q \in 0 .. (Len(RankReg) - 1)
        BY DEF Ranks
      <3> QED BY <1>1, <1>2, <2>1, <3>1
    <2> QED BY <2>1
  <1>4. IsFiniteSet(D) /\ Cardinality(D) = r
    <2>1. 0 \in Int /\ r - 1 \in Int
      BY <1>2
    <2>2. IsFiniteSet(D) /\ Cardinality(D) = IF 0 > r - 1 THEN 0 ELSE r - 1 - 0 + 1
      BY <2>1, FS_Interval
    <2> DEFINE f == Cardinality(D)
    <2> HIDE DEF f
    <2>3. f = IF 0 > r - 1 THEN 0 ELSE r - 1 - 0 + 1
      BY <2>2 DEF f
    <2>4. f = r
      BY <1>1, <1>2, <2>3
    <2> QED BY <2>2, <2>4 DEF f
  <1> HIDE DEF B, D
  <1>5. IsFiniteSet(B) /\ e <= r
    BY <1>3, <1>4, FS_Subset
  <1>6. e \in Nat
    BY <1>5, FS_CardinalityType
  <1>7. Depth(mask, r) = 4 + 4 * e
    BY DEF Depth, B
  <1> HIDE DEF e
  <1> QED BY <1>1, <1>2, <1>5, <1>6, <1>7 DEF SaveSpan

\* A frame top that passes has every slot in the buffer.
LEMMA BandInside ==
  ASSUME BandFits, NEW top \in Int, FrameTop(top), NEW d \in 4 .. SaveSpan
  PROVE Rel(top) - d \in 0 .. (WLen - 4)
  <1> DEFINE s == SaveSpan
             r == Rel(top)
  <1>1. s \in Nat
    <2>1. Len(RankReg) \in Nat
      BY MachineAssumption
    <2> QED BY <2>1 DEF SaveSpan
  <1>2. WLen \in 0 .. (AddrMod - 1) /\ AddrMod \in Nat /\ s <= WLen
    BY WritableAssumption, WordFacts DEF BandFits
  <1>3. r \in Nat /\ r < AddrMod
    BY RelIsNat
  <1>4. (r - s) % AddrMod <= (WLen - s) % AddrMod /\ d \in 4 .. s
    BY DEF FrameTop, Wrap
  <1> HIDE DEF s, r
  <1>5. (WLen - s) % AddrMod = WLen - s
    BY <1>1, <1>2
  <1>6. r >= s
    <2> SUFFICES ASSUME r < s PROVE FALSE
      BY <1>1, <1>3
    <2>1. r - s + AddrMod \in 0 .. (AddrMod - 1)
      BY <1>1, <1>2, <1>3
    <2>2. (r - s) % AddrMod = r - s + AddrMod
      BY <1>1, <1>2, <1>3, <2>1
    <2> QED BY <1>1, <1>2, <1>3, <1>4, <1>5, <2>2
  <1>7. (r - s) % AddrMod = r - s
    BY <1>1, <1>2, <1>3, <1>6
  <1>8. r - d \in 0 .. (WLen - 4)
    BY <1>1, <1>2, <1>3, <1>4, <1>5, <1>6, <1>7
  <1> QED BY <1>8 DEF r

LEMMA FramesAreInside ==
  ASSUME BandFits, DataInv, OpsInv
  PROVE FrameInBuffer
  <1> SUFFICES ASSUME AtOp, w.op \in FrameOps
               PROVE LET top == IF w.op = "PROLOGUE" THEN x[SpReg] ELSE Wrap(x[SpReg] + w.imm)
                     IN FrameTop(top) => \A r \in w.rs1 : Slot(top, Depth(w.rs1, r)) \in 0 .. (WLen - 4)
    BY DEF FrameInBuffer, Op, FrameOps
  <1> DEFINE top == IF w.op = "PROLOGUE" THEN x[SpReg] ELSE Wrap(x[SpReg] + w.imm)
  <1>1. w.rs1 \subseteq Ranks /\ w.imm \in Int /\ x[SpReg] \in Nat
    BY FrameFacts
  <1>2. top \in Int
    <2>1. x[SpReg] + w.imm \in Int
      BY <1>1
    <2> QED BY <1>1, <2>1, WordFacts
  <1> HIDE DEF top
  <1>3. ASSUME FrameTop(top), NEW r \in w.rs1 PROVE Slot(top, Depth(w.rs1, r)) \in 0 .. (WLen - 4)
    <2> DEFINE d == Depth(w.rs1, r)
    <2>1. d \in 4 .. SaveSpan
      BY <1>1, DepthBounds
    <2> HIDE DEF d
    <2>2. Rel(top) - d \in 0 .. (WLen - 4)
      BY <1>2, <1>3, <2>1, BandInside
    <2>3. Slot(top, d) = Rel(top) - d
      BY <1>3 DEF Slot
    <2> QED BY <2>2, <2>3 DEF d
  <1> QED BY <1>3 DEF top

\* The offset of a slot is a whole number.
LEMMA SlotIsInt ==
  ASSUME NEW top \in Int, NEW d \in Int
  PROVE Slot(top, d) \in Int
  <1>1. Rel(top) \in Nat
    BY RelIsNat
  <1>2. top - d \in Int
    OBVIOUS
  <1>3. Wrap(top - d) \in Int
    BY <1>2, WordFacts
  <1>4. Rel(Wrap(top - d)) \in Nat
    BY <1>3, RelIsNat
  <1>5. Rel(top) - d \in Int
    BY <1>1
  <1> QED BY <1>4, <1>5 DEF Slot

LEMMA PrologueKeeps ==
  ASSUME DataInv, OpsInv, Prologue
  PROVE DataInv'
  <1> DEFINE sp0 == x[SpReg]
             slot(r) == Slot(sp0, Depth(w.rs1, r))
             covers(r, o) == slot(r) # -1 /\ o \in slot(r) .. (slot(r) + 3)
             q(o) == CHOOSE r \in w.rs1 : covers(r, o)
             cost == Cardinality(w.rs1) + 1
  <1>1. /\ AtOp /\ w.op \in FrameOps
        /\ mem' = [o \in DOMAIN mem |->
                     IF \E r \in w.rs1 : covers(r, o)
                       THEN ByteOf(x[RankReg[q(o) + 1]], o - slot(q(o))) ELSE mem[o]]
        /\ x' = [x EXCEPT ![SpReg] = Wrap(sp0 - w.imm)] /\ GoOn(1, cost)
    BY DEF Prologue, Op, SetX, FrameOps
  <1>2. w.rs1 \subseteq Ranks /\ w.imm \in Int /\ sp0 \in Nat
    BY <1>1, FrameFacts
  <1> HIDE DEF sp0, cost
  <1>3. \A r \in w.rs1 : slot(r) \in Int
    <2> TAKE r \in w.rs1
    <2>1. Depth(w.rs1, r) \in 4 .. SaveSpan
      BY <1>2, DepthBounds
    <2>2. Depth(w.rs1, r) \in Int
      <3>1. Len(RankReg) \in Nat
        BY MachineAssumption
      <3>2. SaveSpan \in Int
        BY <3>1 DEF SaveSpan
      <3> QED BY <2>1, <3>2
    <2> QED BY <1>2, <2>2, SlotIsInt
  <1> HIDE DEF slot
  <1>4. mem' \in Buffer
    <2>1. DOMAIN mem = 0 .. (WLen - 1) /\ \A o \in 0 .. (WLen - 1) : mem[o] \in Nat
      BY DEF DataInv, Buffer
    <2>2. WLen \in Nat
      BY WritableAssumption, WordFacts
    <2>3. ASSUME NEW o \in 0 .. (WLen - 1), \E r \in w.rs1 : covers(r, o)
          PROVE ByteOf(x[RankReg[q(o) + 1]], o - slot(q(o))) \in Nat
      <3> DEFINE h == q(o)
      <3>1. h \in w.rs1 /\ covers(h, o)
        <4> HIDE DEF covers
        <4> QED BY <2>3
      <3> HIDE DEF h
      <3>2. o - slot(h) \in 0 .. 3
        <4> DEFINE e == slot(h)
        <4>1. e \in Int /\ o \in e .. (e + 3) /\ o \in Int
          BY <1>3, <2>2, <3>1
        <4> HIDE DEF e
        <4>2. o - e \in 0 .. 3
          BY <4>1
        <4> QED BY <4>2 DEF e
      <3>3. x[RankReg[h + 1]] \in Nat
        <4>1. Len(RankReg) \in Nat /\ h \in 0 .. (Len(RankReg) - 1)
          BY <1>2, <3>1, MachineAssumption DEF Ranks
        <4>2. h + 1 \in 1 .. Len(RankReg)
          BY <4>1
        <4>3. RankReg[h + 1] \in Regs
          BY <4>2, MachineAssumption DEF Regs
        <4> QED BY <4>3 DEF DataInv, RegFile
      <3>4. ByteOf(x[RankReg[h + 1]], o - slot(h)) \in Nat
        BY <3>2, <3>3, ByteIsNat
      <3> QED BY <3>4 DEF h
    <2> HIDE DEF covers, q
    <2> QED BY <1>1, <2>1, <2>3 DEF Buffer
  <1>5. x' \in RegFile
    <2>1. sp0 - w.imm \in Int
      BY <1>2
    <2>2. Wrap(sp0 - w.imm) \in Nat
      BY <2>1, WordFacts
    <2> QED BY <1>1, <2>2, SetKeeps DEF DataInv
  <1>6. p' \in Nat /\ spc' \in Nat
    <2>1. 1 \in Nat
      OBVIOUS
    <2> QED BY <1>1, <2>1, GoOnKeeps
  <1> QED BY <1>4, <1>5, <1>6 DEF DataInv

LEMMA EpilogueKeeps ==
  ASSUME DataInv, OpsInv, Epilogue
  PROVE DataInv'
  <1> DEFINE top == Wrap(x[SpReg] + w.imm)
             slot(r) == Slot(top, Depth(w.rs1, r))
             word(r) == IF slot(r) = -1 THEN CbWord
                        ELSE IF slot(r) \in 0 .. (WLen - 4) THEN WordAt(mem, slot(r)) ELSE 0
             t == Even(x'[RaReg])
             cost == Cardinality(w.rs1) + 2
  <1>1. /\ AtOp /\ w.op \in FrameOps
        /\ x' = [g \in DOMAIN x |->
                   IF g = SpReg THEN top
                   ELSE IF RankOf(g) \in w.rs1 THEN word(RankOf(g)) ELSE x[g]]
        /\ Indirect(t, cost) /\ mem' = mem
    BY DEF Epilogue, Op, FrameOps
  <1>2. w.imm \in Int /\ x[SpReg] \in Nat
    BY <1>1, FrameFacts
  <1>3. top \in Nat
    <2>1. x[SpReg] + w.imm \in Int
      BY <1>2
    <2> QED BY <2>1, WordFacts
  <1>4. \A r : word(r) \in Nat
    <2>1. CbWord \in Nat
      BY CbAssumption, WordFacts
    <2>2. mem \in Buffer
      BY DEF DataInv
    <2> HIDE DEF slot
    <2> QED BY <2>1, <2>2, WordIsNat
  <1> HIDE DEF top, slot, word
  <1>5. x' \in RegFile
    BY <1>1, <1>3, <1>4 DEF DataInv, RegFile
  <1>6. t \in Nat
    <2>1. RaReg \in Regs
      BY MachineAssumption DEF Regs
    <2>2. x'[RaReg] \in Nat
      BY <1>5, <2>1 DEF RegFile
    <2> QED BY <2>2, EvenIsNat
  <1> HIDE DEF t, cost
  <1>7. p' \in Nat /\ spc' \in Nat
    BY <1>1, <1>6, IndirectKeeps
  <1> QED BY <1>1, <1>5, <1>7 DEF DataInv

-----------------------------------------------------------------------------
(* The theorems.                                                            *)

Inv == DataInv /\ OpsInv /\ TargetsKept

\* Every operation keeps the invariant; the program and its transcoding stay.
LEMMA StepKeeps ==
  ASSUME Inv, [Next]_vars
  PROVE Inv'
  <1>1. DataInv /\ OpsInv /\ TargetsKept
    BY DEF Inv
  <1>2. code' = code /\ ext' = ext /\ tc' = tc
    <2>1. CASE Next
      BY <2>1 DEF Next, Loop, Call, Alu, Load, Store, Lwx, Lwlw, Lwsw, Branch, LoadBz, Jal, Jalr,
                  Vcall, Prologue, Epilogue, Trap
    <2>2. CASE UNCHANGED vars
      BY <2>2 DEF vars
    <2> QED BY <2>1, <2>2
  <1>3. OpsInv' /\ TargetsKept'
    BY <1>1, <1>2 DEF OpsInv, TargetsKept
  <1>4. DataInv'
    <2>1. ASSUME NEW b \in Budgets, Call(b) PROVE DataInv'
      BY <1>1, <2>1, CallKeeps
    <2>2. CASE Alu
      BY <1>1, <2>2, AluKeeps
    <2>3. CASE Load
      BY <1>1, <2>3, LoadKeeps
    <2>4. CASE Store
      BY <1>1, <2>4, StoreStepKeeps
    <2>5. CASE Lwx
      BY <1>1, <2>5, LwxKeeps
    <2>6. CASE Lwlw
      BY <1>1, <2>6, LwlwKeeps
    <2>7. CASE Lwsw
      BY <1>1, <2>7, LwswKeeps
    <2>8. CASE Branch
      BY <1>1, <2>8, BranchKeeps
    <2>9. CASE LoadBz
      BY <1>1, <2>9, LoadBzKeeps
    <2>10. CASE Jal
      BY <1>1, <2>10, JalKeeps
    <2>11. CASE Jalr
      BY <1>1, <2>11, JalrKeeps
    <2>12. CASE Vcall
      BY <1>1, <2>12, VcallKeeps
    <2>13. CASE Prologue
      BY <1>1, <2>13, PrologueKeeps
    <2>14. CASE Epilogue
      BY <1>1, <2>14, EpilogueKeeps
    <2>15. ASSUME NEW stop \in BOOLEAN, Trap(stop) PROVE DataInv'
      BY <1>1, <2>15, TrapKeeps
    <2>16. CASE UNCHANGED vars
      BY <1>1, <2>16 DEF DataInv, vars
    <2> QED BY <2>1, <2>2, <2>3, <2>4, <2>5, <2>6, <2>7, <2>8, <2>9, <2>10, <2>11, <2>12, <2>13,
               <2>14, <2>15, <2>16 DEF Next, Loop
  <1> QED BY <1>3, <1>4 DEF Inv

LEMMA AlwaysInv == Spec => []Inv
  <1>1. Init => Inv
    BY InitHolds DEF Inv
  <1>2. Inv /\ [Next]_vars => Inv'
    BY StepKeeps
  <1> QED BY <1>1, <1>2, PTL DEF Spec

\* transcode.c: every branch, jump and collected code pointer of every program
\* leads to an op of its own, and stays so while the program runs.
THEOREM TargetsAreKept == Spec => []TargetsKept
  <1>1. Inv => TargetsKept
    BY DEF Inv
  <1> QED BY <1>1, AlwaysInv, PTL

\* frame_top: in a writable buffer no shorter than the band, the saves and restores
\* it lets through unchecked stay inside the buffer, whatever the stack pointer.
THEOREM FramesStayInside == ASSUME BandFits PROVE Spec => []FrameInBuffer
  <1>1. Inv => FrameInBuffer
    BY FramesAreInside DEF Inv
  <1> QED BY <1>1, AlwaysInv, PTL

-----------------------------------------------------------------------------
(* Where the ops of a unit are.                                             *)

\* The units are those of their heads, one behind the other.
LEMMA HeadFacts ==
  ASSUME NEW c, IsProgram(c), NEW T, NEW us, us = Units(c, T)
  PROVE /\ us \in Seq(UnitSet(c, T)) /\ Len(us) \in Nat
        /\ \A j \in 1 .. Len(us) :
             /\ us[j].head \in DOMAIN c /\ us[j].u = Step(c, T, us[j].head)
             /\ us[j].head + us[j].u.width
                  = IF j = Len(us) THEN Cardinality(DOMAIN c) ELSE us[j + 1].head
        /\ \A j, jj \in 1 .. Len(us) : j < jj => us[j].head < us[jj].head
  <1> DEFINE m == Len(us)
             n == Cardinality(DOMAIN c)
  <1>1. us \in Walks(c, T, 0)
    BY UnitsWalk
  <1>2. us \in Seq(UnitSet(c, T)) /\ m \in Nat
    BY <1>1 DEF Walks
  <1>3. \A j \in 1 .. m : us[j].head + us[j].u.width = IF j = m THEN n ELSE us[j + 1].head
    BY <1>1 DEF Walks
  <1>4. ASSUME NEW j \in 1 .. m PROVE us[j].head \in DOMAIN c /\ us[j].u = Step(c, T, us[j].head)
    <2>1. us[j] \in UnitSet(c, T)
      BY <1>2
    <2> QED BY <2>1 DEF UnitSet, UnitAt
  <1>5. ASSUME NEW j \in 1 .. m PROVE us[j].head \in Nat /\ us[j].u.width \in Nat \ {0}
    <2>1. us[j].head \in 0 .. (n - 1)
      BY <1>4, Numbered
    <2>2. us[j].u.width \in Nat \ {0}
      BY <1>4, StepFits DEF Fits
    <2> QED BY <2>1, <2>2
  <1> HIDE DEF m, n
  <1>6. ASSUME NEW j \in 1 .. m, NEW jj \in 1 .. m, j < jj PROVE us[j].head < us[jj].head
    <2> DEFINE E == {q \in 0 .. m : q \in 1 .. m /\ j < q => us[j].head < us[q].head}
    <2>1. 0 \in E
      BY <1>2
    <2>2. ASSUME NEW q \in 1 .. m, q - 1 \in E PROVE q \in E
      <3> SUFFICES ASSUME j < q PROVE us[j].head < us[q].head
        BY <1>2
      <3> DEFINE r == q - 1
      <3>1. r \in 1 .. m /\ r + 1 = q /\ r # m /\ (j < r \/ j = r)
        BY <1>2
      <3>2. j < r => us[j].head < us[r].head
        BY <2>2, <3>1
      <3> HIDE DEF r
      <3>3. us[r].head + us[r].u.width = us[q].head
        BY <1>3, <3>1
      <3>4. us[r].head < us[q].head
        BY <1>5, <3>1, <3>3
      <3>5. us[j].head \in Nat /\ us[r].head \in Nat /\ us[q].head \in Nat
        BY <1>5, <3>1
      <3> QED BY <3>1, <3>2, <3>4, <3>5
    <2>3. 0 .. m \subseteq E
      <3> HIDE DEF E
      <3> QED BY <1>2, <2>1, <2>2, UpTo
    <2>4. jj \in 0 .. m
      BY <1>2
    <2> QED BY <1>6, <2>3, <2>4
  <1> QED BY <1>2, <1>3, <1>4, <1>6 DEF m, n

\* The ops before the units ascend, by at least the words in between.
LEMMA CountFacts ==
  ASSUME NEW us, NEW m \in Nat
  PROVE /\ \A j \in 1 .. m + 1 : WordsBefore(us, j) \in Nat
        /\ \A j, jj \in 1 .. m + 1 :
             j < jj => WordsBefore(us, j) + OpWords(us[j].u.op) <= WordsBefore(us, jj)
        /\ \A d \in Nat : d < WordsBefore(us, m + 1)
             => \E j \in 1 .. m : WordsBefore(us, j) <= d /\ d < WordsBefore(us, j) + OpWords(us[j].u.op)
  <1> DEFINE W(j) == WordsBefore(us, j)
             e(j) == OpWords(us[j].u.op)
  <1>1. \A j \in Nat \ {0} : W(j) \in Nat /\ e(j) \in Nat /\ W(j + 1) = W(j) + e(j)
    <2>1. \A o : OpWords(o) \in Nat
      BY DEF OpWords
    <2>2. \A j \in Nat \ {0} : W(j) \in Nat /\ W(j + 1) = W(j) + e(j)
      BY WordsBeforeFacts, Zenon
    <2> QED BY <2>1, <2>2, Zenon
  <1>2. W(1) = 0
    <2>1. 1 \in Nat \ {0}
      OBVIOUS
    <2> QED BY <2>1, WordsBeforeFacts
  <1> HIDE DEF W, e
  <1>3. ASSUME NEW j \in 1 .. m + 1, NEW jj \in 1 .. m + 1, j < jj PROVE W(j) + e(j) <= W(jj)
    <2> DEFINE E == {q \in 0 .. m + 1 : j < q => W(j) + e(j) <= W(q)}
    <2>1. 0 \in E
      OBVIOUS
    <2>2. ASSUME NEW q \in 1 .. m + 1, q - 1 \in E PROVE q \in E
      <3> SUFFICES ASSUME j < q PROVE W(j) + e(j) <= W(q)
        OBVIOUS
      <3> DEFINE r == q - 1
      <3>1. r \in Nat \ {0} /\ r + 1 = q /\ (j < r \/ j = r)
        OBVIOUS
      <3>2. j < r => W(j) + e(j) <= W(r)
        BY <2>2
      <3> HIDE DEF r
      <3>3. W(q) = W(r) + e(r) /\ W(r) \in Nat /\ e(r) \in Nat /\ W(j) \in Nat /\ e(j) \in Nat
        <4>1. j \in Nat \ {0}
          OBVIOUS
        <4>2. W(r + 1) = W(r) + e(r) /\ W(r) \in Nat /\ e(r) \in Nat /\ W(j) \in Nat /\ e(j) \in Nat
          BY <1>1, <3>1, <4>1, Zenon
        <4> QED BY <3>1, <4>2, Zenon
      <3>4. CASE j = r
        <4>1. W(j) + e(j) = W(q)
          BY <3>3, <3>4, Zenon
        <4>2. W(q) \in Nat
          BY <3>3
        <4> QED BY <4>1, <4>2
      <3>5. CASE j < r
        BY <3>2, <3>3, <3>5
      <3> QED BY <3>1, <3>4, <3>5
    <2>3. 0 .. m + 1 \subseteq E
      <3>1. m + 1 \in Nat
        OBVIOUS
      <3> HIDE DEF E
      <3> QED BY <2>1, <2>2, <3>1, UpTo
    <2>4. jj \in 0 .. m + 1
      OBVIOUS
    <2> QED BY <1>3, <2>3, <2>4
  <1>4. ASSUME NEW d \in Nat, d < W(m + 1) PROVE \E j \in 1 .. m : W(j) <= d /\ d < W(j) + e(j)
    <2> DEFINE E == {q \in 0 .. m : d < W(q + 1) => \E j \in 1 .. q : W(j) <= d /\ d < W(j) + e(j)}
    <2>1. 0 \in E
      BY <1>2
    <2>2. ASSUME NEW q \in 1 .. m, q - 1 \in E PROVE q \in E
      <3> SUFFICES ASSUME d < W(q + 1) PROVE \E j \in 1 .. q : W(j) <= d /\ d < W(j) + e(j)
        OBVIOUS
      <3>1. W(q + 1) = W(q) + e(q) /\ W(q) \in Nat
        BY <1>1
      <3>2. CASE W(q) <= d
        BY <3>1, <3>2
      <3>3. CASE d < W(q)
        <4>1. q - 1 + 1 = q /\ \A j \in 1 .. (q - 1) : j \in 1 .. q
          OBVIOUS
        <4> QED BY <2>2, <3>3, <4>1
      <3> QED BY <3>1, <3>2, <3>3
    <2>3. 0 .. m \subseteq E
      <3> HIDE DEF E
      <3> QED BY <2>1, <2>2, UpTo
    <2>4. m \in E
      BY <2>3
    <2> QED BY <1>4, <2>4
  <1> QED BY <1>1, <1>3, <1>4 DEF W, e

\* build_map: a head has the number of ops before its unit.
LEMMA BuiltMap ==
  ASSUME NEW c, IsProgram(c), NEW T, NEW us, us = Units(c, T)
  PROVE /\ \A i \in DOMAIN BuildMap(us) : \E j \in 1 .. Len(us) : us[j].head = i
        /\ \A j \in 1 .. Len(us) : /\ us[j].head \in DOMAIN BuildMap(us)
                                   /\ BuildMap(us)[us[j].head] = WordsBefore(us, j)
  <1>1. /\ DOMAIN us = 1 .. Len(us) /\ Len(us) \in Nat
        /\ \A j \in 1 .. Len(us) : us[j].head \in Nat
        /\ \A j, jj \in 1 .. Len(us) : j < jj => us[j].head < us[jj].head
    <2>1. \A i \in DOMAIN c : i \in Nat
      BY Numbered
    <2> QED BY <2>1, HeadFacts
  <1>2. DOMAIN BuildMap(us) = {us[j].head : j \in 1 .. Len(us)}
    BY <1>1 DEF BuildMap
  <1>3. ASSUME NEW j \in 1 .. Len(us) PROVE BuildMap(us)[us[j].head] = WordsBefore(us, j)
    <2>1. \A jj \in 1 .. Len(us) : us[jj].head = us[j].head => jj = j
      <3> TAKE jj \in 1 .. Len(us)
      <3>1. jj < j \/ j < jj \/ jj = j
        BY <1>1
      <3> QED BY <1>1, <3>1
    <2>2. (CHOOSE jj \in 1 .. Len(us) : us[jj].head = us[j].head) = j
      BY <2>1
    <2> QED BY <1>1, <1>2, <2>2 DEF BuildMap
  <1> QED BY <1>2, <1>3

\* What a unit's first word is emitted as.
First(u, at, map) ==
  IF u.op \in Jumps THEN [u EXCEPT !.target = TargetWord(map, u.target, at)] ELSE u

\* What an op is emitted as: its words and the first of them.
LEMMA EmitFacts ==
  ASSUME NEW u, "op" \in DOMAIN u, NEW at, NEW map
  PROVE /\ Len(Emit(u, at, map)) = OpWords(u.op)
        /\ OpWords(u.op) >= 1 => Emit(u, at, map)[1] = First(u, at, map)
        /\ OpWords(u.op) = 2 => Emit(u, at, map)[2].op = "disp"
        /\ OpWords(u.op) = IF u.op = "nop" THEN 0 ELSE IF u.op \in BzOps THEN 2 ELSE 1
  <1> DEFINE e == Emit(u, at, map)
             o == OpWords(u.op)
             a == First(u, at, map)
             b == [u EXCEPT !.op = "disp"]
  <1>1. CASE u.op = "nop"
    <2>1. e = <<>> /\ o = 0
      BY <1>1 DEF Emit, OpWords, Branches
    <2> HIDE DEF e, o, a
    <2>2. Len(e) = o /\ (o >= 1 => e[1] = a) /\ (o = 2 => e[2].op = "disp")
      BY <2>1
    <2> QED BY <1>1, <2>1, <2>2 DEF e, o, a
  <1>2. CASE u.op \in BzOps
    <2>1. e = <<a, b>> /\ b.op = "disp" /\ o = 2
      BY <1>2 DEF Emit, First, Jumps, BzOps, OpWords, Branches
    <2> HIDE DEF e, o, a, b
    <2>2. Len(e) = o /\ (o >= 1 => e[1] = a) /\ (o = 2 => e[2].op = "disp")
      BY <2>1
    <2>3. u.op # "nop"
      BY <1>2 DEF BzOps
    <2> QED BY <1>2, <2>1, <2>2, <2>3 DEF e, o, a
  <1>3. CASE u.op \notin BzOps \cup {"nop"}
    <2>1. e = <<a>> /\ o = 1
      BY <1>3 DEF Emit, First, Jumps, BzOps, Branches, OpWords
    <2> HIDE DEF e, o, a
    <2>2. Len(e) = o /\ (o >= 1 => e[1] = a) /\ (o = 2 => e[2].op = "disp")
      BY <2>1
    <2> QED BY <1>3, <2>1, <2>2 DEF e, o, a
  <1> QED BY <1>1, <1>2, <1>3

\* Two sequences in one.
LEMMA Joined ==
  ASSUME NEW S, NEW a \in Seq(S), NEW b \in Seq(S)
  PROVE /\ Len(a) \in Nat /\ Len(b) \in Nat /\ Len(a \o b) = Len(a) + Len(b)
        /\ \A i \in 1 .. Len(a) : (a \o b)[i] = a[i]
        /\ \A i \in 1 .. Len(b) : (a \o b)[Len(a) + i] = b[i]
  OBVIOUS

\* Emitted one behind the other, each unit's words are where its count says.
Emits(us, m, map, ops, S) ==
  /\ m \in Nat /\ ops[0] = <<>>
  /\ \A j \in 1 .. m : ops[j] = ops[j - 1] \o Emit(us[j].u, Len(ops[j - 1]), map)
  /\ \A j \in 0 .. m : ops[j] \in Seq(S)
  /\ \A j \in 1 .. m : \A at \in Nat : Emit(us[j].u, at, map) \in Seq(S)
  /\ \A j \in 1 .. m : "op" \in DOMAIN us[j].u

\* Where the words of a unit lie among those of a run of units.
LEMMA Placed ==
  ASSUME NEW us, NEW m, NEW map, NEW ops, NEW S, Emits(us, m, map, ops, S)
  PROVE /\ Len(ops[m]) = WordsBefore(us, m + 1)
        /\ \A j \in 1 .. m :
             /\ OpWords(us[j].u.op) >= 1
                  => ops[m][WordsBefore(us, j) + 1] = First(us[j].u, WordsBefore(us, j), map)
             /\ OpWords(us[j].u.op) = 2 => ops[m][WordsBefore(us, j) + 2].op = "disp"
  <1> DEFINE W(j) == WordsBefore(us, j)
             o(j) == OpWords(us[j].u.op)
             F(j) == First(us[j].u, W(j), map)
             e(j) == Emit(us[j].u, W(j), map)
             In(j, s) == /\ o(j) >= 1 => s[W(j) + 1] = F(j)
                         /\ o(j) = 2 => s[W(j) + 2].op = "disp"
             E == {q \in 0 .. m : Len(ops[q]) = W(q + 1) /\ \A j \in 1 .. q : In(j, ops[q])}
  <1>0. /\ m \in Nat /\ ops[0] = <<>>
        /\ \A j \in 1 .. m : ops[j] = ops[j - 1] \o Emit(us[j].u, Len(ops[j - 1]), map)
        /\ \A j \in 0 .. m : ops[j] \in Seq(S)
        /\ \A j \in 1 .. m : \A at \in Nat : Emit(us[j].u, at, map) \in Seq(S)
        /\ \A j \in 1 .. m : "op" \in DOMAIN us[j].u
    BY DEF Emits
  <1>M. m \in Nat
    BY DEF Emits
  <1>1. ASSUME NEW j \in 1 .. m PROVE /\ Len(e(j)) = o(j) /\ (o(j) >= 1 => e(j)[1] = F(j))
                                     /\ (o(j) = 2 => e(j)[2].op = "disp")
    <2> DEFINE v == us[j].u
               at == W(j)
    <2>1. "op" \in DOMAIN v
      BY <1>0
    <2> HIDE DEF v, at
    <2>2. /\ Len(Emit(v, at, map)) = OpWords(v.op)
          /\ OpWords(v.op) >= 1 => Emit(v, at, map)[1] = First(v, at, map)
          /\ OpWords(v.op) = 2 => Emit(v, at, map)[2].op = "disp"
      BY <2>1, EmitFacts
    <2> QED BY <2>2 DEF v, at
  <1>2. ASSUME NEW j \in 1 .. m PROVE W(j) \in Nat /\ o(j) \in 0 .. 2 /\ W(j + 1) = W(j) + o(j)
    <2>1. j \in Nat \ {0}
      OBVIOUS
    <2>2. o(j) \in 0 .. 2
      BY DEF OpWords
    <2> QED BY <2>1, <2>2, WordsBeforeFacts
  <1>3. W(1) = 0
    <2>1. 1 \in Nat \ {0}
      OBVIOUS
    <2> QED BY <2>1, WordsBeforeFacts
  <1>4. \A j, q \in 1 .. m + 1 : j < q => W(j) + o(j) <= W(q)
    BY <1>0, CountFacts
  <1>5. ASSUME NEW q \in 1 .. m, Len(ops[q - 1]) = W(q)
        PROVE ops[q] = ops[q - 1] \o e(q) /\ e(q) \in Seq(S)
    BY <1>0, <1>2, <1>5
  <1> HIDE DEF W, o, F, e
  <1>6. 0 \in E
    BY <1>0, <1>3
  <1>7. ASSUME NEW q \in 1 .. m, q - 1 \in E PROVE q \in E
    <2> DEFINE a == ops[q - 1]
               b == e(q)
               r == ops[q]
    <2>1. q - 1 + 1 = q /\ q - 1 \in 0 .. m /\ q \in 0 .. m /\ q + 1 \in 1 .. m + 1
      BY <1>0
    <2>2. Len(a) = W(q) /\ \A j \in 1 .. (q - 1) : In(j, a)
      BY <1>7, <2>1
    <2>3. r = a \o b /\ b \in Seq(S) /\ a \in Seq(S)
      BY <1>0, <1>5, <2>1, <2>2
    <2>4. /\ W(q) \in Nat /\ o(q) \in 0 .. 2 /\ W(q + 1) = W(q) + o(q) /\ Len(b) = o(q)
          /\ (o(q) >= 1 => b[1] = F(q)) /\ (o(q) = 2 => b[2].op = "disp")
      BY <1>1, <1>2
    <2> HIDE DEF a, b, r
    <2>5. /\ Len(r) = Len(a) + Len(b)
          /\ \A i \in 1 .. Len(a) : r[i] = a[i]
          /\ \A i \in 1 .. Len(b) : r[Len(a) + i] = b[i]
      BY <2>3, Joined
    <2>6. ASSUME NEW j \in 1 .. (q - 1) PROVE In(j, r)
      <3> DEFINE wj == W(j)
                 oj == o(j)
                 wq == W(q)
      <3>1. j \in 1 .. m /\ j \in 1 .. m + 1 /\ q \in 1 .. m + 1 /\ j < q
        BY <1>M
      <3>2. wj + oj <= wq /\ wj \in Nat /\ oj \in 0 .. 2 /\ Len(a) = wq /\ wq \in Nat
        BY <1>2, <1>4, <2>2, <2>4, <3>1
      <3>3. In(j, a)
        BY <2>2
      <3> HIDE DEF wj, oj, wq
      <3>4. (oj >= 1 => wj + 1 \in 1 .. Len(a)) /\ (oj = 2 => oj >= 1 /\ wj + 2 \in 1 .. Len(a))
        BY <3>2
      <3>5. (oj >= 1 => r[wj + 1] = a[wj + 1]) /\ (oj = 2 => r[wj + 2] = a[wj + 2])
        BY <2>5, <3>4
      <3> QED BY <3>3, <3>5 DEF wj, oj
    <2>7. In(q, r) /\ Len(r) = W(q + 1)
      <3> DEFINE oq == o(q)
                 wq == W(q)
      <3>1. Len(b) = oq /\ Len(a) = wq /\ oq \in 0 .. 2
        BY <2>2, <2>4
      <3> HIDE DEF oq, wq
      <3>2. (oq >= 1 => 1 \in 1 .. Len(b)) /\ (oq = 2 => 2 \in 1 .. Len(b))
        BY <3>1
      <3>3. /\ oq >= 1 => r[wq + 1] = b[1]
            /\ oq = 2 => r[wq + 2] = b[2]
            /\ Len(r) = wq + oq
        BY <2>5, <3>1, <3>2
      <3> QED BY <2>4, <3>3 DEF oq, wq
    <2>8. \A j \in 1 .. q : j \in 1 .. (q - 1) \/ j = q
      OBVIOUS
    <2>9. \A j \in 1 .. q : In(j, r)
      <3> HIDE DEF In
      <3> QED BY <2>6, <2>7, <2>8
    <2> QED BY <2>1, <2>7, <2>9 DEF r
  <1>8. 0 .. m \subseteq E
    <2> HIDE DEF E
    <2> QED BY <1>0, <1>6, <1>7, UpTo
  <1>9. m \in E
    <2>1. m \in 0 .. m
      BY <1>M
    <2> HIDE DEF E
    <2> QED BY <1>8, <2>1
  <1> QED BY <1>9 DEF W, o, F, e

\* Where the ops of the transcoded program are: a head's op index, the words of its
\* unit there, the next head behind them; a head without words shares its index
\* with a later one only; and every word is a head's, or a displacement.
Laid(c, T, t) ==
  LET n == Cardinality(DOMAIN c)
      u(h) == Step(c, T, h)
  IN /\ Len(t.ops) \in Nat
     /\ \A h \in DOMAIN t.map :
          /\ h \in DOMAIN c
          /\ IF h + u(h).width = n THEN t.map[h] + OpWords(u(h).op) = Len(t.ops)
             ELSE /\ h + u(h).width \in DOMAIN t.map
                  /\ t.map[h + u(h).width] = t.map[h] + OpWords(u(h).op)
          /\ u(h).op # "nop" =>
               /\ t.map[h] < Len(t.ops)
               /\ t.ops[t.map[h] + 1] = First(u(h), t.map[h], t.map)
               /\ \A i \in DOMAIN t.map : t.map[i] = t.map[h] => i <= h
     /\ \A d \in 0 .. (Len(t.ops) - 1) :
          \/ t.ops[d + 1].op = "disp"
          \/ \E h \in DOMAIN t.map : t.map[h] = d /\ u(h).op # "nop"

\* A transcoding lays every unit out at its place in the map.
LEMMA TranscodeLaid ==
  ASSUME NEW c, IsProgram(c), NEW e
  PROVE Laid(c, CollectTargets(c, e), TranscodeEx(c, e))
  <1> DEFINE T == CollectTargets(c, e)
             t == TranscodeEx(c, e)
             us == Units(c, T)
             map == BuildMap(us)
             m == Len(us)
             ops == OpsAfter(us, map)
             n == Cardinality(DOMAIN c)
             W(j) == WordsBefore(us, j)
             v(j) == us[j].u
             o(j) == OpWords(us[j].u.op)
             hd(j) == us[j].head
             Z == Emitted(us)
  <1>1. t.ops = ops[m] /\ t.map = map
    BY TranscodeIs
  <1>2. us \in Seq(UnitSet(c, T)) /\ \A i \in DOMAIN map : map[i] \in Nat
    BY MapFacts
  <1>3. m \in Nat /\ DOMAIN us = 1 .. m
    BY <1>2
  <1>4. /\ \A j \in 1 .. m :
             /\ hd(j) \in DOMAIN c /\ v(j) = Step(c, T, hd(j))
             /\ hd(j) + v(j).width = IF j = m THEN n ELSE hd(j + 1)
        /\ \A j, q \in 1 .. m : j < q => hd(j) < hd(q)
    BY HeadFacts
  <1>5. /\ \A i \in DOMAIN map : \E j \in 1 .. m : hd(j) = i
        /\ \A j \in 1 .. m : hd(j) \in DOMAIN map /\ map[hd(j)] = W(j)
    BY BuiltMap
  <1>6. /\ \A j \in 1 .. m + 1 : W(j) \in Nat
        /\ \A j, q \in 1 .. m + 1 : j < q => W(j) + o(j) <= W(q)
        /\ \A d \in Nat : d < W(m + 1) => \E j \in 1 .. m : W(j) <= d /\ d < W(j) + o(j)
    BY <1>3, CountFacts
  <1>7. \A j \in 1 .. m : "op" \in DOMAIN v(j)
    <2> TAKE j \in 1 .. m
    <2> DEFINE u == v(j)
    <2>1. IsOp(u)
      BY <1>4, StepFits DEF Fits
    <2> HIDE DEF u
    <2>2. u = Unit(u.op, u.rd, u.rs1, u.rs2, u.imm, u.target, u.width)
      BY <2>1 DEF IsOp
    <2>3. "op" \in DOMAIN u
      BY <2>2 DEF Unit
    <2> QED BY <2>3 DEF u
  <1>8. /\ Len(ops[m]) = W(m + 1)
        /\ \A j \in 1 .. m : /\ o(j) >= 1 => ops[m][W(j) + 1] = First(v(j), W(j), map)
                             /\ o(j) = 2 => ops[m][W(j) + 2].op = "disp"
    <2>1. /\ ops[0] = <<>>
          /\ \A j \in 1 .. m : ops[j] = ops[j - 1] \o Emit(us[j].u, Len(ops[j - 1]), map)
          /\ \A j \in 0 .. m : ops[j] \in Seq(Z)
      BY <1>2, OpsAfterFacts
    <2>2. \A j \in 1 .. m : \A at \in Nat : Emit(us[j].u, at, map) \in Seq(Z)
      BY <1>2, <1>3, EmitTyped
    <2>3. Emits(us, m, map, ops, Z)
      <3> HIDE DEF m, ops, Z, map, us
      <3> QED BY <1>3, <1>7, <2>1, <2>2 DEF Emits
    <2> HIDE DEF m, ops, Z, map, us
    <2> QED BY <2>3, Placed
  <1>9. \A j \in 1 .. m : o(j) \in 0 .. 2 /\ (v(j).op # "nop" => o(j) >= 1) /\ (o(j) >= 1 => v(j).op # "nop")
    <2> TAKE j \in 1 .. m
    <2> DEFINE u == v(j)
    <2> HIDE DEF u
    <2>1. OpWords(u.op) \in 0 .. 2 /\ (u.op # "nop" => OpWords(u.op) >= 1)
          /\ (OpWords(u.op) >= 1 => u.op # "nop")
      BY DEF OpWords
    <2> QED BY <2>1 DEF u
  <1>10. \A j \in 1 .. m : W(j + 1) = W(j) + o(j)
    <2> TAKE j \in 1 .. m
    <2>1. j \in Nat \ {0}
      OBVIOUS
    <2> QED BY <2>1, WordsBeforeFacts
  <1> HIDE DEF T, t, us, map, m, ops, n, W, v, o, hd, Z
  <1> DEFINE L == Len(t.ops)
  <1>11. L = W(m + 1) /\ L \in Nat
    <2>1. m + 1 \in 1 .. m + 1
      BY <1>3
    <2> QED BY <1>1, <1>6, <1>8, <2>1
  <1> HIDE DEF L
  <1>12. ASSUME NEW h \in DOMAIN map
         PROVE \E j \in 1 .. m : /\ hd(j) = h /\ map[h] = W(j) /\ v(j) = Step(c, T, h)
                                 /\ W(j) \in Nat /\ o(j) = OpWords(Step(c, T, h).op)
    <2>1. PICK j \in 1 .. m : hd(j) = h
      BY <1>5
    <2>2. j \in 1 .. m + 1
      BY <1>3
    <2> QED BY <1>4, <1>5, <1>6, <2>1, <2>2 DEF o, v
  <1>13. ASSUME NEW h \in DOMAIN map
         PROVE /\ h \in DOMAIN c
               /\ IF h + Step(c, T, h).width = n THEN map[h] + OpWords(Step(c, T, h).op) = L
                  ELSE /\ h + Step(c, T, h).width \in DOMAIN map
                       /\ map[h + Step(c, T, h).width] = map[h] + OpWords(Step(c, T, h).op)
    <2>1. PICK j \in 1 .. m : /\ hd(j) = h /\ map[h] = W(j) /\ v(j) = Step(c, T, h)
                              /\ W(j) \in Nat /\ o(j) = OpWords(Step(c, T, h).op)
      BY <1>12
    <2>2. CASE j = m
      BY <1>4, <1>10, <1>11, <2>1, <2>2
    <2>3. CASE j # m
      <3>1. j + 1 \in 1 .. m /\ j < j + 1
        BY <1>3, <2>3
      <3>2. hd(j) + v(j).width = hd(j + 1) /\ hd(j + 1) \in DOMAIN map /\ map[hd(j + 1)] = W(j + 1)
        BY <1>4, <1>5, <2>3, <3>1
      <3>3. hd(j + 1) # n
        <4>1. hd(j + 1) \in DOMAIN c
          BY <1>4, <3>1
        <4>2. n \in Nat /\ DOMAIN c = 0 .. (n - 1)
          BY Numbered DEF n
        <4> QED BY <4>1, <4>2
      <3>4. W(j + 1) = W(j) + o(j)
        BY <1>10
      <3> QED BY <1>4, <2>1, <3>2, <3>3, <3>4
    <2> QED BY <2>2, <2>3
  <1>14. ASSUME NEW h \in DOMAIN map, Step(c, T, h).op # "nop"
         PROVE /\ map[h] < L
               /\ t.ops[map[h] + 1] = First(Step(c, T, h), map[h], map)
               /\ \A i \in DOMAIN map : map[i] = map[h] => i <= h
    <2>1. PICK j \in 1 .. m : /\ hd(j) = h /\ map[h] = W(j) /\ v(j) = Step(c, T, h)
                              /\ W(j) \in Nat /\ o(j) = OpWords(Step(c, T, h).op)
      BY <1>12
    <2>2. o(j) >= 1 /\ o(j) \in Nat
      BY <1>9, <1>14, <2>1
    <2>3. map[h] < L
      <3>1. j \in 1 .. m + 1 /\ m + 1 \in 1 .. m + 1 /\ j < m + 1
        BY <1>3
      <3>2. W(j) + o(j) <= W(m + 1)
        BY <1>6, <3>1
      <3> DEFINE wj == W(j)
                 oj == o(j)
      <3> HIDE DEF wj, oj
      <3>3. wj + oj <= L /\ wj \in Nat /\ oj \in Nat /\ oj >= 1
        BY <1>11, <2>1, <2>2, <3>2 DEF wj, oj
      <3> QED BY <1>11, <2>1, <3>3 DEF wj
    <2>4. t.ops[map[h] + 1] = First(Step(c, T, h), map[h], map)
      BY <1>1, <1>8, <2>1, <2>2
    <2>5. ASSUME NEW i \in DOMAIN map, map[i] = map[h] PROVE i <= h
      <3>1. PICK q \in 1 .. m : hd(q) = i /\ map[i] = W(q)
        BY <1>12
      <3>2. ~(j < q)
        <4> SUFFICES ASSUME j < q PROVE FALSE
          OBVIOUS
        <4>1. j \in 1 .. m + 1 /\ q \in 1 .. m + 1
          BY <1>3
        <4>2. W(j) + o(j) <= W(q) /\ W(j) = W(q)
          BY <1>6, <2>1, <2>5, <3>1, <4>1
        <4> DEFINE wj == W(j)
                   oj == o(j)
        <4>3. wj + oj <= wj /\ wj \in Nat /\ oj \in Nat /\ oj >= 1
          BY <2>1, <2>2, <4>2
        <4> HIDE DEF wj, oj
        <4> QED BY <4>3
      <3>3. hd(q) \in Nat /\ hd(j) \in Nat
        <4>1. \A z \in DOMAIN c : z \in Nat
          BY Numbered
        <4> QED BY <1>4, <4>1
      <3>4. q < j \/ q = j
        BY <1>3, <3>2
      <3>5. CASE q < j
        <4>1. hd(q) < hd(j)
          BY <1>4, <3>5
        <4> QED BY <2>1, <3>1, <3>3, <4>1
      <3>6. CASE q = j
        BY <2>1, <3>1, <3>3, <3>6
      <3> QED BY <3>4, <3>5, <3>6
    <2> QED BY <2>3, <2>4, <2>5
  <1>15. ASSUME NEW d \in 0 .. (L - 1)
         PROVE \/ t.ops[d + 1].op = "disp"
               \/ \E h \in DOMAIN map : map[h] = d /\ Step(c, T, h).op # "nop"
    <2>1. d \in Nat /\ d < W(m + 1)
      BY <1>11
    <2>2. PICK j \in 1 .. m : W(j) <= d /\ d < W(j) + o(j)
      BY <1>6, <2>1
    <2> DEFINE wj == W(j)
               oj == o(j)
    <2>3. wj \in Nat /\ oj \in 0 .. 2 /\ wj <= d /\ d < wj + oj
      <3>1. j \in 1 .. m + 1
        BY <1>3
      <3> QED BY <1>6, <1>9, <2>2, <3>1
    <2> HIDE DEF wj, oj
    <2>4. oj >= 1 /\ (d = wj \/ (oj = 2 /\ d = wj + 1))
      BY <2>1, <2>3
    <2>5. CASE d = wj
      <3>1. v(j).op # "nop"
        BY <1>9, <2>4 DEF oj
      <3>2. hd(j) \in DOMAIN map /\ map[hd(j)] = d /\ Step(c, T, hd(j)) = v(j)
        BY <1>4, <1>5, <2>5 DEF wj
      <3> QED BY <3>1, <3>2
    <2>6. CASE oj = 2 /\ d = wj + 1
      <3>1. d + 1 = wj + 2
        BY <2>3, <2>6
      <3>2. ops[m][wj + 2].op = "disp"
        BY <1>8, <2>6 DEF oj, wj
      <3> QED BY <1>1, <3>1, <3>2
    <2> QED BY <2>4, <2>5, <2>6
  <1>16. Laid(c, T, t)
    BY <1>1, <1>11, <1>13, <1>14, <1>15 DEF Laid, L, n
  <1> QED BY <1>16 DEF T, t

-----------------------------------------------------------------------------
(* What a unit was made of.                                                 *)

\* The attempts that matched at i.
Made(c, T, i, u) ==
  LET a == Decode(c, i)
      b == Decode(c, i + 1)
  IN \/ u = FusePrologue(c, T, i) /\ u.op = "PROLOGUE"
     \/ u = FuseEpilogue(c, T, i) /\ u.op = "EPILOGUE"
     \/ u = FuseLa(c, T, i) /\ u.op = "LI"
     \/ Second(c, T, i) /\ u = FuseShadd(a, b) /\ u.op = "SHADD"
     \/ Second(c, T, i) /\ u = FuseLwx(a, b) /\ u.op = "LWX"
     \/ Second(c, T, i) /\ u = FuseLwlw(c, T, i, a, b) /\ u.op \in {"LWLW", "VCALL"}
     \/ Second(c, T, i) /\ u = FuseLwsw(a, b) /\ u.op = "LWSW"
     \/ Second(c, T, i) /\ u = FuseLoadBz(a, b) /\ u.op \in BzOps
     \/ u = LoneAuipc(a, i) /\ u.op = "LI"
     \/ u = a /\ u.op \in InsnOps \cup {"nop"}

\* What a fused pair says of the instructions it stands for.
LEMMA PairMade ==
  ASSUME NEW c, IsProgram(c), NEW T, NEW i \in DOMAIN c, FusePair(c, T, i).op # "none"
  PROVE Made(c, T, i, FusePair(c, T, i))
  <1> DEFINE n == Cardinality(DOMAIN c)
             a == Decode(c, i)
             b == Decode(c, i + 1)
             s == <<FuseShadd(a, b), FuseLwx(a, b), FuseLwlw(c, T, i, a, b),
                    FuseLwsw(a, b), FuseLoadBz(a, b)>>
             u == FusePair(c, T, i)
  <1>1. ~(i + 2 > n \/ i + 1 \in T)
    BY DEF FusePair, NoUnit, Unit
  <1>2. Second(c, T, i)
    <2>1. n \in Nat /\ i \in Nat /\ DOMAIN c = 0 .. (n - 1)
      BY Numbered
    <2> HIDE DEF n
    <2>2. i + 1 \in 0 .. (n - 1) /\ i + 2 <= n
      BY <1>1, <2>1
    <2> QED BY <1>1, <2>1, <2>2 DEF Second, n
  <1>3. u = FirstOf(s)
    <2> HIDE DEF s
    <2> QED BY <1>1 DEF FusePair, s
  <1>4. \E j \in 1 .. 5 : s[j].op # "none" /\ u = s[j]
    <2>1. DOMAIN s = 1 .. 5
      <3> HIDE DEF a, b
      <3> QED OBVIOUS
    <2>2. NoUnit.op = "none"
      BY NoUnitFits
    <2>3. u.op # "none"
      OBVIOUS
    <2> HIDE DEF s, u
    <2> QED BY <1>3, <2>1, <2>2, <2>3, FirstMatches
  <1>5. u \in {FuseShadd(a, b), FuseLwx(a, b), FuseLwlw(c, T, i, a, b), FuseLwsw(a, b), FuseLoadBz(a, b)}
    <2> HIDE DEF a, b, u
    <2> QED BY <1>4
  <1>6. u.op # "none"
    OBVIOUS
  <1> HIDE DEF a, b, u
  <1>7. u = FuseShadd(a, b) => u.op = "SHADD"
    BY <1>6 DEF FuseShadd, NoUnit, Unit
  <1>8. u = FuseLwx(a, b) => u.op = "LWX"
    BY <1>6 DEF FuseLwx, NoUnit, Unit
  <1>9. u = FuseLwlw(c, T, i, a, b) => u.op \in {"LWLW", "VCALL"}
    BY <1>6 DEF FuseLwlw, NoUnit, Unit
  <1>10. u = FuseLwsw(a, b) => u.op = "LWSW"
    BY <1>6 DEF FuseLwsw, NoUnit, Unit
  <1>11. u = FuseLoadBz(a, b) => u.op \in BzOps
    BY <1>6 DEF FuseLoadBz, NoUnit, Unit, BzOps
  <1> QED BY <1>2, <1>5, <1>7, <1>8, <1>9, <1>10, <1>11 DEF Made, a, b, u

\* What the unit at i says of the instructions it stands for.
LEMMA StepMade ==
  ASSUME NEW c, IsProgram(c), NEW T, NEW i \in DOMAIN c
  PROVE Made(c, T, i, Step(c, T, i))
  <1> DEFINE d == Decode(c, i)
             u == Step(c, T, i)
             s == <<FusePrologue(c, T, i), FuseEpilogue(c, T, i), FuseLa(c, T, i),
                    FusePair(c, T, i), LoneAuipc(d, i), d>>
  <1>1. u = FirstOf(s)
    BY DEF Step
  <1>2. u.op # "none"
    BY StepFits
  <1> SUFFICES Made(c, T, i, u)
    OBVIOUS
  <1> HIDE DEF u
  <1>3. \E j \in 1 .. 6 : s[j].op # "none" /\ u = s[j]
    <2>1. DOMAIN s = 1 .. 6
      <3> HIDE DEF d
      <3> QED OBVIOUS
    <2>2. NoUnit.op = "none"
      BY NoUnitFits
    <2> HIDE DEF s
    <2> QED BY <1>1, <1>2, <2>1, <2>2, FirstMatches
  <1>4. u \in {FusePrologue(c, T, i), FuseEpilogue(c, T, i), FuseLa(c, T, i),
               FusePair(c, T, i), LoneAuipc(d, i), d}
    <2> HIDE DEF d
    <2> QED BY <1>3
  <1>5. CASE u = FusePrologue(c, T, i)
    <2>1. u.op = "PROLOGUE"
      BY <1>2, <1>5 DEF FusePrologue, FrameUnit, NoUnit, Unit
    <2> QED BY <1>5, <2>1 DEF Made
  <1>6. CASE u = FuseEpilogue(c, T, i)
    <2>1. u.op = "EPILOGUE"
      BY <1>2, <1>6 DEF FuseEpilogue, FrameUnit, NoUnit, Unit
    <2> QED BY <1>6, <2>1 DEF Made
  <1>7. CASE u = FuseLa(c, T, i)
    <2>1. u.op = "LI"
      BY <1>2, <1>7 DEF FuseLa, LoadImm, NoUnit, Unit
    <2> QED BY <1>7, <2>1 DEF Made
  <1>8. CASE u = FusePair(c, T, i)
    BY <1>2, <1>8, PairMade
  <1>9. CASE u = LoneAuipc(d, i)
    <2>1. u.op = "LI"
      <3> HIDE DEF d
      <3> QED BY <1>2, <1>9 DEF LoneAuipc, LoadImm, NoUnit, Unit
    <2> QED BY <1>9, <2>1 DEF Made
  <1>10. CASE u = d
    <2>1. d.op \in InsnOps \cup {"nop"}
      BY DecodeFacts
    <2> QED BY <1>10, <2>1 DEF Made
  <1> QED BY <1>4, <1>5, <1>6, <1>7, <1>8, <1>9, <1>10

\* Only a nop makes a nop, and a unit with an instruction's op is that instruction.
LEMMA PlainMade ==
  ASSUME NEW c, IsProgram(c), NEW T, NEW i \in DOMAIN c,
         Step(c, T, i).op \in InsnOps \cup {"nop"}
  PROVE Step(c, T, i) = Decode(c, i)
  <1> DEFINE u == Step(c, T, i)
  <1>1. Made(c, T, i, u)
    BY StepMade
  <1> HIDE DEF u
  <1>2. u.op \in InsnOps \cup {"nop"}
    BY DEF u
  <1>3. u.op \notin {"PROLOGUE", "EPILOGUE", "LI", "SHADD", "LWX", "LWLW", "VCALL", "LWSW"} \cup BzOps
    BY <1>2 DEF InsnOps, BzOps
  <1>4. u = Decode(c, i)
    BY <1>1, <1>3 DEF Made
  <1> QED BY <1>4 DEF u

(* The ops of the program, its code addresses re-encoded.                   *)

\* The displacement between the auipc at i and what it takes the address of.
Apart(c, map, i) == 4 * map[c[i].rel.to] + c[i].rel.add - 4 * map[i]

\* The instructions that complete a code address.
IsLow(c, i) == c[i].rel.kind = "lo" /\ c[i].rel.to \in CodeHi(c)

\* What the unit that starts at h ends up as.
Final(c, T, map, h) ==
  LET u == Step(c, T, h)
      v == First(u, map[h], map)
  IN IF h \in CodeHi(c) THEN [v EXCEPT !.imm = HiPart(Apart(c, map, h))]
     ELSE IF IsLow(c, h) THEN [v EXCEPT !.imm = LoPart(Apart(c, map, c[h].rel.to))]
     ELSE IF u.op = "auipc" THEN Unit("LI", u.rd, 0, 0, Wrap(4 * h + u.imm), 0, 1)
     ELSE v

\* The first op of a unit is of the unit's kind.
LEMMA FirstOp ==
  ASSUME NEW c, IsProgram(c), NEW T, NEW i \in DOMAIN c, NEW at, NEW map
  PROVE LET u == Step(c, T, i)
            v == First(u, at, map)
        IN /\ v.op = u.op /\ v.rd = u.rd /\ v.rs1 = u.rs1 /\ v.rs2 = u.rs2 /\ v.imm = u.imm
           /\ v.width = u.width /\ (u.op \in Jumps => v.target = TargetWord(map, u.target, at))
           /\ DOMAIN v = {"op", "rd", "rs1", "rs2", "imm", "target", "width"}
           /\ u.op \notin Jumps => v = u
  <1> DEFINE u == Step(c, T, i)
             g == TargetWord(map, u.target, at)
  <1>1. IsOp(u)
    BY StepFits DEF Fits
  <1> HIDE DEF u, g
  <1>2. u = Unit(u.op, u.rd, u.rs1, u.rs2, u.imm, u.target, u.width)
    BY <1>1 DEF IsOp
  <1>3. DOMAIN u = {"op", "rd", "rs1", "rs2", "imm", "target", "width"}
    BY <1>2 DEF Unit
  <1>4. First(u, at, map) = IF u.op \in Jumps THEN [u EXCEPT !.target = g] ELSE u
    BY DEF First, g
  <1> DEFINE v == First(u, at, map)
  <1>5. v = IF u.op \in Jumps THEN [u EXCEPT !.target = g] ELSE u
    BY <1>4
  <1> HIDE DEF v
  <1>6. /\ v.op = u.op /\ v.rd = u.rd /\ v.rs1 = u.rs1 /\ v.rs2 = u.rs2 /\ v.imm = u.imm
        /\ v.width = u.width /\ (u.op \in Jumps => v.target = g)
        /\ DOMAIN v = {"op", "rd", "rs1", "rs2", "imm", "target", "width"}
        /\ u.op \notin Jumps => v = u
    BY <1>3, <1>5
  <1> QED BY <1>6 DEF u, v, g

\* No auipc with a relocation and no instruction that completes one is a nop.
LEMMA LinkedIsOp ==
  ASSUME NEW c, IsProgram(c), IsLinked(c), NEW T, NEW i \in DOMAIN c, c[i].rel.kind \in {"hi", "lo"}
  PROVE Step(c, T, i).op # "nop"
  <1> DEFINE op == c[i].op
             rd == c[i].rd
             d == Decode(c, i)
  <1>1. d.op = IF rd = 0 /\ op \in Zeroable THEN "nop" ELSE op
    BY DEF Decode, Unit
  <1>2. /\ c[i].rel.kind = "hi" => op = "auipc" /\ rd # 0
        /\ c[i].rel.kind = "lo" => /\ op \in {"addi", "lw", "lbu", "sw", "jalr"}
                                   /\ op = "addi" => rd # 0
    BY DEF IsLinked
  <1>3. d.op # "nop"
    <2> HIDE DEF op, rd, d
    <2> QED BY <1>1, <1>2 DEF Zeroable
  <1>4. Step(c, T, i).op = "nop" => Step(c, T, i) = d
    BY PlainMade
  <1> QED BY <1>3, <1>4

\* What apply_pcrel_code_fixups makes of a program whose fixups all passed its checks.
LEMMA FixedLaid ==
  ASSUME NEW c, IsProgram(c), IsLinked(c), NEW T, NEW t, Laid(c, T, t), DOMAIN t.ops = 1 .. Len(t.ops),
         \A i \in DOMAIN t.map : t.map[i] \in Nat,
         AllPaired(c), \A f \in Fixups(c) : Fixable(c, t, f)
  PROVE LET s == ApplyFixups(c, t)
            u(h) == Step(c, T, h)
            v(h) == First(u(h), t.map[h], t.map)
        IN /\ DOMAIN s = DOMAIN t.ops
           /\ \A i \in CodeHi(c) : /\ i \in DOMAIN t.map /\ u(i).op = "auipc"
                                   /\ c[i].rel.to \in DOMAIN t.map
           /\ \A i \in DOMAIN c : IsLow(c, i) => i \in DOMAIN t.map /\ u(i).op \in Imm16Low
           /\ \A h \in DOMAIN t.map : u(h).op # "nop" =>
                s[t.map[h] + 1] =
                  IF h \in CodeHi(c) THEN [v(h) EXCEPT !.imm = HiPart(Apart(c, t.map, h))]
                  ELSE IF IsLow(c, h) THEN [v(h) EXCEPT !.imm = LoPart(Apart(c, t.map, c[h].rel.to))]
                  ELSE v(h)
           /\ \A j \in DOMAIN t.ops : t.ops[j].op = "disp" => s[j].op = "disp"
  <1> DEFINE s == ApplyFixups(c, t)
             map == t.map
             u(h) == Step(c, T, h)
             v(h) == First(u(h), map[h], map)
             high(j) == {f \in Fixups(c) : map[f[1]] + 1 = j}
             low(j) == {f \in Fixups(c) : map[f[2]] + 1 = j}
             d(F) == Displacement(c, t, CHOOSE f \in F : TRUE)
  <1>1. s = [j \in DOMAIN t.ops |->
               IF high(j) # {} THEN [t.ops[j] EXCEPT !.imm = HiPart(d(high(j)))]
               ELSE IF low(j) # {} THEN [t.ops[j] EXCEPT !.imm = LoPart(d(low(j)))]
               ELSE t.ops[j]]
    BY DEF ApplyFixups
  <1>2. \A h \in DOMAIN map :
          /\ h \in DOMAIN c
          /\ u(h).op # "nop" =>
               /\ map[h] < Len(t.ops) /\ t.ops[map[h] + 1] = v(h)
               /\ \A i \in DOMAIN map : map[i] = map[h] => i <= h
    BY DEF Laid
  <1>3. ASSUME NEW h \in DOMAIN map, u(h).op # "nop"
        PROVE /\ map[h] + 1 \in DOMAIN t.ops /\ t.ops[map[h] + 1] = v(h) /\ v(h).op = u(h).op
              /\ \A i \in DOMAIN map : u(i).op # "nop" /\ map[i] + 1 = map[h] + 1 => i = h
    <2>1. map[h] \in Nat /\ map[h] < Len(t.ops) /\ t.ops[map[h] + 1] = v(h) /\ h \in DOMAIN c
      BY <1>2, <1>3
    <2>2. v(h).op = u(h).op
      BY <2>1, FirstOp
    <2>3. map[h] + 1 \in DOMAIN t.ops
      <3>1. Len(t.ops) \in Nat
        BY DEF Laid
      <3> QED BY <2>1, <3>1
    <2>4. ASSUME NEW i \in DOMAIN map, u(i).op # "nop", map[i] + 1 = map[h] + 1 PROVE i = h
      <3>1. map[i] \in Nat /\ i \in DOMAIN c
        BY <1>2
      <3>2. map[i] = map[h]
        <4> HIDE DEF map
        <4> QED BY <2>1, <2>4, <3>1
      <3>3. i <= h /\ h <= i
        BY <1>2, <1>3, <2>4, <3>2
      <3>4. \A z \in DOMAIN c : z \in Nat
        BY Numbered
      <3>5. i \in Nat /\ h \in Nat
        BY <2>1, <3>1, <3>4
      <3> QED BY <3>3, <3>5
    <2> QED BY <2>1, <2>2, <2>3, <2>4
  <1>4. ASSUME NEW f \in Fixups(c)
        PROVE /\ f = <<f[1], f[2]>> /\ f[1] \in CodeHi(c) /\ f[2] \in DOMAIN c /\ f[1] \in DOMAIN c
              /\ c[f[2]].rel.kind = "lo" /\ c[f[2]].rel.to = f[1] /\ c[f[1]].rel.kind = "hi"
              /\ {f[1], f[2], c[f[1]].rel.to} \subseteq DOMAIN map
              /\ t.ops[map[f[2]] + 1].op \in Imm16Low /\ t.ops[map[f[1]] + 1].op = "auipc"
    BY <1>4 DEF Fixups, Fixable, CodeHi
  <1>5. ASSUME NEW f \in Fixups(c)
        PROVE /\ u(f[1]).op # "nop" /\ u(f[2]).op # "nop"
              /\ u(f[1]).op = "auipc" /\ u(f[2]).op \in Imm16Low
    <2>1. u(f[1]).op # "nop" /\ u(f[2]).op # "nop"
      BY <1>4, LinkedIsOp
    <2> DEFINE g == f[1]
               h == f[2]
    <2>2. /\ g \in DOMAIN map /\ h \in DOMAIN map
          /\ t.ops[map[h] + 1].op \in Imm16Low /\ t.ops[map[g] + 1].op = "auipc"
      BY <1>4
    <2> HIDE DEF g, h, map
    <2>3. u(g).op = t.ops[map[g] + 1].op /\ u(h).op = t.ops[map[h] + 1].op
      BY <1>3, <2>1, <2>2 DEF g, h
    <2> QED BY <2>1, <2>2, <2>3 DEF g, h
  <1>6. ASSUME NEW i \in CodeHi(c) PROVE \E f \in Fixups(c) : f[1] = i
    BY DEF AllPaired
  <1>7. ASSUME NEW i \in DOMAIN c, IsLow(c, i) PROVE <<c[i].rel.to, i>> \in Fixups(c)
    BY <1>7 DEF IsLow, Fixups
  <1>8. \A f \in Fixups(c) : Displacement(c, t, f) = Apart(c, map, f[1])
    BY DEF Displacement, Apart
  <1> HIDE DEF map, u, v, s
  <1>9. ASSUME NEW h \in DOMAIN map, u(h).op # "nop"
        PROVE /\ s[map[h] + 1] =
                   IF h \in CodeHi(c) THEN [v(h) EXCEPT !.imm = HiPart(Apart(c, map, h))]
                   ELSE IF IsLow(c, h) THEN [v(h) EXCEPT !.imm = LoPart(Apart(c, map, c[h].rel.to))]
                   ELSE v(h)
    <2> DEFINE j == map[h] + 1
    <2>1. /\ j \in DOMAIN t.ops /\ t.ops[j] = v(h) /\ h \in DOMAIN c
          /\ \A i \in DOMAIN map : u(i).op # "nop" /\ map[i] + 1 = j => i = h
      BY <1>2, <1>3, <1>9
    <2> HIDE DEF j
    <2>2. \A f \in high(j) : f \in Fixups(c) /\ f[1] = h
      BY <1>4, <1>5, <2>1
    <2>3. \A f \in low(j) : f \in Fixups(c) /\ f[2] = h
      BY <1>4, <1>5, <2>1
    <2>4. s[j] = IF high(j) # {} THEN [v(h) EXCEPT !.imm = HiPart(d(high(j)))]
                 ELSE IF low(j) # {} THEN [v(h) EXCEPT !.imm = LoPart(d(low(j)))] ELSE v(h)
      <3> HIDE DEF high, low, d
      <3> QED BY <1>1, <2>1
    <2>5. h \in CodeHi(c) => high(j) # {}
      BY <1>6 DEF j
    <2>6. h \notin CodeHi(c) => high(j) = {}
      BY <1>4, <2>2
    <2>7. h \notin CodeHi(c) /\ IsLow(c, h) => low(j) # {}
      <3> SUFFICES ASSUME IsLow(c, h) PROVE low(j) # {}
        OBVIOUS
      <3> DEFINE f == <<c[h].rel.to, h>>
      <3>1. f \in Fixups(c)
        BY <1>7, <2>1
      <3>2. f[2] = h
        OBVIOUS
      <3> HIDE DEF f
      <3>3. f \in low(j)
        BY <3>1, <3>2 DEF j
      <3> QED BY <3>3
    <2>8. ~IsLow(c, h) => low(j) = {}
      BY <1>4, <2>3 DEF IsLow
    <2>9. high(j) # {} => d(high(j)) = Apart(c, map, h)
      <3> DEFINE f == CHOOSE f \in high(j) : TRUE
      <3> SUFFICES ASSUME high(j) # {} PROVE Displacement(c, t, f) = Apart(c, map, h)
        OBVIOUS
      <3>1. f \in high(j)
        <4> HIDE DEF high
        <4> QED OBVIOUS
      <3> HIDE DEF f
      <3> QED BY <1>8, <2>2, <3>1
    <2>10. low(j) # {} => d(low(j)) = Apart(c, map, c[h].rel.to)
      <3> DEFINE f == CHOOSE f \in low(j) : TRUE
      <3> SUFFICES ASSUME low(j) # {} PROVE Displacement(c, t, f) = Apart(c, map, c[h].rel.to)
        OBVIOUS
      <3>1. f \in low(j)
        <4> HIDE DEF low
        <4> QED OBVIOUS
      <3> HIDE DEF f
      <3>2. f \in Fixups(c) /\ f[2] = h
        BY <2>3, <3>1
      <3>3. f[1] = c[h].rel.to
        BY <1>4, <3>2
      <3> QED BY <1>8, <3>2, <3>3
    <2> HIDE DEF high, low, d
    <2>11. CASE h \in CodeHi(c)
      BY <2>4, <2>5, <2>9, <2>11 DEF j
    <2>12. CASE h \notin CodeHi(c) /\ IsLow(c, h)
      BY <2>4, <2>6, <2>7, <2>10, <2>12 DEF j
    <2>13. CASE h \notin CodeHi(c) /\ ~IsLow(c, h)
      BY <2>4, <2>6, <2>8, <2>13 DEF j
    <2> QED BY <2>11, <2>12, <2>13
  <1>10. ASSUME NEW j \in DOMAIN t.ops, t.ops[j].op = "disp" PROVE s[j].op = "disp"
    <2>1. high(j) = {}
      BY <1>4, <1>10
    <2>2. low(j) = {}
      BY <1>4, <1>10 DEF Imm16Low
    <2>3. s[j] = t.ops[j]
      <3> HIDE DEF high, low, d
      <3> QED BY <1>1, <2>1, <2>2
    <2> QED BY <1>10, <2>3
  <1>11. \A i \in CodeHi(c) : i \in DOMAIN map /\ u(i).op = "auipc" /\ c[i].rel.to \in DOMAIN map
    <2> TAKE i \in CodeHi(c)
    <2>1. PICK f \in Fixups(c) : f[1] = i
      BY <1>6
    <2> QED BY <1>4, <1>5, <2>1
  <1>12. ASSUME NEW i \in DOMAIN c, IsLow(c, i) PROVE i \in DOMAIN map /\ u(i).op \in Imm16Low
    <2> DEFINE f == <<c[i].rel.to, i>>
    <2>1. f \in Fixups(c)
      BY <1>7, <1>12
    <2>2. f[2] = i
      OBVIOUS
    <2> HIDE DEF f
    <2> QED BY <1>4, <1>5, <2>1, <2>2
  <1>13. DOMAIN s = DOMAIN t.ops
    BY <1>1
  <1> QED BY <1>9, <1>10, <1>11, <1>12, <1>13 DEF map, u, v, s

\* The tool's program: its ops lie where the transcoder laid them, with the code
\* addresses of op space; the data's are constants.
Linked(c, T, t) ==
  LET n == Cardinality(DOMAIN c)
      u(h) == Step(c, T, h)
  IN /\ Len(t.ops) \in Nat /\ \A i \in DOMAIN t.map : t.map[i] \in Nat
     /\ \A i \in CodeHi(c) : /\ i \in DOMAIN t.map /\ u(i).op = "auipc"
                             /\ c[i].rel.to \in DOMAIN t.map
     /\ \A i \in DOMAIN c : IsLow(c, i) => i \in T /\ i \in DOMAIN t.map /\ u(i).op \in Imm16Low
     /\ \A i \in DOMAIN c : i \in T => i \in DOMAIN t.map
     /\ \A i \in DOMAIN c : c[i].op \in Branches \cup {"jal"} => c[i].target \in T
     /\ \A h \in DOMAIN t.map :
          /\ h \in DOMAIN c
          /\ IF h + u(h).width = n THEN t.map[h] + OpWords(u(h).op) = Len(t.ops)
             ELSE /\ h + u(h).width \in DOMAIN t.map
                  /\ t.map[h + u(h).width] = t.map[h] + OpWords(u(h).op)
          /\ u(h).op # "nop" =>
               /\ t.map[h] < Len(t.ops) /\ t.ops[t.map[h] + 1] = Final(c, T, t.map, h)
               /\ \A i \in DOMAIN t.map : t.map[i] = t.map[h] => i <= h
     /\ \A d \in 0 .. (Len(t.ops) - 1) :
          \/ t.ops[d + 1].op = "disp"
          \/ \E h \in DOMAIN t.map : t.map[h] = d /\ u(h).op # "nop"

\* resolve_data_auipc, behind the fixups.
LEMMA ResolvedLaid ==
  ASSUME NEW c, IsProgram(c), IsLinked(c), NEW T, NEW t, Laid(c, T, t), DOMAIN t.ops = 1 .. Len(t.ops),
         \A i \in DOMAIN t.map : t.map[i] \in Nat,
         AllPaired(c), \A f \in Fixups(c) : Fixable(c, t, f)
  PROVE LET s == ResolveData(c, t, ApplyFixups(c, t))
        IN /\ DOMAIN s = DOMAIN t.ops
           /\ \A h \in DOMAIN t.map : Step(c, T, h).op # "nop" =>
                s[t.map[h] + 1] = Final(c, T, t.map, h)
           /\ \A j \in DOMAIN t.ops : t.ops[j].op = "disp" => s[j].op = "disp"
  <1> DEFINE map == t.map
             ops == ApplyFixups(c, t)
             s == ResolveData(c, t, ops)
             u(h) == Step(c, T, h)
             v(h) == First(u(h), map[h], map)
             here(i, j) == Bare(ops, t, i) /\ map[i] + 1 = j
             k0(j) == CHOOSE i \in DataHi(c) : here(i, j)
  <1>1. s = [j \in DOMAIN ops |->
               IF \E i \in DataHi(c) : here(i, j)
                 THEN Unit("LI", ops[j].rd, 0, 0, DataValue(ops, t, k0(j)), 0, 1) ELSE ops[j]]
    BY DEF ResolveData
  <1>2. /\ DOMAIN ops = DOMAIN t.ops
        /\ \A i \in CodeHi(c) : u(i).op = "auipc"
        /\ \A h \in DOMAIN map : u(h).op # "nop" =>
             ops[map[h] + 1] =
               IF h \in CodeHi(c) THEN [v(h) EXCEPT !.imm = HiPart(Apart(c, map, h))]
               ELSE IF IsLow(c, h) THEN [v(h) EXCEPT !.imm = LoPart(Apart(c, map, c[h].rel.to))]
               ELSE v(h)
        /\ \A j \in DOMAIN t.ops : t.ops[j].op = "disp" => ops[j].op = "disp"
    BY FixedLaid
  <1>3. ASSUME NEW h \in DOMAIN map
        PROVE /\ h \in DOMAIN c
              /\ u(h).op # "nop" => /\ map[h] + 1 \in DOMAIN t.ops
                                   /\ \A i \in DOMAIN map : map[i] = map[h] => i <= h
    <2>1. /\ h \in DOMAIN c
          /\ u(h).op # "nop" => /\ map[h] < Len(t.ops)
                               /\ \A i \in DOMAIN map : map[i] = map[h] => i <= h
      BY DEF Laid
    <2>2. map[h] \in Nat /\ Len(t.ops) \in Nat
      BY DEF Laid
    <2> QED BY <2>1, <2>2
  <1>4. ASSUME NEW h \in DOMAIN map, u(h).op # "nop", NEW i \in DOMAIN map, u(i).op # "nop",
               map[i] + 1 = map[h] + 1
        PROVE i = h
    <2>1. map[i] \in Nat /\ map[h] \in Nat
      OBVIOUS
    <2> HIDE DEF map
    <2>2. map[i] = map[h]
      BY <1>4, <2>1
    <2>3. i <= h /\ h <= i
      BY <1>3, <1>4, <2>2
    <2>4. \A z \in DOMAIN c : z \in Nat
      BY Numbered
    <2>5. i \in Nat /\ h \in Nat
      BY <1>3, <2>4
    <2> QED BY <2>3, <2>5
  <1>5. ASSUME NEW i \in DataHi(c)
        PROVE i \in DOMAIN c /\ u(i).op # "nop" /\ i \notin CodeHi(c) /\ ~IsLow(c, i)
    <2>1. i \in DOMAIN c /\ c[i].rel.kind = "hi" /\ c[i].rel.to = -1
      BY DEF DataHi
    <2>2. u(i).op # "nop"
      BY <2>1, LinkedIsOp
    <2> QED BY <2>1, <2>2 DEF CodeHi, IsLow
  <1> HIDE DEF s, ops, map, u, v
  <1>6. ASSUME NEW h \in DOMAIN map, u(h).op # "nop" PROVE s[map[h] + 1] = Final(c, T, map, h)
    <2> DEFINE j == map[h] + 1
    <2>1. j \in DOMAIN ops /\ h \in DOMAIN c
      BY <1>2, <1>3, <1>6
    <2>2. \A i \in DataHi(c) : here(i, j) => i = h
      <3> TAKE i \in DataHi(c)
      <3> SUFFICES ASSUME here(i, j) PROVE i = h
        OBVIOUS
      <3>1. i \in DOMAIN map /\ u(i).op # "nop" /\ map[i] + 1 = map[h] + 1
        BY <1>5 DEF Bare, map
      <3> QED BY <1>4, <1>6, <3>1
    <2>3. s[j] = IF \E i \in DataHi(c) : here(i, j)
                   THEN Unit("LI", ops[j].rd, 0, 0, DataValue(ops, t, k0(j)), 0, 1) ELSE ops[j]
      <3> HIDE DEF here, k0, j
      <3> QED BY <1>1, <2>1
    <2>4. CASE h \in CodeHi(c) \/ IsLow(c, h)
      <3>1. ~\E i \in DataHi(c) : here(i, j)
        BY <1>5, <2>2, <2>4
      <3>2. s[j] = ops[j]
        <4> HIDE DEF here, j, k0
        <4> QED BY <2>3, <3>1
      <3> QED BY <1>2, <1>6, <2>4, <3>2 DEF Final, u, v
    <2>5. CASE h \notin CodeHi(c) /\ ~IsLow(c, h)
      <3>1. ops[j] = v(h)
        BY <1>2, <1>6, <2>5
      <3>2. v(h).op = u(h).op /\ (u(h).op = "auipc" => v(h) = u(h))
        <4>1. "auipc" \notin Jumps
          BY DEF Jumps, Branches, BzOps
        <4> QED BY <2>1, <4>1, FirstOp DEF u, v
      <3>3. CASE u(h).op = "auipc"
        <4>1. u(h) = Decode(c, h)
          BY <2>1, <3>3, PlainMade DEF u, InsnOps
        <4>2. c[h].op = "auipc" /\ c[h].rd # 0
          <5> DEFINE op == c[h].op
                     rd == c[h].rd
                     w0 == u(h).op
          <5>1. w0 = IF rd = 0 /\ op \in Zeroable THEN "nop" ELSE op
            BY <4>1 DEF Decode, Unit
          <5>2. w0 = "auipc"
            BY <3>3
          <5> HIDE DEF op, rd, w0
          <5>3. op = "auipc" /\ rd # 0
            BY <5>1, <5>2 DEF Zeroable
          <5> QED BY <5>3 DEF op, rd
        <4>3. h \in DataHi(c)
          BY <2>1, <2>5, <4>2 DEF IsLinked, CodeHi, DataHi
        <4>4. here(h, j)
          BY <3>1, <3>2, <3>3 DEF Bare, map
        <4>5. k0(j) = h
          <5> HIDE DEF here, j
          <5> QED BY <2>2, <4>3, <4>4
        <4>6. DataValue(ops, t, h) = Wrap(4 * h + u(h).imm)
          BY <3>1, <3>2, <3>3 DEF DataValue, map
        <4>7. s[j] = Unit("LI", u(h).rd, 0, 0, Wrap(4 * h + u(h).imm), 0, 1)
          <5>1. s[j] = Unit("LI", ops[j].rd, 0, 0, DataValue(ops, t, k0(j)), 0, 1)
            <6> HIDE DEF here, j, k0
            <6> QED BY <2>3, <4>3, <4>4
          <5> HIDE DEF j, k0
          <5> QED BY <3>1, <3>2, <3>3, <4>5, <4>6, <5>1
        <4> QED BY <2>5, <3>3, <4>7 DEF Final, u
      <3>4. CASE u(h).op # "auipc"
        <4>1. ~here(h, j)
          BY <3>1, <3>2, <3>4 DEF Bare, map
        <4>2. s[j] = ops[j]
          <5> HIDE DEF here, j, k0
          <5> QED BY <2>2, <2>3, <4>1
        <4> QED BY <2>5, <3>1, <3>4, <4>2 DEF Final, u, v
      <3> QED BY <3>3, <3>4
    <2> QED BY <2>4, <2>5
  <1>7. ASSUME NEW j \in DOMAIN t.ops, t.ops[j].op = "disp" PROVE s[j].op = "disp"
    <2>1. ops[j].op = "disp" /\ j \in DOMAIN ops
      BY <1>2, <1>7
    <2>2. ~\E i \in DataHi(c) : here(i, j)
      BY <2>1 DEF Bare, map
    <2>3. s[j] = ops[j]
      <3> HIDE DEF here, k0
      <3> QED BY <1>1, <2>1, <2>2
    <2> QED BY <2>1, <2>3
  <1>8. DOMAIN s = DOMAIN t.ops
    BY <1>1, <1>2
  <1> QED BY <1>6, <1>7, <1>8 DEF s, ops, map, u

\* main of tctool: what it does not refuse.
LEMMA ToolLinked ==
  ASSUME NEW c, IsProgram(c), IsLinked(c), NEW e, e \subseteq DOMAIN c, Tool(c, e).ok
  PROVE Linked(c, CollectTargets(c, Tool(c, e).ext), Tool(c, e))
  <1> DEFINE E == ExtAddrs(c, e)
             T == CollectTargets(c, E)
             t == TranscodeEx(c, E)
             ops == ApplyFixups(c, t)
             r == Tool(c, e)
             map == t.map
  <1>1. r = IF AllPaired(c) /\ \A f \in Fixups(c) : Fixable(c, t, f)
              THEN Resolve(c, E, t, ops) ELSE Refusal
    BY DEF Tool, ToolFor, Reencode
  <1>2. /\ AreOps(t.ops)
        /\ \A i \in DOMAIN map : map[i] \in Nat
        /\ \A i \in T : i \in DOMAIN c => i \in DOMAIN map
    BY TranscodeFacts
  <1>3. r.ok
    OBVIOUS
  <1>4. Laid(c, T, t)
    BY TranscodeLaid
  <1> HIDE DEF r, ops, t
  <1>5. ~Refusal.ok
    BY DEF Refusal
  <1>6. AllPaired(c) /\ (\A f \in Fixups(c) : Fixable(c, t, f)) /\ r = Resolve(c, E, t, ops)
    BY <1>1, <1>3, <1>5
  <1>7. r = [ok |-> TRUE, ext |-> E, map |-> map, ops |-> ResolveData(c, t, ops)]
    <2> HIDE DEF E
    <2> QED BY <1>3, <1>5, <1>6 DEF Resolve
  <1> DEFINE s == ResolveData(c, t, ops)
  <1>8. DOMAIN t.ops = 1 .. Len(t.ops) /\ Len(t.ops) \in Nat
    BY <1>2 DEF AreOps
  <1>9. /\ DOMAIN s = DOMAIN t.ops
        /\ \A h \in DOMAIN map : Step(c, T, h).op # "nop" => s[map[h] + 1] = Final(c, T, map, h)
        /\ \A j \in DOMAIN t.ops : t.ops[j].op = "disp" => s[j].op = "disp"
    <2> HIDE DEF T
    <2> QED BY <1>2, <1>4, <1>6, <1>8, ResolvedLaid DEF ops
  <1>10. /\ \A i \in CodeHi(c) : /\ i \in DOMAIN map /\ Step(c, T, i).op = "auipc"
                                 /\ c[i].rel.to \in DOMAIN map
         /\ \A i \in DOMAIN c : IsLow(c, i) => i \in DOMAIN map /\ Step(c, T, i).op \in Imm16Low
    <2> HIDE DEF T
    <2> QED BY <1>2, <1>4, <1>6, <1>8, FixedLaid
  <1>11. \A i \in DOMAIN c : IsLow(c, i) => i \in T
    <2> TAKE i \in DOMAIN c
    <2> SUFFICES ASSUME IsLow(c, i) PROVE i \in T
      OBVIOUS
    <2> DEFINE f == <<c[i].rel.to, i>>
    <2>1. f \in Fixups(c) /\ f[2] = i
      BY DEF IsLow, Fixups
    <2> HIDE DEF f
    <2>2. i \in E
      BY <2>1 DEF ExtAddrs
    <2> HIDE DEF E
    <2> QED BY <2>2 DEF CollectTargets
  <1>12. \A i \in DOMAIN c : c[i].op \in Branches \cup {"jal"} => c[i].target \in T
    <2> HIDE DEF E
    <2> QED BY DEF CollectTargets
  <1>13. r.ops = s /\ r.map = map /\ r.ext = E /\ AreOps(r.ops)
    <2>1. AreOps(r.ops)
      BY <1>3, ToolFacts DEF r
    <2> HIDE DEF E, s
    <2> QED BY <1>7, <2>1 DEF s
  <1>14. Len(s) = Len(t.ops)
    <2>1. DOMAIN s = 1 .. Len(s) /\ Len(s) \in Nat
      <3> HIDE DEF s
      <3> QED BY <1>13 DEF AreOps
    <2> HIDE DEF s
    <2>2. 1 .. Len(s) = 1 .. Len(t.ops)
      BY <1>8, <1>9, <2>1
    <2> DEFINE l == Len(s)
               q == Len(t.ops)
    <2> HIDE DEF l, q
    <2>3. 1 .. l = 1 .. q /\ l \in Nat /\ q \in Nat
      BY <1>8, <2>1, <2>2 DEF l, q
    <2>4. \A z \in Nat : z \in 1 .. l <=> z \in 1 .. q
      BY <2>3
    <2>5. l = q
      BY <2>3, <2>4
    <2> QED BY <2>5 DEF l, q
  <1> DEFINE n == Cardinality(DOMAIN c)
             u(h) == Step(c, T, h)
  <1>15. /\ \A h \in DOMAIN map :
              /\ h \in DOMAIN c
              /\ IF h + u(h).width = n THEN map[h] + OpWords(u(h).op) = Len(t.ops)
                 ELSE /\ h + u(h).width \in DOMAIN map
                      /\ map[h + u(h).width] = map[h] + OpWords(u(h).op)
              /\ u(h).op # "nop" =>
                   /\ map[h] < Len(t.ops)
                   /\ \A i \in DOMAIN map : map[i] = map[h] => i <= h
         /\ \A d \in 0 .. (Len(t.ops) - 1) :
              \/ t.ops[d + 1].op = "disp"
              \/ \E h \in DOMAIN map : map[h] = d /\ u(h).op # "nop"
    BY <1>4 DEF Laid
  <1> HIDE DEF map, s, T, n, u, E
  <1>16. \A d \in 0 .. (Len(s) - 1) :
           \/ s[d + 1].op = "disp"
           \/ \E h \in DOMAIN map : map[h] = d /\ u(h).op # "nop"
    <2> TAKE d \in 0 .. (Len(s) - 1)
    <2>1. d \in 0 .. (Len(t.ops) - 1) /\ d + 1 \in DOMAIN t.ops
      BY <1>8, <1>14
    <2> QED BY <1>9, <1>15, <2>1
  <1>17. /\ \A i \in CodeHi(c) : i \in DOMAIN map /\ u(i).op = "auipc" /\ c[i].rel.to \in DOMAIN map
         /\ \A i \in DOMAIN c : IsLow(c, i) => i \in T /\ i \in DOMAIN map /\ u(i).op \in Imm16Low
         /\ \A h \in DOMAIN map : u(h).op # "nop" => s[map[h] + 1] = Final(c, T, map, h)
    BY <1>9, <1>10, <1>11 DEF u
  <1>18. Linked(c, T, r)
    BY <1>2, <1>8, <1>12, <1>13, <1>14, <1>15, <1>16, <1>17 DEF Linked, n, u
  <1> QED BY <1>13, <1>18 DEF T, r

-----------------------------------------------------------------------------
(* The source program.                                                      *)

\* Runs: c instructions are one and those before it.
More(v) == IF v = <<>> THEN <<>> ELSE Src!OneMore(v[1])
IsRun(s, m, f) == f = [j \in 0 .. m |-> IF j = 0 THEN <<s>> ELSE IF f[j - 1] = <<>> THEN <<>> ELSE Src!OneMore(f[j - 1][1])]

\* A run goes from each instruction to the next.
LEMMA RunFacts ==
  ASSUME NEW s, NEW m \in Nat, NEW f, IsRun(s, m, f)
  PROVE /\ f[0] = <<s>> /\ \A j \in 1 .. m : f[j] = More(f[j - 1])
        /\ DOMAIN f = 0 .. m
  <1>1. \A j \in 0 .. m : f[j] = IF j = 0 THEN <<s>> ELSE IF f[j - 1] = <<>> THEN <<>> ELSE Src!OneMore(f[j - 1][1])
    BY Zenon DEF IsRun
  <1>2. DOMAIN f = 0 .. m
    BY Zenon DEF IsRun
  <1>3. 0 \in 0 .. m /\ \A j \in 1 .. m : j \in 0 .. m /\ j # 0
    OBVIOUS
  <1> QED BY <1>1, <1>2, <1>3, Zenon DEF More

\* Every state has its runs.
LEMMA RunExists ==
  ASSUME NEW s, NEW m \in Nat
  PROVE \E f : IsRun(s, m, f)
  <1> DEFINE E == {q \in Nat : \E f : IsRun(s, q, f)}
  <1>1. 0 \in E
    <2> DEFINE f == [j \in 0 .. 0 |-> <<s>>]
               g == [j \in 0 .. 0 |-> IF j = 0 THEN <<s>> ELSE IF f[j - 1] = <<>> THEN <<>> ELSE Src!OneMore(f[j - 1][1])]
    <2>1. \A j \in 0 .. 0 : j = 0
      OBVIOUS
    <2>2. f = g
      BY <2>1, Zenon
    <2>3. IsRun(s, 0, f)
      BY <2>2, Zenon DEF IsRun
    <2> QED BY <2>3
  <1>2. ASSUME NEW q \in Nat, q \in E PROVE q + 1 \in E
    <2>1. PICK f : IsRun(s, q, f)
      BY <1>2
    <2>2. f[0] = <<s>> /\ \A j \in 1 .. q : f[j] = More(f[j - 1])
      BY <2>1, RunFacts, ZenonT(60)
    <2> DEFINE m1 == q + 1
               g == [j \in 0 .. m1 |-> IF j = m1 THEN More(f[q]) ELSE f[j]]
    <2>3. g[0] = <<s>>
      BY <2>2
    <2>4. \A j \in 1 .. m1 : g[j] = More(g[j - 1])
      <3> TAKE j \in 1 .. m1
      <3>1. CASE j = m1
        <4>1. j - 1 = q /\ q \in 0 .. m1 /\ j \in 0 .. m1 /\ q # m1
          BY <3>1
        <4>2. g[q] = f[q] /\ g[j] = More(f[q])
          BY <3>1, <4>1, Zenon
        <4> QED BY <4>1, <4>2, Zenon
      <3>2. CASE j # m1
        <4>1. j \in 1 .. q /\ j \in 0 .. m1 /\ j - 1 \in 0 .. m1 /\ j - 1 # m1
          BY <3>2
        <4>2. g[j] = f[j] /\ g[j - 1] = f[j - 1]
          BY <3>2, <4>1, Zenon
        <4> QED BY <2>2, <4>1, <4>2, Zenon
      <3> QED BY <3>1, <3>2
    <2>5. \A j \in 0 .. m1 : j = 0 \/ j \in 1 .. m1
      OBVIOUS
    <2> DEFINE h == [j \in 0 .. m1 |-> IF j = 0 THEN <<s>> ELSE IF g[j - 1] = <<>> THEN <<>> ELSE Src!OneMore(g[j - 1][1])]
    <2>6. DOMAIN g = 0 .. m1 /\ g = [j \in 0 .. m1 |-> g[j]]
      OBVIOUS
    <2>7. m1 \in Nat
      OBVIOUS
    <2> HIDE DEF g, m1
    <2>8. \A j \in 0 .. m1 : g[j] = h[j]
      <3> TAKE j \in 0 .. m1
      <3>1. h[j] = IF j = 0 THEN <<s>> ELSE IF g[j - 1] = <<>> THEN <<>> ELSE Src!OneMore(g[j - 1][1])
        BY Zenon
      <3>2. j # 0 => g[j] = More(g[j - 1])
        BY <2>4, <2>5
      <3> HIDE DEF h
      <3> QED BY <2>3, <3>1, <3>2, Zenon DEF More
    <2>9. g = h
      <3>1. h = [j \in 0 .. m1 |-> h[j]]
        OBVIOUS
      <3> HIDE DEF h
      <3> QED BY <2>6, <2>8, <3>1, Zenon
    <2>10. IsRun(s, m1, g)
      BY <2>9, Zenon DEF IsRun
    <2> QED BY <2>7, <2>10 DEF m1
  <1>3. Nat \subseteq E
    <2> HIDE DEF E
    <2> QED BY <1>1, <1>2, SetInduction
  <1> QED BY <1>3

\* Src!Runs, as one instruction after another.
LEMMA RunsFacts ==
  ASSUME NEW s, NEW c \in Nat
  PROVE Src!Runs(s, 0) = <<s>> /\ Src!Runs(s, c + 1) = More(Src!Runs(s, c))
  <1> DEFINE run(m) == CHOOSE f : IsRun(s, m, f)
  <1>1. ASSUME NEW m \in Nat PROVE Src!Runs(s, m) = run(m)[m] /\ IsRun(s, m, run(m))
    <2>1. \E f : IsRun(s, m, f)
      BY RunExists
    <2>2. Src!Runs(s, m) = run(m)[m]
      BY DEF Src!Runs, IsRun
    <2> QED BY <2>1, <2>2
  <1> DEFINE f == run(c)
             g == run(c + 1)
             z == 0
  <1>2. Src!Runs(s, c) = f[c] /\ IsRun(s, c, f)
    BY <1>1
  <1>3. Src!Runs(s, c + 1) = g[c + 1] /\ IsRun(s, c + 1, g)
    BY <1>1
  <1>4. Src!Runs(s, z) = run(z)[z] /\ IsRun(s, z, run(z))
    BY <1>1
  <1>5. Src!Runs(s, z) = <<s>>
    <2>1. z \in Nat /\ z = 0
      OBVIOUS
    <2> HIDE DEF z, run
    <2> QED BY <1>4, <2>1, RunFacts
  <1> HIDE DEF f, g
  <1>6. f[0] = <<s>> /\ \A j \in 1 .. c : f[j] = More(f[j - 1])
    BY <1>2, RunFacts
  <1>7. g[0] = <<s>> /\ \A j \in 1 .. c + 1 : g[j] = More(g[j - 1])
    <2>1. c + 1 \in Nat
      OBVIOUS
    <2> QED BY <1>3, <2>1, RunFacts, ZenonT(60)
  <1> DEFINE E == {j \in 0 .. c : g[j] = f[j]}
  <1>8. 0 \in E
    BY <1>6, <1>7
  <1>9. ASSUME NEW j \in 1 .. c, j - 1 \in E PROVE j \in E
    <2>1. j \in 1 .. c + 1 /\ j \in 0 .. c
      OBVIOUS
    <2>2. g[j] = More(g[j - 1]) /\ f[j] = More(f[j - 1]) /\ g[j - 1] = f[j - 1]
      BY <1>6, <1>7, <1>9, <2>1, Zenon
    <2>3. g[j] = f[j]
      BY <2>2, Zenon
    <2> QED BY <2>1, <2>3
  <1>10. 0 .. c \subseteq E
    <2> HIDE DEF E
    <2> QED BY <1>8, <1>9, UpTo
  <1>11. g[c] = f[c]
    <2>1. c \in 0 .. c
      OBVIOUS
    <2> QED BY <1>10, <2>1
  <1>12. g[c + 1] = More(g[c])
    <2> DEFINE d == c + 1
    <2>1. d \in 1 .. d /\ d - 1 = c
      OBVIOUS
    <2>2. \A j \in 1 .. d : g[j] = More(g[j - 1])
      BY <1>7
    <2> HIDE DEF d
    <2>3. g[d] = More(g[c])
      BY <2>1, <2>2, Zenon
    <2> QED BY <2>3 DEF d
  <1> QED BY <1>2, <1>3, <1>5, <1>11, <1>12 DEF z

\* The source's copies of the model's operators.
LEMMA SameOps ==
  /\ \A v : Src!Wrap(v) = Wrap(v)
  /\ \A v : Src!Even(v) = Even(v)
  /\ \A m, a : Src!LoadWord(m, a) = LoadWord(m, a) /\ Src!LoadByte(m, a) = LoadByte(m, a)
  /\ \A m, a, v : Src!StoreWord(m, a, v) = StoreWord(m, a, v)
  /\ \A i : Src!Decode(code, i) = Decode(code, i)
  /\ Src!CodeHi(code) = CodeHi(code)
  /\ \A v : Src!LoPart(v) = LoPart(v)
  /\ Src!n = Cardinality(DOMAIN code)
  <1>1. \A v : Src!Wrap(v) = Wrap(v) /\ Src!Even(v) = Even(v) /\ Src!LoPart(v) = LoPart(v)
    BY Zenon DEF Src!Wrap, Wrap, Src!Even, Even, Src!LoPart, LoPart, Src!HiPart, HiPart
  <1>2. \A a, l : Src!Rel(a) = Rel(a) /\ (Src!Hits(a, l) <=> Hits(a, l))
    BY Zenon DEF Src!Wrap, Wrap, Src!Rel, Rel, Src!Hits, Hits
  <1>3. \A j : Src!Weight(j) = Weight(j)
    BY Zenon DEF Src!Weight, Weight
  <1>4. \A v, j : Src!ByteOf(v, j) = ByteOf(v, j)
    BY <1>3, Zenon DEF Src!ByteOf, ByteOf
  <1>5. \A m, o : Src!WordAt(m, o) = WordAt(m, o)
    BY <1>3, Zenon DEF Src!WordAt, WordAt
  <1>6. \A m, o, v : Src!PutWord(m, o, v) = PutWord(m, o, v)
    BY Zenon DEF Src!PutWord, PutWord, Src!ByteOf, ByteOf, Src!Weight, Weight
  <1>7. \A m, a : Src!LoadWord(m, a) = LoadWord(m, a)
    BY <1>2, <1>5, Zenon DEF Src!LoadWord, LoadWord
  <1>8. \A m, a : Src!LoadByte(m, a) = LoadByte(m, a)
    BY <1>2, Zenon DEF Src!LoadByte, LoadByte
  <1>9. \A m, a, v : Src!StoreWord(m, a, v) = StoreWord(m, a, v)
    BY <1>2, <1>6, Zenon DEF Src!StoreWord, StoreWord
  <1>10. \A i : Src!Decode(code, i) = Decode(code, i)
    BY Zenon DEF Src!Decode, Decode, Src!Unit, Unit, Src!Zeroable, Zeroable
  <1>11. Src!CodeHi(code) = CodeHi(code)
    BY Zenon DEF Src!CodeHi, CodeHi
  <1>12. Src!n = Cardinality(DOMAIN code)
    BY Zenon DEF Src!n, Src!Cardinality, Cardinality
  <1> QED BY <1>1, <1>7, <1>8, <1>9, <1>10, <1>11, <1>12, Zenon

\* The program and what was made of it.
Targets == CollectTargets(code, ext)
UnitOf(h) == Step(code, Targets, h)
Layout == IsProgram(code) /\ IsLinked(code) /\ Linked(code, Targets, tc)

\* Op-space addresses: a head's, and that of what follows its unit.
LEMMA AddressFacts ==
  ASSUME Layout, NEW i \in DOMAIN tc.map
  PROVE /\ i \in DOMAIN code /\ i \in Nat /\ tc.map[i] \in Nat /\ n_ops \in Nat
        /\ Src!AddressOf(i) = 4 * tc.map[i]
        /\ Src!AddressOf(i + UnitOf(i).width) = 4 * (tc.map[i] + OpWords(UnitOf(i).op))
        /\ UnitOf(i).width \in Nat \ {0} /\ i + UnitOf(i).width <= Cardinality(DOMAIN code)
  <1> DEFINE n == Cardinality(DOMAIN code)
             e == i + UnitOf(i).width
  <1>1. /\ i \in DOMAIN code /\ tc.map[i] \in Nat /\ n_ops \in Nat
        /\ IF e = n THEN tc.map[i] + OpWords(UnitOf(i).op) = n_ops
           ELSE e \in DOMAIN tc.map /\ tc.map[e] = tc.map[i] + OpWords(UnitOf(i).op)
    BY DEF Layout, Linked, UnitOf, n_ops
  <1>2. n \in Nat /\ DOMAIN code = 0 .. (n - 1)
    BY Numbered DEF Layout
  <1>3. UnitOf(i).width \in Nat \ {0} /\ i + UnitOf(i).width <= n
    BY <1>1, StepFits DEF Layout, Fits, UnitOf
  <1> HIDE DEF n, e
  <1>4. Src!n = n
    BY SameOps DEF n
  <1>5. i \in Nat /\ i # n
    BY <1>1, <1>2
  <1>6. Src!AddressOf(i) = 4 * tc.map[i]
    BY <1>4, <1>5 DEF Src!AddressOf
  <1>7. Src!AddressOf(e) = 4 * (tc.map[i] + OpWords(UnitOf(i).op))
    BY <1>1, <1>4 DEF Src!AddressOf
  <1> QED BY <1>1, <1>3, <1>5, <1>6, <1>7 DEF n, e

\* What an auipc of a code address is short of.
LEMMA LowIs ==
  ASSUME Layout, NEW i \in CodeHi(code)
  PROVE /\ i \in DOMAIN code /\ i \in DOMAIN tc.map /\ code[i].rel.to \in DOMAIN tc.map
        /\ code[i].rel.add \in Int /\ Apart(code, tc.map, i) \in Int
        /\ Src!LowAt(i) = LoPart(Apart(code, tc.map, i))
        /\ Src!AddressAt(i) = 4 * tc.map[code[i].rel.to] + code[i].rel.add
  <1> DEFINE to == code[i].rel.to
             add == code[i].rel.add
  <1>1. i \in DOMAIN code /\ i \in DOMAIN tc.map /\ to \in DOMAIN tc.map
    BY DEF Layout, Linked, CodeHi
  <1>2. add \in Int
    BY <1>1 DEF Layout, IsProgram, IsInsn, CodeHi
  <1>3. /\ Src!AddressOf(i) = 4 * tc.map[i] /\ Src!AddressOf(to) = 4 * tc.map[to]
        /\ tc.map[i] \in Nat /\ tc.map[to] \in Nat
    BY <1>1, AddressFacts
  <1>4. Src!AddressAt(i) = 4 * tc.map[to] + add
    <2>1. add \in -3 .. 3 /\ to \in Int
      <3>1. add \in -3 .. 3
        BY <1>1 DEF Layout, IsLinked
      <3>2. to \in DOMAIN code
        BY <1>1 DEF Layout, IsProgram, IsInsn, CodeHi
      <3>3. \A j \in DOMAIN code : j \in Int
        BY Numbered DEF Layout
      <3> QED BY <3>1, <3>2, <3>3
    <2>2. Src!Whole(add) = 0
      <3> HIDE DEF add, to
      <3> QED BY <2>1 DEF Src!Whole
    <2>3. Src!AddressAt(i) = Src!AddressOf(to + Src!Whole(add)) + add - 4 * Src!Whole(add)
      BY DEF Src!AddressAt
    <2> DEFINE a == Src!AddressOf(to)
    <2>4. a = 4 * tc.map[to] /\ a \in Int /\ to + 0 = to
      BY <1>3, <2>1
    <2>5. Src!AddressAt(i) = a + add - 4 * 0
      BY <2>2, <2>3, <2>4, Zenon
    <2> HIDE DEF a, to, add
    <2>6. a + add - 4 * 0 = a + add
      BY <1>2, <2>4
    <2> QED BY <2>4, <2>5, <2>6, Zenon
  <1>5. Src!LowAt(i) = LoPart(Apart(code, tc.map, i))
    <2>1. Src!AddressAt(i) - Src!AddressOf(i) = Apart(code, tc.map, i)
      <3> DEFINE a == 4 * tc.map[to]
                 b == 4 * tc.map[i]
      <3>1. a \in Int /\ b \in Int
        BY <1>3
      <3> HIDE DEF a, b, add
      <3>2. (a + add) - b = a + add - b
        BY <1>2, <3>1
      <3> QED BY <1>3, <1>4, <3>2, Zenon DEF Apart, a, b, add
    <2>2. Src!LowAt(i) = LoPart(Src!AddressAt(i) - Src!AddressOf(i))
      BY SameOps, Zenon DEF Src!LowAt
    <2> QED BY <2>1, <2>2, Zenon
  <1>6. Apart(code, tc.map, i) \in Int
    <2> HIDE DEF to, add
    <2>1. 4 * tc.map[to] + add - 4 * tc.map[i] \in Int
      BY <1>2, <1>3
    <2> QED BY <2>1 DEF Apart, to, add
  <1> QED BY <1>1, <1>2, <1>4, <1>5, <1>6

\* The instruction at i, and what an auipc there leaves.
LEMMA InstructionIs ==
  ASSUME Layout, NEW i
  PROVE Src!Instruction(i)
          = IF IsLow(code, i)
              THEN [Decode(code, i) EXCEPT !.imm = LoPart(Apart(code, tc.map, code[i].rel.to))]
              ELSE Decode(code, i)
  <1>1. CASE IsLow(code, i)
    <2>1. code[i].rel.to \in CodeHi(code) /\ code[i].rel.kind = "lo"
      BY <1>1 DEF IsLow
    <2>2. Src!LowAt(code[i].rel.to) = LoPart(Apart(code, tc.map, code[i].rel.to))
      BY <2>1, LowIs
    <2> QED BY <1>1, <2>1, <2>2, SameOps DEF Src!Instruction
  <1>2. CASE ~IsLow(code, i)
    BY <1>2, SameOps DEF Src!Instruction, IsLow
  <1> QED BY <1>1, <1>2

\* What an auipc leaves, by the op map.
LEMMA UpperIs ==
  ASSUME Layout, NEW i
  PROVE Src!Upper(i) = IF i \in CodeHi(code) THEN 4 * tc.map[i] + HiPart(Apart(code, tc.map, i))
                       ELSE 4 * i + code[i].imm
  <1>1. CASE i \in CodeHi(code)
    <2> DEFINE d == Apart(code, tc.map, i)
               a == 4 * tc.map[code[i].rel.to] + code[i].rel.add
               b == tc.map[i]
    <2>1. /\ Src!LowAt(i) = LoPart(d) /\ Src!AddressAt(i) = a /\ d \in Int
          /\ code[i].rel.to \in DOMAIN tc.map /\ code[i].rel.add \in Int
      BY <1>1, LowIs
    <2>2. tc.map[code[i].rel.to] \in Nat /\ b \in Nat
      BY <1>1, LowIs, AddressFacts
    <2>3. a \in Int /\ d = a - 4 * b
      BY <2>1, <2>2, SMTT(30) DEF Apart
    <2>4. HiPart(d) \in Int /\ LoPart(d) = d - HiPart(d)
      BY <2>1, PartsAreInts DEF LoPart
    <2>5. Src!Upper(i) = a - LoPart(d)
      BY <1>1, <2>1, SameOps DEF Src!Upper
    <2> DEFINE q == HiPart(d)
    <2> HIDE DEF d, a, b, q
    <2>6. a - (d - q) = 4 * b + q
      BY <2>2, <2>3, <2>4 DEF q
    <2> QED BY <1>1, <2>4, <2>5, <2>6 DEF d, b, q
  <1>2. CASE i \notin CodeHi(code)
    BY <1>2, SameOps DEF Src!Upper
  <1> QED BY <1>1, <1>2

\* Where the loop is: at the op of a unit.
Here(h) == /\ h \in DOMAIN tc.map /\ tc.map[h] = p /\ UnitOf(h).op # "nop"
           /\ w = Final(code, Targets, tc.map, h) /\ Src!HeadOf((4 * p) \div 4) = h

\* The instruction an op stands for.
LEMMA HereIs ==
  ASSUME Layout, AtOp, p \in Nat
  PROVE \E h : Here(h)
  <1>1. p \in 0 .. (Len(tc.ops) - 1) /\ tc.ops[p + 1].op # "disp" /\ Len(tc.ops) \in Nat
    BY DEF AtOp, n_ops, Layout, Linked
  <1>2. PICK h \in DOMAIN tc.map : tc.map[h] = p /\ UnitOf(h).op # "nop"
    BY <1>1 DEF Layout, Linked, UnitOf
  <1>3. w = Final(code, Targets, tc.map, h) /\ \A i \in DOMAIN tc.map : tc.map[i] = p => i <= h
    BY <1>2 DEF Layout, Linked, UnitOf, w
  <1>4. \A i \in DOMAIN tc.map : i \in Nat
    BY AddressFacts
  <1> DEFINE hs == {i \in DOMAIN tc.map : tc.map[i] = p}
  <1>5. Src!HeadOf(p) = CHOOSE i \in hs : \A j \in hs : j <= i
    BY DEF Src!HeadOf
  <1>6. h \in hs /\ \A j \in hs : j <= h
    BY <1>2, <1>3
  <1>7. \A i \in hs : (\A j \in hs : j <= i) => i = h
    <2> TAKE i \in hs
    <2> SUFFICES ASSUME \A j \in hs : j <= i PROVE i = h
      OBVIOUS
    <2>1. h <= i /\ i <= h /\ i \in Nat /\ h \in Nat
      BY <1>4, <1>6
    <2> QED BY <2>1
  <1> HIDE DEF hs
  <1>8. Src!HeadOf(p) = h
    BY <1>5, <1>6, <1>7
  <1>9. (4 * p) \div 4 = p
    OBVIOUS
  <1> QED BY <1>2, <1>3, <1>8, <1>9 DEF Here

-----------------------------------------------------------------------------
(* Steps of the source program.                                             *)

Traps == {"ecall", "ebreak", "illegal"}

\* An instruction that is neither a nop nor a trap runs at once.
LEMMA OneStep ==
  ASSUME Layout, NEW i \in DOMAIN code, Decode(code, i).op \notin Traps \cup {"nop"}, NEW y, NEW m
  PROVE Src!OneMore(Src!At(i, y, m)) = <<Src!Effect(Src!At(i, y, m), Src!Instruction(i))>>
  <1> DEFINE n == Cardinality(DOMAIN code)
             s == Src!At(i, y, m)
             OK(j) == /\ j = Src!n \/ Src!Decode(code, j).op # "nop"
                      /\ \A h \in i .. (j - 1) : Src!Decode(code, h).op = "nop"
  <1>1. Src!n = n /\ n \in Nat /\ DOMAIN code = 0 .. (n - 1) /\ i \in 0 .. (n - 1)
    BY SameOps, Numbered DEF Layout
  <1>2. Src!Decode(code, i).op # "nop"
    BY SameOps
  <1>3. Src!Awake(i) = CHOOSE j \in i .. Src!n : OK(j)
    BY DEF Src!Awake
  <1>4. OK(i) /\ i \in i .. Src!n
    <2>1. i .. (i - 1) = {} /\ i \in i .. Src!n
      <3> HIDE DEF n
      <3> QED BY <1>1
    <2> QED BY <1>2, <2>1
  <1>5. \A j \in i .. Src!n : OK(j) => j = i
    <2> TAKE j \in i .. Src!n
    <2> SUFFICES ASSUME OK(j), j # i PROVE FALSE
      OBVIOUS
    <2>1. i \in i .. (j - 1)
      <3> HIDE DEF OK, n
      <3> QED BY <1>1
    <2> QED BY <1>2, <2>1
  <1>6. Src!Awake(i) = i
    <2> HIDE DEF OK
    <2> QED BY <1>3, <1>4, <1>5
  <1>7. s.i = i /\ i # -1 /\ i # Src!n
    <2>1. s.i = i
      BY DEF Src!At
    <2> HIDE DEF s, n
    <2> QED BY <1>1, <2>1
  <1>8. [s EXCEPT !.i = i] = s
    <2>1. s = [q \in DOMAIN s |-> s[q]] /\ s.i = i
      <3> DEFINE b == FALSE
                 z == 0
      <3> HIDE DEF b, z
      <3>1. \A f : f = [i |-> i, a |-> z, x |-> y, m |-> m, jumped |-> b] => f = [q \in DOMAIN f |-> f[q]] /\ f.i = i
        OBVIOUS
      <3>2. s = [i |-> i, a |-> z, x |-> y, m |-> m, jumped |-> b]
        BY DEF Src!At, b, z
      <3> HIDE DEF s
      <3> QED BY <3>1, <3>2
    <2> HIDE DEF s
    <2> QED BY <2>1
  <1>9. ~Src!IsTrapAt(i)
    <2> DEFINE op == code[i].op
               rd == code[i].rd
    <2>1. Decode(code, i).op = IF rd = 0 /\ op \in Zeroable THEN "nop" ELSE op
      BY DEF Decode, Unit
    <2> HIDE DEF op, rd
    <2>2. op \notin Traps
      BY <2>1 DEF Zeroable, Traps
    <2> QED BY <2>2 DEF Src!IsTrapAt, Traps, op
  <1>10. Src!One(s) = Src!Effect(s, Src!Instruction(i))
    BY <1>7 DEF Src!One
  <1>11. Src!OneMore(s) = <<Src!One(s)>>
    <2> HIDE DEF s, n
    <2> QED BY <1>6, <1>7, <1>8, <1>9 DEF Src!OneMore
  <1> QED BY <1>10, <1>11 DEF s

\* Runs of one, two and three instructions.
LEMMA RunsOne ==
  ASSUME NEW s, NEW r, Src!OneMore(s) = <<r>>
  PROVE Src!Runs(s, 1) = <<r>>
  <1> DEFINE z == 0
             o == 1
  <1>1. z \in Nat /\ z + 1 = o /\ <<s>> # <<>> /\ <<s>>[1] = s
    OBVIOUS
  <1>2. z = 0
    OBVIOUS
  <1> HIDE DEF z, o
  <1>3. Src!Runs(s, z) = <<s>> /\ Src!Runs(s, o) = More(Src!Runs(s, z))
    BY <1>1, <1>2, RunsFacts
  <1> QED BY <1>1, <1>3 DEF More, o

\* One instruction after c of them.
LEMMA RunsMore ==
  ASSUME NEW s, NEW r, NEW c \in Nat, Src!Runs(s, c) = <<r>>
  PROVE Src!Runs(s, c + 1) = Src!OneMore(r)
  <1>1. <<r>> # <<>> /\ <<r>>[1] = r
    OBVIOUS
  <1>2. Src!Runs(s, c + 1) = More(<<r>>)
    BY RunsFacts
  <1> QED BY <1>1, <1>2 DEF More

\* Two instructions.
LEMMA RunsTwo ==
  ASSUME NEW s, NEW r, NEW q, Src!OneMore(s) = <<r>>, Src!OneMore(r) = <<q>>
  PROVE Src!Runs(s, 2) = <<q>>
  <1> DEFINE o == 1
  <1>1. o \in Nat /\ o + 1 = 2
    OBVIOUS
  <1>2. Src!Runs(s, o) = <<r>>
    BY RunsOne
  <1> HIDE DEF o
  <1>3. Src!Runs(s, o + 1) = <<q>>
    BY <1>1, <1>2, RunsMore
  <1> QED BY <1>1, <1>3

\* Three instructions.
LEMMA RunsThree ==
  ASSUME NEW s, NEW r, NEW q, NEW v,
         Src!OneMore(s) = <<r>>, Src!OneMore(r) = <<q>>, Src!OneMore(q) = <<v>>
  PROVE Src!Runs(s, 3) = <<v>>
  <1> DEFINE o == 2
  <1>1. o \in Nat /\ o + 1 = 3
    OBVIOUS
  <1>2. Src!Runs(s, o) = <<q>>
    BY RunsTwo
  <1> HIDE DEF o
  <1>3. Src!Runs(s, o + 1) = <<v>>
    BY <1>1, <1>2, RunsMore
  <1> QED BY <1>1, <1>3

\* What each instruction does.
PutReg(y, rd, v) == IF rd = 0 THEN y ELSE [y EXCEPT ![rd] = v]

\* Src!Effect, one instruction at a time.
LEMMA EffectIs ==
  ASSUME NEW i, NEW y, NEW m, NEW c
  PROVE LET s == Src!At(i, y, m)
            src == Wrap(y[c.rs1] + c.imm)
            r == Src!Effect(s, c)
        IN /\ c.op = "add" => r = Src!At(i + 1, PutReg(y, c.rd, Wrap(y[c.rs1] + y[c.rs2])), m)
           /\ c.op = "addi" => r = Src!At(i + 1, PutReg(y, c.rd, src), m)
           /\ c.op = "slli" => r = Src!At(i + 1, PutReg(y, c.rd, Wrap(y[c.rs1] * 2^c.imm)), m)
           /\ c.op = "auipc" => r = Src!At(i + 1, PutReg(y, c.rd, Wrap(Src!Upper(i))), m)
           /\ c.op = "lw" => r = Src!At(i + 1, PutReg(y, c.rd, LoadWord(m, src)), m)
           /\ c.op = "lbu" => r = Src!At(i + 1, PutReg(y, c.rd, LoadByte(m, src)), m)
           /\ c.op = "sw" => r = Src!At(i + 1, y, StoreWord(m, src, y[c.rs2]))
           /\ c.op = "beq" => r = IF y[c.rs1] = y[c.rs2] THEN Src!Jump(c.target, 0, y, m) ELSE Src!At(i + 1, y, m)
           /\ c.op = "bne" => r = IF y[c.rs1] # y[c.rs2] THEN Src!Jump(c.target, 0, y, m) ELSE Src!At(i + 1, y, m)
           /\ c.op = "jal" => r = Src!Jump(c.target, 0, PutReg(y, c.rd, Src!AddressOf(i + 1)), m)
           /\ c.op = "jalr" => r = Src!Jump(-1, Even(src), PutReg(y, c.rd, Src!AddressOf(i + 1)), m)
  <1> DEFINE s == Src!At(i, y, m)
             o == c.op
             next(z, q) == Src!At(i + 1, z, q)
             src == Wrap(y[c.rs1] + c.imm)
             rd == c.rd
             tg == c.target
             v1 == y[c.rs1]
             v2 == y[c.rs2]
             sh == 2^c.imm
             up == Src!Upper(i)
             lk == Src!AddressOf(i + 1)
             out == -1
             r == Src!Effect(s, c)
  <1>1. s.i = i /\ s.x = y /\ s.m = m
    BY DEF Src!At
  <1>2. \A z, d, v : Src!Put(z, d, v) = PutReg(z, d, v)
    BY DEF Src!Put, PutReg
  <1>3. r = CASE o = "add"   -> next(PutReg(y, rd, Wrap(v1 + v2)), m)
              [] o = "addi"  -> next(PutReg(y, rd, src), m)
              [] o = "slli"  -> next(PutReg(y, rd, Wrap(v1 * sh)), m)
              [] o = "auipc" -> next(PutReg(y, rd, Wrap(up)), m)
              [] o = "lw"    -> next(PutReg(y, rd, LoadWord(m, src)), m)
              [] o = "lbu"   -> next(PutReg(y, rd, LoadByte(m, src)), m)
              [] o = "sw"    -> next(y, StoreWord(m, src, v2))
              [] o = "nop"   -> next(y, m)
              [] o = "beq"   -> IF v1 = v2 THEN Src!Jump(tg, 0, y, m) ELSE next(y, m)
              [] o = "bne"   -> IF v1 # v2 THEN Src!Jump(tg, 0, y, m) ELSE next(y, m)
              [] o = "jal"   -> Src!Jump(tg, 0, PutReg(y, rd, lk), m)
              [] o = "jalr"  -> Src!Jump(out, Even(src), PutReg(y, rd, lk), m)
    <2> HIDE DEF s
    <2> QED BY <1>1, <1>2, SameOps, Zenon DEF Src!Effect
  <1> HIDE DEF s, o, next, src, rd, tg, v1, v2, sh, up, lk, r, out
  <1>4. /\ o = "add" => r = next(PutReg(y, rd, Wrap(v1 + v2)), m)
        /\ o = "addi" => r = next(PutReg(y, rd, src), m)
        /\ o = "slli" => r = next(PutReg(y, rd, Wrap(v1 * sh)), m)
        /\ o = "auipc" => r = next(PutReg(y, rd, Wrap(up)), m)
        /\ o = "lw" => r = next(PutReg(y, rd, LoadWord(m, src)), m)
        /\ o = "lbu" => r = next(PutReg(y, rd, LoadByte(m, src)), m)
        /\ o = "sw" => r = next(y, StoreWord(m, src, v2))
        /\ o = "beq" => r = IF v1 = v2 THEN Src!Jump(tg, 0, y, m) ELSE next(y, m)
        /\ o = "bne" => r = IF v1 # v2 THEN Src!Jump(tg, 0, y, m) ELSE next(y, m)
        /\ o = "jal" => r = Src!Jump(tg, 0, PutReg(y, rd, lk), m)
        /\ o = "jalr" => r = Src!Jump(out, Even(src), PutReg(y, rd, lk), m)
    BY <1>3
  <1> QED BY <1>4, Zenon DEF s, o, next, src, rd, tg, v1, v2, sh, up, lk, r, out

-----------------------------------------------------------------------------
(* The loop's ways on are the source's.                                     *)

\* The program counter of the source program.
OpPc == IF phase = "run" THEN 4 * p ELSE IF spc >= clen THEN spc ELSE spc - (spc % 4)

\* The loop is at an op.
Running == Layout /\ AtOp /\ p \in Nat /\ k \in Nat /\ max \in Nat

\* A step of the source program, from its parts.
LEMMA AdvanceIs ==
  ASSUME Running, NEW h, Here(h), NEW c \in 1 .. MaxUnit, NEW r,
         Src!Runs(Src!At(h, x, mem), c) = <<r>>,
         OpPc' = Src!PcOf(r), x' = r.x, mem' = r.m, k' = k + Src!Charge(h, c),
         \/ phase' = "run" /\ (r.jumped => k' < max)
         \/ phase' = "idle" /\ (OpPc' >= clen \/ k' >= max),
         UNCHANGED <<code, ext, tc, max>>
  PROVE Src!Next
  <1> DEFINE from == Src!At(h, x, mem)
  <1>1. phase = "run" /\ p < n_ops
    BY DEF Running, AtOp
  <1>2. n_ops \in Nat /\ p \in Nat
    BY DEF Running, n_ops, Layout, Linked
  <1>3. OpPc = 4 * p /\ ~(OpPc >= 4 * n_ops) /\ n_ops' = n_ops
    BY <1>1, <1>2 DEF OpPc, n_ops
  <1>4. Src!HeadOf(OpPc \div 4) = h
    BY <1>3 DEF Here
  <1>5. from.i = h
    BY DEF Src!At
  <1>6. <<r>> # <<>> /\ <<r>>[1] = r
    OBVIOUS
  <1> HIDE DEF from
  <1>7. Src!Runs(from, c) = <<r>>
    BY DEF from
  <1>8. Src!At(Src!HeadOf(OpPc \div 4), x, mem) = from
    BY <1>4 DEF from
  <1> SUFFICES Src!Advance(c)
    BY DEF Src!Next
  <1>9. clen = 4 * n_ops
    BY DEF clen
  <1> QED BY <1>1, <1>3, <1>5, <1>6, <1>7, <1>8, <1>9 DEF Src!Advance, Src!Outside, OpPc

\* NEXT
LEMMA GoOnAdvances ==
  ASSUME Running, NEW h, Here(h), NEW c \in 1 .. MaxUnit, NEW words, NEW cost \in Nat,
         c = UnitOf(h).width, words = OpWords(UnitOf(h).op), cost = Src!Charge(h, c), GoOn(words, cost),
         Src!Runs(Src!At(h, x, mem), c) = <<Src!At(h + c, x', mem')>>,
         UNCHANGED <<code, ext, tc, max>>
  PROVE Src!Next
  <1> DEFINE r == Src!At(h + c, x', mem')
  <1>1. r.i = h + c /\ r.x = x' /\ r.m = mem' /\ r.jumped = FALSE
    BY DEF Src!At
  <1> HIDE DEF r
  <1>2. h \in DOMAIN tc.map /\ tc.map[h] = p
    BY DEF Here
  <1>3. h \in Nat /\ Src!AddressOf(h + c) = 4 * (p + words)
    BY <1>2, AddressFacts DEF Running
  <1>4. phase' = "run" /\ p' = p + words /\ k' = k + cost
    BY DEF GoOn
  <1>5. OpPc' = Src!PcOf(r)
    <2>1. r.i # -1
      BY <1>1, <1>3
    <2>2. Src!PcOf(r) = 4 * (p + words)
      BY <1>1, <1>3, <2>1 DEF Src!PcOf
    <2>3. OpPc' = 4 * p'
      BY <1>4 DEF OpPc
    <2> QED BY <1>4, <2>2, <2>3
  <1>6. Src!Runs(Src!At(h, x, mem), c) = <<r>>
    BY DEF r
  <1> QED BY <1>1, <1>4, <1>5, <1>6, AdvanceIs

\* RELOC
LEMMA RelocAdvances ==
  ASSUME Running, NEW h, Here(h), NEW c \in 1 .. MaxUnit, NEW to, NEW cost \in Nat, NEW a,
         to \in DOMAIN tc.map, cost = Src!Charge(h, c), Reloc(tc.map[to], cost),
         Src!Runs(Src!At(h, x, mem), c) = <<Src!Jump(to, a, x', mem')>>,
         UNCHANGED <<code, ext, tc, max>>
  PROVE Src!Next
  <1> DEFINE r == Src!Jump(to, a, x', mem')
             idx == tc.map[to]
  <1>1. r.i = to /\ r.x = x' /\ r.m = mem' /\ r.jumped = TRUE
    BY DEF Src!Jump
  <1> HIDE DEF r
  <1>2. to \in Nat /\ idx \in Nat /\ Src!AddressOf(to) = 4 * idx /\ n_ops \in Nat
    BY AddressFacts DEF Running
  <1>3. Src!PcOf(r) = 4 * idx
    <2>1. r.i # -1
      BY <1>1, <1>2
    <2> QED BY <1>1, <1>2, <2>1 DEF Src!PcOf
  <1>4. k' = k + cost /\ IF k' >= max THEN Leave(4 * idx) ELSE phase' = "run" /\ p' = idx
    BY DEF Reloc
  <1> HIDE DEF idx
  <1>5. OpPc' = Src!PcOf(r)
    <2>1. CASE k' >= max
      <3>1. phase' = "idle" /\ spc' = 4 * idx
        BY <1>4, <2>1 DEF Leave
      <3>2. OpPc' = IF spc' >= clen' THEN spc' ELSE spc' - (spc' % 4)
        BY <3>1 DEF OpPc
      <3>3. (4 * idx) % 4 = 0
        BY <1>2
      <3> QED BY <1>2, <1>3, <3>1, <3>2, <3>3
    <2>2. CASE ~(k' >= max)
      BY <1>3, <1>4, <2>2 DEF OpPc
    <2> QED BY <2>1, <2>2
  <1>6. \/ phase' = "run" /\ (r.jumped => k' < max)
        \/ phase' = "idle" /\ (OpPc' >= clen \/ k' >= max)
    <2>1. CASE k' >= max
      BY <1>4, <2>1 DEF Leave
    <2>2. CASE ~(k' >= max)
      <3>1. k' < max
        BY <1>4, <2>2 DEF Running
      <3> QED BY <1>4, <2>2, <3>1
    <2> QED BY <2>1, <2>2
  <1>7. Src!Runs(Src!At(h, x, mem), c) = <<r>>
    BY DEF r
  <1> QED BY <1>1, <1>4, <1>5, <1>6, <1>7, AdvanceIs

\* jalr and its fused forms.
LEMMA IndirectAdvances ==
  ASSUME Running, NEW h, Here(h), NEW c \in 1 .. MaxUnit, NEW t \in Nat, NEW cost \in Nat,
         cost = Src!Charge(h, c), Indirect(t, cost),
         Src!Runs(Src!At(h, x, mem), c) = <<Src!Jump(-1, t, x', mem')>>,
         UNCHANGED <<code, ext, tc, max>>
  PROVE Src!Next
  <1> DEFINE out == -1
             r == Src!Jump(out, t, x', mem')
  <1>1. r.i = -1 /\ r.x = x' /\ r.m = mem' /\ r.jumped = TRUE /\ r.a = t
    BY DEF Src!Jump
  <1> HIDE DEF r
  <1>2. Src!PcOf(r) = IF t >= clen THEN t ELSE t - (t % 4)
    BY <1>1 DEF Src!PcOf, Src!Settled, Src!Outside, clen
  <1>3. k' = k + cost /\ IF t >= clen \/ k' >= max THEN Leave(t) ELSE phase' = "run" /\ p' = t \div 4
    BY DEF Indirect
  <1>4. clen' = clen /\ clen \in Nat
    BY DEF Running, clen, n_ops, Layout, Linked
  <1>5. OpPc' = Src!PcOf(r)
    <2>1. CASE t >= clen \/ k' >= max
      <3>1. phase' = "idle" /\ spc' = t
        BY <1>3, <2>1 DEF Leave
      <3> QED BY <1>2, <1>4, <3>1 DEF OpPc
    <2>2. CASE ~(t >= clen \/ k' >= max)
      <3>1. phase' = "run" /\ p' = t \div 4 /\ ~(t >= clen)
        BY <1>3, <2>2
      <3>2. OpPc' = 4 * (t \div 4)
        BY <3>1 DEF OpPc
      <3>3. 4 * (t \div 4) = t - (t % 4)
        OBVIOUS
      <3> QED BY <1>2, <3>1, <3>2, <3>3
    <2> QED BY <2>1, <2>2
  <1>6. \/ phase' = "run" /\ (r.jumped => k' < max)
        \/ phase' = "idle" /\ (OpPc' >= clen \/ k' >= max)
    <2>1. CASE t >= clen \/ k' >= max
      <3>1. phase' = "idle" /\ spc' = t
        BY <1>3, <2>1 DEF Leave
      <3>2. CASE t >= clen
        <4>1. OpPc' = t
          BY <1>4, <3>1, <3>2 DEF OpPc
        <4> QED BY <3>1, <3>2, <4>1
      <3>3. CASE k' >= max
        BY <3>1, <3>3
      <3> QED BY <2>1, <3>2, <3>3
    <2>2. CASE ~(t >= clen \/ k' >= max)
      <3>1. k' < max
        BY <1>3, <2>2 DEF Running
      <3> QED BY <1>3, <2>2, <3>1
    <2> QED BY <2>1, <2>2
  <1>7. Src!Runs(Src!At(h, x, mem), c) = <<r>>
    BY DEF r
  <1> QED BY <1>1, <1>3, <1>5, <1>6, <1>7, AdvanceIs

-----------------------------------------------------------------------------
(* Op space is no longer than the program.                                  *)

\* The first instruction has the first op.
LEMMA MapStarts ==
  ASSUME NEW c, IsProgram(c), NEW e, 0 \in DOMAIN c
  PROVE 0 \in DOMAIN TranscodeEx(c, e).map /\ TranscodeEx(c, e).map[0] = 0
  <1> DEFINE T == CollectTargets(c, e)
             us == Units(c, T)
             map == BuildMap(us)
             m == Len(us)
             n == Cardinality(DOMAIN c)
             q == CHOOSE j \in DOMAIN us : us[j].head = 0
  <1>1. TranscodeEx(c, e).map = map
    BY TranscodeIs
  <1>2. us \in Walks(c, T, 0)
    BY UnitsWalk
  <1>3. m \in Nat /\ DOMAIN us = 1 .. m
    BY <1>2 DEF Walks
  <1>4. n # 0
    <2>1. 0 \in 0 .. (n - 1) /\ n \in Nat
      BY Numbered
    <2> HIDE DEF n
    <2> QED BY <2>1
  <1>5. m > 0 /\ us[1].head = 0
    BY <1>2, <1>4 DEF Walks
  <1>6. \A j, i \in 1 .. m : j < i => us[j].head < us[i].head
    BY HeadFacts
  <1>7. \A j \in 1 .. m : us[j].head \in Nat
    <2>1. \A j \in 1 .. m : us[j].head \in DOMAIN c
      BY HeadFacts
    <2>2. DOMAIN c = 0 .. (n - 1)
      BY Numbered
    <2> QED BY <2>1, <2>2
  <1> HIDE DEF us, m
  <1>8. \A j \in 1 .. m : us[j].head = 0 => j = 1
    <2> TAKE j \in 1 .. m
    <2> SUFFICES ASSUME us[j].head = 0, j # 1 PROVE FALSE
      OBVIOUS
    <2>1. 1 \in 1 .. m /\ 1 < j
      BY <1>3, <1>5
    <2>2. us[1].head < us[j].head
      BY <1>6, <2>1
    <2> QED BY <1>5, <2>2
  <1>9. 1 \in DOMAIN us
    BY <1>3, <1>5
  <1>10. q = 1
    BY <1>3, <1>5, <1>8, <1>9
  <1>11. DOMAIN map = {us[j].head : j \in DOMAIN us}
    BY DEF BuildMap
  <1>12. 0 \in DOMAIN map
    BY <1>5, <1>9, <1>11
  <1>13. map[0] = WordsBefore(us, q)
    BY <1>11, <1>12 DEF BuildMap
  <1>14. WordsBefore(us, 1) = 0
    <2> DEFINE o == 1
    <2>1. o \in Nat \ {0}
      OBVIOUS
    <2> HIDE DEF o
    <2> QED BY <2>1, WordsBeforeFacts
  <1> HIDE DEF map, q
  <1> QED BY <1>1, <1>10, <1>12, <1>13, <1>14

\* No unit takes more words than it has instructions.
LEMMA WordsFit ==
  ASSUME NEW c, IsProgram(c), NEW T, NEW i \in DOMAIN c
  PROVE LET u == Step(c, T, i) IN
          /\ u.width \in Nat \ {0} /\ OpWords(u.op) \in Nat /\ OpWords(u.op) <= u.width
          /\ i + u.width <= Cardinality(DOMAIN c)
  <1> DEFINE u == Step(c, T, i)
             a == Decode(c, i)
             b == Decode(c, i + 1)
  <1>1. Fits(c, T, i, u) /\ u.op # "none"
    BY StepFits
  <1>2. u.width \in Nat \ {0} /\ i + u.width <= Cardinality(DOMAIN c)
    BY <1>1 DEF Fits
  <1>3. OpWords(u.op) \in {0, 1} \/ (OpWords(u.op) = 2 /\ u.op \in BzOps)
    BY DEF OpWords, BzOps
  <1>4. ASSUME u.op \in BzOps PROVE u.width = 2
    <2>1. Made(c, T, i, u)
      BY StepMade
    <2> HIDE DEF u
    <2>2. u.op \notin InsnOps \cup {"nop", "PROLOGUE", "EPILOGUE", "LI", "SHADD", "LWX", "LWLW", "VCALL", "LWSW", "none"}
      BY <1>4 DEF InsnOps, BzOps
    <2>3. u = FuseLoadBz(a, b)
      BY <2>1, <2>2 DEF Made
    <2> HIDE DEF a, b
    <2>4. NoUnit.op = "none"
      BY NoUnitFits
    <2> QED BY <2>2, <2>3, <2>4, UnitFields DEF FuseLoadBz
  <1> HIDE DEF u
  <1>5. OpWords(u.op) \in Nat /\ OpWords(u.op) <= u.width
    BY <1>2, <1>3, <1>4
  <1> QED BY <1>2, <1>5 DEF u

\* No more op words than instructions.
LEMMA OpsFit ==
  ASSUME NEW c, IsProgram(c), NEW T, NEW t, Linked(c, T, t), 0 \in DOMAIN t.map, t.map[0] = 0
  PROVE Len(t.ops) <= Cardinality(DOMAIN c)
  <1> DEFINE n == Cardinality(DOMAIN c)
             l == Len(t.ops)
             map == t.map
             u(h) == Step(c, T, h)
             E == {q \in Nat : \A h \in DOMAIN map : n - h <= q => l - map[h] <= n - h}
  <1>1. /\ l \in Nat /\ \A h \in DOMAIN map : map[h] \in Nat /\ h \in DOMAIN c
        /\ \A h \in DOMAIN map :
             IF h + u(h).width = n THEN map[h] + OpWords(u(h).op) = l
             ELSE h + u(h).width \in DOMAIN map /\ map[h + u(h).width] = map[h] + OpWords(u(h).op)
    BY DEF Linked
  <1>2. n \in Nat /\ DOMAIN c = 0 .. (n - 1)
    BY Numbered
  <1>3. \A h \in DOMAIN map :
          /\ u(h).width \in Nat \ {0} /\ OpWords(u(h).op) \in Nat /\ OpWords(u(h).op) <= u(h).width
          /\ h + u(h).width <= n
    BY <1>1, WordsFit
  <1> HIDE DEF n, l, map, u
  <1>4. 0 \in E
    BY <1>1, <1>2
  <1>5. ASSUME NEW q \in Nat, q \in E PROVE q + 1 \in E
    <2> SUFFICES ASSUME NEW h \in DOMAIN map, n - h <= q + 1 PROVE l - map[h] <= n - h
      OBVIOUS
    <2> DEFINE wd == u(h).width
               ow == OpWords(u(h).op)
               e == h + wd
               at == map[h]
    <2>1. wd \in Nat \ {0} /\ ow \in Nat /\ ow <= wd /\ e <= n /\ h \in Nat /\ at \in Nat
      BY <1>1, <1>2, <1>3
    <2>2. IF e = n THEN at + ow = l ELSE e \in DOMAIN map /\ map[e] = at + ow
      BY <1>1
    <2>3. CASE e = n
      <3> HIDE DEF ow, at
      <3> QED BY <1>1, <1>2, <2>1, <2>2, <2>3 DEF at
    <2>4. CASE e # n
      <3>1. n - e <= q
        <4> HIDE DEF wd
        <4> QED BY <1>2, <2>1
      <3>2. l - map[e] <= n - e
        BY <1>5, <2>2, <2>4, <3>1
      <3> DEFINE me == map[e]
      <3>3. me = at + ow /\ l - me <= n - e
        BY <2>2, <2>4, <3>2
      <3> HIDE DEF me, ow, at, wd
      <3>4. l - at <= n - h
        BY <1>1, <1>2, <2>1, <3>3
      <3> QED BY <3>4 DEF at
    <2> QED BY <2>3, <2>4
  <1>6. n \in E
    <2> HIDE DEF E
    <2> QED BY <1>2, <1>4, <1>5, SetInduction
  <1>7. l - map[0] <= n - 0
    <2>1. 0 \in DOMAIN map
      BY DEF map
    <2> QED BY <1>2, <1>6, <2>1
  <1>8. map[0] = 0
    BY DEF map
  <1>9. l <= n
    BY <1>1, <1>2, <1>7, <1>8
  <1> QED BY <1>9 DEF l, n

-----------------------------------------------------------------------------
(* Words.                                                                   *)

\* A multiple of the modulus does not count.
LEMMA ModPlus ==
  ASSUME NEW m \in Nat \ {0}, NEW a \in Int, NEW q \in Int
  PROVE (a + m * q) % m = a % m
  <1> DEFINE r == a % m
             d == a \div m
  <1>1. r \in 0 .. (m - 1) /\ d \in Int /\ a = m * d + r
    OBVIOUS
  <1> HIDE DEF r, d
  <1>2. m * (d + q) = m * d + m * q /\ d + q \in Int
    BY <1>1
  <1> DEFINE s == d + q
             v == m * s
  <1>3. (r + m * s) % m = r
    <2>1. s \in Int
      BY <1>2
    <2> HIDE DEF s
    <2> QED BY <1>1, <2>1
  <1>4. a + m * q = r + m * s
    <2> DEFINE e == m * d
               f == m * q
    <2>1. e \in Int /\ f \in Int /\ m * s = e + f /\ a = e + r
      BY <1>1, <1>2
    <2> HIDE DEF e, f, v, s
    <2>2. a + f = r + (e + f)
      BY <1>1, <2>1
    <2> QED BY <2>1, <2>2 DEF f
  <1> QED BY <1>3, <1>4 DEF r

\* Sums may be wrapped late or early.
LEMMA WrapSum ==
  ASSUME NEW a \in Int, NEW b \in Int
  PROVE Wrap(Wrap(a) + b) = Wrap(a + b) /\ Wrap(a + Wrap(b)) = Wrap(a + b)
  <1> DEFINE m == AddrMod
  <1>1. m \in Nat \ {0}
    BY WordFacts
  <1> HIDE DEF m
  <1>2. ASSUME NEW y \in Int, NEW z \in Int PROVE ((y % m) + z) % m = (y + z) % m
    <2> DEFINE r == y % m
               q == y \div m
               o == 0 - q
    <2>1. r \in Int /\ q \in Int /\ y = m * q + r /\ o \in Int /\ m * o = 0 - m * q
      BY <1>1
    <2>2. (y + z + m * o) % m = (y + z) % m
      <3> DEFINE t == y + z
      <3>1. t \in Int
        OBVIOUS
      <3> HIDE DEF o, t
      <3>2. (t + m * o) % m = t % m
        BY <1>1, <2>1, <3>1, ModPlus
      <3> QED BY <3>2 DEF t
    <2> DEFINE e == m * q
               f == m * o
    <2>3. e \in Int /\ f = 0 - e /\ y = e + r
      BY <1>1, <2>1
    <2> HIDE DEF e, f, r, o
    <2>4. y + z + f = r + z
      BY <2>1, <2>3
    <2> QED BY <2>2, <2>4 DEF f, r
  <1>3. ((a % m) + b) % m = (a + b) % m /\ ((b % m) + a) % m = (b + a) % m
    BY <1>2
  <1>4. a + b = b + a /\ a + (b % m) = (b % m) + a
    <2>1. b % m \in Int
      BY <1>1
    <2> QED BY <2>1
  <1> QED BY <1>3, <1>4 DEF Wrap, m

\* Wrapped values are words, and words stay as they are.
LEMMA WrapFacts ==
  /\ \A v \in Int : Wrap(v) \in Word
  /\ \A v \in Word : Wrap(v) = v /\ v \in Nat
  /\ 0 \in Word
  <1>1. AddrMod \in Nat /\ AddrMod > 0
    BY WordFacts
  <1>2. \A v \in Int : Wrap(v) \in Nat /\ Wrap(v) < AddrMod
    BY WordFacts
  <1>3. \A v \in 0 .. (AddrMod - 1) : v % AddrMod = v
    BY <1>1
  <1> QED BY <1>1, <1>2, <1>3 DEF Word, Wrap

\* The machine's registers and its buffer.
Words == x \in [Regs -> Word] /\ mem \in Memory /\ x[0] = 0

\* The bytes of a number.
LEMMA BytesAre ==
  ASSUME NEW v \in Nat, NEW j \in 0 .. 3
  PROVE ByteOf(v, j) \in Byte
  <1>1. ByteMod \in Nat /\ ByteMod > 0
    BY ByteAssumption
  <1>2. ByteOf(v, j) \in Nat
    BY ByteIsNat
  <1>3. Weight(j) \in Nat /\ Weight(j) > 0
    <2>1. \A q, r \in Nat : q > 0 /\ r > 0 => q * r \in Nat /\ q * r > 0
      OBVIOUS
    <2>2. /\ ByteMod * ByteMod \in Nat /\ ByteMod * ByteMod > 0
          /\ ByteMod * ByteMod * ByteMod \in Nat /\ ByteMod * ByteMod * ByteMod > 0
      BY <1>1, <2>1
    <2>3. j = 0 \/ j = 1 \/ j = 2 \/ j = 3
      OBVIOUS
    <2> QED BY <1>1, <2>2, <2>3 DEF Weight
  <1> DEFINE q == v \div Weight(j)
  <1>4. q \in Nat
    BY <1>3
  <1> HIDE DEF q
  <1>5. q % ByteMod < ByteMod
    BY <1>1, <1>4
  <1>6. ByteOf(v, j) < ByteMod
    BY <1>5 DEF ByteOf, q
  <1> QED BY <1>1, <1>2, <1>6 DEF Byte

\* Memory stays memory when a word is put into it.
LEMMA PutIsMemory ==
  ASSUME NEW b \in Memory, NEW o \in Int, NEW v \in Nat
  PROVE PutWord(b, o, v) \in Memory
  <1>1. WLen \in Nat
    BY WritableAssumption, WordFacts
  <1>2. ASSUME NEW q \in 0 .. (WLen - 1), q \in o .. (o + 3) PROVE ByteOf(v, q - o) \in Byte
    <2>1. q - o \in 0 .. 3
      BY <1>1, <1>2
    <2> QED BY <2>1, BytesAre
  <1>3. DOMAIN b = 0 .. (WLen - 1) /\ \A q \in 0 .. (WLen - 1) : b[q] \in Byte
    BY DEF Memory
  <1> QED BY <1>2, <1>3 DEF PutWord, Memory

\* What is read from memory is a word.
LEMMA WordIsWord ==
  ASSUME NEW b \in Memory, NEW o \in 0 .. (WLen - 4)
  PROVE WordAt(b, o) \in Word
  <1>1. WLen \in Nat
    BY WritableAssumption, WordFacts
  <1>2. o \in 0 .. (WLen - 1) /\ o + 1 \in 0 .. (WLen - 1) /\ o + 2 \in 0 .. (WLen - 1)
        /\ o + 3 \in 0 .. (WLen - 1)
    BY <1>1
  <1>3. b[o] \in Byte /\ b[o + 1] \in Byte /\ b[o + 2] \in Byte /\ b[o + 3] \in Byte
    BY <1>2 DEF Memory
  <1> DEFINE m == ByteMod
             w1 == m
             w2 == m * m
             w3 == m * m * m
             w4 == m * m * m * m
             b0 == b[o]
             b1 == b[o + 1]
             b2 == b[o + 2]
             b3 == b[o + 3]
  <1>4. m \in Nat /\ m > 1
    BY ByteAssumption
  <1>5. b0 \in Nat /\ b1 \in Nat /\ b2 \in Nat /\ b3 \in Nat /\ b0 < m /\ b1 < m /\ b2 < m /\ b3 < m
    BY <1>3, <1>4 DEF Byte
  <1>6. WordAt(b, o) = b0 + b1 * w1 + b2 * w2 + b3 * w3
    BY DEF WordAt, Weight
  <1>7. AddrMod = w4
    BY WordAssumption
  <1> HIDE DEF b0, b1, b2, b3, m
  <1>8. w2 \in Nat /\ w3 \in Nat /\ w4 \in Nat /\ w2 = m * w1 /\ w3 = m * w2 /\ w4 = m * w3
    <2>1. w2 \in Nat
      BY <1>4
    <2>2. w3 = m * w2 /\ w3 \in Nat
      BY <1>4
    <2>3. w4 = m * w3
      <3> DEFINE z == w2
      <3>1. z * m = m * z /\ z * m \in Nat
        BY <1>4, <2>1
      <3> QED BY <1>4, <2>2
    <2>4. w4 \in Nat
      <3> HIDE DEF w3, w4
      <3> QED BY <1>4, <2>2, <2>3
    <2> QED BY <2>1, <2>2, <2>3, <2>4
  <1> HIDE DEF w2, w3, w4
  <1>9. \A d, e \in Nat : d < m => d * e \in Nat /\ d * e + e <= m * e
    <2> TAKE d, e \in Nat
    <2> SUFFICES ASSUME d < m PROVE d * e \in Nat /\ d * e + e <= m * e
      OBVIOUS
    <2>1. d + 1 <= m
      BY <1>4
    <2>2. (d + 1) * e <= m * e
      BY <1>4, <2>1
    <2>3. (d + 1) * e = d * e + e
      OBVIOUS
    <2> QED BY <2>2, <2>3
  <1>10. /\ b1 * w1 \in Nat /\ b1 * w1 + w1 <= w2
         /\ b2 * w2 \in Nat /\ b2 * w2 + w2 <= w3
         /\ b3 * w3 \in Nat /\ b3 * w3 + w3 <= w4
    BY <1>4, <1>5, <1>8, <1>9
  <1> DEFINE p1 == b1 * w1
             p2 == b2 * w2
             p3 == b3 * w3
  <1>11. p1 \in Nat /\ p2 \in Nat /\ p3 \in Nat /\ p1 + w1 <= w2 /\ p2 + w2 <= w3 /\ p3 + w3 <= w4
    BY <1>10
  <1> HIDE DEF p1, p2, p3
  <1>12. b0 + p1 + p2 + p3 \in 0 .. (w4 - 1)
    BY <1>4, <1>5, <1>8, <1>11
  <1> QED BY <1>6, <1>7, <1>12 DEF Word, p1, p2, p3

\* Every byte is a word.
LEMMA ByteIsWord == Byte \subseteq Word
  <1> DEFINE m == ByteMod
             c == m * m * m
  <1>1. m \in Nat /\ m > 1
    BY ByteAssumption
  <1>2. c \in Nat /\ c >= 1
    <2>1. \A q, r \in Nat : q >= 1 /\ r >= 1 => q * r \in Nat /\ q * r >= 1
      OBVIOUS
    <2>2. m * m \in Nat /\ m * m >= 1
      BY <1>1, <2>1
    <2> QED BY <1>1, <2>1, <2>2
  <1>3. AddrMod = c * m
    BY WordAssumption
  <1> HIDE DEF c, m
  <1>4. c * m >= m /\ c * m \in Nat
    BY <1>1, <1>2
  <1> QED BY <1>1, <1>3, <1>4 DEF Byte, Word, m

\* Loads deliver words.
LEMMA LoadsAreWords ==
  ASSUME NEW b \in Memory, NEW a \in Int
  PROVE LoadWord(b, a) \in Word /\ LoadByte(b, a) \in Word
  <1>1. CbWord \in Word /\ CbWord % ByteMod \in Word
    <2>1. CbWord \in Word
      BY CbAssumption DEF Word
    <2>2. CbWord \in Nat /\ ByteMod \in Nat /\ ByteMod > 1
      BY <2>1, WrapFacts, ByteAssumption
    <2>3. CbWord % ByteMod \in Byte
      BY <2>2 DEF Byte
    <2> QED BY <2>1, <2>3, ByteIsWord
  <1>2. LoadWord(b, a) \in Word
    BY <1>1, HitIsInside, WordIsWord DEF LoadWord
  <1>3. ASSUME Hits(a, 1) PROVE b[Rel(a)] \in Word
    BY <1>3, HitIsInside, ByteIsWord DEF Memory
  <1> QED BY <1>1, <1>2, <1>3 DEF LoadByte

\* Memory stays memory when a word is stored.
LEMMA StoreIsMemory ==
  ASSUME NEW b \in Memory, NEW a \in Int, NEW v \in Nat
  PROVE StoreWord(b, a, v) \in Memory
  BY PutIsMemory, RelIsNat DEF StoreWord

\* A field in range reads back as written.
LEMMA FieldIs ==
  ASSUME NEW v \in Int, NEW r \in Nat \ {0}, InField(v, r)
  PROVE Field(v, r) = v
  <1>1. v + r \in 0 .. (2 * r - 1)
    BY DEF InField
  <1>2. (v + r) % (2 * r) = v + r
    BY <1>1
  <1> QED BY <1>2 DEF Field

\* What keeps the words.
LEMMA SetKeepsWords ==
  ASSUME Words, NEW r, r # 0, NEW v \in Word, SetX(r, v), mem' \in Memory
  PROVE Words' /\ x' = PutReg(x, r, v)
  <1>1. x' = [x EXCEPT ![r] = v]
    BY DEF SetX
  <1>2. x' \in [Regs -> Word]
    BY <1>1 DEF Words
  <1>3. x'[0] = x[0]
    BY <1>1 DEF Words
  <1> QED BY <1>1, <1>2, <1>3 DEF Words, PutReg

\* Registers stay registers when a word is put into one.
LEMMA LinkKeepsWords ==
  ASSUME Words, NEW r, NEW v \in Word, NEW y, y = PutReg(x, r, v), RegistersFit
  PROVE y \in [Regs -> Word] /\ y[0] = 0
  <1>1. CASE r = 0
    BY <1>1 DEF Words, PutReg
  <1>2. CASE r # 0
    <2>1. y = [x EXCEPT ![r] = v]
      BY <1>2 DEF PutReg
    <2>2. y \in [Regs -> Word]
      BY <2>1 DEF Words
    <2>3. y[0] = x[0]
      BY <1>2, <2>1 DEF Words
    <2> QED BY <2>2, <2>3 DEF Words
  <1> QED BY <1>1, <1>2

-----------------------------------------------------------------------------
(* The op at the cursor and the instructions it was made from.              *)

Ready == Running /\ Words /\ Inv /\ RegistersFit /\ StepsFit /\ 4 * n_ops < AddrMod

\* The op the loop is at, by the unit it was emitted from.
LEMMA AtHead ==
  ASSUME Ready, NEW h, Here(h)
  PROVE LET u == UnitOf(h) IN
          /\ h \in DOMAIN code /\ h \in Nat /\ Made(code, Targets, h, u) /\ Fits(code, Targets, h, u)
          /\ u.op \notin {"none", "nop"}
          /\ h \in CodeHi(code) => u.op = "auipc"
          /\ IsLow(code, h) => u.op \in Imm16Low /\ h \notin CodeHi(code)
          /\ IF u.op = "auipc" /\ h \notin CodeHi(code)
               THEN w = Unit("LI", u.rd, 0, 0, Wrap(4 * h + u.imm), 0, 1)
               ELSE /\ w.op = u.op /\ w.rd = u.rd /\ w.rs1 = u.rs1 /\ w.rs2 = u.rs2
                    /\ u.op \in Jumps => w.target = TargetWord(tc.map, u.target, p)
                    /\ w.imm = IF h \in CodeHi(code) THEN HiPart(Apart(code, tc.map, h))
                               ELSE IF IsLow(code, h) THEN LoPart(Apart(code, tc.map, code[h].rel.to))
                               ELSE u.imm
  <1> DEFINE u == UnitOf(h)
             v == First(u, tc.map[h], tc.map)
             hi == HiPart(Apart(code, tc.map, h))
             lo == LoPart(Apart(code, tc.map, code[h].rel.to))
  <1>1. Layout /\ IsProgram(code) /\ IsLinked(code) /\ Linked(code, Targets, tc)
    BY DEF Ready, Running, Layout
  <1>2. h \in DOMAIN tc.map /\ tc.map[h] = p /\ u.op # "nop" /\ w = Final(code, Targets, tc.map, h)
    BY DEF Here
  <1>3. h \in DOMAIN code /\ h \in Nat
    BY <1>1, <1>2, AddressFacts
  <1>4. Fits(code, Targets, h, u) /\ u.op # "none"
    BY <1>1, <1>3, StepFits DEF UnitOf
  <1>5. Made(code, Targets, h, u)
    BY <1>1, <1>3, StepMade DEF UnitOf
  <1>6. h \in CodeHi(code) => u.op = "auipc"
    BY <1>1 DEF Linked, UnitOf
  <1>7. IsLow(code, h) => u.op \in Imm16Low
    BY <1>1, <1>3 DEF Linked, UnitOf
  <1>8. IsLow(code, h) => h \notin CodeHi(code)
    <2>1. "auipc" \notin Imm16Low
      BY DEF Imm16Low
    <2> QED BY <1>6, <1>7, <2>1
  <1>9. /\ v.op = u.op /\ v.rd = u.rd /\ v.rs1 = u.rs1 /\ v.rs2 = u.rs2 /\ v.imm = u.imm
        /\ (u.op \in Jumps => v.target = TargetWord(tc.map, u.target, tc.map[h]))
        /\ DOMAIN v = {"op", "rd", "rs1", "rs2", "imm", "target", "width"}
    BY <1>1, <1>3, FirstOp DEF UnitOf
  <1>10. w = IF h \in CodeHi(code) THEN [v EXCEPT !.imm = hi]
             ELSE IF IsLow(code, h) THEN [v EXCEPT !.imm = lo]
             ELSE IF u.op = "auipc" THEN Unit("LI", u.rd, 0, 0, Wrap(4 * h + u.imm), 0, 1)
             ELSE v
    BY <1>2 DEF Final, UnitOf
  <1>11. IF u.op = "auipc" /\ h \notin CodeHi(code)
               THEN w = Unit("LI", u.rd, 0, 0, Wrap(4 * h + u.imm), 0, 1)
               ELSE /\ w.op = u.op /\ w.rd = u.rd /\ w.rs1 = u.rs1 /\ w.rs2 = u.rs2
                    /\ u.op \in Jumps => w.target = TargetWord(tc.map, u.target, p)
                    /\ w.imm = IF h \in CodeHi(code) THEN hi
                               ELSE IF IsLow(code, h) THEN lo
                               ELSE u.imm
    <2> DEFINE g == TargetWord(tc.map, u.target, p)
               li == Unit("LI", u.rd, 0, 0, Wrap(4 * h + u.imm), 0, 1)
    <2>1. u.op \in Jumps => v.target = g
      BY <1>2, <1>9
    <2> HIDE DEF u, v, hi, lo, g, li
    <2>2. CASE h \in CodeHi(code)
      <3>1. w = [v EXCEPT !.imm = hi]
        BY <1>10, <2>2
      <3>2. w.op = v.op /\ w.rd = v.rd /\ w.rs1 = v.rs1 /\ w.rs2 = v.rs2 /\ w.target = v.target /\ w.imm = hi
        BY <1>9, <3>1
      <3> QED BY <1>9, <2>1, <2>2, <3>2 DEF g
    <2>3. CASE h \notin CodeHi(code) /\ IsLow(code, h)
      <3>1. w = [v EXCEPT !.imm = lo]
        BY <1>10, <2>3
      <3>2. w.op = v.op /\ w.rd = v.rd /\ w.rs1 = v.rs1 /\ w.rs2 = v.rs2 /\ w.target = v.target /\ w.imm = lo
        BY <1>9, <3>1
      <3>3. u.op # "auipc"
        BY <1>7, <2>3 DEF Imm16Low
      <3> QED BY <1>9, <2>1, <2>3, <3>2, <3>3 DEF g
    <2>4. CASE h \notin CodeHi(code) /\ ~IsLow(code, h) /\ u.op = "auipc"
      BY <1>10, <2>4 DEF li
    <2>5. CASE h \notin CodeHi(code) /\ ~IsLow(code, h) /\ u.op # "auipc"
      <3>1. w = v
        BY <1>10, <2>5
      <3> QED BY <1>9, <2>1, <2>5, <3>1 DEF g
    <2> QED BY <2>2, <2>3, <2>4, <2>5
  <1> HIDE DEF u, v, hi, lo
  <1> QED BY <1>2, <1>3, <1>4, <1>5, <1>6, <1>7, <1>8, <1>11 DEF u, hi, lo

\* An instruction inside a unit keeps its immediate.
LEMMA InnerIs ==
  ASSUME Ready, NEW h, Here(h), NEW j \in (h + 1) .. (h + UnitOf(h).width - 1)
  PROVE j \in DOMAIN code /\ Src!Instruction(j) = Decode(code, j)
  <1> DEFINE n == Cardinality(DOMAIN code)
             e == h + UnitOf(h).width
  <1>1. Layout /\ IsProgram(code) /\ Linked(code, Targets, tc)
    BY DEF Ready, Running, Layout
  <1>2. h \in Nat /\ Fits(code, Targets, h, UnitOf(h)) /\ UnitOf(h).op # "none"
    BY AtHead
  <1>3. e <= n /\ UnitOf(h).width \in Nat /\ j \notin Targets
    BY <1>2 DEF Fits
  <1>4. n \in Nat /\ DOMAIN code = 0 .. (n - 1)
    BY <1>1, Numbered
  <1>5. j \in DOMAIN code
    <2>1. e \in Nat /\ j \in (h + 1) .. (e - 1)
      BY <1>2, <1>3
    <2> HIDE DEF n, e
    <2> QED BY <1>2, <1>3, <1>4, <2>1
  <1>6. ~IsLow(code, j)
    BY <1>1, <1>3, <1>5 DEF Linked
  <1> QED BY <1>1, <1>5, <1>6, InstructionIs

\* An op that is an instruction is the one at its head.
LEMMA PlainIs ==
  ASSUME Ready, NEW h, Here(h), w.op \in InsnOps
  PROVE LET c == Src!Instruction(h)
            d == Decode(code, h)
        IN /\ UnitOf(h) = d /\ UnitOf(h).width = 1 /\ OpWords(UnitOf(h).op) = 1 /\ Src!Charge(h, 1) = 1
           /\ h \in DOMAIN code /\ h \in Nat /\ d.op = w.op
           /\ c.op = w.op /\ c.rd = w.rd /\ c.rs1 = w.rs1 /\ c.rs2 = w.rs2
           /\ c.rd \in Regs /\ c.rs1 \in Regs /\ c.rs2 \in Regs
           /\ w.op # "auipc" => c.imm = w.imm
           /\ w.op = "auipc" => Src!Upper(h) = 4 * p + w.imm
           /\ w.op \in Zeroable => w.rd # 0
           /\ w.op = "slli" => w.imm \in 0 .. (WordBits - 1)
           /\ w.op \in Branches \cup {"jal"} => c.target \in DOMAIN tc.map /\ w.target = tc.map[c.target]
  <1> DEFINE u == UnitOf(h)
             d == Decode(code, h)
             c == Src!Instruction(h)
             lo == LoPart(Apart(code, tc.map, code[h].rel.to))
             hi == HiPart(Apart(code, tc.map, h))
  <1>1. Layout /\ IsProgram(code) /\ IsLinked(code) /\ Linked(code, Targets, tc)
    BY DEF Ready, Running, Layout
  <1>2. /\ h \in DOMAIN code /\ h \in Nat /\ u.op \notin {"none", "nop"}
        /\ h \in CodeHi(code) => u.op = "auipc"
        /\ IsLow(code, h) => u.op \in Imm16Low /\ h \notin CodeHi(code)
        /\ IF u.op = "auipc" /\ h \notin CodeHi(code)
             THEN w = Unit("LI", u.rd, 0, 0, Wrap(4 * h + u.imm), 0, 1)
             ELSE /\ w.op = u.op /\ w.rd = u.rd /\ w.rs1 = u.rs1 /\ w.rs2 = u.rs2
                  /\ u.op \in Jumps => w.target = TargetWord(tc.map, u.target, p)
                  /\ w.imm = IF h \in CodeHi(code) THEN hi ELSE IF IsLow(code, h) THEN lo ELSE u.imm
    BY AtHead
  <1>3. ~(u.op = "auipc" /\ h \notin CodeHi(code))
    <2> SUFFICES ASSUME u.op = "auipc" /\ h \notin CodeHi(code) PROVE FALSE
      OBVIOUS
    <2>1. w.op = "LI"
      BY <1>2, UnitFields
    <2> QED BY <2>1 DEF InsnOps
  <1>4. u = d
    <2>1. u.op \in InsnOps
      BY <1>2, <1>3
    <2> QED BY <1>1, <1>2, <2>1, PlainMade DEF UnitOf
  <1>5. c = IF IsLow(code, h) THEN [d EXCEPT !.imm = lo] ELSE d
    BY <1>1, InstructionIs
  <1>6. /\ d = Unit(d.op, d.rd, d.rs1, d.rs2, d.imm, d.target, d.width)
        /\ d.rd \in Regs /\ d.rs1 \in Regs /\ d.rs2 \in Regs /\ (d.op = "slli" => d.imm \in Nat)
        /\ d.width = 1 /\ d.rd = code[h].rd /\ d.imm = code[h].imm
    BY <1>1, <1>2, DecodeFacts
  <1>7. d.op = IF code[h].rd = 0 /\ code[h].op \in Zeroable THEN "nop" ELSE code[h].op
    BY DEF Decode, Unit
  <1>8. d.target = code[h].target
    BY DEF Decode, Unit
  <1> HIDE DEF u, d, lo, hi, c
  <1>9. c.op = d.op /\ c.rd = d.rd /\ c.rs1 = d.rs1 /\ c.rs2 = d.rs2 /\ c.target = d.target
        /\ c.imm = IF IsLow(code, h) THEN lo ELSE d.imm
    <2>1. CASE IsLow(code, h)
      <3>1. c = [Unit(d.op, d.rd, d.rs1, d.rs2, d.imm, d.target, d.width) EXCEPT !.imm = lo]
        BY <1>5, <1>6, <2>1
      <3>2. c = Unit(d.op, d.rd, d.rs1, d.rs2, lo, d.target, d.width)
        BY <3>1 DEF Unit
      <3> QED BY <2>1, <3>2, UnitFields
    <2>2. CASE ~IsLow(code, h)
      BY <1>5, <2>2
    <2> QED BY <2>1, <2>2
  <1>10. w.op = d.op /\ w.rd = d.rd /\ w.rs1 = d.rs1 /\ w.rs2 = d.rs2
         /\ (d.op \in Jumps => w.target = TargetWord(tc.map, d.target, p))
         /\ w.imm = IF h \in CodeHi(code) THEN hi ELSE IF IsLow(code, h) THEN lo ELSE d.imm
    BY <1>2, <1>3, <1>4
  <1>11. d.op = code[h].op /\ (d.op \in Zeroable => d.rd # 0)
    BY <1>2, <1>4, <1>6, <1>7
  <1>12. w.op # "auipc" => c.imm = w.imm
    BY <1>2, <1>4, <1>9, <1>10
  <1>13. w.op = "auipc" => Src!Upper(h) = 4 * p + w.imm
    <2> SUFFICES ASSUME w.op = "auipc" PROVE Src!Upper(h) = 4 * p + w.imm
      OBVIOUS
    <2>1. h \in CodeHi(code)
      BY <1>3, <1>4, <1>10
    <2>2. Src!Upper(h) = 4 * tc.map[h] + hi
      BY <1>1, <2>1, UpperIs DEF hi
    <2>3. tc.map[h] = p
      BY DEF Here
    <2> QED BY <1>10, <2>1, <2>2, <2>3
  <1>14. w.op = "slli" => w.imm \in 0 .. (WordBits - 1)
    <2> SUFFICES ASSUME w.op = "slli" PROVE w.imm \in 0 .. (WordBits - 1)
      OBVIOUS
    <2>1. ~IsLow(code, h) /\ h \notin CodeHi(code)
      <3>1. IsLow(code, h) => code[h].op \in {"addi", "lw", "lbu", "sw", "jalr"}
        BY <1>1, <1>2 DEF IsLow, IsLinked
      <3> QED BY <1>2, <1>4, <1>10, <1>11, <3>1
    <2>2. w.imm = d.imm /\ d.imm \in Nat
      BY <1>6, <1>10, <2>1
    <2>3. code[h].imm < WordBits
      BY <1>1, <1>2, <1>10, <1>11 DEF IsLinked
    <2>4. WordBits \in Nat
      BY MachineAssumption
    <2> QED BY <1>6, <2>2, <2>3, <2>4
  <1>15. w.op \in Branches \cup {"jal"} => c.target \in DOMAIN tc.map /\ w.target = tc.map[c.target]
    <2> SUFFICES ASSUME w.op \in Branches \cup {"jal"}
                 PROVE c.target \in DOMAIN tc.map /\ w.target = tc.map[c.target]
      OBVIOUS
    <2>1. TargetsKept
      BY DEF Ready, Inv
    <2>2. d.target \in DOMAIN tc.map
      BY <1>2, <1>8, <1>10, <1>11, <2>1 DEF TargetsKept
    <2>3. w.target = TargetWord(tc.map, d.target, p)
      BY <1>10 DEF Jumps
    <2> QED BY <1>9, <2>2, <2>3 DEF TargetWord
  <1>16. OpWords(d.op) = 1
    <2>1. d.op \notin {"nop", "LW_BZ", "LBU_BZ"}
      BY <1>2, <1>4, <1>10 DEF InsnOps
    <2> QED BY <2>1 DEF OpWords
  <1>17. Src!Charge(h, 1) = 1
    BY DEF Src!Charge
  <1> QED BY <1>2, <1>4, <1>6, <1>9, <1>10, <1>11, <1>12, <1>13, <1>14, <1>15, <1>16, <1>17 DEF u, d, c

-----------------------------------------------------------------------------
(* One instruction, two instructions.                                       *)

\* Room for the short units.
LEMMA WidthsFit ==
  ASSUME StepsFit
  PROVE 1 \in 1 .. MaxUnit /\ 2 \in 1 .. MaxUnit /\ 3 \in 1 .. MaxUnit
  BY DEF StepsFit

\* An op that is one instruction, and runs it.
LEMMA OneRuns ==
  ASSUME Ready, NEW h, Here(h), w.op \in InsnOps \ Traps
  PROVE /\ Src!Runs(Src!At(h, x, mem), 1) = <<Src!Effect(Src!At(h, x, mem), Src!Instruction(h))>>
  <1>1. h \in DOMAIN code /\ Decode(code, h).op = w.op
    BY PlainIs
  <1>2. Decode(code, h).op \notin Traps \cup {"nop"}
    BY <1>1 DEF InsnOps
  <1>3. Layout
    BY DEF Ready, Running
  <1>4. Src!OneMore(Src!At(h, x, mem)) = <<Src!Effect(Src!At(h, x, mem), Src!Instruction(h))>>
    BY <1>1, <1>2, <1>3, OneStep
  <1> QED BY <1>4, RunsOne

\* A handler that goes on does what its one instruction does.
LEMMA StraightOne ==
  ASSUME Ready, NEW h, Here(h), w.op \in InsnOps \ Traps, GoOn(1, 1), UNCHANGED <<code, ext, tc, max>>,
         Src!Effect(Src!At(h, x, mem), Src!Instruction(h)) = Src!At(h + 1, x', mem')
  PROVE Src!Next
  <1> DEFINE o == 1
  <1>1. Src!Runs(Src!At(h, x, mem), o) = <<Src!At(h + o, x', mem')>>
    BY OneRuns
  <1>2. UnitOf(h).width = o /\ OpWords(UnitOf(h).op) = o /\ Src!Charge(h, o) = o
    BY PlainIs
  <1>3. o \in 1 .. MaxUnit /\ o \in Nat
    BY WidthsFit DEF Ready
  <1>4. GoOn(o, o) /\ Running
    BY DEF Ready
  <1> HIDE DEF o
  <1> QED BY <1>1, <1>2, <1>3, <1>4, GoOnAdvances

\* An op that is two instructions, neither of which jumps.
LEMMA TwoRun ==
  ASSUME Ready, NEW h, Here(h), UnitOf(h).width \in {2, 3},
         Decode(code, h).op \notin Traps \cup {"nop"}, Decode(code, h + 1).op \notin Traps \cup {"nop"},
         NEW y, NEW m,
         Src!Effect(Src!At(h, x, mem), Src!Instruction(h)) = Src!At(h + 1, y, m)
  PROVE /\ Src!OneMore(Src!At(h, x, mem)) = <<Src!At(h + 1, y, m)>>
        /\ Src!OneMore(Src!At(h + 1, y, m)) = <<Src!Effect(Src!At(h + 1, y, m), Decode(code, h + 1))>>
        /\ Src!Runs(Src!At(h, x, mem), 2) = <<Src!Effect(Src!At(h + 1, y, m), Decode(code, h + 1))>>
  <1> DEFINE s == Src!At(h, x, mem)
             i == h + 1
             r == Src!At(i, y, m)
             q == Src!Effect(r, Decode(code, i))
  <1>1. h \in DOMAIN code /\ h \in Nat
    BY AtHead
  <1>2. i \in (h + 1) .. (h + UnitOf(h).width - 1)
    BY <1>1
  <1>3. i \in DOMAIN code /\ Src!Instruction(i) = Decode(code, i)
    BY <1>2, InnerIs
  <1>4. Layout
    BY DEF Ready, Running
  <1>5. Src!OneMore(s) = <<r>>
    BY <1>1, <1>4, OneStep
  <1>6. Decode(code, i).op \notin Traps \cup {"nop"}
    OBVIOUS
  <1> HIDE DEF i
  <1>7. Src!OneMore(r) = <<q>>
    BY <1>3, <1>4, <1>6, OneStep
  <1> HIDE DEF s, r, q
  <1>8. Src!Runs(s, 2) = <<q>>
    BY <1>5, <1>7, RunsTwo
  <1> QED BY <1>5, <1>7, <1>8 DEF s, r, q, i

\* A handler that goes on does what its two instructions do.
LEMMA StraightTwo ==
  ASSUME Ready, NEW h, Here(h), UnitOf(h).width = 2, OpWords(UnitOf(h).op) = 1,
         Decode(code, h).op \notin Traps \cup {"nop"}, Decode(code, h + 1).op \notin Traps \cup {"nop"},
         NEW cost \in Nat, GoOn(1, cost), cost = Src!Charge(h, 2), UNCHANGED <<code, ext, tc, max>>,
         NEW y, NEW m,
         Src!Effect(Src!At(h, x, mem), Src!Instruction(h)) = Src!At(h + 1, y, m),
         Src!Effect(Src!At(h + 1, y, m), Decode(code, h + 1)) = Src!At(h + 2, x', mem')
  PROVE Src!Next
  <1> DEFINE o == 1
             t == 2
  <1>1. UnitOf(h).width \in {2, 3}
    OBVIOUS
  <1>2. Src!Runs(Src!At(h, x, mem), t) = <<Src!At(h + t, x', mem')>>
    BY <1>1, TwoRun
  <1>3. t \in 1 .. MaxUnit
    BY WidthsFit DEF Ready
  <1>4. /\ UnitOf(h).width = t /\ OpWords(UnitOf(h).op) = o /\ Src!Charge(h, t) = cost
        /\ GoOn(o, cost) /\ Running
    BY DEF Ready
  <1> HIDE DEF o, t
  <1> QED BY <1>2, <1>3, <1>4, GoOnAdvances

-----------------------------------------------------------------------------
(* The handlers refine the source.                                          *)

\* The registers an instruction reads, and what they lead to.
LEMMA OperandsAre ==
  ASSUME Words, NEW r \in Regs, NEW i \in Int
  PROVE x[r] \in Word /\ x[r] \in Int /\ Wrap(x[r] + i) \in Word /\ Wrap(x[r] + i) \in Int
  <1>1. x[r] \in Word
    BY DEF Words
  <1>2. x[r] \in Nat
    BY <1>1, WrapFacts
  <1>3. x[r] + i \in Int
    BY <1>2
  <1>4. Wrap(x[r] + i) \in Word
    BY <1>3, WrapFacts
  <1>5. Wrap(x[r] + i) \in Nat
    BY <1>4, WrapFacts
  <1> QED BY <1>1, <1>2, <1>4, <1>5

\* Load is the lw or the lbu it stands for.
LEMMA LoadRefines ==
  ASSUME Ready, NEW h, Here(h), Load
  PROVE Src!Next /\ Words'
  <1> DEFINE c == Src!Instruction(h)
             a == Wrap(x[w.rs1] + w.imm)
             v == IF w.op = "lw" THEN LoadWord(mem, a) ELSE LoadByte(mem, a)
  <1>1. w.op \in {"lw", "lbu"}
    BY DEF Load, Op
  <1>2. w.op \in InsnOps \ Traps /\ w.op # "auipc" /\ w.op \in InsnOps
    BY <1>1 DEF InsnOps, Traps
  <1>3. c.op = w.op /\ c.rd = w.rd /\ c.rs1 = w.rs1 /\ c.imm = w.imm /\ c.rs1 \in Regs
    BY <1>2, PlainIs
  <1>4. x' = PutReg(x, w.rd, v) /\ mem' = mem /\ GoOn(1, 1) /\ UNCHANGED <<code, ext, tc, max>>
    <2>1. SetLoaded(w.rd, v)
      BY DEF Load, Base
    <2> QED BY <2>1 DEF Load, SetLoaded, PutReg
  <1>5. a \in Int
    <2>1. w.imm \in Int
      <3>1. Wrap(Base + w.imm) \in Nat /\ w.imm \in Int
        BY <1>2, <1>1, SimpleFacts DEF Ready, Inv, Running, Simple, InsnOps
      <3> QED BY <3>1
    <2> QED BY <1>3, <2>1, OperandsAre DEF Ready
  <1> HIDE DEF a
  <1>6. v \in Word
    BY <1>5, LoadsAreWords DEF Ready, Words
  <1>7. Words'
    <2>1. x' \in [Regs -> Word] /\ x'[0] = 0
      BY <1>4, <1>6, LinkKeepsWords DEF Ready
    <2> QED BY <1>4, <2>1 DEF Words, Ready
  <1>8. Src!Effect(Src!At(h, x, mem), c) = Src!At(h + 1, x', mem')
    <2>1. a = Wrap(x[c.rs1] + c.imm)
      BY <1>3 DEF a
    <2>2. /\ c.op = "lw" => Src!Effect(Src!At(h, x, mem), c) = Src!At(h + 1, PutReg(x, c.rd, LoadWord(mem, a)), mem)
          /\ c.op = "lbu" => Src!Effect(Src!At(h, x, mem), c) = Src!At(h + 1, PutReg(x, c.rd, LoadByte(mem, a)), mem)
      BY <2>1, EffectIs
    <2>3. Src!Effect(Src!At(h, x, mem), c) = Src!At(h + 1, PutReg(x, w.rd, v), mem)
      <3> HIDE DEF c
      <3> QED BY <1>1, <1>3, <2>2
    <2> HIDE DEF c, v
    <2>4. Src!At(h + 1, PutReg(x, w.rd, v), mem) = Src!At(h + 1, x', mem')
      BY <1>4 DEF Src!At
    <2> QED BY <2>3, <2>4
  <1>9. Src!Next
    BY <1>2, <1>4, <1>8, StraightOne
  <1> QED BY <1>7, <1>9

\* Store is its sw.
LEMMA StoreRefines ==
  ASSUME Ready, NEW h, Here(h), Store
  PROVE Src!Next /\ Words'
  <1> DEFINE c == Src!Instruction(h)
             a == Wrap(x[w.rs1] + w.imm)
             z == StoreWord(mem, a, x[w.rs2])
  <1>1. w.op = "sw"
    BY DEF Store, Op
  <1>2. w.op \in InsnOps \ Traps /\ w.op # "auipc" /\ w.op \in InsnOps /\ w.op \in Simple
    BY <1>1 DEF InsnOps, Traps, Simple
  <1>3. c.op = w.op /\ c.rs1 = w.rs1 /\ c.rs2 = w.rs2 /\ c.imm = w.imm
    BY <1>2, PlainIs
  <1>4. x' = x /\ mem' = z /\ GoOn(1, 1) /\ UNCHANGED <<code, ext, tc, max>>
    BY DEF Store, Base
  <1>5. a \in Nat /\ x[w.rs2] \in Nat
    BY <1>2, SimpleFacts DEF Ready, Inv, Running, Base
  <1> HIDE DEF a
  <1>6. z \in Memory
    BY <1>5, StoreIsMemory DEF Ready, Words
  <1>7. Words'
    BY <1>4, <1>6 DEF Words, Ready
  <1>8. Src!Effect(Src!At(h, x, mem), c) = Src!At(h + 1, x', mem')
    <2>1. a = Wrap(x[c.rs1] + c.imm) /\ x[c.rs2] = x[w.rs2]
      BY <1>3 DEF a
    <2>2. Src!Effect(Src!At(h, x, mem), c) = Src!At(h + 1, x, StoreWord(mem, a, x[c.rs2]))
      BY <1>1, <1>3, <2>1, EffectIs
    <2>3. Src!Effect(Src!At(h, x, mem), c) = Src!At(h + 1, x, z)
      BY <2>1, <2>2
    <2> HIDE DEF c, z
    <2>4. Src!At(h + 1, x, z) = Src!At(h + 1, x', mem')
      BY <1>4 DEF Src!At
    <2> QED BY <2>3, <2>4
  <1>9. Src!Next
    BY <1>2, <1>4, <1>8, StraightOne
  <1> QED BY <1>7, <1>9

\* An op that writes a register and goes on.
LEMMA WriteRefines ==
  ASSUME Ready, NEW h, Here(h), w.op \in InsnOps \ Traps, w.rd # 0, NEW v \in Word, SetX(w.rd, v),
         mem' = mem, GoOn(1, 1), UNCHANGED <<code, ext, tc, max>>,
         Src!Effect(Src!At(h, x, mem), Src!Instruction(h)) = Src!At(h + 1, PutReg(x, w.rd, v), mem)
  PROVE Src!Next /\ Words'
  <1>1. Words /\ mem' \in Memory
    BY DEF Ready, Words
  <1>2. Words' /\ x' = PutReg(x, w.rd, v)
    BY <1>1, SetKeepsWords
  <1>3. Src!At(h + 1, PutReg(x, w.rd, v), mem) = Src!At(h + 1, x', mem')
    BY <1>2 DEF Src!At
  <1>4. Src!Next
    BY <1>3, StraightOne
  <1> QED BY <1>2, <1>4

\* The plain ALU ops are their instructions.
LEMMA AluRefines ==
  ASSUME Ready, NEW h, Here(h), Alu, w.op \in {"add", "addi", "slli", "auipc"}
  PROVE Src!Next /\ Words'
  <1> DEFINE c == Src!Instruction(h)
             s == Src!At(h, x, mem)
             v1 == x[w.rs1]
             v2 == x[w.rs2]
             sh == 2^(w.imm % WordBits)
             v == CASE w.op = "add"   -> Wrap(v1 + v2)
                    [] w.op = "addi"  -> Wrap(v1 + w.imm)
                    [] w.op = "slli"  -> Wrap(v1 * sh)
                    [] w.op = "auipc" -> Wrap(4 * p + w.imm)
  <1>1. w.op \in InsnOps \ Traps /\ w.op \in InsnOps /\ w.op \in Simple /\ w.op \in Zeroable
    BY DEF InsnOps, Traps, Simple, Zeroable
  <1>2. /\ c.op = w.op /\ c.rd = w.rd /\ c.rs1 = w.rs1 /\ c.rs2 = w.rs2
        /\ w.op # "auipc" => c.imm = w.imm
        /\ w.op = "auipc" => Src!Upper(h) = 4 * p + w.imm
        /\ w.op = "slli" => w.imm \in 0 .. (WordBits - 1)
        /\ w.rd # 0
    BY <1>1, PlainIs
  <1>3. v1 \in Nat /\ v2 \in Nat /\ w.imm \in Int /\ p \in Nat
    BY <1>1, SimpleFacts DEF Ready, Inv, DataInv, Running, Base
  <1>4. SetX(w.rd, v) /\ GoOn(1, 1) /\ UNCHANGED <<code, ext, tc, mem, max>>
    <2>1. GoOn(1, 1) /\ UNCHANGED <<code, ext, tc, mem, max>>
      BY DEF Alu
    <2>2. SetX(w.rd, CASE w.op = "add"   -> Wrap(Base + x[w.rs2])
                  [] w.op = "addi"  -> Wrap(Base + w.imm)
                  [] w.op = "slli"  -> Wrap(Base * 2^(w.imm % WordBits))
                  [] w.op = "auipc" -> Wrap(4 * p + w.imm)
                  [] w.op = "LI"    -> w.imm
                  [] w.op = "SHADD" -> Wrap(Base + x[w.rs2] * 2^w.imm))
      BY DEF Alu
    <2> DEFINE li == w.imm
               sa == Wrap(Base + x[w.rs2] * 2^w.imm)
               wop == w.op
               r1 == Wrap(v1 + v2)
               r2 == Wrap(v1 + w.imm)
               r3 == Wrap(v1 * sh)
               r4 == Wrap(4 * p + w.imm)
               big == CASE wop = "add" -> r1 [] wop = "addi" -> r2 [] wop = "slli" -> r3
                        [] wop = "auipc" -> r4 [] wop = "LI" -> li [] wop = "SHADD" -> sa
    <2>3. SetX(w.rd, big)
      BY <2>2 DEF Base
    <2>4. v = CASE wop = "add" -> r1 [] wop = "addi" -> r2 [] wop = "slli" -> r3 [] wop = "auipc" -> r4
      OBVIOUS
    <2>5. wop \in {"add", "addi", "slli", "auipc"}
      OBVIOUS
    <2> HIDE DEF li, sa, wop, r1, r2, r3, r4, v
    <2>6. v = big
      BY <2>4, <2>5
    <2> HIDE DEF big
    <2> QED BY <2>1, <2>3, <2>6
  <1>5. w.op = "slli" => sh = 2^c.imm
    <2> SUFFICES ASSUME w.op = "slli" PROVE sh = 2^c.imm
      OBVIOUS
    <2>1. w.imm % WordBits = w.imm
      <3>1. WordBits \in Nat \ {0} /\ w.imm \in 0 .. (WordBits - 1)
        BY <1>2, MachineAssumption
      <3> QED BY <3>1
    <2>2. c.imm = w.imm
      BY <1>2
    <2> QED BY <2>1, <2>2
  <1>6. Src!Effect(s, c) = Src!At(h + 1, PutReg(x, w.rd, v), mem)
    <2>1. /\ c.op = "add" => Src!Effect(s, c) = Src!At(h + 1, PutReg(x, c.rd, Wrap(x[c.rs1] + x[c.rs2])), mem)
          /\ c.op = "addi" => Src!Effect(s, c) = Src!At(h + 1, PutReg(x, c.rd, Wrap(x[c.rs1] + c.imm)), mem)
          /\ c.op = "slli" => Src!Effect(s, c) = Src!At(h + 1, PutReg(x, c.rd, Wrap(x[c.rs1] * 2^c.imm)), mem)
          /\ c.op = "auipc" => Src!Effect(s, c) = Src!At(h + 1, PutReg(x, c.rd, Wrap(Src!Upper(h))), mem)
      BY EffectIs
    <2> DEFINE out(q) == Src!At(h + 1, PutReg(x, w.rd, q), mem)
               wop == w.op
               r1 == Wrap(v1 + v2)
               r2 == Wrap(v1 + w.imm)
               r3 == Wrap(v1 * sh)
               r4 == Wrap(4 * p + w.imm)
               ef == Src!Effect(s, c)
    <2>2. c.op = "add" => ef = out(r1)
      BY <1>2, <2>1
    <2>3. c.op = "addi" => ef = out(r2)
      BY <1>2, <2>1
    <2>4. c.op = "slli" => ef = out(r3)
      BY <1>2, <1>5, <2>1
    <2>5. c.op = "auipc" => ef = out(r4)
      BY <1>2, <2>1
    <2>6. v = CASE wop = "add" -> r1 [] wop = "addi" -> r2 [] wop = "slli" -> r3 [] wop = "auipc" -> r4
      OBVIOUS
    <2>7. wop \in {"add", "addi", "slli", "auipc"} /\ c.op = wop
      BY <1>2
    <2> HIDE DEF wop, r1, r2, r3, r4, v, ef, out, c
    <2>8. ef = out(v)
      BY <2>2, <2>3, <2>4, <2>5, <2>6, <2>7
    <2> QED BY <2>8 DEF ef, out
  <1>7. v \in Word
    <2> DEFINE wop == w.op
               r1 == Wrap(v1 + v2)
               r2 == Wrap(v1 + w.imm)
               r3 == Wrap(v1 * sh)
               r4 == Wrap(4 * p + w.imm)
    <2>1. v1 + v2 \in Int /\ v1 + w.imm \in Int /\ 4 * p + w.imm \in Int
      BY <1>3
    <2>2. wop = "slli" => v1 * sh \in Int
      <3> SUFFICES ASSUME wop = "slli" PROVE v1 * sh \in Int
        OBVIOUS
      <3> DEFINE e == w.imm % WordBits
      <3>1. WordBits \in Nat \ {0} /\ w.imm \in Int
        BY <1>3, MachineAssumption
      <3>2. e \in Nat
        BY <3>1
      <3> HIDE DEF e
      <3>3. 2^e \in Int
        BY <3>2
      <3>4. sh \in Int
        BY <3>3 DEF e
      <3> HIDE DEF sh, v1
      <3> QED BY <1>3, <3>4
    <2>3. r1 \in Word /\ r2 \in Word /\ r4 \in Word /\ (wop = "slli" => r3 \in Word)
      BY <2>1, <2>2, WrapFacts
    <2>4. v = CASE wop = "add" -> r1 [] wop = "addi" -> r2 [] wop = "slli" -> r3 [] wop = "auipc" -> r4
      OBVIOUS
    <2>5. wop \in {"add", "addi", "slli", "auipc"}
      OBVIOUS
    <2> HIDE DEF wop, r1, r2, r3, r4, v
    <2> QED BY <2>3, <2>4, <2>5
  <1> HIDE DEF v, c, s
  <1> QED BY <1>1, <1>2, <1>4, <1>6, <1>7, WriteRefines DEF c, s

Fused == {"SHADD", "LWX", "LWLW", "VCALL", "LWSW", "PROLOGUE", "EPILOGUE"}

\* A fused op is its unit.
LEMMA FusedIs ==
  ASSUME Ready, NEW h, Here(h), w.op \in Fused
  PROVE LET u == UnitOf(h) IN
          /\ w.op = u.op /\ w.rd = u.rd /\ w.rs1 = u.rs1 /\ w.rs2 = u.rs2 /\ w.imm = u.imm
          /\ h \in DOMAIN code /\ h \in Nat /\ Made(code, Targets, h, u)
          /\ OpWords(u.op) = 1 /\ Src!Instruction(h) = Decode(code, h)
          /\ IsProgram(code) /\ Cardinality(DOMAIN code) \in Nat /\ DOMAIN code = 0 .. (Cardinality(DOMAIN code) - 1)
          /\ h + u.width <= Cardinality(DOMAIN code) /\ u.width \in Nat \ {0}
  <1> DEFINE u == UnitOf(h)
             a == Decode(code, h)
             n == Cardinality(DOMAIN code)
             hi == HiPart(Apart(code, tc.map, h))
             lo == LoPart(Apart(code, tc.map, code[h].rel.to))
             li == Unit("LI", u.rd, 0, 0, Wrap(4 * h + u.imm), 0, 1)
  <1>1. /\ h \in DOMAIN code /\ h \in Nat /\ Made(code, Targets, h, u) /\ Fits(code, Targets, h, u)
        /\ u.op # "none"
        /\ h \in CodeHi(code) => u.op = "auipc"
        /\ IsLow(code, h) => u.op \in Imm16Low /\ h \notin CodeHi(code)
        /\ IF u.op = "auipc" /\ h \notin CodeHi(code) THEN w = li
           ELSE /\ w.op = u.op /\ w.rd = u.rd /\ w.rs1 = u.rs1 /\ w.rs2 = u.rs2
                /\ w.imm = IF h \in CodeHi(code) THEN hi ELSE IF IsLow(code, h) THEN lo ELSE u.imm
    BY AtHead
  <1>2. li.op = "LI" /\ "LI" \notin Fused /\ "auipc" \notin Fused /\ Fused \cap Imm16Low = {}
        /\ Fused \cap {"nop", "LW_BZ", "LBU_BZ"} = {}
    BY UnitFields DEF Fused, Imm16Low
  <1>3. IsProgram(code) /\ n \in Nat /\ DOMAIN code = 0 .. (n - 1) /\ Layout
    BY Numbered DEF Ready, Running, Layout
  <1>4. h + u.width <= n /\ u.width \in Nat \ {0}
    BY <1>1 DEF Fits
  <1>5. ~IsLow(code, h) => Src!Instruction(h) = a
    BY <1>3, InstructionIs
  <1> HIDE DEF u, a, n, hi, lo, li
  <1>6. w.op = u.op /\ ~IsLow(code, h) /\ h \notin CodeHi(code)
    BY <1>1, <1>2
  <1>7. OpWords(u.op) = 1
    <2>1. u.op \notin {"nop", "LW_BZ", "LBU_BZ"}
      BY <1>2, <1>6
    <2> QED BY <2>1 DEF OpWords
  <1>8. w.rd = u.rd /\ w.rs1 = u.rs1 /\ w.rs2 = u.rs2 /\ w.imm = u.imm
    BY <1>1, <1>2, <1>6
  <1> QED BY <1>1, <1>3, <1>4, <1>5, <1>6, <1>7, <1>8 DEF u, a, n

\* The same of a pair: its two instructions.
LEMMA PairIs ==
  ASSUME Ready, NEW h, Here(h), w.op \in {"SHADD", "LWX", "LWLW", "VCALL", "LWSW"}
  PROVE LET a == Decode(code, h)
            b == Decode(code, h + 1)
            u == UnitOf(h)
        IN /\ h \in DOMAIN code /\ h \in Nat /\ h + 1 \in DOMAIN code /\ a.width = 1 /\ b.width = 1
           /\ a.rd \in Regs /\ a.rs1 \in Regs /\ a.rs2 \in Regs /\ a.imm \in Int
           /\ b.rd \in Regs /\ b.rs1 \in Regs /\ b.rs2 \in Regs /\ b.imm \in Int
           /\ (a.op = "slli" => a.imm \in Nat)
           /\ a.op = "add" \/ a.op = "slli" => a.rd # 0
           /\ w.op = u.op /\ w.rd = u.rd /\ w.rs1 = u.rs1 /\ w.rs2 = u.rs2 /\ w.imm = u.imm
           /\ OpWords(u.op) = 1 /\ Src!Instruction(h) = a
           /\ u.op = "SHADD" => u = FuseShadd(a, b)
           /\ u.op = "LWX" => u = FuseLwx(a, b)
           /\ u.op \in {"LWLW", "VCALL"} => u = FuseLwlw(code, Targets, h, a, b)
           /\ u.op = "LWSW" => u = FuseLwsw(a, b)
           /\ a.op \in {"slli", "add", "lw"} => Src!Charge(h, 2) = 2 /\ Src!Charge(h, 3) = 3
  <1> DEFINE u == UnitOf(h)
             a == Decode(code, h)
             b == Decode(code, h + 1)
  <1>1. w.op \in Fused
    BY DEF Fused
  <1>2. /\ w.op = u.op /\ w.rd = u.rd /\ w.rs1 = u.rs1 /\ w.rs2 = u.rs2 /\ w.imm = u.imm
        /\ h \in DOMAIN code /\ h \in Nat /\ Made(code, Targets, h, u)
        /\ OpWords(u.op) = 1 /\ Src!Instruction(h) = a
        /\ IsProgram(code)
    BY <1>1, FusedIs
  <1>3. u.op \in {"SHADD", "LWX", "LWLW", "VCALL", "LWSW"}
    BY <1>2
  <1> HIDE DEF u
  <1>4. u.op \notin {"PROLOGUE", "EPILOGUE", "LI"} \cup BzOps \cup InsnOps \cup {"nop"}
    BY <1>3 DEF BzOps, InsnOps
  <1>5. /\ Second(code, Targets, h)
        /\ \/ u = FuseShadd(a, b) /\ u.op = "SHADD"
           \/ u = FuseLwx(a, b) /\ u.op = "LWX"
           \/ u = FuseLwlw(code, Targets, h, a, b) /\ u.op \in {"LWLW", "VCALL"}
           \/ u = FuseLwsw(a, b) /\ u.op = "LWSW"
    BY <1>2, <1>4 DEF Made
  <1>6. h + 1 \in DOMAIN code
    BY <1>5 DEF Second
  <1> DEFINE i == h + 1
  <1>7. /\ a.rd \in Regs /\ a.rs1 \in Regs /\ a.rs2 \in Regs /\ a.imm \in Int
        /\ (a.op = "slli" => a.imm \in Nat) /\ a.width = 1
    BY <1>2, DecodeFacts
  <1>8. b.rd \in Regs /\ b.rs1 \in Regs /\ b.rs2 \in Regs /\ b.imm \in Int /\ b.width = 1
    <2>1. i \in DOMAIN code
      BY <1>6
    <2> HIDE DEF i
    <2>2. LET e == Decode(code, i) IN e.rd \in Regs /\ e.rs1 \in Regs /\ e.rs2 \in Regs /\ e.imm \in Int /\ e.width = 1
      BY <1>2, <2>1, DecodeFacts
    <2> QED BY <2>2 DEF i
  <1>9. a.op = "add" \/ a.op = "slli" => a.rd # 0
    <2>1. a.op = (IF code[h].rd = 0 /\ code[h].op \in Zeroable THEN "nop" ELSE code[h].op) /\ a.rd = code[h].rd
      BY DEF Decode, Unit
    <2> HIDE DEF a
    <2> QED BY <2>1 DEF Zeroable
  <1>10. a.op \in {"slli", "add", "lw"} => Src!Charge(h, 2) = 2 /\ Src!Charge(h, 3) = 3
    <2>1. Src!Decode(code, h) = a
      BY SameOps
    <2> HIDE DEF a
    <2> QED BY <2>1 DEF Src!Charge
  <1> HIDE DEF a, b
  <1>11. /\ u.op = "SHADD" => u = FuseShadd(a, b)
         /\ u.op = "LWX" => u = FuseLwx(a, b)
         /\ u.op \in {"LWLW", "VCALL"} => u = FuseLwlw(code, Targets, h, a, b)
         /\ u.op = "LWSW" => u = FuseLwsw(a, b)
    BY <1>5
  <1> QED BY <1>2, <1>6, <1>7, <1>8, <1>9, <1>10, <1>11 DEF u, a, b

\* Putting a register twice.
LEMMA PutTwice ==
  ASSUME Words, NEW r, NEW v, NEW q
  PROVE /\ PutReg(PutReg(x, r, q), r, v) = PutReg(x, r, v)
        /\ r # 0 /\ r \in Regs => PutReg(x, r, q)[r] = q
        /\ \A g \in Regs : g # r => PutReg(x, r, q)[g] = x[g]
  <1>1. DOMAIN x = Regs /\ x = [g \in Regs |-> x[g]]
    BY DEF Words
  <1> DEFINE z == x
  <1>2. z = [g \in Regs |-> z[g]]
    BY <1>1
  <1> HIDE DEF z
  <1>3. [[z EXCEPT ![r] = q] EXCEPT ![r] = v] = [z EXCEPT ![r] = v]
    BY <1>2
  <1>4. r \in Regs => [z EXCEPT ![r] = q][r] = q
    BY <1>2
  <1> USE DEF z
  <1>5. \A g \in Regs : g # r => PutReg(x, r, q)[g] = x[g]
    <2> TAKE g \in Regs
    <2> SUFFICES ASSUME g # r PROVE PutReg(x, r, q)[g] = x[g]
      OBVIOUS
    <2>1. [x EXCEPT ![r] = q][g] = x[g]
      BY <1>1
    <2> QED BY <2>1 DEF PutReg
  <1> QED BY <1>3, <1>4, <1>5 DEF PutReg

\* A pair that leaves a word in the register it is about.
LEMMA PairWrites ==
  ASSUME Ready, NEW h, Here(h), w.op \in {"SHADD", "LWX", "LWLW"},
         UnitOf(h).width = 2, w.rd # 0, NEW v \in Word, SetX(w.rd, v), GoOn(1, 2),
         UNCHANGED <<code, ext, tc, mem, max>>,
         Decode(code, h).op \in {"slli", "add", "lw"}, Decode(code, h + 1).op \in {"add", "lw"}, NEW y,
         Src!Effect(Src!At(h, x, mem), Decode(code, h)) = Src!At(h + 1, y, mem),
         Src!Effect(Src!At(h + 1, y, mem), Decode(code, h + 1)) = Src!At(h + 2, PutReg(y, w.rd, v), mem),
         PutReg(y, w.rd, v) = PutReg(x, w.rd, v)
  PROVE Src!Next /\ Words'
  <1>1. Words /\ mem' \in Memory /\ mem' = mem
    BY DEF Ready, Words
  <1>2. Words' /\ x' = PutReg(x, w.rd, v)
    BY <1>1, SetKeepsWords
  <1>3. Src!At(h + 2, PutReg(y, w.rd, v), mem) = Src!At(h + 2, x', mem')
    BY <1>1, <1>2 DEF Src!At
  <1>4. Src!Instruction(h) = Decode(code, h) /\ OpWords(UnitOf(h).op) = 1 /\ Src!Charge(h, 2) = 2
    BY PairIs
  <1> DEFINE cost == 2
  <1>5. cost \in Nat /\ GoOn(1, cost) /\ cost = Src!Charge(h, 2)
    BY <1>4
  <1>6. /\ Decode(code, h).op \notin Traps \cup {"nop"}
        /\ Decode(code, h + 1).op \notin Traps \cup {"nop"}
    BY DEF Traps
  <1>7. UNCHANGED <<code, ext, tc, max>>
    OBVIOUS
  <1>8. Src!Effect(Src!At(h, x, mem), Src!Instruction(h)) = Src!At(h + 1, y, mem)
    BY <1>4
  <1>9. Src!Effect(Src!At(h + 1, y, mem), Decode(code, h + 1)) = Src!At(h + 2, x', mem')
    BY <1>3
  <1> HIDE DEF cost
  <1>10. Src!Next
    BY <1>4, <1>5, <1>6, <1>7, <1>8, <1>9, StraightTwo
  <1> QED BY <1>2, <1>10

\* LWX is its add and its lw.
LEMMA LwxRefines ==
  ASSUME Ready, NEW h, Here(h), Lwx
  PROVE Src!Next /\ Words'
  <1> DEFINE a == Decode(code, h)
             b == Decode(code, h + 1)
             u == UnitOf(h)
             i == h + 1
  <1>1. w.op = "LWX"
    BY DEF Lwx, Op
  <1>2. /\ h \in Nat
        /\ a.rd \in Regs /\ a.rs1 \in Regs /\ a.rs2 \in Regs /\ b.imm \in Int
        /\ a.op = "add" \/ a.op = "slli" => a.rd # 0
        /\ w.op = u.op /\ w.rd = u.rd /\ w.rs1 = u.rs1 /\ w.rs2 = u.rs2 /\ w.imm = u.imm
        /\ u.op = "LWX" => u = FuseLwx(a, b)
    BY <1>1, PairIs
  <1> DEFINE s1 == x[a.rs1]
             s2 == x[a.rs2]
             sum == Wrap(s1 + s2)
             y == PutReg(x, a.rd, sum)
             src == Wrap(s1 + s2 + b.imm)
             v == LoadWord(mem, src)
             t == Wrap(y[b.rs1] + b.imm)
  <1> HIDE DEF a, b, u
  <1>3. /\ a.op = "add" /\ b.op = "lw" /\ b.rd = a.rd /\ b.rs1 = a.rd /\ InField(b.imm, IdxRange)
        /\ u = Unit("LWX", a.rd, a.rs1, a.rs2, Field(b.imm, IdxRange), 0, 2)
    <2>1. u = FuseLwx(a, b) /\ u.op # "none"
      BY <1>1, <1>2
    <2>2. NoUnit.op = "none"
      BY NoUnitFits
    <2> QED BY <2>1, <2>2 DEF FuseLwx
  <1>4. w.rd = a.rd /\ w.rs1 = a.rs1 /\ w.rs2 = a.rs2 /\ w.imm = b.imm /\ u.width = 2 /\ a.rd # 0
    <2>1. Field(b.imm, IdxRange) = b.imm
      BY <1>2, <1>3, FieldIs, MachineAssumption
    <2> QED BY <1>2, <1>3, <2>1, UnitFields
  <1>5. s1 \in Nat /\ s2 \in Nat
    <2>1. s1 \in Word /\ s2 \in Word
      BY <1>2 DEF Ready, Words
    <2> QED BY <2>1, WrapFacts
  <1>6. src \in Int /\ sum \in Int
    <2>1. s1 + s2 + b.imm \in Int /\ s1 + s2 \in Int
      BY <1>2, <1>5
    <2> QED BY <2>1, WordFacts
  <1>7. v \in Word
    <2> HIDE DEF src
    <2> QED BY <1>6, LoadsAreWords DEF Ready, Words
  <1>8. SetX(w.rd, v) /\ GoOn(1, 2) /\ UNCHANGED <<code, ext, tc, mem, max>>
    BY <1>4 DEF Lwx, Base
  <1>9. y[b.rs1] = sum /\ PutReg(y, a.rd, v) = PutReg(x, a.rd, v)
    <2> HIDE DEF sum, v
    <2> QED BY <1>2, <1>3, <1>4, PutTwice DEF Ready
  <1>10. t = src
    <2> DEFINE q == s1 + s2
    <2>1. q \in Int
      BY <1>5
    <2>2. Wrap(Wrap(q) + b.imm) = Wrap(q + b.imm)
      <3> HIDE DEF q
      <3> QED BY <1>2, <2>1, WrapSum
    <2> QED BY <1>9, <2>2
  <1>11. Src!Effect(Src!At(h, x, mem), a) = Src!At(h + 1, y, mem)
    BY <1>3, EffectIs
  <1>12. Src!Effect(Src!At(h + 1, y, mem), b) = Src!At(h + 2, PutReg(y, w.rd, v), mem)
    <2> HIDE DEF y
    <2>1. Src!Effect(Src!At(i, y, mem), b) = Src!At(i + 1, PutReg(y, b.rd, LoadWord(mem, t)), mem)
      <3> HIDE DEF i
      <3> QED BY <1>3, EffectIs
    <2>2. i + 1 = h + 2
      BY <1>2
    <2>3. LoadWord(mem, t) = v /\ b.rd = w.rd
      BY <1>3, <1>4, <1>10
    <2> HIDE DEF v, t
    <2> QED BY <2>1, <2>2, <2>3
  <1> HIDE DEF v, y
  <1> QED BY <1>1, <1>3, <1>4, <1>7, <1>8, <1>9, <1>11, <1>12, PairWrites DEF a, b, u

\* SHADD is its slli and its add.
LEMMA ShaddRefines ==
  ASSUME Ready, NEW h, Here(h), Alu, w.op = "SHADD"
  PROVE Src!Next /\ Words'
  <1> DEFINE a == Decode(code, h)
             b == Decode(code, h + 1)
             u == UnitOf(h)
             i == h + 1
             other == IF b.rs1 = a.rd THEN b.rs2 ELSE b.rs1
  <1>2. /\ h \in Nat
        /\ a.rd \in Regs /\ a.rs1 \in Regs /\ b.rs1 \in Regs /\ b.rs2 \in Regs
        /\ a.op = "slli" => a.imm \in Nat
        /\ a.op = "add" \/ a.op = "slli" => a.rd # 0
        /\ w.op = u.op /\ w.rd = u.rd /\ w.rs1 = u.rs1 /\ w.rs2 = u.rs2 /\ w.imm = u.imm
        /\ u.op = "SHADD" => u = FuseShadd(a, b)
    BY PairIs
  <1> DEFINE so == x[other]
             si == x[a.rs1]
             sh == 2^a.imm
             pr == si * sh
             y == PutReg(x, a.rd, Wrap(pr))
             v == Wrap(so + pr)
             t == Wrap(y[b.rs1] + y[b.rs2])
  <1> HIDE DEF a, b, u
  <1>3. /\ a.op = "slli" /\ b.op = "add" /\ b.rd = a.rd /\ a.rd \in {b.rs1, b.rs2} /\ other # a.rd
        /\ u = Unit("SHADD", a.rd, other, a.rs1, a.imm, 0, 2)
    <2>1. u = FuseShadd(a, b) /\ u.op # "none"
      BY <1>2
    <2>2. NoUnit.op = "none"
      BY NoUnitFits
    <2> QED BY <2>1, <2>2 DEF FuseShadd
  <1>4. w.rd = a.rd /\ w.rs1 = other /\ w.rs2 = a.rs1 /\ w.imm = a.imm /\ u.width = 2 /\ a.rd # 0
    <2> HIDE DEF other
    <2> QED BY <1>2, <1>3, UnitFields
  <1>5. so \in Nat /\ si \in Nat /\ other \in Regs
    <2>1. so \in Word /\ si \in Word /\ other \in Regs
      BY <1>2 DEF Ready, Words
    <2> QED BY <2>1, WrapFacts
  <1>6. pr \in Int /\ v \in Word /\ Wrap(pr) \in Int
    <2>1. sh \in Int
      <3>1. a.imm \in Nat
        BY <1>2, <1>3
      <3> QED BY <3>1
    <2> HIDE DEF so, si, sh
    <2>2. pr \in Int
      BY <1>5, <2>1
    <2> HIDE DEF pr
    <2>3. so + pr \in Int
      BY <1>5, <2>2
    <2> QED BY <2>2, <2>3, WrapFacts, WordFacts
  <1>8. SetX(w.rd, v) /\ GoOn(1, 2) /\ UNCHANGED <<code, ext, tc, mem, max>>
    <2>1. GoOn(1, 2) /\ UNCHANGED <<code, ext, tc, mem, max>>
      BY DEF Alu
    <2>2. SetX(w.rd, Wrap(Base + x[w.rs2] * 2^w.imm))
      BY DEF Alu
    <2> QED BY <1>4, <2>1, <2>2 DEF Base
  <1>9. y[a.rd] = Wrap(pr) /\ y[other] = so /\ PutReg(y, a.rd, v) = PutReg(x, a.rd, v)
    <2> DEFINE wp == Wrap(pr)
    <2> HIDE DEF wp, v, other
    <2> QED BY <1>2, <1>3, <1>4, <1>5, PutTwice DEF Ready
  <1>10. t = v
    <2>1. Wrap(so + Wrap(pr)) = v
      <3> HIDE DEF so, pr
      <3> QED BY <1>5, <1>6, WrapSum
    <2>2. CASE b.rs1 = a.rd
      <3>1. t = Wrap(Wrap(pr) + so)
        BY <1>9, <2>2
      <3>2. Wrap(pr) + so = so + Wrap(pr)
        <4> DEFINE wp == Wrap(pr)
        <4> HIDE DEF wp, so
        <4> QED BY <1>5, <1>6 DEF wp
      <3> QED BY <2>1, <3>1, <3>2
    <2>3. CASE b.rs1 # a.rd
      <3>1. b.rs2 = a.rd /\ other = b.rs1
        BY <1>3, <2>3
      <3> QED BY <1>9, <2>1, <3>1
    <2> QED BY <2>2, <2>3
  <1>11. Src!Effect(Src!At(h, x, mem), a) = Src!At(h + 1, y, mem)
    BY <1>3, EffectIs
  <1>12. Src!Effect(Src!At(h + 1, y, mem), b) = Src!At(h + 2, PutReg(y, w.rd, v), mem)
    <2> HIDE DEF y
    <2>1. Src!Effect(Src!At(i, y, mem), b) = Src!At(i + 1, PutReg(y, b.rd, t), mem)
      <3> HIDE DEF i
      <3> QED BY <1>3, EffectIs
    <2>2. i + 1 = h + 2
      BY <1>2
    <2>3. t = v /\ b.rd = w.rd
      BY <1>3, <1>4, <1>10
    <2> HIDE DEF v, t
    <2> QED BY <2>1, <2>2, <2>3
  <1> HIDE DEF v, y
  <1> QED BY <1>3, <1>4, <1>6, <1>8, <1>9, <1>11, <1>12, PairWrites DEF a, b, u

\* A double load: its two instructions and the word behind them.
LEMMA LwlwIs ==
  ASSUME Ready, NEW h, Here(h), w.op \in {"LWLW", "VCALL"}
  PROVE LET a == Decode(code, h)
            b == Decode(code, h + 1)
            c == Decode(code, h + 2)
            u == UnitOf(h)
            y == PutReg(x, a.rd, LoadWord(mem, Wrap(x[a.rs1] + a.imm)))
        IN /\ h \in Nat /\ w.rd = a.rd /\ a.rd # 0 /\ a.rd \in Regs /\ OpWords(u.op) = 1
           /\ a.op = "lw" /\ b.op = "lw" /\ b.rd = a.rd /\ Indirected \in Word
           /\ w.op = "LWLW" => u.width = 2
           /\ w.op = "VCALL" => u.width = 3 /\ c.op = "jalr" /\ c.rd = RaReg /\ c.rs1 = a.rd /\ c.imm = 0
           /\ Src!Effect(Src!At(h, x, mem), a) = Src!At(h + 1, y, mem)
           /\ Src!Effect(Src!At(h + 1, y, mem), b) = Src!At(h + 2, PutReg(y, a.rd, Indirected), mem)
           /\ PutReg(y, a.rd, Indirected) = PutReg(x, a.rd, Indirected)
  <1> DEFINE a == Decode(code, h)
             b == Decode(code, h + 1)
             c == Decode(code, h + 2)
             u == UnitOf(h)
             i == h + 1
             o == <<Field(a.imm, PairRange), Field(b.imm, PairRange)>>
             l == LoadWord(mem, Wrap(x[a.rs1] + a.imm))
             y == PutReg(x, a.rd, l)
             v == Indirected
  <1>1. /\ h \in Nat /\ a.rd \in Regs /\ a.rs1 \in Regs /\ a.imm \in Int /\ b.imm \in Int
        /\ w.op = u.op /\ w.rd = u.rd /\ w.rs1 = u.rs1 /\ w.imm = u.imm /\ OpWords(u.op) = 1
        /\ u.op \in {"LWLW", "VCALL"} => u = FuseLwlw(code, Targets, h, a, b)
    BY PairIs
  <1> HIDE DEF a, b, c, u
  <1>2. /\ a.op = "lw" /\ a.rd # 0 /\ b.op = "lw" /\ b.rd = a.rd /\ b.rs1 = a.rd
        /\ InField(a.imm, PairRange) /\ InField(b.imm, PairRange)
        /\ \/ u = Unit("LWLW", a.rd, a.rs1, 0, o, 0, 2)
           \/ /\ u = Unit("VCALL", a.rd, a.rs1, 0, o, 0, 3)
              /\ c.op = "jalr" /\ c.rd = RaReg /\ c.rs1 = a.rd /\ c.imm = 0
    <2>1. u = FuseLwlw(code, Targets, h, a, b) /\ u.op # "none"
      BY <1>1
    <2>2. NoUnit.op = "none"
      BY NoUnitFits
    <2> HIDE DEF o
    <2> QED BY <2>1, <2>2 DEF FuseLwlw, o, c
  <1>3. w.rd = a.rd /\ w.rs1 = a.rs1 /\ w.imm = o
    <2> HIDE DEF o
    <2> QED BY <1>1, <1>2, UnitFields
  <1>4. /\ w.op = "LWLW" => u.width = 2
        /\ w.op = "VCALL" => u.width = 3 /\ c.op = "jalr" /\ c.rd = RaReg /\ c.rs1 = a.rd /\ c.imm = 0
    <2> HIDE DEF o
    <2>1. CASE u = Unit("LWLW", a.rd, a.rs1, 0, o, 0, 2)
      <3>1. u.op = "LWLW" /\ u.width = 2
        BY <2>1, UnitFields
      <3> QED BY <1>1, <3>1
    <2>2. CASE /\ u = Unit("VCALL", a.rd, a.rs1, 0, o, 0, 3)
               /\ c.op = "jalr" /\ c.rd = RaReg /\ c.rs1 = a.rd /\ c.imm = 0
      <3>1. u.op = "VCALL" /\ u.width = 3
        BY <2>2, UnitFields
      <3> QED BY <1>1, <2>2, <3>1
    <2> QED BY <1>2, <2>1, <2>2
  <1>5. w.imm[1] = a.imm /\ w.imm[2] = b.imm
    <2>1. Field(a.imm, PairRange) = a.imm /\ Field(b.imm, PairRange) = b.imm
      BY <1>1, <1>2, FieldIs, MachineAssumption
    <2> QED BY <1>3, <2>1
  <1>6. v = LoadWord(mem, Wrap(l + b.imm))
    BY <1>3, <1>5 DEF Indirected, Base
  <1>7. l \in Word /\ l \in Int
    <2> DEFINE r == Wrap(x[a.rs1] + a.imm)
    <2>1. r \in Int
      BY <1>1, OperandsAre DEF Ready
    <2> HIDE DEF r
    <2>2. LoadWord(mem, r) \in Word
      BY <2>1, LoadsAreWords DEF Ready, Words
    <2>3. l \in Word
      BY <2>2 DEF r
    <2> QED BY <2>3, WrapFacts
  <1> HIDE DEF l
  <1>8. v \in Word
    <2> DEFINE r == Wrap(l + b.imm)
    <2>1. l + b.imm \in Int
      BY <1>1, <1>7
    <2>2. r \in Int
      BY <2>1, WordFacts
    <2> HIDE DEF r
    <2>3. LoadWord(mem, r) \in Word
      BY <2>2, LoadsAreWords DEF Ready, Words
    <2> QED BY <1>6, <2>3 DEF r
  <1> HIDE DEF v
  <1>9. y[b.rs1] = l /\ PutReg(y, a.rd, v) = PutReg(x, a.rd, v)
    BY <1>1, <1>2, PutTwice DEF Ready
  <1>10. Src!Effect(Src!At(h, x, mem), a) = Src!At(h + 1, y, mem)
    BY <1>2, EffectIs DEF l
  <1>11. Src!Effect(Src!At(h + 1, y, mem), b) = Src!At(h + 2, PutReg(y, a.rd, v), mem)
    <2> HIDE DEF y
    <2>1. Src!Effect(Src!At(i, y, mem), b) = Src!At(i + 1, PutReg(y, b.rd, LoadWord(mem, Wrap(y[b.rs1] + b.imm))), mem)
      <3> HIDE DEF i
      <3> QED BY <1>2, EffectIs
    <2>2. i + 1 = h + 2
      BY <1>1
    <2>3. LoadWord(mem, Wrap(y[b.rs1] + b.imm)) = v /\ b.rd = a.rd
      BY <1>2, <1>6, <1>9
    <2> QED BY <2>1, <2>2, <2>3
  <1> QED BY <1>1, <1>2, <1>3, <1>4, <1>8, <1>9, <1>10, <1>11 DEF a, b, c, u, v, l

\* LWLW is its two loads.
LEMMA LwlwRefines ==
  ASSUME Ready, NEW h, Here(h), Lwlw
  PROVE Src!Next /\ Words'
  <1> DEFINE a == Decode(code, h)
             b == Decode(code, h + 1)
             y == PutReg(x, a.rd, LoadWord(mem, Wrap(x[a.rs1] + a.imm)))
             v == Indirected
  <1>1. w.op = "LWLW"
    BY DEF Lwlw, Op
  <1>2. /\ w.rd = a.rd /\ a.rd # 0 /\ a.op = "lw" /\ b.op = "lw" /\ v \in Word /\ UnitOf(h).width = 2
        /\ Src!Effect(Src!At(h, x, mem), a) = Src!At(h + 1, y, mem)
        /\ Src!Effect(Src!At(h + 1, y, mem), b) = Src!At(h + 2, PutReg(y, a.rd, v), mem)
        /\ PutReg(y, a.rd, v) = PutReg(x, a.rd, v)
    BY <1>1, LwlwIs
  <1>3. SetX(w.rd, v) /\ GoOn(1, 2) /\ UNCHANGED <<code, ext, tc, mem, max>>
    BY DEF Lwlw
  <1> HIDE DEF y, v
  <1>4. /\ a.op \in {"slli", "add", "lw"} /\ b.op \in {"add", "lw"} /\ w.rd # 0
        /\ Src!Effect(Src!At(h + 1, y, mem), b) = Src!At(h + 2, PutReg(y, w.rd, v), mem)
        /\ PutReg(y, w.rd, v) = PutReg(x, w.rd, v)
    BY <1>2
  <1> QED BY <1>1, <1>2, <1>3, <1>4, PairWrites

\* LWSW is its load and its store, through the loaded register too.
LEMMA LwswRefines ==
  ASSUME Ready, NEW h, Here(h), Lwsw
  PROVE Src!Next /\ Words'
  <1> DEFINE a == Decode(code, h)
             b == Decode(code, h + 1)
             u == UnitOf(h)
             i == h + 1
             o == <<a.imm, b.imm>>
             r == Wrap(x[a.rs1] + a.imm)
             v == LoadWord(mem, r)
             y == PutReg(x, a.rd, v)
             d == Wrap(y[b.rs1] + b.imm)
             z == StoreWord(mem, d, v)
  <1>1. w.op = "LWSW"
    BY DEF Lwsw, Op
  <1>2. /\ h \in Nat /\ a.rd \in Regs /\ a.rs1 \in Regs /\ a.imm \in Int /\ b.imm \in Int /\ b.rs1 \in Regs
        /\ w.op = u.op /\ w.rd = u.rd /\ w.rs1 = u.rs1 /\ w.rs2 = u.rs2 /\ w.imm = u.imm /\ OpWords(u.op) = 1
        /\ u.op = "LWSW" => u = FuseLwsw(a, b)
        /\ Src!Instruction(h) = a
        /\ a.op \in {"slli", "add", "lw"} => Src!Charge(h, 2) = 2
    BY <1>1, PairIs
  <1> HIDE DEF a, b, u
  <1>3. /\ a.op = "lw" /\ a.rd # 0 /\ b.op = "sw" /\ b.rs2 = a.rd
        /\ u = Unit("LWSW", a.rd, a.rs1, b.rs1, o, 0, 2)
    <2>1. u = FuseLwsw(a, b) /\ u.op # "none"
      BY <1>1, <1>2
    <2>2. NoUnit.op = "none"
      BY NoUnitFits
    <2> HIDE DEF o
    <2> QED BY <2>1, <2>2 DEF FuseLwsw, o
  <1>4. w.rd = a.rd /\ w.rs1 = a.rs1 /\ w.rs2 = b.rs1 /\ w.imm = o /\ u.width = 2
    <2> HIDE DEF o
    <2> QED BY <1>2, <1>3, UnitFields
  <1>5. w.imm[1] = a.imm /\ w.imm[2] = b.imm
    BY <1>4
  <1>6. v \in Word /\ v \in Nat
    <2>1. r \in Int
      BY <1>2, OperandsAre DEF Ready
    <2> HIDE DEF r
    <2>2. v \in Word
      BY <2>1, LoadsAreWords DEF Ready, Words
    <2> QED BY <2>2, WrapFacts
  <1>7. /\ SetX(w.rd, v) /\ mem' = StoreWord(mem, Wrap(x'[w.rs2] + w.imm[2]), v)
        /\ GoOn(1, 2) /\ UNCHANGED <<code, ext, tc, max>>
    BY <1>4, <1>5 DEF Lwsw, Base
  <1>8. x' = y
    <2>1. x' = [x EXCEPT ![w.rd] = v]
      BY <1>7 DEF SetX
    <2> HIDE DEF v
    <2> QED BY <1>3, <1>4, <2>1 DEF PutReg
  <1>9. mem' = z
    <2> HIDE DEF y, v
    <2> QED BY <1>4, <1>5, <1>7, <1>8
  <1> HIDE DEF v, r
  <1>10. y \in [Regs -> Word] /\ y[a.rd] = v
    <2>1. y \in [Regs -> Word]
      BY <1>6, LinkKeepsWords DEF Ready
    <2> QED BY <1>2, <1>3, <2>1, PutTwice DEF Ready
  <1>11. d \in Int
    <2>1. y[b.rs1] \in Word
      BY <1>2, <1>10
    <2>2. y[b.rs1] \in Nat
      BY <2>1, WrapFacts
    <2>3. y[b.rs1] + b.imm \in Int
      BY <1>2, <2>2
    <2> QED BY <2>3, WordFacts
  <1>12. Words'
    <2>1. z \in Memory
      <3> HIDE DEF d
      <3> QED BY <1>6, <1>11, StoreIsMemory DEF Ready, Words
    <2>2. y[0] = 0
      BY <1>6, LinkKeepsWords DEF Ready
    <2> QED BY <1>8, <1>9, <1>10, <2>1, <2>2 DEF Words
  <1>13. Src!Effect(Src!At(h, x, mem), Src!Instruction(h)) = Src!At(h + 1, y, mem)
    <2>1. Src!Effect(Src!At(h, x, mem), a) = Src!At(h + 1, y, mem)
      BY <1>3, EffectIs DEF v, r
    <2> QED BY <1>2, <2>1
  <1>14. Src!Effect(Src!At(h + 1, y, mem), b) = Src!At(h + 2, x', mem')
    <2>1. z = StoreWord(mem, Wrap(y[b.rs1] + b.imm), y[b.rs2])
      BY <1>3, <1>10
    <2> HIDE DEF y, z
    <2>2. Src!Effect(Src!At(i, y, mem), b) = Src!At(i + 1, y, StoreWord(mem, Wrap(y[b.rs1] + b.imm), y[b.rs2]))
      <3> HIDE DEF i
      <3> QED BY <1>3, EffectIs
    <2>3. i + 1 = h + 2
      BY <1>2
    <2>4. Src!Effect(Src!At(h + 1, y, mem), b) = Src!At(h + 2, y, z)
      BY <2>1, <2>2, <2>3
    <2>5. Src!At(h + 2, y, z) = Src!At(h + 2, x', mem')
      BY <1>8, <1>9 DEF Src!At
    <2> QED BY <2>4, <2>5
  <1> DEFINE cost == 2
  <1>15. cost \in Nat /\ GoOn(1, cost) /\ cost = Src!Charge(h, 2)
    BY <1>2, <1>3, <1>7
  <1>16. /\ Decode(code, h).op \notin Traps \cup {"nop"}
         /\ Decode(code, h + 1).op \notin Traps \cup {"nop"}
    BY <1>3 DEF Traps, a, b
  <1>17. UNCHANGED <<code, ext, tc, max>> /\ UnitOf(h).width = 2 /\ OpWords(UnitOf(h).op) = 1
    BY <1>2, <1>4, <1>7 DEF u
  <1>18. Src!Effect(Src!At(h + 1, y, mem), Decode(code, h + 1)) = Src!At(h + 2, x', mem')
    BY <1>14 DEF b
  <1> HIDE DEF cost, y, z
  <1>19. Src!Next
    BY <1>13, <1>15, <1>16, <1>17, <1>18, StraightTwo
  <1> QED BY <1>12, <1>19

\* The address behind the op at the cursor is a word.
LEMMA LinkIs ==
  ASSUME Ready, NEW h, Here(h), OpWords(UnitOf(h).op) = 1
  PROVE Src!AddressOf(h + UnitOf(h).width) = 4 * p + 4 /\ 4 * p + 4 \in Word
  <1>1. Layout /\ h \in DOMAIN tc.map /\ tc.map[h] = p /\ p < n_ops /\ p \in Nat /\ 4 * n_ops < AddrMod
    BY DEF Ready, Running, Here, AtOp
  <1>2. Src!AddressOf(h + UnitOf(h).width) = 4 * (p + 1) /\ n_ops \in Nat
    BY <1>1, AddressFacts
  <1>3. 4 * (p + 1) = 4 * p + 4 /\ 4 * p + 4 \in 0 .. (AddrMod - 1)
    BY <1>1, <1>2, WordFacts
  <1> QED BY <1>2, <1>3 DEF Word

\* VCALL is its two loads and its jalr, but for bit 0 of the register.
LEMMA VcallRefines ==
  ASSUME Ready, NEW h, Here(h), Vcall, EvenCalls
  PROVE Src!Next /\ Words'
  <1> DEFINE a == Decode(code, h)
             b == Decode(code, h + 1)
             c == Decode(code, h + 2)
             y == PutReg(x, a.rd, LoadWord(mem, Wrap(x[a.rs1] + a.imm)))
             v == Indirected
             y2 == PutReg(x, a.rd, v)
             l == 4 * p + 4
             y3 == PutReg(y2, RaReg, l)
             i == h + 2
             s == Src!At(h, x, mem)
             out == -1
  <1>1. Op({"VCALL"}) /\ w.op = "VCALL"
    BY DEF Vcall, Op
  <1>2. /\ h \in Nat /\ w.rd = a.rd /\ a.rd # 0 /\ a.rd \in Regs /\ a.op = "lw" /\ b.op = "lw" /\ v \in Word
        /\ UnitOf(h).width = 3 /\ OpWords(UnitOf(h).op) = 1
        /\ c.op = "jalr" /\ c.rd = RaReg /\ c.rs1 = a.rd /\ c.imm = 0
        /\ Src!Effect(s, a) = Src!At(h + 1, y, mem)
        /\ Src!Effect(Src!At(h + 1, y, mem), b) = Src!At(h + 2, PutReg(y, a.rd, v), mem)
        /\ PutReg(y, a.rd, v) = y2
    BY <1>1, LwlwIs
  <1>3. v % 2 = 0
    BY <1>1 DEF EvenCalls
  <1> HIDE DEF y, v
  <1>4. v \in Nat /\ Wrap(v) = v /\ Even(v) = v /\ v + 0 = v
    BY <1>2, <1>3, WrapFacts DEF Even
  <1>5. /\ x' = [x EXCEPT ![w.rd] = v, ![RaReg] = l] /\ Indirect(v, 3)
        /\ UNCHANGED <<code, ext, tc, mem, max>>
    <2> DEFINE t == Even(Indirected)
    <2>1. x' = [x EXCEPT ![w.rd] = t, ![RaReg] = l] /\ Indirect(t, 3)
      BY DEF Vcall
    <2>2. t = v
      BY <1>4 DEF v
    <2> HIDE DEF t
    <2> QED BY <2>1, <2>2 DEF Vcall
  <1>6. RaReg # 0 /\ RaReg \in Regs
    BY MachineAssumption DEF RaReg, Regs
  <1>7. x' = y3
    <2>1. [x EXCEPT ![w.rd] = v, ![RaReg] = l] = [[x EXCEPT ![w.rd] = v] EXCEPT ![RaReg] = l]
      OBVIOUS
    <2>2. y2 = [x EXCEPT ![w.rd] = v]
      BY <1>2 DEF PutReg
    <2> HIDE DEF y2, l
    <2>3. y3 = [y2 EXCEPT ![RaReg] = l]
      BY <1>6 DEF PutReg
    <2> QED BY <1>5, <2>1, <2>2, <2>3
  <1>8. Src!AddressOf(h + 3) = l /\ l \in Word
    <2>1. OpWords(UnitOf(h).op) = 1
      BY <1>2
    <2>2. Src!AddressOf(h + UnitOf(h).width) = l /\ l \in Word
      BY <2>1, LinkIs
    <2> QED BY <1>2, <2>2
  <1>9. y2[a.rd] = v /\ y2 \in [Regs -> Word] /\ y2[0] = 0
    <2>1. y2[a.rd] = v
      BY <1>2, PutTwice DEF Ready
    <2>2. y2 \in [Regs -> Word] /\ y2[0] = 0
      BY <1>2, LinkKeepsWords DEF Ready
    <2> QED BY <2>1, <2>2
  <1> HIDE DEF l, y2
  <1>10. y3 \in [Regs -> Word] /\ y3[0] = 0
    <2>1. y3 = [y2 EXCEPT ![RaReg] = l]
      BY <1>6 DEF PutReg
    <2>2. y3 \in [Regs -> Word]
      BY <1>8, <1>9, <2>1
    <2>3. y3[0] = y2[0]
      <3>1. 0 # RaReg /\ 0 \in Regs
        BY <1>6 DEF Ready, RegistersFit, Regs
      <3> QED BY <1>9, <2>1, <3>1
    <2> QED BY <1>9, <2>2, <2>3
  <1> HIDE DEF y3
  <1>11. Words'
    BY <1>5, <1>7, <1>10 DEF Words, Ready
  <1>12. Src!Effect(Src!At(i, y2, mem), c) = Src!Jump(out, v, y3, mem)
    <2>1. Src!Effect(Src!At(i, y2, mem), c) = Src!Jump(-1, Even(Wrap(y2[c.rs1] + c.imm)), PutReg(y2, c.rd, Src!AddressOf(i + 1)), mem)
      <3>1. c.op = "jalr"
        BY <1>2
      <3> HIDE DEF i, c
      <3> QED BY <3>1, EffectIs
    <2>2. i + 1 = h + 3
      BY <1>2
    <2>3. Even(Wrap(y2[c.rs1] + c.imm)) = v
      BY <1>2, <1>4, <1>9
    <2>4. PutReg(y2, c.rd, Src!AddressOf(i + 1)) = y3
      BY <1>2, <1>8, <2>2 DEF y3
    <2> QED BY <2>1, <2>3, <2>4
  <1>13. /\ a.op \notin Traps \cup {"nop"} /\ b.op \notin Traps \cup {"nop"} /\ c.op \notin Traps \cup {"nop"}
    BY <1>2 DEF Traps
  <1>14. Src!Instruction(h) = a /\ Src!Charge(h, 3) = 3
    BY <1>1, <1>2, PairIs
  <1>15. /\ Src!OneMore(s) = <<Src!At(h + 1, y, mem)>>
         /\ Src!OneMore(Src!At(h + 1, y, mem)) = <<Src!At(i, y2, mem)>>
    <2>1. UnitOf(h).width \in {2, 3}
      BY <1>2
    <2>2. Src!Effect(s, Src!Instruction(h)) = Src!At(h + 1, y, mem)
      BY <1>2, <1>14
    <2>3. /\ Src!OneMore(s) = <<Src!At(h + 1, y, mem)>>
          /\ Src!OneMore(Src!At(h + 1, y, mem)) = <<Src!Effect(Src!At(h + 1, y, mem), b)>>
      BY <1>13, <2>1, <2>2, TwoRun
    <2> QED BY <1>2, <2>3
  <1>16. Src!OneMore(Src!At(i, y2, mem)) = <<Src!Jump(out, v, y3, mem)>>
    <2>1. i \in (h + 1) .. (h + UnitOf(h).width - 1)
      BY <1>2
    <2>2. i \in DOMAIN code /\ Src!Instruction(i) = c
      BY <2>1, InnerIs
    <2>3. Layout
      BY DEF Ready, Running
    <2>4. c = Decode(code, i)
      OBVIOUS
    <2> HIDE DEF i, c
    <2>5. Src!OneMore(Src!At(i, y2, mem)) = <<Src!Effect(Src!At(i, y2, mem), c)>>
      BY <1>13, <2>2, <2>3, <2>4, OneStep
    <2> QED BY <1>12, <2>5
  <1> DEFINE cost == 3
  <1>17. Src!Runs(s, cost) = <<Src!Jump(out, v, y3, mem)>>
    <2> HIDE DEF s, i
    <2> QED BY <1>15, <1>16, RunsThree
  <1>18. <<Src!Jump(out, v, y3, mem)>> = <<Src!Jump(-1, v, x', mem')>>
    BY <1>5, <1>7 DEF Src!Jump
  <1>19. cost \in 1 .. MaxUnit /\ cost \in Nat /\ cost = Src!Charge(h, cost) /\ Indirect(v, cost)
    BY <1>5, <1>14, WidthsFit DEF Ready
  <1> HIDE DEF cost, out
  <1>20. Src!Runs(Src!At(h, x, mem), cost) = <<Src!Jump(-1, v, x', mem')>>
    BY <1>17, <1>18
  <1>21. Running /\ UNCHANGED <<code, ext, tc, max>>
    BY <1>5 DEF Ready
  <1>22. Src!Next
    BY <1>4, <1>19, <1>20, <1>21, IndirectAdvances
  <1> QED BY <1>11, <1>22

\* Jal links op space and counts one.
LEMMA JalRefines ==
  ASSUME Ready, NEW h, Here(h), Jal
  PROVE Src!Next /\ Words'
  <1> DEFINE c == Src!Instruction(h)
             l == 4 * p + 4
             y == PutReg(x, w.rd, l)
             to == c.target
             o == 1
             z == 0
  <1>1. w.op = "jal"
    BY DEF Jal, Op
  <1>2. w.op \in InsnOps \ Traps /\ w.op \in InsnOps /\ w.op \in Branches \cup {"jal"}
    BY <1>1 DEF InsnOps, Traps
  <1>3. /\ UnitOf(h).width = 1 /\ OpWords(UnitOf(h).op) = 1 /\ Src!Charge(h, 1) = 1
        /\ c.op = w.op /\ c.rd = w.rd /\ to \in DOMAIN tc.map /\ w.target = tc.map[to]
    BY <1>2, PlainIs
  <1>4. Src!AddressOf(h + 1) = l /\ l \in Word
    <2>1. Src!AddressOf(h + UnitOf(h).width) = l /\ l \in Word
      BY <1>3, LinkIs
    <2> QED BY <1>3, <2>1
  <1>5. x' = y /\ Reloc(w.target, 1) /\ UNCHANGED <<code, ext, tc, mem, max>>
    <2>1. x' = Link(w.rd)
      BY DEF Jal
    <2> QED BY <2>1 DEF Jal, Link, PutReg
  <1> HIDE DEF l
  <1>6. Words'
    <2>1. y \in [Regs -> Word] /\ y[0] = 0
      BY <1>4, LinkKeepsWords DEF Ready
    <2> QED BY <1>5, <2>1 DEF Words, Ready
  <1>7. Src!Effect(Src!At(h, x, mem), c) = Src!Jump(to, 0, y, mem)
    <2>1. c.op = "jal"
      BY <1>1, <1>3
    <2> HIDE DEF c
    <2> QED BY <1>3, <1>4, <2>1, EffectIs DEF c
  <1>8. Src!Jump(to, 0, y, mem) = Src!Jump(to, 0, x', mem')
    <2> HIDE DEF y, to
    <2> QED BY <1>5 DEF Src!Jump
  <1>9. Src!Runs(Src!At(h, x, mem), o) = <<Src!Jump(to, z, x', mem')>>
    BY <1>2, <1>7, <1>8, OneRuns
  <1>10. o \in 1 .. MaxUnit /\ o \in Nat /\ o = Src!Charge(h, o) /\ Reloc(tc.map[to], o)
    BY <1>3, <1>5, WidthsFit DEF Ready
  <1>11. Running /\ UNCHANGED <<code, ext, tc, max>> /\ to \in DOMAIN tc.map
    BY <1>3, <1>5 DEF Ready
  <1> HIDE DEF o, z, to
  <1>12. Src!Next
    BY <1>9, <1>10, <1>11, RelocAdvances
  <1> QED BY <1>6, <1>12

\* Jalr may leave the code.
LEMMA JalrRefines ==
  ASSUME Ready, NEW h, Here(h), Jalr
  PROVE Src!Next /\ Words'
  <1> DEFINE c == Src!Instruction(h)
             l == 4 * p + 4
             y == PutReg(x, w.rd, l)
             a == Wrap(x[w.rs1] + w.imm)
             t == Even(a)
             o == 1
  <1>1. w.op = "jalr"
    BY DEF Jalr, Op
  <1>2. w.op \in InsnOps \ Traps /\ w.op \in InsnOps /\ w.op \in Simple /\ w.op # "auipc"
    BY <1>1 DEF InsnOps, Traps, Simple
  <1>3. /\ UnitOf(h).width = 1 /\ OpWords(UnitOf(h).op) = 1 /\ Src!Charge(h, 1) = 1
        /\ c.op = w.op /\ c.rd = w.rd /\ c.rs1 = w.rs1 /\ c.imm = w.imm
    BY <1>2, PlainIs
  <1>4. Src!AddressOf(h + 1) = l /\ l \in Word
    <2>1. Src!AddressOf(h + UnitOf(h).width) = l /\ l \in Word
      BY <1>3, LinkIs
    <2> QED BY <1>3, <2>1
  <1>5. x' = y /\ Indirect(t, 1) /\ UNCHANGED <<code, ext, tc, mem, max>>
    <2>1. x' = Link(w.rd)
      BY DEF Jalr
    <2> QED BY <2>1 DEF Jalr, Link, PutReg, Base
  <1> HIDE DEF l
  <1>6. Words'
    <2>1. y \in [Regs -> Word] /\ y[0] = 0
      BY <1>4, LinkKeepsWords DEF Ready
    <2> QED BY <1>5, <2>1 DEF Words, Ready
  <1>7. t \in Nat
    <2>1. a \in Nat
      BY <1>2, SimpleFacts DEF Ready, Inv, Running, Base
    <2> QED BY <2>1, EvenIsNat
  <1>8. Src!Effect(Src!At(h, x, mem), c) = Src!Jump(-1, t, y, mem)
    <2>1. c.op = "jalr" /\ a = Wrap(x[c.rs1] + c.imm)
      BY <1>1, <1>3
    <2>2. Src!Effect(Src!At(h, x, mem), c) = Src!Jump(-1, Even(Wrap(x[c.rs1] + c.imm)), PutReg(x, c.rd, Src!AddressOf(h + 1)), mem)
      <3> HIDE DEF c
      <3> QED BY <2>1, EffectIs
    <2> HIDE DEF c, a
    <2> QED BY <1>3, <1>4, <2>1, <2>2
  <1> HIDE DEF t
  <1>9. Src!Jump(-1, t, y, mem) = Src!Jump(-1, t, x', mem')
    <2> HIDE DEF y
    <2> QED BY <1>5 DEF Src!Jump
  <1>10. Src!Runs(Src!At(h, x, mem), o) = <<Src!Jump(-1, t, x', mem')>>
    BY <1>2, <1>8, <1>9, OneRuns
  <1>11. o \in 1 .. MaxUnit /\ o \in Nat /\ o = Src!Charge(h, o) /\ Indirect(t, o)
    BY <1>3, <1>5, WidthsFit DEF Ready
  <1>12. Running /\ UNCHANGED <<code, ext, tc, max>>
    BY <1>5 DEF Ready
  <1> HIDE DEF o
  <1>13. Src!Next
    BY <1>7, <1>10, <1>11, <1>12, IndirectAdvances
  <1> QED BY <1>6, <1>13

\* Branch takes the branch it stands for when it would be taken.
LEMMA BranchRefines ==
  ASSUME Ready, NEW h, Here(h), Branch
  PROVE Src!Next /\ Words'
  <1> DEFINE c == Src!Instruction(h)
             s == Src!At(h, x, mem)
             to == c.target
             v1 == x[w.rs1]
             v2 == x[w.rs2]
             take == (w.op = "beq") = (v1 = v2)
             o == 1
             z == 0
  <1>1. w.op \in {"beq", "bne"}
    BY DEF Branch, Op, Branches
  <1>2. w.op \in InsnOps \ Traps /\ w.op \in InsnOps /\ w.op \in Branches \cup {"jal"}
    BY <1>1 DEF InsnOps, Traps, Branches
  <1>3. /\ UnitOf(h).width = 1 /\ OpWords(UnitOf(h).op) = 1 /\ Src!Charge(h, 1) = 1
        /\ c.op = w.op /\ c.rs1 = w.rs1 /\ c.rs2 = w.rs2 /\ to \in DOMAIN tc.map /\ w.target = tc.map[to]
    BY <1>2, PlainIs
  <1>4. /\ IF take THEN Reloc(w.target, 1) ELSE GoOn(1, 1)
        /\ UNCHANGED <<code, ext, tc, x, mem, max>>
    BY DEF Branch, Base
  <1>5. Words'
    BY <1>4 DEF Words, Ready
  <1>6. Src!Effect(s, c) = IF take THEN Src!Jump(to, 0, x, mem) ELSE Src!At(h + 1, x, mem)
    <2>1. /\ c.op = "beq" => Src!Effect(s, c) = IF x[c.rs1] = x[c.rs2] THEN Src!Jump(c.target, 0, x, mem) ELSE Src!At(h + 1, x, mem)
          /\ c.op = "bne" => Src!Effect(s, c) = IF x[c.rs1] # x[c.rs2] THEN Src!Jump(c.target, 0, x, mem) ELSE Src!At(h + 1, x, mem)
      BY EffectIs
    <2> DEFINE j == Src!Jump(to, 0, x, mem)
               n == Src!At(h + 1, x, mem)
               ef == Src!Effect(s, c)
               wop == w.op
    <2>2. /\ wop = "beq" => ef = IF v1 = v2 THEN j ELSE n
          /\ wop = "bne" => ef = IF v1 # v2 THEN j ELSE n
      BY <1>3, <2>1
    <2> HIDE DEF j, n, ef, v1, v2
    <2>3. CASE wop = "beq"
      <3>1. take = (v1 = v2)
        BY <2>3
      <3> QED BY <2>2, <2>3, <3>1 DEF j, n, ef
    <2>4. CASE wop = "bne"
      <3>1. take <=> v1 # v2
        BY <2>4
      <3> QED BY <2>2, <2>4, <3>1 DEF j, n, ef
    <2> QED BY <1>1, <2>3, <2>4
  <1> HIDE DEF take
  <1>7. CASE take
    <2>1. Src!Jump(to, 0, x, mem) = Src!Jump(to, 0, x', mem')
      <3> HIDE DEF to
      <3> QED BY <1>4
    <2>2. Src!Runs(Src!At(h, x, mem), o) = <<Src!Jump(to, z, x', mem')>>
      BY <1>2, <1>6, <1>7, <2>1, OneRuns
    <2>3. o \in 1 .. MaxUnit /\ o \in Nat /\ o = Src!Charge(h, o) /\ Reloc(tc.map[to], o)
      BY <1>3, <1>4, <1>7, WidthsFit DEF Ready
    <2>4. Running /\ UNCHANGED <<code, ext, tc, max>> /\ to \in DOMAIN tc.map
      BY <1>3, <1>4 DEF Ready
    <2> HIDE DEF o, z, to
    <2>5. Src!Next
      BY <2>2, <2>3, <2>4, RelocAdvances
    <2> QED BY <1>5, <2>5
  <1>8. CASE ~take
    <2>1. Src!Effect(s, c) = Src!At(h + 1, x', mem')
      BY <1>4, <1>6, <1>8
    <2>2. GoOn(1, 1) /\ UNCHANGED <<code, ext, tc, max>>
      BY <1>4, <1>8
    <2>3. Src!Next
      BY <1>2, <2>1, <2>2, StraightOne
    <2> QED BY <1>5, <2>3
  <1> QED BY <1>7, <1>8

\* A load and a branch on what it loaded.
LEMMA LoadBzIs ==
  ASSUME Ready, NEW h, Here(h), w.op \in BzOps
  PROVE LET a == Decode(code, h)
            b == Decode(code, h + 1)
            u == UnitOf(h)
            c == Src!Instruction(h)
        IN /\ h \in Nat /\ u.width = 2 /\ OpWords(u.op) = 2 /\ Src!Charge(h, 2) = 2
           /\ c.op = a.op /\ c.rd = w.rd /\ c.rs1 = w.rs1 /\ c.imm = w.imm /\ a.op \in {"lw", "lbu"}
           /\ w.op = (IF a.op = "lw" THEN "LW_BZ" ELSE "LBU_BZ") /\ w.rd # 0 /\ w.rd \in Regs
           /\ w.rs1 \in Regs /\ w.imm \in Int /\ b.op \in Branches
           /\ (b.rs1 = w.rd /\ b.rs2 = 0) \/ (b.rs2 = w.rd /\ b.rs1 = 0)
           /\ w.rs2 = (IF b.op = "beq" THEN 1 ELSE 0)
           /\ b.target \in DOMAIN tc.map /\ w.target = tc.map[b.target]
  <1> DEFINE u == UnitOf(h)
             a == Decode(code, h)
             b == Decode(code, h + 1)
             c == Src!Instruction(h)
             lo == LoPart(Apart(code, tc.map, code[h].rel.to))
             hi == HiPart(Apart(code, tc.map, h))
             li == Unit("LI", u.rd, 0, 0, Wrap(4 * h + u.imm), 0, 1)
             i == h + 1
  <1>1. /\ h \in DOMAIN code /\ h \in Nat /\ Made(code, Targets, h, u) /\ u.op # "none"
        /\ h \in CodeHi(code) => u.op = "auipc"
        /\ IF u.op = "auipc" /\ h \notin CodeHi(code) THEN w = li
           ELSE /\ w.op = u.op /\ w.rd = u.rd /\ w.rs1 = u.rs1 /\ w.rs2 = u.rs2
                /\ u.op \in Jumps => w.target = TargetWord(tc.map, u.target, p)
                /\ w.imm = IF h \in CodeHi(code) THEN hi ELSE IF IsLow(code, h) THEN lo ELSE u.imm
    BY AtHead
  <1>2. li.op = "LI" /\ "LI" \notin BzOps /\ "auipc" \notin BzOps
    BY UnitFields DEF BzOps
  <1>3. Layout /\ IsProgram(code)
    BY DEF Ready, Running, Layout
  <1>4. c = IF IsLow(code, h) THEN [a EXCEPT !.imm = lo] ELSE a
    BY <1>3, InstructionIs
  <1>5. a = Unit(a.op, a.rd, a.rs1, a.rs2, a.imm, a.target, a.width) /\ a.rd \in Regs
    BY <1>1, <1>3, DecodeFacts
  <1>6. Src!Charge(h, 2) = IF a.op = "auipc" THEN 1 ELSE 2
    BY SameOps DEF Src!Charge
  <1> HIDE DEF u, a, c, lo, hi, li
  <1>7. /\ w.op = u.op /\ w.rd = u.rd /\ w.rs1 = u.rs1 /\ w.rs2 = u.rs2
        /\ u.op \in BzOps /\ w.target = TargetWord(tc.map, u.target, p)
        /\ w.imm = IF IsLow(code, h) THEN lo ELSE u.imm
    <2>1. ~(u.op = "auipc" /\ h \notin CodeHi(code))
      BY <1>1, <1>2
    <2>2. w.op = u.op /\ u.op \in BzOps /\ u.op \in Jumps /\ h \notin CodeHi(code)
      BY <1>1, <1>2, <2>1 DEF Jumps
    <2> QED BY <1>1, <2>1, <2>2
  <1>8. Second(code, Targets, h) /\ u = FuseLoadBz(a, b)
    <2>1. u.op \notin InsnOps \cup {"nop", "PROLOGUE", "EPILOGUE", "LI", "SHADD", "LWX", "LWLW", "VCALL", "LWSW", "none"}
      BY <1>7 DEF InsnOps, BzOps
    <2> HIDE DEF b
    <2> QED BY <1>1, <2>1 DEF Made, a, b
  <1> DEFINE nm == IF a.op = "lw" THEN "LW_BZ" ELSE "LBU_BZ"
             cond == IF b.op = "beq" THEN 1 ELSE 0
             or == (b.rs1 = a.rd /\ b.rs2 = 0) \/ (b.rs2 = a.rd /\ b.rs1 = 0)
  <1>9. /\ a.op \in {"lw", "lbu"} /\ a.rd # 0 /\ b.op \in Branches /\ or
        /\ u = Unit(nm, a.rd, a.rs1, cond, a.imm, b.target, 2)
    <2>1. NoUnit.op = "none"
      BY NoUnitFits
    <2> HIDE DEF b
    <2> QED BY <1>1, <1>8, <2>1 DEF FuseLoadBz
  <1> HIDE DEF nm, cond, or
  <1>10. u.op = nm /\ u.rd = a.rd /\ u.rs1 = a.rs1 /\ u.rs2 = cond /\ u.imm = a.imm /\ u.target = b.target /\ u.width = 2
    BY <1>9, UnitFields
  <1>11. c.op = a.op /\ c.rd = a.rd /\ c.rs1 = a.rs1 /\ c.imm = IF IsLow(code, h) THEN lo ELSE a.imm
    <2>1. CASE IsLow(code, h)
      <3>1. c = [Unit(a.op, a.rd, a.rs1, a.rs2, a.imm, a.target, a.width) EXCEPT !.imm = lo]
        BY <1>4, <1>5, <2>1
      <3>2. c = Unit(a.op, a.rd, a.rs1, a.rs2, lo, a.target, a.width)
        BY <3>1 DEF Unit
      <3> QED BY <2>1, <3>2, UnitFields
    <2>2. CASE ~IsLow(code, h)
      BY <1>4, <2>2
    <2> QED BY <2>1, <2>2
  <1>12. c.imm = w.imm /\ c.rd = w.rd /\ c.rs1 = w.rs1
    BY <1>7, <1>10, <1>11
  <1>13. w.rs1 \in Regs /\ w.imm \in Int
    BY CurrentOp DEF Ready, Inv, Running, IsOp
  <1>14. b.target \in DOMAIN tc.map /\ w.target = tc.map[b.target]
    <2>1. b.target = code[i].target
      BY DEF Decode, Unit
    <2>2. b.op \in {code[i].op, "nop"}
      BY DEF Decode, Unit
    <2>3. i \in DOMAIN code
      BY <1>8 DEF Second
    <2> HIDE DEF b
    <2>4. b.op \in {"beq", "bne"}
      BY <1>9 DEF Branches
    <2>5. code[i].op \in Branches \cup {"jal"}
      BY <2>2, <2>4 DEF Branches
    <2>6. TargetsKept
      BY DEF Ready, Inv
    <2>7. b.target \in DOMAIN tc.map
      BY <2>1, <2>3, <2>5, <2>6 DEF TargetsKept
    <2> QED BY <1>7, <1>10, <2>7 DEF TargetWord
  <1>15. OpWords(u.op) = 2
    BY <1>7 DEF OpWords, BzOps
  <1>16. Src!Charge(h, 2) = 2
    BY <1>6, <1>9
  <1> QED BY <1>1, <1>5, <1>7, <1>9, <1>10, <1>11, <1>12, <1>13, <1>14, <1>15, <1>16 DEF u, a, b, c, nm, cond, or

\* LW_BZ and LBU_BZ are their load and their branch.
LEMMA LoadBzRefines ==
  ASSUME Ready, NEW h, Here(h), LoadBz
  PROVE Src!Next /\ Words'
  <1> DEFINE a == Decode(code, h)
             b == Decode(code, h + 1)
             c == Src!Instruction(h)
             i == h + 1
             r == Wrap(x[w.rs1] + w.imm)
             v == IF w.op = "LW_BZ" THEN LoadWord(mem, r) ELSE LoadByte(mem, r)
             y == PutReg(x, w.rd, v)
             to == b.target
             take == (v = 0) = (w.rs2 = 1)
             t == 2
             z == 0
  <1>1. w.op \in BzOps
    BY DEF LoadBz, Op, BzOps
  <1>2. /\ h \in Nat /\ UnitOf(h).width = 2 /\ OpWords(UnitOf(h).op) = 2 /\ Src!Charge(h, 2) = 2
        /\ c.op = a.op /\ c.rd = w.rd /\ c.rs1 = w.rs1 /\ c.imm = w.imm /\ a.op \in {"lw", "lbu"}
        /\ w.op = (IF a.op = "lw" THEN "LW_BZ" ELSE "LBU_BZ") /\ w.rd # 0 /\ w.rd \in Regs
        /\ w.rs1 \in Regs /\ w.imm \in Int /\ b.op \in Branches
        /\ ((b.rs1 = w.rd /\ b.rs2 = 0) \/ (b.rs2 = w.rd /\ b.rs1 = 0))
        /\ w.rs2 = (IF b.op = "beq" THEN 1 ELSE 0)
        /\ to \in DOMAIN tc.map /\ w.target = tc.map[to]
    BY <1>1, LoadBzIs
  <1>3. /\ SetX(w.rd, v) /\ (IF take THEN Reloc(w.target, 2) ELSE GoOn(2, 2))
        /\ UNCHANGED <<code, ext, tc, mem, max>>
    BY DEF LoadBz, Base
  <1>4. r \in Int
    BY <1>2, OperandsAre DEF Ready
  <1> HIDE DEF r
  <1>5. v \in Word
    BY <1>4, LoadsAreWords DEF Ready, Words
  <1>6. Words' /\ x' = y
    <2>1. Words /\ mem' \in Memory /\ w.rd # 0 /\ SetX(w.rd, v)
      BY <1>2, <1>3 DEF Ready, Words
    <2> HIDE DEF v
    <2> QED BY <1>5, <2>1, SetKeepsWords
  <1>7. y[w.rd] = v /\ y[0] = 0
    <2> HIDE DEF v
    <2>1. y[w.rd] = v
      BY <1>2, PutTwice DEF Ready
    <2>2. y[0] = 0
      BY <1>5, LinkKeepsWords DEF Ready
    <2> QED BY <2>1, <2>2
  <1>8. Src!Effect(Src!At(h, x, mem), c) = Src!At(h + 1, y, mem)
    <2>1. r = Wrap(x[c.rs1] + c.imm)
      BY <1>2 DEF r
    <2>2. /\ c.op = "lw" => Src!Effect(Src!At(h, x, mem), c) = Src!At(h + 1, PutReg(x, c.rd, LoadWord(mem, r)), mem)
          /\ c.op = "lbu" => Src!Effect(Src!At(h, x, mem), c) = Src!At(h + 1, PutReg(x, c.rd, LoadByte(mem, r)), mem)
      BY <2>1, EffectIs
    <2>3. v = IF c.op = "lw" THEN LoadWord(mem, r) ELSE LoadByte(mem, r)
      BY <1>2
    <2> HIDE DEF c, v
    <2>4. c.op \in {"lw", "lbu"}
      BY <1>2
    <2> QED BY <1>2, <2>2, <2>3, <2>4
  <1> HIDE DEF v, y
  <1> DEFINE f == Src!Effect(Src!At(h + 1, y, mem), b)
             j == Src!Jump(to, z, y, mem)
             n == Src!At(h + 2, y, mem)
  <1>9. f = IF take THEN j ELSE n
    <2> DEFINE v1 == y[b.rs1]
               v2 == y[b.rs2]
    <2>1. /\ b.op = "beq" => f = IF v1 = v2 THEN j ELSE n
          /\ b.op = "bne" => f = IF v1 # v2 THEN j ELSE n
      <3>1. i + 1 = h + 2
        BY <1>2
      <3>2. /\ b.op = "beq" => Src!Effect(Src!At(i, y, mem), b) = IF v1 = v2 THEN Src!Jump(to, 0, y, mem) ELSE Src!At(i + 1, y, mem)
            /\ b.op = "bne" => Src!Effect(Src!At(i, y, mem), b) = IF v1 # v2 THEN Src!Jump(to, 0, y, mem) ELSE Src!At(i + 1, y, mem)
        <4> HIDE DEF i, b
        <4> QED BY EffectIs
      <3> QED BY <3>1, <3>2
    <2>2. v1 = v2 <=> v = 0
      BY <1>2, <1>7
    <2> HIDE DEF v1, v2, f, j, n
    <2>3. CASE b.op = "beq"
      <3>1. w.rs2 = 1
        BY <1>2, <2>3
      <3>2. take <=> v = 0
        BY <3>1
      <3> QED BY <2>1, <2>2, <2>3, <3>2
    <2>4. CASE b.op = "bne"
      <3>1. w.rs2 = 0
        BY <1>2, <2>4
      <3>2. take <=> v # 0
        BY <3>1
      <3> QED BY <2>1, <2>2, <2>4, <3>2
    <2> QED BY <1>2, <2>3, <2>4 DEF Branches
  <1>10. Src!Runs(Src!At(h, x, mem), t) = <<f>>
    <2>1. UnitOf(h).width \in {2, 3}
      BY <1>2
    <2>2. Decode(code, h).op \notin Traps \cup {"nop"}
      BY <1>2 DEF Traps
    <2>3. Decode(code, h + 1).op \notin Traps \cup {"nop"}
      BY <1>2 DEF Traps, Branches
    <2> QED BY <1>8, <2>1, <2>2, <2>3, TwoRun
  <1>11. Running /\ t \in 1 .. MaxUnit /\ t \in Nat /\ t = Src!Charge(h, t) /\ UNCHANGED <<code, ext, tc, max>>
    BY <1>2, <1>3, WidthsFit DEF Ready
  <1> HIDE DEF f
  <1>12. CASE take
    <2>1. j = Src!Jump(to, z, x', mem')
      <3> HIDE DEF to
      <3> QED BY <1>3, <1>6
    <2> HIDE DEF j
    <2>2. Src!Runs(Src!At(h, x, mem), t) = <<Src!Jump(to, z, x', mem')>>
      BY <1>9, <1>10, <1>12, <2>1
    <2>3. Reloc(tc.map[to], t) /\ to \in DOMAIN tc.map
      BY <1>2, <1>3, <1>12
    <2> HIDE DEF t, z, to, take
    <2>4. Src!Next
      BY <1>11, <2>2, <2>3, RelocAdvances
    <2> QED BY <1>6, <2>4
  <1>13. CASE ~take
    <2>1. n = Src!At(h + t, x', mem')
      BY <1>3, <1>6
    <2> HIDE DEF n
    <2>2. Src!Runs(Src!At(h, x, mem), t) = <<Src!At(h + t, x', mem')>>
      BY <1>9, <1>10, <1>13, <2>1
    <2>3. GoOn(t, t) /\ t = UnitOf(h).width /\ t = OpWords(UnitOf(h).op)
      BY <1>2, <1>3, <1>13
    <2> HIDE DEF t, take
    <2>4. Src!Next
      BY <1>11, <2>2, <2>3, GoOnAdvances
    <2> QED BY <1>6, <2>4
  <1> QED BY <1>12, <1>13

\* A load-immediate: the data address of one auipc, or of an auipc and an addi.
LEMMA LiIs ==
  ASSUME Ready, NEW h, Here(h), w.op = "LI"
  PROVE LET a == Decode(code, h)
            b == Decode(code, h + 1)
            c == Src!Instruction(h)
            u == UnitOf(h)
        IN /\ h \in Nat /\ OpWords(u.op) = 1 /\ a.op = "auipc" /\ a.imm \in Int
           /\ w.rd = a.rd /\ a.rd # 0 /\ a.rd \in Regs /\ Src!Charge(h, 1) = 1 /\ Src!Charge(h, 2) = 1
           /\ c.op = "auipc" /\ c.rd = a.rd /\ Src!Upper(h) = 4 * h + a.imm
           /\ \/ u.width = 1 /\ w.imm = Wrap(4 * h + a.imm)
              \/ /\ u.width = 2 /\ b.op = "addi" /\ b.rd = a.rd /\ b.rs1 = a.rd /\ b.imm \in Int
                 /\ w.imm = Wrap(4 * h + a.imm + b.imm)
  <1> DEFINE u == UnitOf(h)
             a == Decode(code, h)
             b == Decode(code, h + 1)
             c == Src!Instruction(h)
             lo == LoPart(Apart(code, tc.map, code[h].rel.to))
             hi == HiPart(Apart(code, tc.map, h))
             one == Wrap(4 * h + a.imm)
             two == Wrap(4 * h + a.imm + b.imm)
             li == Unit("LI", u.rd, 0, 0, Wrap(4 * h + u.imm), 0, 1)
  <1>1. /\ h \in DOMAIN code /\ h \in Nat /\ Made(code, Targets, h, u) /\ Fits(code, Targets, h, u)
        /\ h \in CodeHi(code) => u.op = "auipc"
        /\ IsLow(code, h) => u.op \in Imm16Low
        /\ IF u.op = "auipc" /\ h \notin CodeHi(code) THEN w = li
           ELSE /\ w.op = u.op /\ w.rd = u.rd
                /\ w.imm = IF h \in CodeHi(code) THEN hi ELSE IF IsLow(code, h) THEN lo ELSE u.imm
    BY AtHead
  <1>2. li.op = "LI" /\ li.rd = u.rd /\ li.imm = Wrap(4 * h + u.imm)
    BY UnitFields
  <1>3. Layout /\ IsProgram(code) /\ Cardinality(DOMAIN code) \in Nat /\ DOMAIN code = 0 .. (Cardinality(DOMAIN code) - 1)
    BY Numbered DEF Ready, Running, Layout
  <1>4. /\ a = Unit(a.op, a.rd, a.rs1, a.rs2, a.imm, a.target, a.width) /\ a.rd \in Regs /\ a.imm \in Int
        /\ a.imm = code[h].imm
    BY <1>1, <1>3, DecodeFacts
  <1>5. a.op = "auipc" => a.rd # 0
    BY DEF Decode, Unit, Zeroable
  <1>6. c = (IF IsLow(code, h) THEN [a EXCEPT !.imm = lo] ELSE a)
    BY <1>3, InstructionIs
  <1>7. Src!Upper(h) = IF h \in CodeHi(code) THEN 4 * tc.map[h] + hi ELSE 4 * h + a.imm
    BY <1>3, <1>4, UpperIs
  <1>8. Src!Charge(h, 1) = 1 /\ Src!Charge(h, 2) = IF a.op = "auipc" THEN 1 ELSE 2
    BY SameOps DEF Src!Charge
  <1> HIDE DEF a, c, lo, hi
  <1>9. c.op = a.op /\ c.rd = a.rd
    <2>1. CASE IsLow(code, h)
      <3>1. c = [Unit(a.op, a.rd, a.rs1, a.rs2, a.imm, a.target, a.width) EXCEPT !.imm = lo]
        BY <1>4, <1>6, <2>1
      <3>2. c = Unit(a.op, a.rd, a.rs1, a.rs2, lo, a.target, a.width)
        BY <3>1 DEF Unit
      <3> QED BY <3>2, UnitFields
    <2>2. CASE ~IsLow(code, h)
      BY <1>6, <2>2
    <2> QED BY <2>1, <2>2
  <1> HIDE DEF u, li, one, two, b
  <1>10. CASE u.op = "auipc"
    <2>1. h \notin CodeHi(code) /\ w = li
      BY <1>1, <1>10
    <2>2. u = a
      <3>1. u.op \notin {"PROLOGUE", "EPILOGUE", "LI", "SHADD", "LWX", "LWLW", "VCALL", "LWSW"} \cup BzOps
        BY <1>10 DEF BzOps
      <3> QED BY <1>1, <3>1 DEF Made, a
    <2>3. u.width = 1
      <3>1. a.width = 1
        BY <1>1, <1>3, DecodeFacts DEF a
      <3> QED BY <2>2, <3>1
    <2>4. OpWords(u.op) = 1
      BY <1>10 DEF OpWords
    <2>5. w.imm = one /\ w.rd = a.rd
      BY <1>2, <2>1, <2>2 DEF one
    <2> QED BY <1>1, <1>4, <1>5, <1>7, <1>8, <1>9, <1>10, <2>1, <2>2, <2>3, <2>4, <2>5 DEF u, a, b, c, one
  <1>11. CASE u.op # "auipc"
    <2>1. w.op = u.op /\ w.rd = u.rd /\ u.op = "LI" /\ h \notin CodeHi(code) /\ ~IsLow(code, h) /\ w.imm = u.imm
      <3>1. "LI" \notin Imm16Low
        BY DEF Imm16Low
      <3> QED BY <1>1, <1>11, <3>1
    <2>2. u = FuseLa(code, Targets, h) \/ u = LoneAuipc(a, h)
      <3>1. u.op \notin {"PROLOGUE", "EPILOGUE", "SHADD", "LWX", "LWLW", "VCALL", "LWSW"} \cup BzOps \cup InsnOps \cup {"nop"}
        BY <2>1 DEF BzOps, InsnOps
      <3> QED BY <1>1, <3>1 DEF Made, a
    <2>3. OpWords(u.op) = 1
      BY <2>1 DEF OpWords
    <2>4. NoUnit.op # "LI"
      BY NoUnitFits
    <2>5. CASE u = LoneAuipc(a, h)
      <3>1. a.op = "auipc" /\ u = Unit("LI", a.rd, 0, 0, one, 0, 1)
        BY <2>1, <2>4, <2>5 DEF LoneAuipc, LoadImm, one
      <3>2. u.rd = a.rd /\ u.imm = one /\ u.width = 1
        BY <3>1, UnitFields
      <3> QED BY <1>1, <1>4, <1>5, <1>7, <1>8, <1>9, <2>1, <2>3, <3>1, <3>2 DEF u, a, b, c, one
    <2>6. CASE u = FuseLa(code, Targets, h)
      <3>1. /\ ~(h + 2 > Cardinality(DOMAIN code) \/ h + 1 \in Targets)
            /\ a.op = "auipc" /\ b.op = "addi" /\ b.rd = a.rd /\ b.rs1 = a.rd
            /\ u = Unit("LI", a.rd, 0, 0, two, 0, 2)
        BY <2>1, <2>4, <2>6 DEF FuseLa, LoadImm, two, a, b
      <3>2. h + 1 \in DOMAIN code
        BY <1>1, <1>3, <3>1
      <3>3. b.imm \in Int
        BY <1>3, <3>2, DecodeFacts DEF b
      <3>4. u.rd = a.rd /\ u.imm = two /\ u.width = 2
        BY <3>1, UnitFields
      <3> QED BY <1>1, <1>4, <1>5, <1>7, <1>8, <1>9, <2>1, <2>3, <3>1, <3>3, <3>4 DEF u, a, b, c, two
    <2> QED BY <2>2, <2>5, <2>6
  <1> QED BY <1>10, <1>11

\* LI is the auipc, or the pair, whose value it holds.
LEMMA LiRefines ==
  ASSUME Ready, NEW h, Here(h), Alu, w.op = "LI"
  PROVE Src!Next /\ Words'
  <1> DEFINE a == Decode(code, h)
             b == Decode(code, h + 1)
             c == Src!Instruction(h)
             i == h + 1
             e == 4 * h + a.imm
             y == PutReg(x, a.rd, Wrap(e))
             v == w.imm
             o == 1
  <1>1. /\ h \in Nat /\ OpWords(UnitOf(h).op) = 1 /\ a.op = "auipc" /\ a.imm \in Int
        /\ w.rd = a.rd /\ a.rd # 0 /\ a.rd \in Regs /\ Src!Charge(h, 1) = 1 /\ Src!Charge(h, 2) = 1
        /\ c.op = "auipc" /\ c.rd = a.rd /\ Src!Upper(h) = e
        /\ \/ UnitOf(h).width = 1 /\ v = Wrap(e)
           \/ /\ UnitOf(h).width = 2 /\ b.op = "addi" /\ b.rd = a.rd /\ b.rs1 = a.rd /\ b.imm \in Int
              /\ v = Wrap(e + b.imm)
    BY LiIs
  <1>2. SetX(w.rd, v) /\ GoOn(1, 1) /\ UNCHANGED <<code, ext, tc, mem, max>>
    BY DEF Alu
  <1>3. e \in Int
    BY <1>1
  <1> HIDE DEF e
  <1>4. Src!Effect(Src!At(h, x, mem), c) = Src!At(h + 1, y, mem)
    <2>1. Src!Effect(Src!At(h, x, mem), c) = Src!At(h + 1, PutReg(x, c.rd, Wrap(Src!Upper(h))), mem)
      <3> HIDE DEF c
      <3> QED BY <1>1, EffectIs
    <2> QED BY <1>1, <2>1
  <1>5. v \in Word
    <2> HIDE DEF v
    <2>1. CASE v = Wrap(e)
      BY <1>3, <2>1, WrapFacts
    <2>2. CASE b.imm \in Int /\ v = Wrap(e + b.imm)
      <3>1. e + b.imm \in Int
        BY <1>3, <2>2
      <3> QED BY <2>2, <3>1, WrapFacts
    <2> QED BY <1>1, <2>1, <2>2
  <1> HIDE DEF v
  <1>6. Words' /\ x' = PutReg(x, w.rd, v)
    BY <1>1, <1>2, <1>5, SetKeepsWords DEF Ready, Words
  <1>7. CASE UnitOf(h).width = 1 /\ v = Wrap(e)
    <2>1. x' = y
      BY <1>1, <1>6, <1>7
    <2>2. Decode(code, h).op \notin Traps \cup {"nop"} /\ h \in DOMAIN code /\ Layout
      BY <1>1, AtHead DEF Traps, Ready, Running
    <2>3. Src!OneMore(Src!At(h, x, mem)) = <<Src!At(h + 1, y, mem)>>
      BY <1>4, <2>2, OneStep
    <2> HIDE DEF y
    <2>4. Src!At(h + 1, y, mem) = Src!At(h + 1, x', mem')
      BY <1>2, <2>1
    <2>5. Src!OneMore(Src!At(h, x, mem)) = <<Src!At(h + o, x', mem')>>
      BY <2>3, <2>4
    <2>6. Src!Runs(Src!At(h, x, mem), o) = <<Src!At(h + o, x', mem')>>
      BY <2>5, RunsOne
    <2>7. /\ Running /\ o \in 1 .. MaxUnit /\ o \in Nat /\ o = UnitOf(h).width /\ o = OpWords(UnitOf(h).op)
          /\ o = Src!Charge(h, o) /\ GoOn(o, o) /\ UNCHANGED <<code, ext, tc, max>>
      BY <1>1, <1>2, <1>7, WidthsFit DEF Ready
    <2> HIDE DEF o
    <2>8. Src!Next
      BY <2>6, <2>7, GoOnAdvances
    <2> QED BY <1>6, <2>8
  <1>8. CASE /\ UnitOf(h).width = 2 /\ b.op = "addi" /\ b.rd = a.rd /\ b.rs1 = a.rd /\ b.imm \in Int
             /\ v = Wrap(e + b.imm)
    <2>1. y[a.rd] = Wrap(e)
      BY <1>1, PutTwice DEF Ready
    <2>2. Wrap(y[b.rs1] + b.imm) = v
      <3> DEFINE g == b.imm
      <3>1. Wrap(Wrap(e) + g) = Wrap(e + g)
        <4>1. g \in Int
          BY <1>8
        <4> HIDE DEF g
        <4> QED BY <1>3, <4>1, WrapSum
      <3> HIDE DEF y
      <3> QED BY <1>8, <2>1, <3>1
    <2>3. PutReg(y, b.rd, v) = PutReg(x, w.rd, v)
      <3>1. PutReg(PutReg(x, a.rd, Wrap(e)), a.rd, v) = PutReg(x, a.rd, v)
        BY PutTwice DEF Ready
      <3> QED BY <1>1, <1>8, <3>1
    <2> HIDE DEF y
    <2>4. Src!Effect(Src!At(h + 1, y, mem), b) = Src!At(h + 2, x', mem')
      <3>1. Src!Effect(Src!At(i, y, mem), b) = Src!At(i + 1, PutReg(y, b.rd, Wrap(y[b.rs1] + b.imm)), mem)
        <4>1. b.op = "addi"
          BY <1>8
        <4> HIDE DEF i, b
        <4> QED BY <4>1, EffectIs
      <3>2. i + 1 = h + 2
        BY <1>1
      <3>3. PutReg(y, b.rd, Wrap(y[b.rs1] + b.imm)) = x' /\ mem' = mem
        BY <1>2, <1>6, <2>2, <2>3
      <3> QED BY <3>1, <3>2, <3>3
    <2>5. Decode(code, h).op \notin Traps \cup {"nop"} /\ Decode(code, h + 1).op \notin Traps \cup {"nop"}
      BY <1>1, <1>8 DEF Traps
    <2> DEFINE cost == 1
    <2>6. cost \in Nat /\ GoOn(1, cost) /\ cost = Src!Charge(h, 2) /\ UNCHANGED <<code, ext, tc, max>>
      BY <1>1, <1>2
    <2> HIDE DEF cost
    <2>7. Src!Next
      BY <1>1, <1>4, <1>8, <2>4, <2>5, <2>6, StraightTwo
    <2> QED BY <1>6, <2>7
  <1> QED BY <1>1, <1>7, <1>8

\* An ALU op is one of these.
LEMMA AluStepRefines ==
  ASSUME Ready, NEW h, Here(h), Alu
  PROVE Src!Next /\ Words'
  <1>1. w.op \in {"add", "addi", "slli", "auipc", "LI", "SHADD"}
    BY DEF Alu, Op
  <1>2. CASE w.op \in {"add", "addi", "slli", "auipc"}
    BY <1>2, AluRefines
  <1>3. CASE w.op = "LI"
    BY <1>3, LiRefines
  <1>4. CASE w.op = "SHADD"
    BY <1>4, ShaddRefines
  <1> QED BY <1>1, <1>2, <1>3, <1>4

\* The pc after a trap, and the pc at the loop's head.
LEMMA PcFacts ==
  ASSUME Layout, n_ops' = n_ops
  PROVE /\ n_ops \in Nat
        /\ \A q \in Nat : phase' = "run" /\ p' = q => OpPc' = 4 * q
        /\ \A q \in Nat : phase' = "idle" /\ spc' = 4 * q => OpPc' = 4 * q
        /\ phase = "run" => OpPc = 4 * p
  <1>1. n_ops \in Nat
    BY DEF n_ops, Layout, Linked
  <1>2. ASSUME NEW q \in Nat, phase' = "idle", spc' = 4 * q PROVE OpPc' = 4 * q
    <2>1. OpPc' = IF spc' >= clen' THEN spc' ELSE spc' - (spc' % 4)
      BY <1>2 DEF OpPc
    <2>2. (4 * q) % 4 = 0 /\ 4 * q \in Nat
      OBVIOUS
    <2> QED BY <1>2, <2>1, <2>2
  <1> QED BY <1>1, <1>2 DEF OpPc

\* Trap hands the host the trap the program is at.
LEMMA TrapRefines ==
  ASSUME Ready, NEW h, Here(h), NEW stop \in BOOLEAN, Trap(stop)
  PROVE Src!Next /\ Words'
  <1>1. w.op \in Traps
    BY DEF Trap, Op, Traps
  <1>2. w.op \in InsnOps /\ w.op # "nop"
    BY <1>1 DEF InsnOps, Traps
  <1>3. Decode(code, h).op = w.op
    BY <1>2, PlainIs
  <1>4. code[h].op = w.op
    BY <1>2, <1>3 DEF Decode, Unit
  <1>5. /\ k' = k + 1 /\ x' \in {x} \cup {[x EXCEPT ![HostReg] = v] : v \in HostWords}
        /\ IF stop THEN Leave(4 * p)
           ELSE IF k' >= max THEN Leave(4 * p + 4)
           ELSE phase' = "run" /\ p' = p + 1
        /\ UNCHANGED <<code, ext, tc, mem, max>>
    BY DEF Trap
  <1>6. Words'
    <2>1. x' \in [Regs -> Word] /\ x'[0] = 0
      <3>1. HostReg # 0 /\ HostWords \subseteq Word /\ x \in [Regs -> Word] /\ x[0] = 0
        BY MachineAssumption DEF Ready, RegistersFit, Words
      <3>2. 0 \in Regs
        BY DEF Ready, RegistersFit, Regs
      <3> QED BY <1>5, <3>1, <3>2
    <2> QED BY <1>5, <2>1 DEF Ready, Words
  <1>7. Src!Trap
    <2>1. phase = "run" /\ p < n_ops /\ p \in Nat /\ Layout /\ k \in Nat /\ max \in Nat
      BY DEF Ready, Running, AtOp
    <2>2. n_ops' = n_ops
      BY <1>5 DEF n_ops
    <2>3. /\ n_ops \in Nat
          /\ \A q \in Nat : phase' = "run" /\ p' = q => OpPc' = 4 * q
          /\ \A q \in Nat : phase' = "idle" /\ spc' = 4 * q => OpPc' = 4 * q
          /\ OpPc = 4 * p
      BY <2>1, <2>2, PcFacts
    <2>4. Src!HeadOf(OpPc \div 4) = h
      BY <2>3 DEF Here
    <2>5. x' \in {x} \cup {Src!Put(x, HostReg, v) : v \in HostWords}
      <3>1. HostReg # 0
        BY DEF Ready, RegistersFit
      <3>2. \A v : Src!Put(x, HostReg, v) = [x EXCEPT ![HostReg] = v]
        BY <3>1 DEF Src!Put
      <3> QED BY <1>5, <3>2
    <2>6. \/ phase' = "idle" /\ OpPc' = OpPc
          \/ phase' = "run" /\ OpPc' = OpPc + 4 /\ k' < max
          \/ phase' = "idle" /\ OpPc' = OpPc + 4 /\ k' >= max
      <3>1. CASE stop
        <4>1. phase' = "idle" /\ spc' = 4 * p
          BY <1>5, <3>1 DEF Leave
        <4> QED BY <2>1, <2>3, <4>1
      <3>2. CASE ~stop /\ k' >= max
        <4>1. phase' = "idle" /\ spc' = 4 * p + 4
          BY <1>5, <3>2 DEF Leave
        <4>2. 4 * p + 4 = 4 * (p + 1) /\ p + 1 \in Nat
          BY <2>1
        <4>3. OpPc' = 4 * (p + 1)
          BY <2>3, <4>1, <4>2
        <4> QED BY <2>3, <3>2, <4>1, <4>2, <4>3
      <3>3. CASE ~stop /\ ~(k' >= max)
        <4>1. phase' = "run" /\ p' = p + 1 /\ p + 1 \in Nat
          BY <1>5, <2>1, <3>3
        <4>2. OpPc' = 4 * (p + 1)
          BY <2>3, <4>1
        <4>3. k' < max
          BY <1>5, <2>1, <3>3
        <4> QED BY <2>1, <2>3, <4>1, <4>2, <4>3
      <3> QED BY <3>1, <3>2, <3>3
    <2>7. clen = 4 * n_ops /\ ~(OpPc >= 4 * n_ops)
      BY <2>1, <2>3 DEF clen
    <2>8. Src!IsTrapAt(h)
      BY <1>1, <1>4 DEF Src!IsTrapAt, Traps
    <2> QED BY <1>5, <2>1, <2>2, <2>4, <2>5, <2>6, <2>7, <2>8 DEF Src!Trap, Src!Outside, OpPc
  <1>8. Src!Next
    BY <1>7 DEF Src!Next
  <1> QED BY <1>6, <1>8

\* RiscvEmulatorLoop is entered, or returns at once.
LEMMA CallRefines ==
  ASSUME Layout, spc \in Nat, Budgets \subseteq Nat, NEW b \in Budgets, Call(b)
  PROVE Src!Next
  <1>1. /\ phase = "idle" /\ max' = b /\ k' = 0 /\ b \in Nat
        /\ IF spc >= clen THEN phase' = "idle" /\ p' = 0 ELSE phase' = "run" /\ p' = spc \div 4
        /\ UNCHANGED <<code, ext, tc, spc, x, mem>>
    BY DEF Call
  <1>2. n_ops' = n_ops /\ clen' = clen /\ clen = 4 * n_ops /\ n_ops \in Nat
    BY <1>1 DEF n_ops, clen, Layout, Linked
  <1>3. CASE spc >= clen
    <2>1. OpPc = spc /\ OpPc' = spc /\ phase' = phase
      BY <1>1, <1>2, <1>3 DEF OpPc
    <2>2. Src!Refuse
      BY <1>1, <1>2, <1>3, <2>1 DEF Src!Refuse, Src!Outside, OpPc
    <2> QED BY <2>2 DEF Src!Next
  <1>4. CASE ~(spc >= clen)
    <2>1. phase' = "run" /\ p' = spc \div 4
      BY <1>1, <1>4
    <2>2. OpPc = spc - (spc % 4)
      BY <1>1, <1>4 DEF OpPc
    <2>3. OpPc' = 4 * (spc \div 4)
      BY <2>1 DEF OpPc
    <2>4. 4 * (spc \div 4) = spc - (spc % 4) /\ spc - (spc % 4) <= spc
      OBVIOUS
    <2>5. OpPc' = OpPc /\ ~(OpPc >= 4 * n_ops)
      <3> HIDE DEF OpPc
      <3>1. spc % 4 \in Nat
        OBVIOUS
      <3> DEFINE q == spc % 4
      <3>2. q \in Nat /\ OpPc = spc - q /\ ~(spc >= 4 * n_ops)
        BY <1>2, <1>4, <2>2, <3>1
      <3> HIDE DEF q
      <3> QED BY <1>2, <2>2, <2>3, <2>4, <3>2
    <2>6. Src!Enter
      BY <1>1, <1>2, <2>1, <2>5 DEF Src!Enter, Src!Outside, OpPc
    <2> QED BY <2>6 DEF Src!Next
  <1> QED BY <1>3, <1>4

-----------------------------------------------------------------------------
(* Frames.                                                                  *)

\* As many values as places, when they ascend.
LEMMA Ascending ==
  ASSUME NEW m \in Nat, NEW g, \A q \in 0 .. (m - 1) : g[q] \in Int,
         \A q, r \in 0 .. (m - 1) : q < r => g[q] < g[r]
  PROVE Cardinality({g[q] : q \in 0 .. (m - 1)}) = m
  <1> DEFINE D == 0 .. (m - 1)
             R == {g[q] : q \in D}
             f == [q \in D |-> g[q]]
             e == Cardinality(D)
  <1>1. IsFiniteSet(D) /\ e = m
    <2>1. 0 \in Int /\ m - 1 \in Int
      OBVIOUS
    <2>2. IsFiniteSet(D) /\ Cardinality(D) = IF 0 > m - 1 THEN 0 ELSE m - 1 - 0 + 1
      BY <2>1, FS_Interval
    <2>3. e = IF 0 > m - 1 THEN 0 ELSE m - 1 - 0 + 1
      BY <2>2
    <2> HIDE DEF e
    <2>4. e = m
      BY <2>3
    <2> QED BY <2>2, <2>4
  <1>2. \A q, r \in D : g[q] = g[r] => q = r
    <2> SUFFICES ASSUME NEW q \in D, NEW r \in D, g[q] = g[r], q # r PROVE FALSE
      OBVIOUS
    <2>1. q < r \/ r < q
      OBVIOUS
    <2>2. g[q] < g[r] \/ g[r] < g[q]
      BY <2>1
    <2> QED BY <2>2
  <1> HIDE DEF D, e
  <1>3. f \in Bijection(D, R)
    <2>1. f \in [D -> R] /\ \A q \in D : f[q] = g[q]
      OBVIOUS
    <2>2. \A q, r \in D : f[q] = f[r] => q = r
      BY <1>2, <2>1
    <2>3. \A t \in R : \E q \in D : f[q] = t
      BY <2>1
    <2> HIDE DEF f, R
    <2> QED BY <2>1, <2>2, <2>3 DEF Bijection, Injection, Surjection, IsInjective
  <1>4. ExistsBijection(D, R)
    BY <1>3 DEF ExistsBijection
  <1>5. Cardinality(R) = Cardinality(D)
    BY <1>1, <1>4, FS_Bijection
  <1> QED BY <1>1, <1>5 DEF e, D

\* The smallest of some numbers up to m.
LEMMA SmallestExists ==
  ASSUME NEW m \in Nat, NEW S, S \subseteq 1 .. m, S # {}
  PROVE \E c \in S : \A d \in S : c <= d
  <1> DEFINE T == {m - c : c \in S}
  <1>1. T \subseteq 0 .. m /\ T # {}
    <2>1. ASSUME NEW c \in S PROVE m - c \in 0 .. m
      <3>1. c \in 1 .. m
        OBVIOUS
      <3> QED BY <3>1
    <2>2. PICK c \in S : TRUE
      OBVIOUS
    <2>3. m - c \in T
      OBVIOUS
    <2> QED BY <2>1, <2>3
  <1>2. PICK t \in T : \A e \in T : e <= t
    <2> HIDE DEF T
    <2> QED BY <1>1, LargestExists
  <1>3. PICK c \in S : t = m - c
    OBVIOUS
  <1>4. \A d \in S : c <= d
    <2> TAKE d \in S
    <2>1. m - d <= m - c
      BY <1>2, <1>3
    <2> QED BY <2>1
  <1> QED BY <1>4

\* frame_canonical: each slot is as deep as its rank says.
LEMMA CanonicalDepth ==
  ASSUME NEW cnt \in Nat, NEW slots, Len(slots) = cnt, NEW N \in Int,
         \A c \in 1 .. cnt : slots[c].off \in Int /\ RankOf(slots[c].reg) \in Int,
         FrameCanonical(slots, N)
  PROVE LET mask == {RankOf(slots[c].reg) : c \in 1 .. cnt} IN
          /\ Cardinality(mask) = cnt
          /\ \A c \in 1 .. cnt : slots[c].off = N - Depth(mask, RankOf(slots[c].reg))
  <1> DEFINE at(p_) == {c \in 1 .. Len(slots) : slots[c].off = N - 4 - 4 * p_}
             first(p_) == CHOOSE c \in at(p_) : \A d \in at(p_) : c <= d
             f == [p_ \in 0 .. (cnt - 1) |-> first(p_)]
             g == [p_ \in 0 .. (cnt - 1) |-> RankOf(slots[f[p_]].reg)]
             mask == {RankOf(slots[c].reg) : c \in 1 .. cnt}
             P == 0 .. (cnt - 1)
             C == 1 .. cnt
  <1>0. /\ \A q \in 0 .. (Len(slots) - 1) : at(q) # {}
        /\ \A q, r \in 0 .. (Len(slots) - 1) : q < r => RankOf(slots[first(q)].reg) < RankOf(slots[first(r)].reg)
    BY Zenon DEF FrameCanonical
  <1>1. /\ \A q \in P : at(q) # {}
        /\ \A q, r \in P : q < r => RankOf(slots[first(q)].reg) < RankOf(slots[first(r)].reg)
    <2> HIDE DEF first, at
    <2> QED BY <1>0
  <1>12. \A q \in P : f[q] = first(q)
    <2> HIDE DEF first
    <2> QED OBVIOUS
  <1>13. \A q \in P : g[q] = RankOf(slots[f[q]].reg)
    <2> HIDE DEF f
    <2> QED OBVIOUS
  <1>2. \A q, r \in P : q < r => g[q] < g[r]
    <2> HIDE DEF first, f, g, P
    <2> QED BY <1>1, <1>12, <1>13
  <1>3. \A q \in P : f[q] \in C /\ slots[f[q]].off = N - 4 - 4 * q
    <2> TAKE q \in P
    <2> DEFINE A == at(q)
    <2>1. A # {} /\ A \subseteq 1 .. cnt
      BY <1>1
    <2>2. f[q] = CHOOSE c \in A : \A d \in A : c <= d
      <3>1. f[q] = first(q)
        <4> HIDE DEF f, first
        <4> QED BY <1>12
      <3> HIDE DEF f
      <3> QED BY <3>1
    <2> HIDE DEF A, f
    <2>3. \E c \in A : \A d \in A : c <= d
      BY <2>1, SmallestExists
    <2>4. f[q] \in A
      BY <2>2, <2>3
    <2> QED BY <2>4 DEF A
  <1>4. f \in [P -> C]
    <2>1. f = [p_ \in P |-> first(p_)]
      OBVIOUS
    <2>2. \A q \in P : first(q) \in C
      <3> HIDE DEF f, first, P, C
      <3> QED BY <1>3, <1>12
    <2> HIDE DEF f, first, P, C
    <2> QED BY <2>1, <2>2
  <1>5. \A q \in P : g[q] = RankOf(slots[f[q]].reg) /\ g[q] \in Int
    <2> HIDE DEF f, g
    <2> QED BY <1>3, <1>13
  <1> HIDE DEF f, g, at, first
  <1>6. f \in Injection(P, C)
    <2>1. ASSUME NEW q \in P, NEW r \in P, f[q] = f[r] PROVE q = r
      <3>1. N - 4 - 4 * q = N - 4 - 4 * r
        BY <1>3, <2>1
      <3> QED BY <3>1
    <2> HIDE DEF P, C
    <2> QED BY <1>4, <2>1 DEF Injection, IsInjective
  <1>7. IsFiniteSet(P) /\ IsFiniteSet(C) /\ Cardinality(P) = Cardinality(C)
    <2> DEFINE lo == 0
               hi == cnt - 1
               on == 1
               a == Cardinality(P)
               b == Cardinality(C)
    <2>1. lo \in Int /\ hi \in Int /\ on \in Int /\ cnt \in Int
      OBVIOUS
    <2>2. IsFiniteSet(lo .. hi) /\ Cardinality(lo .. hi) = IF lo > hi THEN 0 ELSE hi - lo + 1
      <3> HIDE DEF lo, hi
      <3> QED BY <2>1, FS_Interval
    <2>3. IsFiniteSet(on .. cnt) /\ Cardinality(on .. cnt) = IF on > cnt THEN 0 ELSE cnt - on + 1
      <3> HIDE DEF on
      <3> QED BY <2>1, FS_Interval
    <2>4. a = IF lo > hi THEN 0 ELSE hi - lo + 1
      BY <2>2
    <2>5. b = IF on > cnt THEN 0 ELSE cnt - on + 1
      BY <2>3
    <2>6. IsFiniteSet(P) /\ IsFiniteSet(C)
      BY <2>2, <2>3
    <2> HIDE DEF a, b
    <2>7. a = b
      BY <2>4, <2>5
    <2> QED BY <2>6, <2>7 DEF a, b
  <1>8. \A c \in C : \E q \in P : f[q] = c
    <2> HIDE DEF P, C
    <2>1. f \in Surjection(P, C)
      BY <1>6, <1>7, FS_Injection
    <2> QED BY <2>1 DEF Surjection
  <1>9. mask = {g[q] : q \in P}
    <2> DEFINE rk == [c \in C |-> RankOf(slots[c].reg)]
    <2>1. mask = {rk[c] : c \in C}
      OBVIOUS
    <2>2. \A q \in P : f[q] \in C /\ g[q] = rk[f[q]]
      <3>1. \A c \in C : rk[c] = RankOf(slots[c].reg)
        OBVIOUS
      <3> HIDE DEF rk, C, P
      <3> QED BY <1>3, <1>5, <3>1
    <2> HIDE DEF rk, C, P, mask
    <2>3. \A c \in C : \E q \in P : rk[c] = g[q]
      <3> TAKE c \in C
      <3>1. PICK q \in P : f[q] = c
        BY <1>8
      <3> QED BY <2>2, <3>1
    <2> QED BY <2>1, <2>2, <2>3
  <1>10. Cardinality(mask) = cnt
    <2> HIDE DEF mask
    <2>2. /\ \A q \in 0 .. (cnt - 1) : g[q] \in Int
          /\ \A q, r \in 0 .. (cnt - 1) : q < r => g[q] < g[r]
      BY <1>2, <1>5
    <2>1. Cardinality({g[q] : q \in 0 .. (cnt - 1)}) = cnt
      BY <2>2, Ascending
    <2> QED BY <1>9, <2>1
  <1>11. ASSUME NEW c \in C PROVE slots[c].off = N - Depth(mask, RankOf(slots[c].reg))
    <2>1. PICK q \in P : f[q] = c
      BY <1>8
    <2>2. RankOf(slots[c].reg) = g[q] /\ slots[c].off = N - 4 - 4 * q /\ q \in Nat
      <3>1. g[q] = RankOf(slots[f[q]].reg) /\ slots[f[q]].off = N - 4 - 4 * q
        BY <1>3, <1>5
      <3> QED BY <2>1, <3>1
    <2> DEFINE B == {r \in mask : r < g[q]}
    <2>3. B = {g[r] : r \in 0 .. (q - 1)}
      <3>1. ASSUME NEW r \in P, g[r] < g[q] PROVE r \in 0 .. (q - 1)
        <4>1. ~(q < r) /\ q # r
          BY <1>2, <1>5, <3>1
        <4> QED BY <4>1
      <3>2. ASSUME NEW r \in 0 .. (q - 1) PROVE r \in P /\ g[r] < g[q]
        <4>1. r \in P /\ r < q
          OBVIOUS
        <4> QED BY <1>2, <4>1
      <3> HIDE DEF mask, P
      <3>3. B = {r \in {g[s] : s \in P} : r < g[q]}
        BY <1>9
      <3> HIDE DEF B
      <3> QED BY <3>1, <3>2, <3>3
    <2>4. Cardinality(B) = q
      <3>1. /\ \A r \in 0 .. (q - 1) : g[r] \in Int
            /\ \A r, s \in 0 .. (q - 1) : r < s => g[r] < g[s]
        <4>1. \A r \in 0 .. (q - 1) : r \in P
          BY <2>2
        <4> HIDE DEF P
        <4> QED BY <1>2, <1>5, <4>1
      <3>2. Cardinality({g[r] : r \in 0 .. (q - 1)}) = q
        BY <2>2, <3>1, Ascending, ZenonT(60)
      <3> QED BY <2>3, <3>2
    <2>5. Depth(mask, g[q]) = 4 + 4 * q
      BY <2>4 DEF Depth
    <2> HIDE DEF mask, B
    <2>6. slots[c].off = N - Depth(mask, g[q])
      BY <2>2, <2>5
    <2> QED BY <2>2, <2>6
  <1> QED BY <1>10, <1>11

\* The register of a rank; it is neither x0 nor sp.
LEMMA RankedIs ==
  ASSUME NEW g, RankOf(g) \in Ranks, RegistersFit
  PROVE RankReg[RankOf(g) + 1] = g /\ g \in Regs /\ g # 0 /\ g # SpReg
  <1>1. Len(RankReg) \in Nat /\ DOMAIN RankReg = 1 .. Len(RankReg) /\ \A j \in DOMAIN RankReg : RankReg[j] \in Regs
    BY MachineAssumption DEF Regs
  <1> DEFINE j == CHOOSE q \in DOMAIN RankReg : RankReg[q] = g
  <1>2. RankOf(g) >= 0
    BY <1>1 DEF Ranks
  <1>3. \E q \in DOMAIN RankReg : RankReg[q] = g
    <2> SUFFICES ASSUME ~\E q \in DOMAIN RankReg : RankReg[q] = g PROVE FALSE
      OBVIOUS
    <2>1. RankOf(g) = -1
      BY DEF RankOf
    <2> QED BY <1>2, <2>1
  <1>4. RankOf(g) = j - 1
    BY <1>3 DEF RankOf
  <1>5. j \in DOMAIN RankReg /\ RankReg[j] = g
    BY <1>3
  <1> HIDE DEF j
  <1>6. RankOf(g) + 1 = j
    BY <1>1, <1>4, <1>5
  <1>7. g \notin {0, SpReg}
    BY <1>5 DEF RegistersFit
  <1> QED BY <1>1, <1>5, <1>6, <1>7

\* The saved registers of a frame op and their offsets.
Framed(cnt, rg, off) ==
  /\ cnt \in 1 .. Len(RankReg)
  /\ \A c \in 1 .. cnt : RankOf(rg[c]) \in w.rs1 /\ off[c] = w.imm - Depth(w.rs1, RankOf(rg[c]))
  /\ w.rs1 = {RankOf(rg[c]) : c \in 1 .. cnt} /\ w.rs1 \subseteq Ranks
  /\ Cardinality(w.rs1) = cnt /\ w.imm \in Int

\* How many registers a frame holds.
LEMMA FramedCount ==
  ASSUME NEW cnt, NEW rg, NEW off, Framed(cnt, rg, off)
  PROVE cnt \in Nat /\ cnt > 0 /\ cnt \in 1 .. Len(RankReg) /\ Len(RankReg) \in Nat
  <1>1. cnt \in 1 .. Len(RankReg)
    BY DEF Framed
  <1>2. Len(RankReg) \in Nat
    BY MachineAssumption
  <1> QED BY <1>1, <1>2

\* The slots of a canonical frame, in the order of the instructions.
LEMMA CanonicalFramed ==
  ASSUME NEW cnt \in 1 .. Len(RankReg), NEW rg, NEW off, NEW slots,
         slots = [c \in 1 .. cnt |-> [reg |-> rg[c], off |-> off[c]]],
         \A c \in 1 .. cnt : off[c] \in Int /\ RankOf(rg[c]) \in Ranks,
         w.imm \in Int, FrameCanonical(slots, w.imm),
         w.rs1 = {RankOf(slots[c].reg) : c \in 1 .. cnt}
  PROVE Framed(cnt, rg, off)
  <1>1. \A c \in 1 .. cnt : slots[c].reg = rg[c] /\ slots[c].off = off[c]
    OBVIOUS
  <1>2. cnt \in Nat /\ Len(RankReg) \in Nat /\ Len(slots) = cnt
    BY MachineAssumption
  <1>3. Ranks \subseteq Int
    BY <1>2 DEF Ranks
  <1>4. \A c \in 1 .. cnt : slots[c].off \in Int /\ RankOf(slots[c].reg) \in Int
    BY <1>1, <1>3
  <1> DEFINE mask == {RankOf(slots[c].reg) : c \in 1 .. cnt}
  <1>5. /\ Cardinality(mask) = cnt
        /\ \A c \in 1 .. cnt : slots[c].off = w.imm - Depth(mask, RankOf(slots[c].reg))
    <2> DEFINE N == w.imm
    <2>1. N \in Int /\ FrameCanonical(slots, N)
      OBVIOUS
    <2> HIDE DEF N
    <2>2. LET m == {RankOf(slots[c].reg) : c \in 1 .. cnt} IN
            /\ Cardinality(m) = cnt
            /\ \A c \in 1 .. cnt : slots[c].off = N - Depth(m, RankOf(slots[c].reg))
      BY ONLY <1>2, <1>4, <2>1, CanonicalDepth, ZenonT(60)
    <2> QED BY <2>2 DEF N
  <1>6. mask = w.rs1 /\ mask = {RankOf(rg[c]) : c \in 1 .. cnt}
    <2> DEFINE rk == [c \in 1 .. cnt |-> RankOf(slots[c].reg)]
               rj == [c \in 1 .. cnt |-> RankOf(rg[c])]
    <2>1. \A c \in 1 .. cnt : rk[c] = rj[c]
      BY <1>1
    <2>2. mask = {rk[c] : c \in 1 .. cnt} /\ {RankOf(rg[c]) : c \in 1 .. cnt} = {rj[c] : c \in 1 .. cnt}
      OBVIOUS
    <2>3. mask = w.rs1
      OBVIOUS
    <2> HIDE DEF rk, rj, mask
    <2> QED BY <2>1, <2>2, <2>3
  <1> HIDE DEF mask
  <1>7. mask \subseteq Ranks
    BY <1>6
  <1>8. \A c \in 1 .. cnt : RankOf(rg[c]) \in mask /\ off[c] = w.imm - Depth(mask, RankOf(rg[c]))
    <2> TAKE c \in 1 .. cnt
    <2>1. slots[c].off = w.imm - Depth(mask, RankOf(slots[c].reg)) /\ slots[c].off = off[c] /\ slots[c].reg = rg[c]
      BY <1>1, <1>5
    <2>2. RankOf(rg[c]) \in mask
      BY <1>6
    <2> QED BY <2>1, <2>2
  <1> QED BY <1>5, <1>6, <1>7, <1>8 DEF Framed

\* A frame unit's fields.
LEMMA FrameUnitIs ==
  ASSUME NEW op, NEW R, NEW N, NEW e
  PROVE LET u == FrameUnit(op, R, N, e) IN
          u.op = op /\ u.rs1 = {RankOf(r) : r \in R} /\ u.imm = N /\ u.width = e
  <1> DEFINE mask == {RankOf(r) : r \in R}
  <1>1. FrameUnit(op, R, N, e) = Unit(op, 0, mask, 0, N, 0, e)
    BY DEF FrameUnit, Unit
  <1> HIDE DEF mask
  <1>2. LET u == FrameUnit(op, R, N, e) IN u.op = op /\ u.rs1 = mask /\ u.imm = N /\ u.width = e
    BY <1>1, UnitFields
  <1> QED BY <1>2 DEF mask

\* The instructions a prologue stands for.
Saves(h, cnt, rg, off) ==
  LET a == Decode(code, h)
      d(c) == Decode(code, h + c)
  IN /\ a.op = "addi" /\ a.rd = SpReg /\ a.rs1 = SpReg /\ a.imm \in Int /\ w.imm = 0 - a.imm
     /\ \A c \in 1 .. cnt : /\ d(c).op = "sw" /\ d(c).rs1 = SpReg
                            /\ d(c).rs2 = rg[c] /\ d(c).imm = off[c]

\* What a PROLOGUE was made from.
LEMMA PrologueIs ==
  ASSUME Ready, NEW h, Here(h), w.op = "PROLOGUE"
  PROVE \E cnt, rg, off : Framed(cnt, rg, off) /\ Saves(h, cnt, rg, off) /\ UnitOf(h).width = 1 + cnt
  <1> DEFINE c == code
             T == Targets
             u == UnitOf(h)
             a == Decode(c, h)
             N == 0 - a.imm
             n == Cardinality(DOMAIN c)
             save(j) == /\ j \notin T /\ Decode(c, j).op = "sw" /\ Decode(c, j).rs1 = SpReg
                        /\ RankOf(Decode(c, j).rs2) >= 0
             S == {q \in 0 .. Len(RankReg) : h + 1 + q <= n
                                             /\ \A j \in (h + 1) .. (h + 1 + q - 1) : save(j)}
             cnt == CHOOSE q \in S : \A d \in S : d <= q
             rg == [q \in 1 .. cnt |-> c[h + q].rs2]
             off == [q \in 1 .. cnt |-> c[h + q].imm]
             slots == [q \in 1 .. cnt |-> [reg |-> c[h + q].rs2, off |-> c[h + q].imm]]
             R == {slots[q].reg : q \in 1 .. cnt}
  <1>1. /\ w.op = u.op /\ w.rs1 = u.rs1 /\ w.imm = u.imm /\ h \in DOMAIN c /\ h \in Nat
        /\ Made(c, T, h, u) /\ IsProgram(c) /\ n \in Nat /\ DOMAIN c = 0 .. (n - 1)
        /\ h + u.width <= n
    <2>1. w.op \in Fused
      BY DEF Fused
    <2> QED BY <2>1, FusedIs
  <1>2. u = FusePrologue(c, T, h) /\ u.op = "PROLOGUE"
    <2> DEFINE v == u
               a2 == Decode(c, h)
               b2 == Decode(c, h + 1)
    <2>1. v.op = "PROLOGUE" /\ Made(c, T, h, v)
      BY <1>1
    <2>2. "PROLOGUE" \notin BzOps \cup InsnOps
      BY DEF BzOps, InsnOps
    <2> HIDE DEF v
    <2>3. v = FusePrologue(c, T, h)
      BY <2>1, <2>2, ZenonT(60) DEF Made
    <2> QED BY <2>1, <2>3 DEF v
  <1>3. /\ a.op = "addi" /\ a.rd = SpReg /\ a.rs1 = SpReg /\ a.imm < 0 /\ N <= FrameMax
        /\ cnt > 0 /\ FrameCanonical(slots, N) /\ u = FrameUnit("PROLOGUE", R, N, 1 + cnt)
    <2> DEFINE ok == /\ a.op = "addi" /\ a.rd = SpReg /\ a.rs1 = SpReg /\ a.imm < 0 /\ N <= FrameMax
                     /\ cnt > 0 /\ FrameCanonical(slots, N)
               fu == FrameUnit("PROLOGUE", R, N, 1 + cnt)
    <2>1. u = IF ok THEN fu ELSE NoUnit
      BY <1>2, Zenon DEF FusePrologue, RunOf
    <2>2. u.op # NoUnit.op
      BY <1>2, NoUnitFits
    <2> HIDE DEF ok, fu, u
    <2>3. ok /\ u = fu
      BY <2>1, <2>2
    <2> QED BY <2>3 DEF ok, fu
  <1>4. a.imm \in Int /\ Len(RankReg) \in Nat
    BY <1>1, DecodeFacts, MachineAssumption
  <1> HIDE DEF n, a, u
  <1>5. cnt \in S
    <2>1. h + 1 <= n
      BY <1>1
    <2>2. 0 \in S
      BY <1>1, <1>4, <2>1
    <2>3. S \subseteq 0 .. Len(RankReg)
      OBVIOUS
    <2> HIDE DEF S
    <2> QED BY <1>4, <2>2, <2>3, LongestFits
  <1>6. cnt \in 0 .. Len(RankReg) /\ h + 1 + cnt <= n /\ \A j \in (h + 1) .. (h + 1 + cnt - 1) : save(j)
    <2> HIDE DEF cnt
    <2> QED BY <1>4, <1>5
  <1> HIDE DEF S, cnt
  <1>7. cnt \in 1 .. Len(RankReg) /\ cnt \in Nat
    BY <1>3, <1>4, <1>6
  <1>8. ASSUME NEW q \in 1 .. cnt
        PROVE LET d == Decode(c, h + q) IN
                /\ d.op = "sw" /\ d.rs1 = SpReg /\ d.rs2 = c[h + q].rs2 /\ d.imm = c[h + q].imm
                /\ d.imm \in Int /\ RankOf(c[h + q].rs2) \in Ranks
    <2>1. h + q \in (h + 1) .. (h + 1 + cnt - 1) /\ h + q \in DOMAIN c
      BY <1>1, <1>6, <1>7
    <2> DEFINE j == h + q
    <2> HIDE DEF j
    <2>2. save(j) /\ j \in DOMAIN c
      BY <1>6, <2>1 DEF j
    <2>3. Decode(c, j).rs2 = c[j].rs2 /\ Decode(c, j).imm = c[j].imm /\ Decode(c, j).imm \in Int
      BY <1>1, <2>2, DecodeFacts
    <2>4. RankOf(c[j].rs2) \in Ranks
      BY <2>2, <2>3, RankIsPlace
    <2> QED BY <2>2, <2>3, <2>4 DEF j
  <1>9. w.rs1 = {RankOf(r) : r \in R} /\ w.imm = N /\ u.width = 1 + cnt
    <2> DEFINE e == 1 + cnt
    <2>1. u = FrameUnit("PROLOGUE", R, N, e)
      BY <1>3
    <2> HIDE DEF R, N, e
    <2>2. u.rs1 = {RankOf(r) : r \in R} /\ u.imm = N /\ u.width = e
      BY <2>1, FrameUnitIs
    <2> QED BY <1>1, <2>2 DEF e
  <1>10. Framed(cnt, rg, off)
    <2>1. slots = [q \in 1 .. cnt |-> [reg |-> rg[q], off |-> off[q]]]
      OBVIOUS
    <2>2. \A q \in 1 .. cnt : off[q] \in Int /\ RankOf(rg[q]) \in Ranks
      <3>1. \A q \in 1 .. cnt : rg[q] = c[h + q].rs2 /\ off[q] = c[h + q].imm
        OBVIOUS
      <3> HIDE DEF rg, off
      <3> QED BY <1>8, <3>1
    <2>3. w.imm \in Int /\ FrameCanonical(slots, w.imm)
      <3>1. N \in Int
        BY <1>4
      <3> HIDE DEF N, slots
      <3> QED BY <1>3, <1>9, <3>1
    <2>4. {RankOf(r) : r \in R} = {RankOf(slots[q].reg) : q \in 1 .. cnt}
      OBVIOUS
    <2> HIDE DEF rg, off, slots, R
    <2>5. w.rs1 = {RankOf(slots[q].reg) : q \in 1 .. cnt}
      BY <1>9, <2>4
    <2> QED BY <1>7, <2>1, <2>2, <2>3, <2>5, CanonicalFramed
  <1>11. Saves(h, cnt, rg, off)
    <2>1. \A q \in 1 .. cnt : rg[q] = c[h + q].rs2 /\ off[q] = c[h + q].imm
      OBVIOUS
    <2> HIDE DEF rg, off
    <2>2. \A q \in 1 .. cnt : LET d == Decode(c, h + q) IN
            d.op = "sw" /\ d.rs1 = SpReg /\ d.rs2 = rg[q] /\ d.imm = off[q]
      BY <1>8, <2>1
    <2> QED BY <1>3, <1>4, <1>9, <2>2 DEF Saves, a
  <1> HIDE DEF rg, off
  <1> QED BY <1>9, <1>10, <1>11 DEF u

\* A slot is where the store or the load of its register goes; a frame top that
\* passes spares no more than the check.
LEMMA SlotFacts ==
  ASSUME BandFits, NEW top \in Int, NEW d \in 4 .. SaveSpan
  PROVE LET a == Wrap(top - d) IN
          /\ a \in Int /\ a \in Nat /\ Rel(a) \in Nat /\ Rel(top) \in Nat
          /\ Slot(top, d) = IF Hits(a, 4) THEN Rel(a) ELSE -1
          /\ Hits(a, 4) => Rel(a) \in 0 .. (WLen - 4)
          /\ Rel(a) = Rel(top) - d \/ Rel(a) = Rel(top) - d + AddrMod
  <1> DEFINE a == Wrap(top - d)
             s == SaveSpan
             r == Rel(top)
             q == Rel(a)
             b == 0 - WBase
  <1>1. s \in Nat /\ d \in Int
    <2>1. Len(RankReg) \in Nat
      BY MachineAssumption
    <2> QED BY <2>1 DEF SaveSpan
  <1>2. WLen \in 0 .. (AddrMod - 1) /\ AddrMod \in Nat /\ s <= WLen /\ AddrMod > 0 /\ WBase \in Nat
    BY WritableAssumption, WordFacts DEF BandFits
  <1>3. a \in Nat /\ a \in Int /\ r \in Nat /\ r < AddrMod /\ q \in Nat
    <2>1. top - d \in Int
      BY <1>1
    <2>2. a \in Nat /\ a \in Int
      BY <2>1, WordFacts
    <2> HIDE DEF a
    <2> QED BY <2>2, RelIsNat
  <1>4. b \in Int /\ 0 - d \in Int /\ top - d \in Int /\ top + b \in Int
    BY <1>1, <1>2
  <1>5. q = Wrap((top - d) + b)
    <2> DEFINE t == top - d
    <2>1. Wrap(Wrap(t) + b) = Wrap(t + b)
      <3>1. t \in Int
        BY <1>4
      <3> HIDE DEF t, b
      <3> QED BY <1>4, <3>1, WrapSum
    <2>2. q = Wrap(a - WBase) /\ a - WBase = a + b
      BY <1>2, <1>3 DEF Rel
    <2> QED BY <2>1, <2>2
  <1>6. Wrap(r - d) = Wrap((top + b) - d)
    <2> DEFINE t == top + b
               e == 0 - d
    <2>1. Wrap(Wrap(t) + e) = Wrap(t + e)
      <3>1. t \in Int /\ e \in Int
        BY <1>4
      <3> HIDE DEF t, e
      <3> QED BY <3>1, WrapSum
    <2>2. r = Wrap(t)
      <3>1. t = top - WBase
        BY <1>2
      <3> QED BY <3>1 DEF Rel
    <2>3. t + e = t - d /\ r + e = r - d
      BY <1>1, <1>3, <1>4
    <2> HIDE DEF e, t, r
    <2>4. Wrap(t - d) = Wrap(t + e) /\ Wrap(r - d) = Wrap(r + e)
      BY <2>3
    <2>5. Wrap(t - d) = Wrap(r - d)
      BY <2>1, <2>2, <2>4
    <2> QED BY <2>5 DEF t
  <1>7. q = (r - d) % AddrMod
    <2>1. (top - d) + b = (top + b) - d
      BY <1>1, <1>4
    <2> QED BY <1>5, <1>6, <2>1 DEF Wrap
  <1> HIDE DEF a, r, q, b, s
  <1>8. d \in 4 .. s
    BY DEF s
  <1>9. q = r - d \/ q = r - d + AddrMod
    <2>1. CASE r >= d
      <3>1. r - d \in 0 .. (AddrMod - 1)
        BY <1>1, <1>2, <1>3, <1>8, <2>1
      <3> QED BY <1>2, <1>7, <3>1
    <2>2. CASE r < d
      <3>1. r - d + AddrMod \in 0 .. (AddrMod - 1)
        BY <1>1, <1>2, <1>3, <1>8, <2>2
      <3>2. (r - d) % AddrMod = r - d + AddrMod
        BY <1>1, <1>2, <1>3, <3>1
      <3> QED BY <1>7, <3>2
    <2> QED BY <1>1, <1>3, <2>1, <2>2
  <1>10. Hits(a, 4) => q \in 0 .. (WLen - 4)
    <2>1. 4 \in {1, 4}
      OBVIOUS
    <2> QED BY <1>3, <2>1, HitIsInside DEF q
  <1>11. Slot(top, d) = IF Hits(a, 4) THEN q ELSE -1
    <2>1. CASE FrameTop(top)
      <3>1. r - d \in 0 .. (WLen - 4)
        BY <2>1, BandInside DEF r
      <3>2. q = r - d
        <4>1. r - d \in 0 .. (AddrMod - 1)
          BY <1>1, <1>2, <1>3, <3>1
        <4> QED BY <1>2, <1>7, <4>1
      <3>3. Hits(a, 4)
        <4>1. q < WLen /\ 4 <= WLen - q
          BY <1>1, <1>2, <1>3, <3>1, <3>2
        <4> QED BY <4>1 DEF Hits, q
      <3>4. Slot(top, d) = r - d
        BY <2>1 DEF Slot, r
      <3> QED BY <3>2, <3>3, <3>4
    <2>2. CASE ~FrameTop(top)
      BY <2>2 DEF Slot, a, q
    <2> QED BY <2>1, <2>2
  <1> QED BY <1>3, <1>9, <1>10, <1>11 DEF a, r, q

\* Ranks apart lie a word apart at least.
LEMMA DepthsApart ==
  ASSUME NEW mask \in SUBSET Ranks, NEW r \in mask, NEW q \in mask, r < q
  PROVE Depth(mask, r) + 4 <= Depth(mask, q)
  <1> DEFINE A == {e \in mask : e < r}
             B == {e \in mask : e < q}
             m == Cardinality(A)
             n == Cardinality(B)
  <1>1. Ranks \subseteq Nat /\ IsFiniteSet(Ranks)
    <2>1. Len(RankReg) \in Nat
      BY MachineAssumption
    <2> DEFINE z == 0
               t == Len(RankReg) - 1
    <2>2. z \in Int /\ t \in Int
      BY <2>1
    <2> HIDE DEF z, t
    <2>3. IsFiniteSet(z .. t)
      BY <2>2, FS_Interval
    <2>4. Ranks = z .. t
      BY DEF Ranks, z, t
    <2> QED BY <2>1, <2>3, <2>4 DEF Ranks
  <1>2. r \in Nat /\ q \in Nat /\ r \notin A /\ A \cup {r} \subseteq B
    <2>1. \A e \in mask : e \in Nat
      BY <1>1
    <2>2. ASSUME NEW e \in mask, e < r PROVE e < q
      <3>1. e \in Nat /\ r \in Nat /\ q \in Nat
        BY <2>1
      <3> QED BY <2>2, <3>1
    <2>3. A \subseteq B /\ r \in B /\ r \notin A
      BY <2>1, <2>2
    <2> QED BY <2>1, <2>3
  <1>3. IsFiniteSet(A) /\ IsFiniteSet(B)
    <2>1. A \in SUBSET Ranks /\ B \in SUBSET Ranks
      OBVIOUS
    <2> HIDE DEF A, B
    <2> QED BY <1>1, <2>1, FS_Subset
  <1> HIDE DEF A, B
  <1>4. Cardinality(A \cup {r}) = m + 1
    BY <1>2, <1>3, FS_AddElement
  <1>5. Cardinality(A \cup {r}) <= n
    BY <1>2, <1>3, FS_Subset
  <1>6. m \in Nat /\ n \in Nat
    BY <1>3, FS_CardinalityType
  <1> HIDE DEF m, n
  <1>7. Depth(mask, r) = 4 + 4 * m /\ Depth(mask, q) = 4 + 4 * n
    BY DEF Depth, m, n, A, B
  <1>8. m + 1 <= n
    BY <1>4, <1>5
  <1> QED BY <1>6, <1>7, <1>8

\* What the saves up to c have written.
Covers(sl, j, o) == sl[j] # -1 /\ o \in sl[j] .. (sl[j] + 3)
Written(m, sl, val, c) ==
  /\ m \in Memory
  /\ \A o \in 0 .. (WLen - 1) :
       /\ \A j \in 1 .. c : Covers(sl, j, o) => m[o] = ByteOf(val[j], o - sl[j])
       /\ (\A j \in 1 .. c : ~Covers(sl, j, o)) => m[o] = mem[o]

\* One more save.
LEMMA SaveWrites ==
  ASSUME NEW c \in Nat, NEW sl, NEW val, NEW m, Written(m, sl, val, c),
         NEW a \in Int, val[c + 1] \in Nat,
         sl[c + 1] = IF Hits(a, 4) THEN Rel(a) ELSE -1,
         Hits(a, 4) => Rel(a) \in 0 .. (WLen - 4),
         \A j \in 1 .. c : \A o \in 0 .. (WLen - 1) :
           Covers(sl, j, o) /\ Covers(sl, c + 1, o) => sl[j] = sl[c + 1] /\ val[j] = val[c + 1]
  PROVE Written(StoreWord(m, a, val[c + 1]), sl, val, c + 1)
  <1> DEFINE s == sl[c + 1]
             v == val[c + 1]
             m2 == StoreWord(m, a, v)
             M == 0 .. (WLen - 1)
  <1>1. m \in Memory /\ DOMAIN m = M
    BY DEF Written, Memory
  <1>2. m2 \in Memory
    BY <1>1, StoreIsMemory
  <1>3. ASSUME NEW o \in M, Covers(sl, c + 1, o) PROVE m2[o] = ByteOf(v, o - s)
    <2>1. Hits(a, 4) /\ s = Rel(a) /\ o \in s .. (s + 3)
      BY <1>3 DEF Covers
    <2>2. m2 = PutWord(m, s, v)
      BY <2>1 DEF StoreWord
    <2> HIDE DEF s, v, m2
    <2>3. m2[o] = IF o \in s .. (s + 3) THEN ByteOf(v, o - s) ELSE m[o]
      BY <1>1, <2>2 DEF PutWord
    <2> QED BY <2>1, <2>3
  <1>4. ASSUME NEW o \in M, ~Covers(sl, c + 1, o) PROVE m2[o] = m[o]
    <2>1. CASE Hits(a, 4)
      <3>1. s = Rel(a) /\ s # -1
        BY <2>1
      <3>2. m2 = PutWord(m, s, v) /\ o \notin s .. (s + 3)
        BY <1>4, <2>1, <3>1 DEF StoreWord, Covers
      <3> HIDE DEF s, v, m2
      <3>3. m2[o] = IF o \in s .. (s + 3) THEN ByteOf(v, o - s) ELSE m[o]
        BY <1>1, <3>2 DEF PutWord
      <3> QED BY <3>2, <3>3
    <2>2. CASE ~Hits(a, 4)
      BY <2>2 DEF StoreWord
    <2> QED BY <2>1, <2>2
  <1> HIDE DEF m2
  <1>5. \A j \in 1 .. (c + 1) : j = c + 1 \/ j \in 1 .. c
    OBVIOUS
  <1>6. ASSUME NEW o \in M, NEW j \in 1 .. (c + 1), Covers(sl, j, o)
        PROVE m2[o] = ByteOf(val[j], o - sl[j])
    <2>1. CASE j = c + 1
      BY <1>3, <1>6, <2>1
    <2>2. CASE j \in 1 .. c
      <3>1. CASE Covers(sl, c + 1, o)
        <4>1. sl[j] = s /\ val[j] = v
          BY <1>6, <2>2, <3>1
        <4>2. m2[o] = ByteOf(v, o - s)
          BY <1>3, <3>1
        <4> QED BY <4>1, <4>2
      <3>2. CASE ~Covers(sl, c + 1, o)
        <4>1. m[o] = ByteOf(val[j], o - sl[j])
          BY <1>6, <2>2 DEF Written
        <4>2. m2[o] = m[o]
          BY <1>4, <3>2
        <4> QED BY <4>1, <4>2
      <3> QED BY <3>1, <3>2
    <2> QED BY <1>5, <2>1, <2>2
  <1>7. ASSUME NEW o \in M, \A j \in 1 .. (c + 1) : ~Covers(sl, j, o) PROVE m2[o] = mem[o]
    <2>1. c + 1 \in 1 .. (c + 1) /\ \A j \in 1 .. c : j \in 1 .. (c + 1)
      OBVIOUS
    <2>2. ~Covers(sl, c + 1, o) /\ \A j \in 1 .. c : ~Covers(sl, j, o)
      BY <1>7, <2>1
    <2>3. m[o] = mem[o]
      BY <2>2 DEF Written
    <2> QED BY <1>4, <2>2, <2>3
  <1>8. Written(m2, sl, val, c + 1)
    BY <1>2, <1>6, <1>7 DEF Written
  <1> QED BY <1>8 DEF m2

\* Slots whose depths are a word apart share no byte, round the end of the address
\* space too.
LEMMA SlotsApart ==
  ASSUME NEW R \in Int, NEW M \in Int, NEW W \in Int, NEW s \in Int, NEW d1 \in 4 .. s, NEW d2 \in 4 .. s,
         s <= W, W < M, d1 + 4 <= d2, NEW s1, NEW s2, s1 = R - d1 \/ s1 = R - d1 + M,
         s2 = R - d2 \/ s2 = R - d2 + M, NEW o \in Int, o \in s1 .. (s1 + 3), o \in s2 .. (s2 + 3)
  PROVE FALSE
  <1>1. CASE s1 = R - d1
    BY <1>1
  <1>2. CASE s1 = R - d1 + M
    BY <1>2
  <1> QED BY <1>1, <1>2

\* The offsets and addresses of a frame op's slots below top.
DepthOf(rg, c) == Depth(w.rs1, RankOf(rg[c]))
SlotsOf(top, rg, cnt) == [c \in 1 .. cnt |-> Slot(top, DepthOf(rg, c))]

\* What a frame op saves or restores there.
LEMMA FramedRegs ==
  ASSUME Ready, NEW cnt, NEW rg, NEW off, Framed(cnt, rg, off), NEW c \in 1 .. cnt
  PROVE /\ RankReg[RankOf(rg[c]) + 1] = rg[c] /\ rg[c] \in Regs /\ rg[c] # 0 /\ rg[c] # SpReg
        /\ DepthOf(rg, c) \in Int /\ off[c] = w.imm - DepthOf(rg, c) /\ DepthOf(rg, c) \in 4 .. SaveSpan
  <1> DEFINE d == DepthOf(rg, c)
             r == RankOf(rg[c])
  <1>1. r \in w.rs1 /\ w.rs1 \in SUBSET Ranks /\ off[c] = w.imm - d
    BY DEF Framed, DepthOf
  <1>2. r \in Ranks /\ RegistersFit
    BY <1>1 DEF Ready
  <1>3. RankReg[r + 1] = rg[c] /\ rg[c] \in Regs /\ rg[c] # 0 /\ rg[c] # SpReg
    BY <1>2, RankedIs
  <1>4. d \in 4 .. SaveSpan
    BY <1>1, DepthBounds DEF DepthOf
  <1>5. d \in Int
    <2>1. Len(RankReg) \in Nat
      BY MachineAssumption
    <2>2. SaveSpan \in Int
      BY <2>1 DEF SaveSpan
    <2> QED BY <1>4, <2>2
  <1> QED BY <1>1, <1>3, <1>4, <1>5

\* Where a register is saved, by its place in the mask.
LEMMA FramedSlots ==
  ASSUME Ready, BandFits, NEW top \in Int, NEW cnt, NEW rg, NEW off, Framed(cnt, rg, off),
         NEW c \in 1 .. cnt
  PROVE LET a == Wrap(top - DepthOf(rg, c))
            sl == SlotsOf(top, rg, cnt)
        IN /\ RankReg[RankOf(rg[c]) + 1] = rg[c] /\ rg[c] \in Regs /\ rg[c] # 0 /\ rg[c] # SpReg
           /\ DepthOf(rg, c) \in Int /\ off[c] = w.imm - DepthOf(rg, c) /\ a \in Int /\ sl[c] \in Int
           /\ sl[c] = Slot(top, DepthOf(rg, c)) /\ sl[c] = IF Hits(a, 4) THEN Rel(a) ELSE -1
           /\ Hits(a, 4) => Rel(a) \in 0 .. (WLen - 4)
           /\ sl[c] # -1 => sl[c] = Rel(top) - DepthOf(rg, c) \/ sl[c] = Rel(top) - DepthOf(rg, c) + AddrMod
           /\ DepthOf(rg, c) \in 4 .. SaveSpan /\ Rel(top) \in Int
  <1> DEFINE d == DepthOf(rg, c)
             a == Wrap(top - d)
             sl == SlotsOf(top, rg, cnt)
             r == RankOf(rg[c])
  <1>1. /\ RankReg[r + 1] = rg[c] /\ rg[c] \in Regs /\ rg[c] # 0 /\ rg[c] # SpReg
        /\ d \in Int /\ off[c] = w.imm - d /\ d \in 4 .. SaveSpan
    BY FramedRegs
  <1>6. sl[c] = Slot(top, d)
    BY DEF SlotsOf
  <1> HIDE DEF d, sl, r
  <1>7. /\ a \in Int /\ Rel(a) \in Nat /\ Rel(top) \in Nat
        /\ Slot(top, d) = IF Hits(a, 4) THEN Rel(a) ELSE -1
        /\ Hits(a, 4) => Rel(a) \in 0 .. (WLen - 4)
        /\ Rel(a) = Rel(top) - d \/ Rel(a) = Rel(top) - d + AddrMod
    BY <1>1, SlotFacts
  <1> HIDE DEF a
  <1>8. sl[c] \in Int /\ (sl[c] # -1 => sl[c] = Rel(top) - d \/ sl[c] = Rel(top) - d + AddrMod)
    BY <1>6, <1>7
  <1> QED BY <1>1, <1>6, <1>7, <1>8 DEF d, a, sl, r

\* Slots that share a byte are the same register's.
LEMMA FramedApart ==
  ASSUME Ready, BandFits, NEW top \in Int, NEW cnt, NEW rg, NEW off, Framed(cnt, rg, off),
         NEW i \in 1 .. cnt, NEW j \in 1 .. cnt, NEW o \in Int,
         Covers(SlotsOf(top, rg, cnt), i, o), Covers(SlotsOf(top, rg, cnt), j, o)
  PROVE rg[i] = rg[j]
  <1> DEFINE sl == SlotsOf(top, rg, cnt)
             ri == RankOf(rg[i])
             rj == RankOf(rg[j])
             R == Rel(top)
             s == SaveSpan
             di == DepthOf(rg, i)
             dj == DepthOf(rg, j)
             si == sl[i]
             sj == sl[j]
  <1>1. /\ RankReg[ri + 1] = rg[i] /\ di \in 4 .. s /\ R \in Int /\ si \in Int
        /\ si # -1 => si = R - di \/ si = R - di + AddrMod
    BY FramedSlots
  <1>2. /\ RankReg[rj + 1] = rg[j] /\ dj \in 4 .. s /\ sj \in Int
        /\ sj # -1 => sj = R - dj \/ sj = R - dj + AddrMod
    BY FramedSlots
  <1>3. si # -1 /\ sj # -1 /\ o \in si .. (si + 3) /\ o \in sj .. (sj + 3)
    BY DEF Covers
  <1>4. s \in Int /\ WLen \in Int /\ AddrMod \in Int /\ s <= WLen /\ WLen < AddrMod
    <2>1. Len(RankReg) \in Nat
      BY MachineAssumption
    <2> QED BY <2>1, WritableAssumption, WordFacts DEF SaveSpan, BandFits
  <1>5. ri \in w.rs1 /\ rj \in w.rs1 /\ w.rs1 \in SUBSET Ranks /\ ri \in Int /\ rj \in Int
    <2>1. ri \in w.rs1 /\ rj \in w.rs1 /\ w.rs1 \in SUBSET Ranks
      BY DEF Framed
    <2>2. Ranks \subseteq Int
      BY MachineAssumption DEF Ranks
    <2> QED BY <2>1, <2>2
  <1>6. CASE ri < rj
    <2>1. di + 4 <= dj
      BY <1>5, <1>6, DepthsApart DEF DepthOf
    <2> HIDE DEF sl, R, s, di, dj, si, sj
    <2> QED BY <1>1, <1>2, <1>3, <1>4, <2>1, SlotsApart
  <1>7. CASE rj < ri
    <2>1. dj + 4 <= di
      BY <1>5, <1>7, DepthsApart DEF DepthOf
    <2> HIDE DEF sl, R, s, di, dj, si, sj
    <2> QED BY <1>1, <1>2, <1>3, <1>4, <2>1, SlotsApart
  <1>8. CASE ri = rj
    BY <1>1, <1>2, <1>8
  <1> QED BY <1>5, <1>6, <1>7, <1>8

\* One save of a prologue.
LEMMA SaveRuns ==
  ASSUME Ready, BandFits, NEW h, Here(h), NEW cnt, NEW rg, NEW off, Framed(cnt, rg, off), Saves(h, cnt, rg, off),
         UnitOf(h).width = 1 + cnt, NEW c \in 1 .. cnt, NEW y, NEW m,
         y[SpReg] = Wrap(x[SpReg] - w.imm), \A g \in Regs : g # SpReg => y[g] = x[g]
  PROVE Src!OneMore(Src!At(h + c, y, m))
          = <<Src!At(h + c + 1, y, StoreWord(m, Wrap(x[SpReg] - DepthOf(rg, c)), x[rg[c]]))>>
  <1> DEFINE top == x[SpReg]
             d == DepthOf(rg, c)
             i == h + c
             b == Decode(code, i)
             N == w.imm
  <1>1. b.op = "sw" /\ b.rs1 = SpReg /\ b.rs2 = rg[c] /\ b.imm = off[c]
    BY DEF Saves
  <1>2. top \in Int
    <2>1. SpReg \in Regs
      BY MachineAssumption DEF Regs
    <2>2. top \in Word
      BY <2>1 DEF Ready, Words
    <2> QED BY <2>2, WrapFacts
  <1>3. rg[c] \in Regs /\ rg[c] # SpReg /\ d \in Int /\ off[c] = N - d
    BY FramedRegs
  <1>4. N \in Int /\ cnt \in Nat
    BY FramedCount DEF Framed
  <1>5. h \in Nat /\ h \in DOMAIN code
    BY AtHead
  <1>6. i \in DOMAIN code /\ Src!Instruction(i) = b
    <2>1. i \in (h + 1) .. (h + UnitOf(h).width - 1)
      BY <1>4, <1>5
    <2> QED BY <2>1, InnerIs
  <1>7. Src!OneMore(Src!At(i, y, m)) = <<Src!Effect(Src!At(i, y, m), b)>>
    <2>1. b.op \notin Traps \cup {"nop"} /\ Layout
      BY <1>1 DEF Traps, Ready, Running
    <2> HIDE DEF b, i
    <2>2. Src!OneMore(Src!At(i, y, m)) = <<Src!Effect(Src!At(i, y, m), Src!Instruction(i))>>
      BY <1>6, <2>1, OneStep DEF b
    <2> QED BY <1>6, <2>2
  <1>8. Src!Effect(Src!At(i, y, m), b) = Src!At(i + 1, y, StoreWord(m, Wrap(y[b.rs1] + b.imm), y[b.rs2]))
    <2> HIDE DEF b, i
    <2> QED BY <1>1, EffectIs
  <1>9. Wrap(y[b.rs1] + b.imm) = Wrap(top - d)
    <2> DEFINE t == top - N
               e == N - d
    <2>1. t \in Int /\ e \in Int /\ t + e = top - d
      <3> HIDE DEF top, N, d
      <3> QED BY <1>2, <1>3, <1>4
    <2>2. y[b.rs1] = Wrap(t) /\ b.imm = e
      BY <1>1, <1>3
    <2> HIDE DEF t, e
    <2>3. Wrap(Wrap(t) + e) = Wrap(t + e)
      BY <2>1, WrapSum
    <2> QED BY <2>1, <2>2, <2>3
  <1>10. y[b.rs2] = x[rg[c]]
    BY <1>1, <1>3
  <1> QED BY <1>7, <1>8, <1>9, <1>10

\* The buffer after all saves is the op's.
LEMMA SavedIs ==
  ASSUME Ready, BandFits, Prologue, NEW cnt, NEW rg, NEW off, Framed(cnt, rg, off), NEW m,
         Written(m, SlotsOf(x[SpReg], rg, cnt), [c \in 1 .. cnt |-> x[rg[c]]], cnt)
  PROVE m = mem'
  <1> DEFINE sp0 == x[SpReg]
             slot(r) == Slot(sp0, Depth(w.rs1, r))
             covers(r, o) == slot(r) # -1 /\ o \in slot(r) .. (slot(r) + 3)
             q(o) == CHOOSE r \in w.rs1 : covers(r, o)
             sl == SlotsOf(sp0, rg, cnt)
             val == [c \in 1 .. cnt |-> x[rg[c]]]
             M == 0 .. (WLen - 1)
  <1>1. mem' = [o \in DOMAIN mem |->
                  IF \E r \in w.rs1 : covers(r, o)
                    THEN ByteOf(x[RankReg[q(o) + 1]], o - slot(q(o))) ELSE mem[o]]
    BY DEF Prologue
  <1>2. m \in Memory /\ DOMAIN m = M /\ DOMAIN mem = M /\ m = [o \in M |-> m[o]]
    BY DEF Written, Memory, Ready, Words
  <1>3. \A c \in 1 .. cnt : sl[c] = slot(RankOf(rg[c])) /\ RankReg[RankOf(rg[c]) + 1] = rg[c] /\ val[c] = x[rg[c]]
    <2> TAKE c \in 1 .. cnt
    <2>1. RankReg[RankOf(rg[c]) + 1] = rg[c]
      BY FramedRegs
    <2> QED BY <2>1 DEF SlotsOf, DepthOf
  <1> HIDE DEF sl, val, slot
  <1>4. \A r \in w.rs1 : \E c \in 1 .. cnt : RankOf(rg[c]) = r
    BY DEF Framed
  <1>5. \A c \in 1 .. cnt : RankOf(rg[c]) \in w.rs1
    BY DEF Framed
  <1>6. \A c \in 1 .. cnt : \A o \in M : Covers(sl, c, o) <=> covers(RankOf(rg[c]), o)
    BY <1>3 DEF Covers
  <1>7. Written(m, sl, val, cnt)
    BY DEF sl, val
  <1>8. ASSUME NEW o \in M, \E r \in w.rs1 : covers(r, o)
        PROVE m[o] = ByteOf(x[RankReg[q(o) + 1]], o - slot(q(o)))
    <2> DEFINE r == q(o)
    <2>1. r \in w.rs1 /\ covers(r, o)
      <3> HIDE DEF covers
      <3> QED BY <1>8
    <2> HIDE DEF r
    <2>2. PICK c \in 1 .. cnt : RankOf(rg[c]) = r
      BY <1>4, <2>1
    <2>3. Covers(sl, c, o)
      BY <1>6, <2>1, <2>2
    <2>4. m[o] = ByteOf(val[c], o - sl[c])
      BY <1>7, <2>3 DEF Written
    <2>5. val[c] = x[RankReg[r + 1]] /\ sl[c] = slot(r)
      BY <1>3, <2>2
    <2>6. m[o] = ByteOf(x[RankReg[r + 1]], o - slot(r))
      BY <2>4, <2>5
    <2> QED BY <2>6 DEF r
  <1>9. ASSUME NEW o \in M, ~\E r \in w.rs1 : covers(r, o) PROVE m[o] = mem[o]
    <2>1. \A c \in 1 .. cnt : ~Covers(sl, c, o)
      BY <1>5, <1>6, <1>9
    <2> QED BY <1>7, <2>1 DEF Written
  <1> HIDE DEF covers, q
  <1> DEFINE new(o) == IF \E r \in w.rs1 : covers(r, o)
                         THEN ByteOf(x[RankReg[q(o) + 1]], o - slot(q(o))) ELSE mem[o]
  <1>10. \A o \in M : m[o] = new(o)
    BY <1>8, <1>9
  <1>11. mem' = [o \in M |-> new(o)]
    BY <1>1, <1>2
  <1> HIDE DEF new
  <1> QED BY <1>2, <1>10, <1>11

\* One slot, where the instruction it stands for goes.
LEMMA FramedSlot ==
  ASSUME Ready, BandFits, NEW top \in Int, NEW cnt, NEW rg, NEW off, Framed(cnt, rg, off), NEW c \in 1 .. cnt
  PROVE LET a == Wrap(top - DepthOf(rg, c))
            s == SlotsOf(top, rg, cnt)[c]
        IN /\ rg[c] \in Regs /\ a \in Int /\ s = IF Hits(a, 4) THEN Rel(a) ELSE -1
           /\ Hits(a, 4) => Rel(a) \in 0 .. (WLen - 4)
  <1> DEFINE d == DepthOf(rg, c)
             a == Wrap(top - d)
             sl == SlotsOf(top, rg, cnt)
  <1>1. rg[c] \in Regs /\ d \in 4 .. SaveSpan
    BY FramedRegs
  <1>2. sl[c] = Slot(top, d)
    BY DEF SlotsOf
  <1> HIDE DEF d, sl
  <1>3. /\ a \in Int /\ Slot(top, d) = IF Hits(a, 4) THEN Rel(a) ELSE -1
        /\ Hits(a, 4) => Rel(a) \in 0 .. (WLen - 4)
    BY <1>1, SlotFacts
  <1> HIDE DEF a
  <1>4. rg[c] \in Regs /\ a \in Int /\ (sl[c] = IF Hits(a, 4) THEN Rel(a) ELSE -1)
        /\ (Hits(a, 4) => Rel(a) \in 0 .. (WLen - 4))
    BY <1>1, <1>2, <1>3
  <1> QED BY ONLY <1>4 DEF d, a, sl

\* PROLOGUE is its addi and its stores, one by one: also where the frame leaves the buffer.
LEMMA PrologueRefines ==
  ASSUME Ready, BandFits, NEW h, Here(h), Prologue
  PROVE Src!Next /\ Words'
  <1>1. /\ w.op = "PROLOGUE" /\ SetX(SpReg, Wrap(x[SpReg] - w.imm)) /\ GoOn(1, Cardinality(w.rs1) + 1)
        /\ UNCHANGED <<code, ext, tc, max>>
    BY DEF Prologue, Op
  <1>2. PICK cnt, rg, off : Framed(cnt, rg, off) /\ Saves(h, cnt, rg, off) /\ UnitOf(h).width = 1 + cnt
    BY <1>1, PrologueIs
  <1> DEFINE top == x[SpReg]
             N == w.imm
             v == Wrap(top - N)
             y == PutReg(x, SpReg, v)
             s == Src!At(h, x, mem)
             sl == SlotsOf(top, rg, cnt)
             val == [c \in 1 .. cnt |-> x[rg[c]]]
             Runs(c) == \E m : Written(m, sl, val, c) /\ Src!Runs(s, c + 1) = <<Src!At(h + c + 1, y, m)>>
             E == {c \in 0 .. cnt : Runs(c)}
  <1>3. cnt \in 1 .. Len(RankReg) /\ cnt \in Nat /\ N \in Int /\ Cardinality(w.rs1) = cnt /\ Len(RankReg) \in Nat
    BY <1>2, FramedCount DEF Framed
  <1>4. SpReg \in Regs /\ SpReg # 0 /\ top \in Int /\ top - N \in Int /\ v \in Word
    <2>1. SpReg \in Regs /\ SpReg # 0
      BY MachineAssumption DEF Regs, SpReg
    <2>2. top \in Word
      BY <2>1 DEF Ready, Words
    <2>3. top \in Int
      BY <2>2, WrapFacts
    <2>4. top - N \in Int
      <3> HIDE DEF top, N
      <3> QED BY <1>3, <2>3
    <2>5. v \in Word
      <3> DEFINE e == top - N
      <3> HIDE DEF e
      <3> QED BY <2>4, WrapFacts DEF e
    <2> QED BY <2>1, <2>3, <2>4, <2>5
  <1>5. x' = y /\ y[SpReg] = v /\ (\A g \in Regs : g # SpReg => y[g] = x[g]) /\ y \in [Regs -> Word] /\ y[0] = 0
    <2> HIDE DEF v
    <2>1. x' = y
      BY <1>1, <1>4 DEF SetX, PutReg, v
    <2>2. y[SpReg] = v /\ (\A g \in Regs : g # SpReg => y[g] = x[g])
      BY <1>4, PutTwice DEF Ready
    <2>3. y \in [Regs -> Word] /\ y[0] = 0
      BY <1>4, LinkKeepsWords DEF Ready
    <2> QED BY <2>1, <2>2, <2>3
  <1>6. h \in Nat /\ h \in DOMAIN code /\ Src!Instruction(h) = Decode(code, h) /\ OpWords(UnitOf(h).op) = 1
    <2>1. w.op \in Fused
      BY <1>1 DEF Fused
    <2> QED BY <2>1, FusedIs
  <1>7. 0 \in E
    <2> DEFINE a == Decode(code, h)
               i == h + 1
    <2>1. a.op = "addi" /\ a.rd = SpReg /\ a.rs1 = SpReg /\ a.imm \in Int /\ N = 0 - a.imm
      BY <1>2 DEF Saves
    <2>2. Src!OneMore(s) = <<Src!Effect(s, a)>>
      <3>1. a.op \notin Traps \cup {"nop"} /\ Layout
        BY <2>1 DEF Traps, Ready, Running
      <3> HIDE DEF a
      <3>2. Src!OneMore(s) = <<Src!Effect(s, Src!Instruction(h))>>
        BY <1>6, <3>1, OneStep DEF a
      <3> QED BY <1>6, <3>2 DEF a
    <2>3. Src!Effect(s, a) = Src!At(i, y, mem)
      <3>1. Src!Effect(s, a) = Src!At(h + 1, PutReg(x, a.rd, Wrap(x[a.rs1] + a.imm)), mem)
        <4> HIDE DEF a
        <4> QED BY <2>1, EffectIs
      <3>2. x[a.rs1] + a.imm = top - N
        <4> HIDE DEF N
        <4>1. x[a.rs1] = top
          BY <2>1
        <4> HIDE DEF top, a
        <4> QED BY <1>4, <2>1, <4>1
      <3> HIDE DEF a, N, top
      <3>3. PutReg(x, a.rd, Wrap(x[a.rs1] + a.imm)) = y
        BY <2>1, <3>2
      <3> HIDE DEF y
      <3> QED BY <3>1, <3>3
    <2>4. Src!Runs(s, 1) = <<Src!At(i, y, mem)>>
      <3> HIDE DEF s, y, a, i
      <3> QED BY <2>2, <2>3, RunsOne
    <2>5. Written(mem, sl, val, 0)
      <3> HIDE DEF sl, val
      <3> QED BY DEF Written, Ready, Words
    <2>6. 0 + 1 = 1 /\ h + 0 + 1 = i /\ 0 \in 0 .. cnt
      BY <1>3, <1>6
    <2> HIDE DEF s, y, sl, val, i
    <2> QED BY <2>4, <2>5, <2>6
  <1> HIDE DEF s, y, v
  <1>8. ASSUME NEW c \in 1 .. cnt, c - 1 \in E PROVE c \in E
    <2> DEFINE b == c - 1
               d == DepthOf(rg, c)
               a == Wrap(top - d)
    <2>1. PICK m : Written(m, sl, val, b) /\ Src!Runs(s, b + 1) = <<Src!At(h + b + 1, y, m)>>
      BY <1>8
    <2>2. b \in Nat /\ b + 1 = c /\ h + b + 1 = h + c /\ c \in Nat
      BY <1>3, <1>6
    <2>3. /\ rg[c] \in Regs /\ a \in Int /\ sl[c] = IF Hits(a, 4) THEN Rel(a) ELSE -1
          /\ Hits(a, 4) => Rel(a) \in 0 .. (WLen - 4)
      <3>1. Framed(cnt, rg, off) /\ top \in Int /\ Ready /\ BandFits /\ c \in 1 .. cnt
        BY <1>2, <1>4
      <3> HIDE DEF top
      <3> QED BY ONLY <3>1, FramedSlot
    <2>4. val[c] = x[rg[c]] /\ val[c] \in Nat
      <3>1. val[c] = x[rg[c]]
        OBVIOUS
      <3> HIDE DEF val
      <3>2. x[rg[c]] \in Word
        BY <2>3 DEF Ready, Words
      <3> QED BY <3>1, <3>2, WrapFacts
    <2>5. \A j \in 1 .. b : \A o \in 0 .. (WLen - 1) :
            Covers(sl, j, o) /\ Covers(sl, c, o) => sl[j] = sl[c] /\ val[j] = val[c]
      <3> SUFFICES ASSUME NEW j \in 1 .. b, NEW o \in 0 .. (WLen - 1), Covers(sl, j, o), Covers(sl, c, o)
                   PROVE sl[j] = sl[c] /\ val[j] = val[c]
        OBVIOUS
      <3>1. j \in 1 .. cnt /\ o \in Int
        BY <1>3, <2>2, WritableAssumption, WordFacts
      <3>2. rg[j] = rg[c]
        BY <1>2, <1>4, <3>1, FramedApart
      <3> QED BY <3>1, <3>2 DEF SlotsOf, DepthOf
    <2>6. Src!Runs(s, c + 1) = Src!OneMore(Src!At(h + c, y, m))
      <3>1. Src!Runs(s, c) = <<Src!At(h + c, y, m)>>
        BY <2>1, <2>2
      <3> QED BY <2>2, <3>1, RunsMore
    <2>7. Src!OneMore(Src!At(h + c, y, m)) = <<Src!At(h + c + 1, y, StoreWord(m, a, x[rg[c]]))>>
      <3>1. y[SpReg] = Wrap(x[SpReg] - w.imm)
        BY <1>5 DEF v
      <3> HIDE DEF E, sl, val
      <3> QED BY <1>2, <1>5, <3>1, SaveRuns
    <2> DEFINE m2 == StoreWord(m, a, val[c])
    <2>8. Written(m2, sl, val, c)
      <3> HIDE DEF a, sl, val
      <3>1. Written(StoreWord(m, a, val[b + 1]), sl, val, b + 1)
        <4>1. /\ val[b + 1] \in Nat /\ sl[b + 1] = IF Hits(a, 4) THEN Rel(a) ELSE -1
              /\ \A j \in 1 .. b : \A o \in 0 .. (WLen - 1) :
                   Covers(sl, j, o) /\ Covers(sl, b + 1, o) => sl[j] = sl[b + 1] /\ val[j] = val[b + 1]
          BY <2>2, <2>3, <2>4, <2>5
        <4> HIDE DEF b
        <4> QED BY <2>1, <2>2, <2>3, <4>1, SaveWrites
      <3> QED BY <2>2, <3>1
    <2>9. Src!Runs(s, c + 1) = <<Src!At(h + c + 1, y, m2)>>
      <3> HIDE DEF a, val
      <3> QED BY <2>4, <2>6, <2>7
    <2> HIDE DEF m2, sl, val
    <2> QED BY <2>8, <2>9
  <1>9. cnt \in E
    <2>1. 0 .. cnt \subseteq E
      <3> HIDE DEF E
      <3> QED BY <1>3, <1>7, <1>8, UpTo
    <2>2. cnt \in 0 .. cnt
      BY <1>3
    <2> HIDE DEF E
    <2> QED BY <2>1, <2>2
  <1>10. PICK m : Written(m, sl, val, cnt) /\ Src!Runs(s, cnt + 1) = <<Src!At(h + cnt + 1, y, m)>>
    BY <1>9
  <1>11. m = mem'
    BY <1>2, <1>10, SavedIs
  <1>12. Words'
    <2>1. mem' \in Memory
      BY <1>10, <1>11 DEF Written
    <2> QED BY <1>5, <2>1 DEF Words
  <1> DEFINE e == cnt + 1
             o == 1
  <1>13. Src!Runs(Src!At(h, x, mem), e) = <<Src!At(h + e, x', mem')>>
    <2>1. h + cnt + 1 = h + e
      BY <1>3, <1>6
    <2>2. Src!At(h + e, y, m) = Src!At(h + e, x', mem')
      BY <1>5, <1>11 DEF Src!At
    <2> QED BY <1>10, <2>1, <2>2 DEF s
  <1>14. e \in 1 .. MaxUnit /\ e \in Nat /\ e = UnitOf(h).width
    BY <1>2, <1>3 DEF Ready, StepsFit
  <1>15. e = Src!Charge(h, e)
    <2>1. Decode(code, h).op = "addi"
      BY <1>2 DEF Saves
    <2> QED BY <2>1, SameOps DEF Src!Charge
  <1>16. GoOn(o, e) /\ o = OpWords(UnitOf(h).op) /\ Running /\ UNCHANGED <<code, ext, tc, max>>
    BY <1>1, <1>3, <1>6 DEF Ready
  <1> HIDE DEF e, o
  <1>17. Src!Next
    BY <1>13, <1>14, <1>15, <1>16, GoOnAdvances
  <1> QED BY <1>12, <1>17

\* The instructions an epilogue stands for.
Restores(h, cnt, rg, off) ==
  LET l(c) == Decode(code, h + (c - 1))
      ad == Decode(code, h + cnt)
      rt == Decode(code, h + cnt + 1)
  IN /\ \A c \in 1 .. cnt : l(c).op = "lw" /\ l(c).rs1 = SpReg /\ l(c).rd = rg[c] /\ l(c).imm = off[c]
     /\ ad.op = "addi" /\ ad.rd = SpReg /\ ad.rs1 = SpReg /\ ad.imm = w.imm
     /\ rt.op = "jalr" /\ rt.rd = 0 /\ rt.rs1 = RaReg /\ rt.imm = 0

\* What an EPILOGUE was made from.
LEMMA EpilogueIs ==
  ASSUME Ready, NEW h, Here(h), w.op = "EPILOGUE"
  PROVE \E cnt, rg, off : Framed(cnt, rg, off) /\ Restores(h, cnt, rg, off) /\ UnitOf(h).width = cnt + 2
  <1> DEFINE c == code
             T == Targets
             u == UnitOf(h)
             n == Cardinality(DOMAIN c)
             restore(j) == /\ (j = h \/ j \notin T) /\ Decode(c, j).op = "lw" /\ Decode(c, j).rs1 = SpReg
                           /\ RankOf(Decode(c, j).rd) >= 0
             S == {q \in 0 .. Len(RankReg) : h + q <= n /\ \A j \in h .. (h + q - 1) : restore(j)}
             cnt == CHOOSE q \in S : \A d \in S : d <= q
             o == h + cnt
             ad == Decode(c, o)
             rt == Decode(c, o + 1)
             rg == [q \in 1 .. cnt |-> c[h + q - 1].rd]
             off == [q \in 1 .. cnt |-> c[h + q - 1].imm]
             slots == [q \in 1 .. cnt |-> [reg |-> c[h + q - 1].rd, off |-> c[h + q - 1].imm]]
             R == {slots[q].reg : q \in 1 .. cnt}
             N == c[o].imm
  <1>1. /\ w.op = u.op /\ w.rs1 = u.rs1 /\ w.imm = u.imm /\ h \in DOMAIN c /\ h \in Nat
        /\ Made(c, T, h, u) /\ IsProgram(c) /\ n \in Nat /\ DOMAIN c = 0 .. (n - 1)
        /\ h + u.width <= n
    <2>1. w.op \in Fused
      BY DEF Fused
    <2> QED BY <2>1, FusedIs
  <1>2. u = FuseEpilogue(c, T, h) /\ u.op = "EPILOGUE"
    <2> DEFINE v == u
               a2 == Decode(c, h)
               b2 == Decode(c, h + 1)
    <2>1. v.op = "EPILOGUE" /\ Made(c, T, h, v)
      BY <1>1
    <2>2. "EPILOGUE" \notin BzOps \cup InsnOps
      BY DEF BzOps, InsnOps
    <2> HIDE DEF v
    <2>3. v = FuseEpilogue(c, T, h)
      BY <2>1, <2>2, ZenonT(60) DEF Made
    <2> QED BY <2>1, <2>3 DEF v
  <1>3. /\ cnt > 0 /\ o + 2 <= n /\ ad.op = "addi" /\ ad.rd = SpReg /\ ad.rs1 = SpReg /\ ad.imm \in 1 .. FrameMax
        /\ rt.op = "jalr" /\ rt.rd = 0 /\ rt.rs1 = RaReg /\ rt.imm = 0
        /\ FrameCanonical(slots, ad.imm) /\ u = FrameUnit("EPILOGUE", R, N, cnt + 2)
    <2> DEFINE ok == /\ cnt > 0 /\ o + 2 <= n /\ {o, o + 1} \cap T = {}
                     /\ /\ ad.op = "addi" /\ ad.rd = SpReg /\ ad.rs1 = SpReg /\ ad.imm \in 1 .. FrameMax
                        /\ rt.op = "jalr" /\ rt.rd = 0 /\ rt.rs1 = RaReg /\ rt.imm = 0
                        /\ FrameCanonical(slots, ad.imm)
               fu == FrameUnit("EPILOGUE", R, N, cnt + 2)
    <2>1. u = IF ok THEN fu ELSE NoUnit
      BY <1>2, Zenon DEF FuseEpilogue, RunOf
    <2>2. u.op # NoUnit.op
      BY <1>2, NoUnitFits
    <2> HIDE DEF ok, fu, u
    <2>3. ok /\ u = fu
      BY <2>1, <2>2
    <2> QED BY <2>3 DEF ok, fu
  <1>4. Len(RankReg) \in Nat
    BY MachineAssumption
  <1> HIDE DEF n, u
  <1>5. cnt \in S
    <2>1. h <= n
      BY <1>1
    <2>2. 0 \in S
      BY <1>1, <1>4, <2>1
    <2>3. S \subseteq 0 .. Len(RankReg)
      OBVIOUS
    <2> HIDE DEF S
    <2> QED BY <1>4, <2>2, <2>3, LongestFits
  <1>6. cnt \in 0 .. Len(RankReg) /\ h + cnt <= n /\ \A j \in h .. (h + cnt - 1) : restore(j)
    <2> HIDE DEF cnt
    <2> QED BY <1>4, <1>5
  <1> HIDE DEF S, cnt
  <1>7. cnt \in 1 .. Len(RankReg) /\ cnt \in Nat
    BY <1>3, <1>4, <1>6
  <1>8. ASSUME NEW q \in 1 .. cnt
        PROVE LET d == Decode(c, h + q - 1) IN
                /\ d.op = "lw" /\ d.rs1 = SpReg /\ d.rd = c[h + q - 1].rd /\ d.imm = c[h + q - 1].imm
                /\ d.imm \in Int /\ RankOf(c[h + q - 1].rd) \in Ranks
    <2>1. h + q - 1 \in h .. (h + cnt - 1) /\ h + q - 1 \in DOMAIN c
      BY <1>1, <1>6, <1>7
    <2> DEFINE j == h + q - 1
    <2> HIDE DEF j
    <2>2. restore(j) /\ j \in DOMAIN c
      BY <1>6, <2>1 DEF j
    <2>3. Decode(c, j).rd = c[j].rd /\ Decode(c, j).imm = c[j].imm /\ Decode(c, j).imm \in Int
      BY <1>1, <2>2, DecodeFacts
    <2>4. RankOf(c[j].rd) \in Ranks
      BY <2>2, <2>3, RankIsPlace
    <2> QED BY <2>2, <2>3, <2>4 DEF j
  <1>14. ad.imm = N /\ N \in Int
    <2>1. o \in DOMAIN c
      <3>1. n \in Nat /\ DOMAIN c = 0 .. (n - 1) /\ h \in Nat
        BY <1>1
      <3>2. o + 2 <= n
        BY <1>3
      <3> QED BY ONLY <3>1, <3>2, <1>7
    <2>2. IsProgram(c)
      BY <1>1
    <2> HIDE DEF o
    <2> QED BY ONLY <2>1, <2>2, DecodeFacts
  <1>9. w.rs1 = {RankOf(r) : r \in R} /\ w.imm = N /\ u.width = cnt + 2
    <2> DEFINE e == cnt + 2
    <2>1. u = FrameUnit("EPILOGUE", R, N, e)
      BY <1>3
    <2> HIDE DEF R, N, e
    <2>2. u.rs1 = {RankOf(r) : r \in R} /\ u.imm = N /\ u.width = e
      BY <2>1, FrameUnitIs
    <2> QED BY <1>1, <2>2 DEF e
  <1>10. Framed(cnt, rg, off)
    <2>1. slots = [q \in 1 .. cnt |-> [reg |-> rg[q], off |-> off[q]]]
      OBVIOUS
    <2>2. \A q \in 1 .. cnt : off[q] \in Int /\ RankOf(rg[q]) \in Ranks
      <3>1. \A q \in 1 .. cnt : rg[q] = c[h + q - 1].rd /\ off[q] = c[h + q - 1].imm
        OBVIOUS
      <3> HIDE DEF rg, off
      <3> QED BY <1>8, <3>1
    <2>3. w.imm \in Int /\ FrameCanonical(slots, w.imm)
      <3> HIDE DEF N, slots, ad
      <3> QED BY <1>3, <1>9, <1>14
    <2>4. {RankOf(r) : r \in R} = {RankOf(slots[q].reg) : q \in 1 .. cnt}
      OBVIOUS
    <2> HIDE DEF rg, off, slots, R
    <2>5. w.rs1 = {RankOf(slots[q].reg) : q \in 1 .. cnt}
      BY <1>9, <2>4
    <2> QED BY <1>7, <2>1, <2>2, <2>3, <2>5, CanonicalFramed
  <1>11. Restores(h, cnt, rg, off)
    <2>1. \A q \in 1 .. cnt : rg[q] = c[h + q - 1].rd /\ off[q] = c[h + q - 1].imm
      OBVIOUS
    <2> HIDE DEF rg, off
    <2>2. \A q \in 1 .. cnt : LET d == Decode(c, h + (q - 1)) IN
            d.op = "lw" /\ d.rs1 = SpReg /\ d.rd = rg[q] /\ d.imm = off[q]
      BY <1>8, <2>1
    <2>3. ad.imm = w.imm
      BY <1>9, <1>14
    <2>4. /\ ad.op = "addi" /\ ad.rd = SpReg /\ ad.rs1 = SpReg
          /\ rt.op = "jalr" /\ rt.rd = 0 /\ rt.rs1 = RaReg /\ rt.imm = 0
      BY <1>3
    <2>5. o + 1 = h + cnt + 1
      BY <1>1, <1>7
    <2> QED BY <2>2, <2>3, <2>4, <2>5 DEF Restores
  <1> HIDE DEF rg, off
  <1> QED BY <1>9, <1>10, <1>11 DEF u

\* The word an epilogue restores a register from.
SavedWord(top, rg, c) == LoadWord(mem, Wrap(top - DepthOf(rg, c)))

\* The registers after the restores up to c.
Loaded(y, top, rg, c) ==
  /\ y \in [Regs -> Word] /\ y[0] = 0 /\ y[SpReg] = x[SpReg]
  /\ \A j \in 1 .. c : y[rg[j]] = SavedWord(top, rg, j)
  /\ \A g \in Regs : (\A j \in 1 .. c : rg[j] # g) => y[g] = x[g]

\* A frame top is a word.
LEMMA FrameTopIs ==
  ASSUME Ready, NEW cnt, NEW rg, NEW off, Framed(cnt, rg, off)
  PROVE /\ SpReg \in Regs /\ SpReg # 0 /\ RaReg \in Regs /\ x[SpReg] \in Word /\ x[SpReg] \in Int /\ w.imm \in Int
        /\ Wrap(x[SpReg] + w.imm) \in Word /\ Wrap(x[SpReg] + w.imm) \in Int
  <1> DEFINE a == x[SpReg]
             N == w.imm
             e == a + N
  <1>1. SpReg \in Regs /\ SpReg # 0 /\ RaReg \in Regs /\ N \in Int
    BY MachineAssumption DEF Regs, SpReg, RaReg, Framed
  <1>2. a \in Word
    BY <1>1 DEF Ready, Words
  <1>3. a \in Int
    BY <1>2, WrapFacts
  <1> HIDE DEF a, N
  <1>4. e \in Int
    BY <1>1, <1>3
  <1> HIDE DEF e
  <1>5. Wrap(e) \in Word
    BY <1>4, WrapFacts
  <1>6. Wrap(e) \in Int
    BY <1>5, WrapFacts
  <1> QED BY <1>1, <1>2, <1>3, <1>5, <1>6 DEF a, N, e

\* One restore of an epilogue.
LEMMA RestoreRuns ==
  ASSUME Ready, BandFits, NEW h, Here(h), NEW cnt, NEW rg, NEW off, Framed(cnt, rg, off), Restores(h, cnt, rg, off),
         w.op = "EPILOGUE", UnitOf(h).width = cnt + 2, NEW b \in 0 .. (cnt - 1), NEW y, y[SpReg] = x[SpReg]
  PROVE Src!OneMore(Src!At(h + b, y, mem))
          = <<Src!At(h + b + 1, PutReg(y, rg[b + 1], SavedWord(Wrap(x[SpReg] + w.imm), rg, b + 1)), mem)>>
  <1> DEFINE c == b + 1
             sp == x[SpReg]
             N == w.imm
             top == Wrap(sp + N)
             d == DepthOf(rg, c)
             i == h + b
             l == Decode(code, i)
  <1>1. cnt \in Nat /\ b \in Nat /\ c \in 1 .. cnt /\ c - 1 = b
    BY FramedCount
  <1>2. l.op = "lw" /\ l.rs1 = SpReg /\ l.rd = rg[c] /\ l.imm = off[c]
    BY <1>1 DEF Restores
  <1>3. rg[c] \in Regs /\ rg[c] # SpReg /\ d \in Int /\ off[c] = N - d
    BY <1>1, FramedRegs
  <1>4. sp \in Int /\ N \in Int
    BY FrameTopIs
  <1>5. h \in Nat /\ h \in DOMAIN code /\ Src!Instruction(h) = Decode(code, h)
    <2>1. w.op \in Fused
      BY DEF Fused
    <2> QED BY <2>1, FusedIs
  <1>6. i \in DOMAIN code /\ Src!Instruction(i) = l
    <2>1. CASE b = 0
      <3>1. i = h
        BY <1>5, <2>1
      <3> HIDE DEF i
      <3> QED BY <1>5, <3>1
    <2>2. CASE b # 0
      <3>1. i \in (h + 1) .. (h + UnitOf(h).width - 1)
        BY <1>1, <1>5, <2>2
      <3> QED BY <3>1, InnerIs
    <2> QED BY <2>1, <2>2
  <1>7. Src!OneMore(Src!At(i, y, mem)) = <<Src!Effect(Src!At(i, y, mem), l)>>
    <2>1. l.op \notin Traps \cup {"nop"} /\ Layout
      BY <1>2 DEF Traps, Ready, Running
    <2> HIDE DEF l, i
    <2>2. Src!OneMore(Src!At(i, y, mem)) = <<Src!Effect(Src!At(i, y, mem), Src!Instruction(i))>>
      BY <1>6, <2>1, OneStep DEF l
    <2> QED BY <1>6, <2>2
  <1>8. Src!Effect(Src!At(i, y, mem), l)
          = Src!At(i + 1, PutReg(y, l.rd, LoadWord(mem, Wrap(y[l.rs1] + l.imm))), mem)
    <2> HIDE DEF l, i
    <2> QED BY <1>2, EffectIs
  <1>9. Wrap(y[l.rs1] + l.imm) = Wrap(top - d)
    <2> DEFINE t == sp + N
               e == 0 - d
    <2>1. t \in Int /\ e \in Int /\ top \in Int /\ t + e = sp + (N - d) /\ top + e = top - d
      <3>1. top \in Int
        BY FrameTopIs
      <3> HIDE DEF sp, N, d, top
      <3> QED BY <1>3, <1>4, <3>1
    <2>2. y[l.rs1] = sp /\ l.imm = N - d
      BY <1>2, <1>3
    <2>3. Wrap(Wrap(t) + e) = Wrap(t + e)
      <3> HIDE DEF t, e
      <3> QED BY <2>1, WrapSum
    <2>4. top = Wrap(t)
      OBVIOUS
    <2> HIDE DEF t, e, top, sp, d, N
    <2> QED BY <2>1, <2>2, <2>3, <2>4
  <1>10. LoadWord(mem, Wrap(top - d)) = SavedWord(top, rg, c)
    BY DEF SavedWord
  <1> HIDE DEF l, i, top, d
  <1>11. Src!Effect(Src!At(i, y, mem), l) = Src!At(i + 1, PutReg(y, rg[c], SavedWord(top, rg, c)), mem)
    BY <1>2, <1>8, <1>9, <1>10
  <1>12. Src!OneMore(Src!At(i, y, mem)) = <<Src!At(i + 1, PutReg(y, rg[c], SavedWord(top, rg, c)), mem)>>
    BY <1>7, <1>11
  <1> QED BY ONLY <1>12 DEF i, top

\* One more restore.
LEMMA LoadedMore ==
  ASSUME Ready, BandFits, NEW top \in Int, NEW cnt, NEW rg, NEW off, Framed(cnt, rg, off),
         NEW b \in 0 .. (cnt - 1), NEW y, Loaded(y, top, rg, b)
  PROVE Loaded(PutReg(y, rg[b + 1], SavedWord(top, rg, b + 1)), top, rg, b + 1)
  <1> DEFINE c == b + 1
             g0 == rg[c]
             v == SavedWord(top, rg, c)
             z == PutReg(y, g0, v)
  <1>1. b \in Nat /\ c \in 1 .. cnt /\ cnt \in Nat
    BY FramedCount
  <1>2. g0 \in Regs /\ g0 # 0 /\ g0 # SpReg /\ DepthOf(rg, c) \in Int
    BY <1>1, FramedRegs
  <1>3. v \in Word
    <2> DEFINE e == top - DepthOf(rg, c)
    <2>1. e \in Int
      BY <1>2
    <2> HIDE DEF e
    <2>2. Wrap(e) \in Int
      BY <2>1, WrapFacts
    <2> QED BY <2>2, LoadsAreWords DEF SavedWord, e, Ready, Words
  <1> HIDE DEF v, g0
  <1>4. z = [y EXCEPT ![g0] = v]
    BY <1>2 DEF PutReg
  <1>5. y \in [Regs -> Word] /\ y[0] = 0 /\ y[SpReg] = x[SpReg]
    BY DEF Loaded
  <1>6. z \in [Regs -> Word] /\ z[g0] = v /\ \A g \in Regs : g # g0 => z[g] = y[g]
    <2> HIDE DEF z
    <2> QED BY <1>2, <1>3, <1>4, <1>5
  <1> HIDE DEF z
  <1>7. z[0] = 0 /\ z[SpReg] = x[SpReg]
    BY <1>2, <1>5, <1>6, MachineAssumption DEF Regs, SpReg, Ready, RegistersFit
  <1>8. \A j \in 1 .. c : j = c \/ (j \in 1 .. b /\ j \in 1 .. cnt)
    BY <1>1
  <1>9. ASSUME NEW j \in 1 .. c PROVE z[rg[j]] = SavedWord(top, rg, j)
    <2>1. CASE rg[j] = g0
      <3>1. DepthOf(rg, j) = DepthOf(rg, c)
        BY <2>1 DEF DepthOf, g0
      <3>2. SavedWord(top, rg, j) = v
        BY <3>1 DEF SavedWord, v
      <3> QED BY <1>6, <2>1, <3>2
    <2>2. CASE rg[j] # g0
      <3>1. j \in 1 .. b /\ j \in 1 .. cnt
        BY <1>8, <2>2 DEF g0
      <3>2. rg[j] \in Regs
        BY <3>1, FramedRegs
      <3>3. y[rg[j]] = SavedWord(top, rg, j)
        BY <3>1 DEF Loaded
      <3> QED BY <1>6, <2>2, <3>2, <3>3
    <2> QED BY <2>1, <2>2
  <1>10. ASSUME NEW g \in Regs, \A j \in 1 .. c : rg[j] # g PROVE z[g] = x[g]
    <2>1. g # g0 /\ \A j \in 1 .. b : rg[j] # g
      <3>1. c \in 1 .. c /\ \A j \in 1 .. b : j \in 1 .. c
        BY <1>1
      <3> QED BY <1>10, <3>1 DEF g0
    <2>2. y[g] = x[g]
      BY <2>1 DEF Loaded
    <2> QED BY <1>6, <2>1, <2>2
  <1>11. Loaded(z, top, rg, c)
    BY <1>6, <1>7, <1>9, <1>10 DEF Loaded
  <1> QED BY ONLY <1>11 DEF z, g0, v

\* After the restores and the addi the registers are the op's.
LEMMA LoadedIs ==
  ASSUME Ready, BandFits, Epilogue, NEW cnt, NEW rg, NEW off, Framed(cnt, rg, off),
         NEW y, Loaded(y, Wrap(x[SpReg] + w.imm), rg, cnt)
  PROVE PutReg(y, SpReg, Wrap(x[SpReg] + w.imm)) = x' /\ Words'
  <1> DEFINE top == Wrap(x[SpReg] + w.imm)
             slot(r) == Slot(top, Depth(w.rs1, r))
             word(r) == IF slot(r) = -1 THEN CbWord
                        ELSE IF slot(r) \in 0 .. (WLen - 4) THEN WordAt(mem, slot(r)) ELSE 0
             new(g) == IF g = SpReg THEN top ELSE IF RankOf(g) \in w.rs1 THEN word(RankOf(g)) ELSE x[g]
             z == PutReg(y, SpReg, top)
  <1>1. x' = [g \in DOMAIN x |-> new(g)] /\ mem' = mem
    BY DEF Epilogue
  <1>2. DOMAIN x = Regs /\ SpReg \in Regs /\ SpReg # 0 /\ top \in Word /\ top \in Int
    BY FrameTopIs DEF Ready, Words
  <1>3. y \in [Regs -> Word] /\ y[0] = 0
    BY DEF Loaded
  <1>4. ASSUME NEW j \in 1 .. cnt PROVE word(RankOf(rg[j])) = y[rg[j]]
    <2> DEFINE d == DepthOf(rg, j)
               a == Wrap(top - d)
               s == Slot(top, d)
               q == SlotsOf(top, rg, cnt)[j]
    <2>1. y[rg[j]] = LoadWord(mem, a)
      BY DEF Loaded, SavedWord
    <2>2. a \in Int /\ q = (IF Hits(a, 4) THEN Rel(a) ELSE -1) /\ (Hits(a, 4) => Rel(a) \in 0 .. (WLen - 4))
      <3> HIDE DEF top
      <3>1. Framed(cnt, rg, off) /\ top \in Int /\ Ready /\ BandFits /\ j \in 1 .. cnt
        BY <1>2
      <3> QED BY ONLY <3>1, FramedSlot
    <2>3. q = s /\ slot(RankOf(rg[j])) = s
      BY DEF SlotsOf, DepthOf
    <2> HIDE DEF s, a, q, slot
    <2>4. CASE Hits(a, 4)
      <3>1. s # -1 /\ s \in 0 .. (WLen - 4) /\ s = Rel(a)
        BY <2>2, <2>3, <2>4
      <3> QED BY <2>1, <2>3, <2>4, <3>1 DEF LoadWord
    <2>5. CASE ~Hits(a, 4)
      BY <2>1, <2>2, <2>3, <2>5 DEF LoadWord
    <2> QED BY <2>4, <2>5
  <1> HIDE DEF word, top
  <1>5. z \in [Regs -> Word] /\ z[SpReg] = top /\ \A g \in Regs : g # SpReg => z[g] = y[g]
    <2>1. z = [y EXCEPT ![SpReg] = top]
      BY <1>2 DEF PutReg
    <2> HIDE DEF z
    <2> QED BY <1>2, <1>3, <2>1
  <1> HIDE DEF z
  <1>6. \A g \in Regs : z[g] = new(g)
    <2> TAKE g \in Regs
    <2>1. CASE g = SpReg
      BY <1>5, <2>1
    <2>2. CASE g # SpReg /\ RankOf(g) \in w.rs1
      <3>1. PICK j \in 1 .. cnt : RankOf(rg[j]) = RankOf(g)
        BY <2>2 DEF Framed
      <3>2. RankOf(g) \in Ranks /\ RegistersFit
        BY <2>2 DEF Framed, Ready
      <3>3. RankReg[RankOf(g) + 1] = g
        BY <3>2, RankedIs
      <3>4. RankReg[RankOf(rg[j]) + 1] = rg[j]
        BY FramedRegs
      <3>5. rg[j] = g
        BY <3>1, <3>3, <3>4
      <3>6. z[g] = y[rg[j]] /\ new(g) = word(RankOf(rg[j]))
        BY <1>5, <2>2, <3>5
      <3> QED BY <1>4, <3>6
    <2>3. CASE g # SpReg /\ RankOf(g) \notin w.rs1
      <3>1. \A j \in 1 .. cnt : rg[j] # g
        BY <2>3 DEF Framed
      <3>2. y[g] = x[g]
        BY <3>1 DEF Loaded
      <3> QED BY <1>5, <2>3, <3>2
    <2> QED BY <2>1, <2>2, <2>3
  <1>7. x' = z
    <2> HIDE DEF new
    <2> QED BY <1>1, <1>2, <1>5, <1>6
  <1>8. z[0] = 0
    BY <1>2, <1>3, <1>5, MachineAssumption DEF Regs, Ready, RegistersFit
  <1>9. Words'
    BY <1>1, <1>5, <1>7, <1>8 DEF Words, Ready
  <1> QED BY <1>7, <1>9 DEF z, top

\* The restores together.
LEMMA RestoresRun ==
  ASSUME Ready, BandFits, NEW h, Here(h), NEW cnt, NEW rg, NEW off, Framed(cnt, rg, off), Restores(h, cnt, rg, off),
         w.op = "EPILOGUE", UnitOf(h).width = cnt + 2
  PROVE \E y : /\ Loaded(y, Wrap(x[SpReg] + w.imm), rg, cnt)
               /\ Src!Runs(Src!At(h, x, mem), cnt) = <<Src!At(h + cnt, y, mem)>>
  <1> DEFINE top == Wrap(x[SpReg] + w.imm)
             s == Src!At(h, x, mem)
             E == {c \in 0 .. cnt : \E y : Loaded(y, top, rg, c) /\ Src!Runs(s, c) = <<Src!At(h + c, y, mem)>>}
  <1>1. cnt \in Nat /\ h \in Nat /\ top \in Int
    <2>1. h \in Nat
      BY AtHead
    <2>2. top \in Int
      BY FrameTopIs
    <2>3. cnt \in Nat
      BY FramedCount
    <2> QED BY <2>1, <2>2, <2>3
  <1> HIDE DEF top, s
  <1>2. 0 \in E
    <2>1. Loaded(x, top, rg, 0)
      BY DEF Loaded, Ready, Words
    <2>2. Src!Runs(s, 0) = <<s>>
      <3> DEFINE z == 0
      <3>1. z \in Nat
        OBVIOUS
      <3> HIDE DEF z
      <3>2. Src!Runs(s, 0) = <<s>> /\ Src!Runs(s, z + 1) = More(Src!Runs(s, z))
        BY <3>1, RunsFacts
      <3> QED BY <3>2
    <2>3. 0 \in 0 .. cnt /\ s = Src!At(h + 0, x, mem)
      BY <1>1 DEF s
    <2> QED BY <2>1, <2>2, <2>3
  <1>3. ASSUME NEW c \in 1 .. cnt, c - 1 \in E PROVE c \in E
    <2> DEFINE b == c - 1
    <2>1. PICK y : Loaded(y, top, rg, b) /\ Src!Runs(s, b) = <<Src!At(h + b, y, mem)>>
      BY <1>3
    <2>2. b \in 0 .. (cnt - 1) /\ b \in Nat /\ b + 1 = c /\ h + b + 1 = h + c
      BY <1>1
    <2> HIDE DEF b, E
    <2> DEFINE z == PutReg(y, rg[b + 1], SavedWord(top, rg, b + 1))
    <2>3. Loaded(z, top, rg, b + 1)
      BY <1>1, <2>1, <2>2, LoadedMore
    <2>4. Src!OneMore(Src!At(h + b, y, mem)) = <<Src!At(h + b + 1, z, mem)>>
      <3>1. y[SpReg] = x[SpReg]
        BY <2>1 DEF Loaded
      <3> QED BY <2>2, <3>1, RestoreRuns DEF top
    <2>5. Src!Runs(s, b + 1) = <<Src!At(h + b + 1, z, mem)>>
      <3> HIDE DEF z
      <3>1. Src!Runs(s, b + 1) = Src!OneMore(Src!At(h + b, y, mem))
        BY <2>1, <2>2, RunsMore
      <3> QED BY <2>4, <3>1
    <2> HIDE DEF z
    <2>6. Loaded(z, top, rg, c) /\ Src!Runs(s, c) = <<Src!At(h + c, z, mem)>>
      BY <2>2, <2>3, <2>5
    <2> QED BY <1>1, <2>6 DEF E
  <1>4. cnt \in E
    <2>1. 0 .. cnt \subseteq E
      <3> HIDE DEF E
      <3> QED BY <1>1, <1>2, <1>3, UpTo
    <2>2. cnt \in 0 .. cnt
      BY <1>1
    <2> HIDE DEF E
    <2> QED BY <2>1, <2>2
  <1> QED BY <1>4 DEF top, s

\* EPILOGUE is its loads, its addi and its ret.
LEMMA EpilogueRefines ==
  ASSUME Ready, BandFits, NEW h, Here(h), Epilogue
  PROVE Src!Next /\ Words'
  <1>1. /\ w.op = "EPILOGUE" /\ mem' = mem /\ Indirect(Even(x'[RaReg]), Cardinality(w.rs1) + 2)
        /\ UNCHANGED <<code, ext, tc, max>>
    BY DEF Epilogue, Op
  <1>2. PICK cnt, rg, off : Framed(cnt, rg, off) /\ Restores(h, cnt, rg, off) /\ UnitOf(h).width = cnt + 2
    BY <1>1, EpilogueIs
  <1> DEFINE top == Wrap(x[SpReg] + w.imm)
             s == Src!At(h, x, mem)
             i == h + cnt
             j == h + cnt + 1
             e == cnt + 2
             ad == Decode(code, i)
             rt == Decode(code, j)
             t == Even(x'[RaReg])
  <1>3. cnt \in 1 .. Len(RankReg) /\ cnt \in Nat /\ cnt > 0 /\ Cardinality(w.rs1) = cnt /\ Len(RankReg) \in Nat
    BY <1>2, FramedCount DEF Framed
  <1>4. PICK y : Loaded(y, top, rg, cnt) /\ Src!Runs(s, cnt) = <<Src!At(i, y, mem)>>
    BY <1>1, <1>2, RestoresRun
  <1>5. PutReg(y, SpReg, top) = x' /\ Words'
    BY <1>2, <1>4, LoadedIs
  <1>6. h \in Nat
    BY AtHead
  <1>7. /\ i \in DOMAIN code /\ Src!Instruction(i) = ad /\ j \in DOMAIN code /\ Src!Instruction(j) = rt
        /\ i + 1 = j /\ j + 1 = h + e /\ (cnt + 1) + 1 = e
    <2>1. i \in (h + 1) .. (h + UnitOf(h).width - 1) /\ j \in (h + 1) .. (h + UnitOf(h).width - 1)
      BY <1>2, <1>3, <1>6
    <2>2. i + 1 = j /\ j + 1 = h + e /\ (cnt + 1) + 1 = e
      BY <1>3, <1>6
    <2> QED BY <2>1, <2>2, InnerIs
  <1>8. /\ ad.op = "addi" /\ ad.rd = SpReg /\ ad.rs1 = SpReg /\ ad.imm = w.imm
        /\ rt.op = "jalr" /\ rt.rd = 0 /\ rt.rs1 = RaReg /\ rt.imm = 0
    BY <1>2 DEF Restores
  <1>9. Layout /\ Running
    BY DEF Ready, Running
  <1> HIDE DEF i, j, s, top, e
  <1>10. Src!OneMore(Src!At(i, y, mem)) = <<Src!At(j, x', mem)>>
    <2>1. Src!OneMore(Src!At(i, y, mem)) = <<Src!Effect(Src!At(i, y, mem), ad)>>
      <3>1. ad.op \notin Traps \cup {"nop"}
        BY <1>8 DEF Traps
      <3>2. Src!OneMore(Src!At(i, y, mem)) = <<Src!Effect(Src!At(i, y, mem), Src!Instruction(i))>>
        <4> HIDE DEF ad
        <4> QED BY <1>7, <1>9, <3>1, OneStep DEF ad
      <3> HIDE DEF ad
      <3> QED BY <1>7, <3>2
    <2> HIDE DEF ad
    <2>2. Src!Effect(Src!At(i, y, mem), ad) = Src!At(i + 1, PutReg(y, ad.rd, Wrap(y[ad.rs1] + ad.imm)), mem)
      BY <1>8, EffectIs
    <2>3. Wrap(y[ad.rs1] + ad.imm) = top
      <3>1. y[SpReg] = x[SpReg]
        BY <1>4 DEF Loaded
      <3> QED BY <1>8, <3>1 DEF top
    <2>4. PutReg(y, ad.rd, Wrap(y[ad.rs1] + ad.imm)) = x'
      BY <1>5, <1>8, <2>3
    <2> QED BY <1>7, <2>1, <2>2, <2>4
  <1>11. Src!OneMore(Src!At(j, x', mem)) = <<Src!Jump(-1, t, x', mem)>>
    <2> DEFINE y2 == x'
    <2>1. Src!OneMore(Src!At(j, y2, mem)) = <<Src!Effect(Src!At(j, y2, mem), rt)>>
      <3>1. rt.op \notin Traps \cup {"nop"}
        BY <1>8 DEF Traps
      <3> HIDE DEF y2
      <3>2. Src!OneMore(Src!At(j, y2, mem)) = <<Src!Effect(Src!At(j, y2, mem), Src!Instruction(j))>>
        <4> HIDE DEF rt
        <4> QED BY <1>7, <1>9, <3>1, OneStep DEF rt
      <3> HIDE DEF rt
      <3> QED BY <1>7, <3>2
    <2>2. RaReg \in Regs /\ y2[RaReg] \in Word
      BY <1>2, <1>5, FrameTopIs DEF Words
    <2>3. Even(Wrap(y2[rt.rs1] + rt.imm)) = t
      <3> DEFINE v == y2[RaReg]
      <3>1. v \in Word /\ t = Even(v) /\ Wrap(y2[rt.rs1] + rt.imm) = Wrap(v + 0)
        BY <1>8, <2>2
      <3> HIDE DEF v, t, y2, rt
      <3>2. v \in Int /\ Wrap(v) = v
        BY <3>1, WrapFacts
      <3>3. v + 0 = v
        BY <3>2
      <3> QED BY <3>1, <3>2, <3>3
    <2> HIDE DEF y2, rt, t
    <2>4. Src!Effect(Src!At(j, y2, mem), rt)
            = Src!Jump(-1, Even(Wrap(y2[rt.rs1] + rt.imm)), PutReg(y2, rt.rd, Src!AddressOf(j + 1)), mem)
      BY <1>8, EffectIs
    <2>5. PutReg(y2, rt.rd, Src!AddressOf(j + 1)) = y2
      BY <1>8 DEF PutReg
    <2>6. Src!OneMore(Src!At(j, y2, mem)) = <<Src!Jump(-1, t, y2, mem)>>
      BY <2>1, <2>3, <2>4, <2>5
    <2> QED BY <2>6 DEF y2
  <1>12. t \in Nat
    <2> DEFINE v == x'[RaReg]
    <2>1. v \in Word
      BY <1>2, <1>5, FrameTopIs DEF Words
    <2> HIDE DEF v
    <2>2. Even(v) \in Nat
      BY <2>1, WrapFacts, EvenIsNat
    <2> QED BY <2>2 DEF v
  <1> HIDE DEF t, ad, rt
  <1>13. Src!Runs(s, e) = <<Src!Jump(-1, t, x', mem)>>
    <2> DEFINE r1 == Src!At(i, y, mem)
               r2 == Src!At(j, x', mem)
               c1 == cnt + 1
    <2> HIDE DEF r1, r2
    <2>1. Src!Runs(s, cnt) = <<r1>> /\ Src!OneMore(r1) = <<r2>> /\ Src!OneMore(r2) = <<Src!Jump(-1, t, x', mem)>>
      BY <1>4, <1>10, <1>11 DEF r1, r2
    <2>2. Src!Runs(s, c1) = <<r2>>
      BY <1>3, <2>1, RunsMore
    <2>3. c1 \in Nat
      BY <1>3
    <2> HIDE DEF c1
    <2>4. Src!Runs(s, c1 + 1) = <<Src!Jump(-1, t, x', mem)>>
      BY <2>1, <2>2, <2>3, RunsMore
    <2>5. c1 + 1 = e
      BY <1>7 DEF c1
    <2> QED BY <2>4, <2>5
  <1>14. Src!Runs(Src!At(h, x, mem), e) = <<Src!Jump(-1, t, x', mem')>>
    <2>1. Src!Jump(-1, t, x', mem) = Src!Jump(-1, t, x', mem')
      BY <1>1 DEF Src!Jump
    <2> QED BY <1>13, <2>1 DEF s
  <1>15. e \in 1 .. MaxUnit /\ e \in Nat /\ e = Src!Charge(h, e) /\ Indirect(t, e)
    <2>1. e \in 1 .. MaxUnit /\ e \in Nat /\ e # 2
      BY <1>3 DEF Ready, StepsFit, e
    <2>2. e = Src!Charge(h, e)
      BY <2>1 DEF Src!Charge
    <2> QED BY <1>1, <1>3, <2>1, <2>2 DEF e, t
  <1>16. Src!Next
    BY <1>1, <1>9, <1>12, <1>14, <1>15, IndirectAdvances
  <1> QED BY <1>5, <1>16

\* What a transcoded program's op map is.
LEMMA ToolMapIs ==
  ASSUME NEW c, NEW e, Tool(c, e).ok
  PROVE Tool(c, e).map = TranscodeEx(c, ExtAddrs(c, e)).map
  <1> DEFINE E == ExtAddrs(c, e)
             t == TranscodeEx(c, E)
             ops == ApplyFixups(c, t)
             r == Tool(c, e)
  <1>1. r = IF AllPaired(c) /\ \A f \in Fixups(c) : Fixable(c, t, f)
              THEN Resolve(c, E, t, ops) ELSE Refusal
    BY DEF Tool, ToolFor, Reencode
  <1>2. r.ok /\ ~Refusal.ok
    BY DEF Refusal
  <1> HIDE DEF r, ops, t
  <1>3. r = Resolve(c, E, t, ops)
    BY <1>1, <1>2
  <1>4. r = [ok |-> TRUE, ext |-> E, map |-> t.map, ops |-> ResolveData(c, t, ops)]
    <2> HIDE DEF E
    <2> QED BY <1>2, <1>3 DEF Resolve
  <1>5. r.map = t.map
    <2> HIDE DEF E
    <2> QED BY <1>4
  <1> QED BY <1>5 DEF r, t

\* What running the ops and running the source rest on.
Same == /\ Inv /\ Layout /\ Words /\ k \in Nat /\ max \in Nat /\ 4 * n_ops < AddrMod

LinkedPrograms == \A c \in Programs : IsLinked(c)

\* The data a program starts with.
LEMMA PatchedIsMemory ==
  ASSUME NEW t, \A i \in DOMAIN t.map : t.map[i] \in Nat, NEW e \in Nat
  PROVE Patched(t, e) \in Memory
  <1> DEFINE b == [o \in 0 .. (WLen - 1) |-> 0]
             b2 == PutWord(b, PtrCells.vt, WBase + PtrCells.code)
             v == IF e \in DOMAIN t.map THEN 4 * t.map[e] ELSE 4 * e
  <1>1. b \in Memory
    <2>1. 0 \in Byte
      BY ByteAssumption DEF Byte
    <2> QED BY <2>1 DEF Memory
  <1>2. PtrCells.vt \in Int /\ PtrCells.code \in Int /\ PtrCells.code \in Nat
    BY MachineAssumption
  <1>3. WBase \in Nat
    BY WritableAssumption, WordFacts
  <1>4. b2 \in Memory
    <2>1. WBase + PtrCells.code \in Nat
      BY <1>2, <1>3
    <2> HIDE DEF b
    <2> QED BY <1>1, <1>2, <2>1, PutIsMemory
  <1>5. v \in Nat
    OBVIOUS
  <1>6. Patched(t, e) = PutWord(b2, PtrCells.code, v)
    BY DEF Patched
  <1> HIDE DEF b2, v
  <1> QED BY <1>2, <1>4, <1>5, <1>6, PutIsMemory

\* The first states of the ops are first states of the source.
LEMMA SameAtFirst ==
  ASSUME Init, LinkedPrograms, RegistersFit, CodeFits
  PROVE Same /\ Src!Init
  <1>1. IsProgram(code) /\ ExtTargets \subseteq DOMAIN code /\ IsLinked(code) /\ 4 * Cardinality(DOMAIN code) < AddrMod
    BY ProgramAssumption DEF Init, LinkedPrograms, CodeFits
  <1>2. PICK e \in ExtTargets : LET t == Tool(code, {e}) IN
          t.ok /\ ext = t.ext /\ tc = [ops |-> t.ops, map |-> t.map] /\ mem = Patched(tc, e)
    BY DEF Init
  <1> DEFINE t == Tool(code, {e})
  <1>3. t.ok /\ ext = t.ext /\ tc = [ops |-> t.ops, map |-> t.map] /\ mem = Patched(tc, e)
    BY <1>2
  <1>4. e \in DOMAIN code /\ e \in Nat /\ {e} \subseteq DOMAIN code
    BY <1>1, Numbered
  <1>5. Linked(code, CollectTargets(code, t.ext), t)
    BY <1>1, <1>3, <1>4, ToolLinked
  <1>6. 0 \in DOMAIN t.map /\ t.map[0] = 0
    <2>1. 0 \in DOMAIN code
      BY <1>1, <1>4, Numbered
    <2> DEFINE E == ExtAddrs(code, {e})
    <2>2. t.map = TranscodeEx(code, E).map
      BY <1>3, ToolMapIs
    <2> HIDE DEF E, t
    <2> QED BY <1>1, <2>1, <2>2, MapStarts
  <1> HIDE DEF t
  <1>7. tc.ops = t.ops /\ tc.map = t.map /\ Targets = CollectTargets(code, t.ext)
    BY <1>3 DEF Targets
  <1>8. Linked(code, Targets, tc)
    <2>1. Linked(code, Targets, t)
      BY <1>5, <1>7
    <2> HIDE DEF Targets
    <2> QED BY <1>7, <2>1 DEF Linked
  <1>9. Layout
    BY <1>1, <1>8 DEF Layout
  <1>10. 4 * n_ops < AddrMod
    <2>1. Len(tc.ops) <= Cardinality(DOMAIN code)
      BY <1>1, <1>6, <1>7, <1>8, OpsFit
    <2>2. n_ops = Len(tc.ops)
      BY DEF n_ops
    <2>3. n_ops \in Nat
      BY <1>8, <2>2 DEF Linked
    <2>4. Cardinality(DOMAIN code) \in Nat
      BY <1>1, Numbered
    <2> DEFINE m == Cardinality(DOMAIN code)
    <2>5. n_ops <= m /\ 4 * m < AddrMod /\ m \in Nat
      BY <1>1, <2>1, <2>2, <2>4
    <2> HIDE DEF m, n_ops
    <2> QED BY <2>3, <2>5, WordFacts
  <1>11. mem \in Memory
    <2>1. \A i \in DOMAIN tc.map : tc.map[i] \in Nat
      BY <1>8 DEF Linked
    <2> QED BY <1>3, <1>4, <2>1, PatchedIsMemory
  <1>12. Words
    <2>1. x = Start /\ Start \in [DOMAIN Start -> Word] /\ Start[0] = 0
      BY MachineAssumption DEF Init, RegistersFit
    <2> QED BY <1>11, <2>1 DEF Words, Regs
  <1>13. Inv /\ k = 0 /\ max = 0 /\ phase = "idle"
    <2>1. k = 0 /\ max = 0 /\ phase = "idle"
      BY DEF Init
    <2> QED BY <2>1, InitHolds DEF Inv
  <1>14. Src!Init
    BY <1>13 DEF Src!Init
  <1> QED BY <1>9, <1>10, <1>12, <1>13, <1>14 DEF Same

\* The program stays what it is.
LEMMA ProgramStays ==
  ASSUME [Next]_vars
  PROVE code' = code /\ ext' = ext /\ tc' = tc
  <1>1. CASE Next
    BY <1>1 DEF Next, Loop, Call, Alu, Load, Store, Lwx, Lwlw, Lwsw, Branch, LoadBz, Jal, Jalr,
                Vcall, Prologue, Epilogue, Trap
  <1>2. CASE UNCHANGED vars
    BY <1>2 DEF vars
  <1> QED BY <1>1, <1>2

\* A step of the source keeps the counts whole.
LEMMA CountsKept ==
  ASSUME Src!Next, k \in Nat, max \in Nat, MaxUnit \in Nat
  PROVE k' \in Nat /\ max' \in Nat
  <1>1. ASSUME NEW c \in 1 .. MaxUnit, Src!Advance(c) PROVE k' \in Nat /\ max' \in Nat
    <2> DEFINE h == Src!At(Src!HeadOf(OpPc \div 4), x, mem).i
               q == Src!Charge(h, c)
    <2>1. k' = k + q /\ max' = max
      BY <1>1 DEF Src!Advance, OpPc
    <2>2. c \in Nat
      OBVIOUS
    <2>3. q = 1 \/ q = c
      <3> HIDE DEF h
      <3> QED BY DEF Src!Charge
    <2> HIDE DEF q
    <2> QED BY <2>1, <2>2, <2>3
  <1>2. CASE Src!Trap
    BY <1>2 DEF Src!Trap
  <1>3. CASE Src!Enter
    BY <1>3 DEF Src!Enter
  <1>4. CASE Src!Refuse
    BY <1>4 DEF Src!Refuse
  <1> QED BY <1>1, <1>2, <1>3, <1>4 DEF Src!Next

\* The loop's steps.
LEMMA LoopRefines ==
  ASSUME Same, BandFits, RegistersFit, StepsFit, EvenCalls, Loop
  PROVE Src!Next /\ Words'
  <1>1. AtOp
    BY DEF Loop, Alu, Load, Store, Lwx, Lwlw, Lwsw, Branch, LoadBz, Jal, Jalr, Vcall, Prologue, Epilogue, Trap, Op
  <1>2. Layout /\ p \in Nat /\ Inv
    BY DEF Same, Inv, DataInv
  <1>3. PICK h : Here(h)
    BY <1>1, <1>2, HereIs
  <1>4. Ready
    BY <1>1, <1>2 DEF Same, Ready, Running
  <1>5. CASE Alu
    BY <1>3, <1>4, <1>5, AluStepRefines
  <1>6. CASE Load
    BY <1>3, <1>4, <1>6, LoadRefines
  <1>7. CASE Store
    BY <1>3, <1>4, <1>7, StoreRefines
  <1>8. CASE Lwx
    BY <1>3, <1>4, <1>8, LwxRefines
  <1>9. CASE Lwlw
    BY <1>3, <1>4, <1>9, LwlwRefines
  <1>10. CASE Lwsw
    BY <1>3, <1>4, <1>10, LwswRefines
  <1>11. CASE Branch
    BY <1>3, <1>4, <1>11, BranchRefines
  <1>12. CASE LoadBz
    BY <1>3, <1>4, <1>12, LoadBzRefines
  <1>13. CASE Jal
    BY <1>3, <1>4, <1>13, JalRefines
  <1>14. CASE Jalr
    BY <1>3, <1>4, <1>14, JalrRefines
  <1>15. CASE Vcall
    BY <1>3, <1>4, <1>15, VcallRefines
  <1>16. CASE Prologue
    BY <1>3, <1>4, <1>16, PrologueRefines
  <1>17. CASE Epilogue
    BY <1>3, <1>4, <1>17, EpilogueRefines
  <1>18. ASSUME NEW stop \in BOOLEAN, Trap(stop) PROVE Src!Next /\ Words'
    BY <1>3, <1>4, <1>18, TrapRefines
  <1> QED BY <1>5, <1>6, <1>7, <1>8, <1>9, <1>10, <1>11, <1>12, <1>13, <1>14, <1>15, <1>16, <1>17, <1>18 DEF Loop

\* A step of the ops is a step of the source, or none it would see.
LEMMA StepRefines ==
  ASSUME Same, BandFits, RegistersFit, StepsFit, EvenCalls, [Next]_vars
  PROVE [Src!Next]_(Src!vars) /\ Same'
  <1>1. code' = code /\ ext' = ext /\ tc' = tc
    BY ProgramStays
  <1>2. Inv'
    BY StepKeeps DEF Same
  <1>3. Layout'
    BY <1>1 DEF Same, Layout, Targets
  <1>4. (4 * n_ops < AddrMod)'
    BY <1>1 DEF Same, n_ops
  <1>5. MaxUnit \in Nat /\ Budgets \subseteq Nat
    BY DEF StepsFit
  <1>6. ASSUME Src!Next, Words' PROVE [Src!Next]_(Src!vars) /\ Same'
    <2>1. k' \in Nat /\ max' \in Nat
      BY <1>5, <1>6, CountsKept DEF Same
    <2> QED BY <1>2, <1>3, <1>4, <1>6, <2>1 DEF Same
  <1>7. CASE Loop
    BY <1>6, <1>7, LoopRefines
  <1>8. ASSUME NEW b \in Budgets, Call(b) PROVE [Src!Next]_(Src!vars) /\ Same'
    <2>1. Layout /\ spc \in Nat
      BY DEF Same, Inv, DataInv
    <2>2. Src!Next
      BY <1>5, <1>8, <2>1, CallRefines
    <2>3. Words'
      BY <1>8 DEF Same, Words, Call
    <2> QED BY <1>6, <2>2, <2>3
  <1>9. CASE UNCHANGED vars
    <2>1. UNCHANGED <<code, ext, tc, spc, x, mem, phase, p, k, max>>
      BY <1>9 DEF vars
    <2>2. UNCHANGED Src!vars
      BY <2>1 DEF Src!vars, n_ops, clen
    <2>3. Words' /\ k' \in Nat /\ max' \in Nat
      BY <2>1 DEF Same, Words
    <2> QED BY <1>2, <1>3, <1>4, <2>2, <2>3 DEF Same
  <1> QED BY <1>7, <1>8, <1>9 DEF Next

\* transcode.h: fusion "replays the exact instruction effects".  Running the ops is
\* running the source program, in registers, memory, pc and count, whatever budgets
\* the host slices it into: for every linked program, whatever it loads, stores and
\* calls, as long as the pointers its fused calls load are even.
THEOREM OpsImplementSource ==
  ASSUME LinkedPrograms, BandFits, RegistersFit, StepsFit, CodeFits
  PROVE Spec /\ []EvenCalls => ImplementsSource
  <1>1. Init => Same /\ Src!Init
    BY SameAtFirst
  <1>2. Same /\ EvenCalls /\ [Next]_vars => [Src!Next]_(Src!vars) /\ Same'
    BY StepRefines
  <1> QED BY <1>1, <1>2, PTL DEF Spec, ImplementsSource, Src!Spec
=============================================================================

----------------------------- MODULE PurvsProofs ----------------------------
(***************************************************************************)
(* For every image, budget, buffer length, handler result and evaluator    *)
(* that gives up: what purvs.c decodes ahead is what the architecture      *)
(* executes, so its runs implement the engine contract.                    *)
(***************************************************************************)
EXTENDS Purvs, WellFoundedInduction, TLAPS

(* What the operators of the guest machine return.                          *)

\* A 32-bit sum is a word.
LEMMA AddWord == ASSUME NEW a \in Nat, NEW b \in Nat PROVE Add(a, b) \in Word
  BY AddrModAssumption DEF Add, Word

\* Clearing bit 0 of a word gives a word.
LEMMA JalrWord ==
  ASSUME NEW ins \in Insn, NEW y \in Regs PROVE JalrTarget(ins, y) \in Word
  <1> DEFINE t == Add(y[ins.rs], ins.imm)
  <1>1. y[ins.rs] \in Nat /\ ins.imm \in Nat
    BY DEF Insn, Regs, Word
  <1>2. t \in Word
    BY <1>1, AddWord
  <1>3. t - (t % 2) \in Word
    <2> HIDE DEF t
    <2> QED BY <1>2, AddrModAssumption DEF Word
  <1> QED BY <1>3 DEF JalrTarget

\* Writing a word to any register gives a register file.
LEMMA WrRegs ==
  ASSUME NEW y \in Regs, NEW r \in Reg, NEW v \in Word PROVE Wr(y, r, v) \in Regs
  BY DEF Wr, Regs

\* One instruction takes words to words and registers to registers.
LEMMA StepTypes ==
  ASSUME NEW ins \in Insn, NEW a \in Word, NEW y \in Regs
  PROVE NextPc(ins, a, y) \in Word /\ NextX(ins, a, y) \in Regs
  <1>1. /\ ins.w \in Nat /\ ins.imm \in Word /\ ins.imm \in Nat /\ ins.rd \in Reg
        /\ y[ins.rs] \in Nat /\ a \in Nat
    BY DEF Insn, Regs, Word
  <1>2. Add(a, ins.imm) \in Word /\ Add(a, ins.w) \in Word /\ Add(y[ins.rs], ins.imm) \in Word
    BY <1>1, AddWord
  <1>3. NextPc(ins, a, y) \in Word
    BY <1>2, JalrWord DEF NextPc
  <1>4. NextX(ins, a, y) \in Regs
    BY <1>1, <1>2, WrRegs DEF NextX
  <1> QED BY <1>3, <1>4

-----------------------------------------------------------------------------
(* Induction and recursion.  A property is the set of the numbers that have *)
(* it, and the step of a recursion is a function: the well-foundedness of   *)
(* < on the naturals then gives both.                                       *)

\* A set of naturals with 0 and with the successor of each member is all of them.
LEMMA SetInduction ==
  ASSUME NEW S, 0 \in S, \A q \in Nat : q \in S => q + 1 \in S
  PROVE Nat \subseteq S
  <1> DEFINE R == {ss \in Nat \X Nat : ss[1] < ss[2]}
             T == Nat \ S
  <1>1. IsWellFoundedOn(R, Nat)
    BY NatLessThanWellFounded, Zenon DEF OpToRel
  <1>2. SUFFICES ASSUME T # {} PROVE FALSE
    OBVIOUS
  <1>3. PICK m \in T : \A y \in T : <<y, m>> \notin R
    <2> HIDE DEF R, T
    <2>1. T \subseteq Nat
      BY DEF T
    <2> QED BY <1>1, <1>2, <2>1, WFMin
  <1>4. m \in Nat \ {0}
    OBVIOUS
  <1>5. m - 1 \in Nat /\ <<m - 1, m>> \in R
    BY <1>4
  <1>6. m - 1 \in S
    BY <1>3, <1>5
  <1>7. m - 1 + 1 = m
    BY <1>4
  <1> QED BY <1>3, <1>5, <1>6, <1>7

\* The steps of a recursion with values in S: which step, then from which value.
Steps(S) == [Nat -> [S -> S]]
StepsTo(m, S) == [1 .. m -> [S -> S]]

\* A recursion whose step stays in a set S defines a function into S.
LEMMA RecursionExists ==
  ASSUME NEW S, NEW b \in S, NEW G \in Steps(S)
  PROVE \E f \in [Nat -> S] : f[0] = b /\ \A j \in Nat \ {0} : f[j] = G[j][f[j - 1]]
  <1> DEFINE Is(g, m) == /\ g \in [0 .. m -> S] /\ g[0] = b
                         /\ \A j \in 1 .. m : g[j] = G[j][g[j - 1]]
             E == {m \in Nat : \E g : Is(g, m)}
  <1>1. 0 \in E
    <2>1. Is([j \in 0 .. 0 |-> b], 0)
      OBVIOUS
    <2> QED BY <2>1
  <1>2. ASSUME NEW m \in Nat, m \in E PROVE m + 1 \in E
    <2>1. PICK g : Is(g, m)
      BY <1>2
    <2> DEFINE h == [j \in 0 .. m + 1 |-> IF j = m + 1 THEN G[m + 1][g[m]] ELSE g[j]]
    <2>2. g[m] \in S
      BY <2>1
    <2>3. G[m + 1][g[m]] \in S
      BY <2>2 DEF Steps
    <2>4. h \in [0 .. m + 1 -> S] /\ h[0] = b
      BY <2>1, <2>3
    <2>5. ASSUME NEW j \in 1 .. m + 1 PROVE h[j] = G[j][h[j - 1]]
      <3>1. CASE j = m + 1
        BY <3>1
      <3>2. CASE j \in 1 .. m
        BY <2>1, <3>2
      <3> QED BY <3>1, <3>2
    <2>6. Is(h, m + 1)
      BY <2>4, <2>5
    <2>7. m + 1 \in Nat /\ \E gg : Is(gg, m + 1)
      <3> HIDE DEF h, Is
      <3> QED BY <2>6
    <2> QED BY <2>7
  <1>3. Nat \subseteq E
    <2> HIDE DEF E
    <2> QED BY <1>1, <1>2, SetInduction
  <1> DEFINE g(m) == CHOOSE g : Is(g, m)
  <1>4. \A m \in Nat : Is(g(m), m)
    BY <1>3
  <1>5. \A m \in Nat : g(m + 1)[m] = g(m)[m]
    <2> SUFFICES ASSUME NEW m \in Nat PROVE g(m + 1)[m] = g(m)[m]
      OBVIOUS
    <2> DEFINE A == {j \in Nat : j <= m => g(m + 1)[j] = g(m)[j]}
    <2>1. Is(g(m + 1), m + 1) /\ Is(g(m), m)
      <3> HIDE DEF g, Is
      <3>1. m + 1 \in Nat
        OBVIOUS
      <3> QED BY <1>4, <3>1
    <2> HIDE DEF g
    <2>2. 0 \in A
      BY <2>1
    <2>3. ASSUME NEW j \in Nat, j \in A PROVE j + 1 \in A
      <3> SUFFICES ASSUME j + 1 <= m PROVE g(m + 1)[j + 1] = g(m)[j + 1]
        OBVIOUS
      <3>1. g(m + 1)[j] = g(m)[j]
        BY <2>3
      <3>2. j + 1 \in 1 .. m /\ j + 1 \in 1 .. m + 1 /\ j + 1 - 1 = j
        OBVIOUS
      <3>3. g(m + 1)[j + 1] = G[j + 1][g(m + 1)[j + 1 - 1]]
        BY <2>1, <3>2
      <3>4. g(m)[j + 1] = G[j + 1][g(m)[j + 1 - 1]]
        BY <2>1, <3>2
      <3> QED BY <3>1, <3>2, <3>3, <3>4
    <2>4. Nat \subseteq A
      <3> HIDE DEF A
      <3> QED BY <2>2, <2>3, SetInduction
    <2> QED BY <2>4
  <1> HIDE DEF g
  <1> DEFINE f == [j \in Nat |-> g(j)[j]]
  <1>6. f \in [Nat -> S]
    BY <1>4
  <1>7. ASSUME NEW j \in Nat PROVE f[j] = IF j = 0 THEN b ELSE G[j][f[j - 1]]
    <2>1. CASE j = 0
      BY <1>4, <2>1
    <2>2. CASE j # 0
      <3>1. j - 1 \in Nat /\ j - 1 + 1 = j
        BY <2>2
      <3>2. g(j)[j] = G[j][g(j)[j - 1]]
        BY <1>4, <2>2
      <3>3. g(j)[j - 1] = g(j - 1)[j - 1]
        BY <1>5, <3>1
      <3> QED BY <2>2, <3>1, <3>2, <3>3
    <2> QED BY <2>1, <2>2
  <1>8. f[0] = b /\ \A j \in Nat \ {0} : f[j] = G[j][f[j - 1]]
    <2> HIDE DEF f
    <2> QED BY <1>7
  <1> HIDE DEF f
  <1> QED BY <1>6, <1>8

\* The same for a recursion that stops at m.
LEMMA RecursionTo ==
  ASSUME NEW S, NEW b \in S, NEW m \in Nat, NEW G \in StepsTo(m, S)
  PROVE \E f \in [0 .. m -> S] : f[0] = b /\ \A j \in 1 .. m : f[j] = G[j][f[j - 1]]
  <1> DEFINE H == [j \in Nat |-> [v \in S |-> IF j \in 1 .. m THEN G[j][v] ELSE b]]
  <1>1. H \in Steps(S)
    BY DEF Steps, StepsTo
  <1>2. \A v \in S, j \in 1 .. m : H[j][v] = G[j][v]
    OBVIOUS
  <1> HIDE DEF H
  <1>3. PICK f \in [Nat -> S] : f[0] = b /\ \A j \in Nat \ {0} : f[j] = H[j][f[j - 1]]
    BY <1>1, RecursionExists
  <1> DEFINE g == [j \in 0 .. m |-> f[j]]
  <1>4. g \in [0 .. m -> S] /\ g[0] = b
    BY <1>3
  <1>5. ASSUME NEW j \in 1 .. m PROVE g[j] = G[j][g[j - 1]]
    <2>1. j \in Nat \ {0} /\ j \in 0 .. m /\ j - 1 \in 0 .. m /\ j - 1 \in Nat
      OBVIOUS
    <2>2. f[j] = H[j][f[j - 1]] /\ f[j - 1] \in S
      BY <1>3, <2>1
    <2> QED BY <1>2, <2>1, <2>2
  <1> HIDE DEF g
  <1> QED BY <1>4, <1>5

-----------------------------------------------------------------------------

\* The records of a run, the machine that evaluates them, the walk over them.
Rec   == [k : InsnKind, rd : Reg, rs : Reg, imm : Word]
Mach  == [x : Regs, pc : Word]
Place == [recs : Nat, pc : Word]

\* What loop 1 leaves in the buffer for the instruction ins at a.
RecordOf(ins, a) ==
  IF ins.k = "jal" THEN [k |-> "lui", rd |-> ins.rd, rs |-> ins.rs, imm |-> Add(a, ins.w)]
  ELSE Bake(ins, a)

-----------------------------------------------------------------------------
(* The operators.                                                           *)

\* Baking gives a record, and keeps what ends a run and what the record reads.
LEMMA BakeRec ==
  ASSUME NEW ins \in Insn, NEW a \in Word
  PROVE /\ Bake(ins, a) \in Rec /\ RecordOf(ins, a) \in Rec
        /\ ins.k # "auipc" => Bake(ins, a).k = ins.k
        /\ ins.k = "auipc" => Bake(ins, a).k = "lui"
  <1>1. /\ ins.w \in Nat /\ ins.imm \in Word /\ ins.imm \in Nat /\ a \in Nat
        /\ ins.rd \in Reg /\ ins.rs \in Reg /\ ins.k \in InsnKind
    BY DEF Insn, Word
  <1>2. Add(a, ins.imm) \in Word /\ Add(a, ins.w) \in Word
    BY <1>1, AddWord
  <1>3. {"lui", "branch"} \subseteq InsnKind
    BY DEF InsnKind
  <1> QED BY <1>1, <1>2, <1>3 DEF Bake, RecordOf, Rec

\* Evaluating a record takes a machine to a machine.
LEMMA EvalRecType ==
  ASSUME NEW s \in Mach, NEW rec \in Rec PROVE EvalRec(s, rec) \in Mach
  <1>1. /\ s.x \in Regs /\ s.pc \in Word /\ rec.rd \in Reg /\ rec.rs \in Reg /\ rec.imm \in Word
        /\ s = [x |-> s.x, pc |-> s.pc]
    BY DEF Mach, Rec
  <1>2. s.x[rec.rs] \in Word /\ s.x[rec.rs] \in Nat /\ rec.imm \in Nat
    BY <1>1 DEF Regs, Word
  <1>3. Add(s.x[rec.rs], rec.imm) \in Word
    BY <1>2, AddWord
  <1>4. JalrTarget(rec, s.x) \in Word
    <2> DEFINE t == Add(s.x[rec.rs], rec.imm)
    <2>1. t \in Word
      BY <1>3
    <2>2. t - (t % 2) \in Word
      <3> HIDE DEF t
      <3> QED BY <2>1, AddrModAssumption DEF Word
    <2> QED BY <2>2 DEF JalrTarget
  <1>5. Wr(s.x, rec.rd, Add(s.x[rec.rs], rec.imm)) \in Regs /\ Wr(s.x, rec.rd, rec.imm) \in Regs
        /\ Wr(s.x, rec.rd, s.pc) \in Regs
    BY <1>1, <1>3, WrRegs
  <1> QED BY <1>1, <1>3, <1>4, <1>5 DEF EvalRec, Mach

\* A fetch anywhere reads an instruction.
LEMMA InsnAtType == ASSUME NEW im, IsImage(im), NEW a \in Word PROVE InsnAt(im, a) \in Insn
  <1>1. CASE a < im.len
    BY <1>1 DEF InsnAt, IsImage, Word
  <1>2. CASE ~(a < im.len)
    <2>1. [w |-> 2, k |-> "mem", rd |-> 0, rs |-> 0, imm |-> 0] \in Insn
      BY AddrModAssumption, LastRegAssumption DEF Insn, InsnKind, Reg, Word
    <2> QED BY <1>2, <2>1 DEF InsnAt
  <1> QED BY <1>1, <1>2

\* One turn of the walk.
LEMMA StepOneType ==
  ASSUME NEW im, IsImage(im), NEW s \in Place
  PROVE StepOne(im, s) \in Place /\ StepOne(im, s).recs \in {s.recs, s.recs + 1}
  <1> DEFINE ins == InsnAt(im, s.pc)
  <1>1. s.recs \in Nat /\ s.pc \in Word /\ s.pc \in Nat
    BY DEF Place, Word
  <1>2. ins \in Insn
    BY <1>1, InsnAtType
  <1> HIDE DEF ins
  <1>3. ins.imm \in Nat /\ ins.w \in Nat
    BY <1>2 DEF Insn, Word
  <1>4. Add(s.pc, ins.imm) \in Word /\ Add(s.pc, ins.w) \in Word
    BY <1>1, <1>3, AddWord
  <1> QED BY <1>1, <1>4 DEF StepOne, Place, ins

\* The walk is the function its recursion describes.
LEMMA WalkDef ==
  ASSUME NEW im, IsImage(im), NEW a \in Word
  PROVE /\ WalkFrom(im, a) \in [Nat -> Place]
        /\ WalkFrom(im, a)[0] = [recs |-> 0, pc |-> a]
        /\ \A c \in Nat : WalkFrom(im, a)[c + 1] = StepOne(im, WalkFrom(im, a)[c])
  <1> DEFINE b == [recs |-> 0, pc |-> a]
             G == [c \in Nat |-> [s \in Place |-> StepOne(im, s)]]
             W == WalkFrom(im, a)
             Is(w) == w = [c \in Nat |-> IF c = 0 THEN b ELSE StepOne(im, w[c - 1])]
  <1>1. b \in Place
    BY DEF Place
  <1>2. G \in Steps(Place)
    BY StepOneType DEF Steps
  <1>3. \A s \in Place, c \in Nat : G[c][s] = StepOne(im, s)
    OBVIOUS
  <1>4. \E w : Is(w)
    <2> HIDE DEF G
    <2>1. PICK w \in [Nat -> Place] : w[0] = b /\ \A c \in Nat \ {0} : w[c] = G[c][w[c - 1]]
      <3> HIDE DEF b
      <3> QED BY <1>1, <1>2, RecursionExists
    <2>2. ASSUME NEW c \in Nat PROVE w[c] = IF c = 0 THEN b ELSE StepOne(im, w[c - 1])
      <3>1. CASE c = 0
        BY <2>1, <3>1
      <3>2. CASE c # 0
        <4>1. c - 1 \in Nat /\ c \in Nat \ {0}
          BY <3>2
        <4>2. w[c - 1] \in Place
          BY <4>1
        <4> QED BY <1>3, <2>1, <3>2, <4>1, <4>2
      <3> QED BY <3>1, <3>2
    <2>3. Is(w)
      <3> HIDE DEF b
      <3> QED BY <2>2
    <2> QED BY <2>3
  <1>5. W = [c \in Nat |-> IF c = 0 THEN b ELSE StepOne(im, W[c - 1])]
    <2>1. W = CHOOSE w : Is(w)
      BY DEF WalkFrom
    <2>2. Is(W)
      <3> HIDE DEF Is, W
      <3> QED BY <1>4, <2>1
    <2> QED BY <2>2
  <1> HIDE DEF W
  <1>6. W[0] = b
    BY <1>5
  <1>7. \A c \in Nat : W[c + 1] = StepOne(im, W[c])
    <2> SUFFICES ASSUME NEW c \in Nat PROVE W[c + 1] = StepOne(im, W[c])
      OBVIOUS
    <2>1. c + 1 \in Nat /\ c + 1 # 0 /\ c + 1 - 1 = c
      OBVIOUS
    <2> QED BY <1>5, <2>1
  <1>8. \A c \in Nat : W[c] \in Place
    <2> DEFINE T == {c \in Nat : W[c] \in Place}
    <2>1. 0 \in T
      BY <1>1, <1>6
    <2>2. \A c \in Nat : c \in T => c + 1 \in T
      BY <1>7, StepOneType
    <2>3. Nat \subseteq T
      <3> HIDE DEF T
      <3> QED BY <2>1, <2>2, SetInduction
    <2> QED BY <2>3
  <1>9. W \in [Nat -> Place]
    BY <1>5, <1>8
  <1> QED BY <1>6, <1>7, <1>9 DEF W

\* Evaluation is the function its recursion describes.
LEMMA EvalDef ==
  ASSUME x \in Regs, spc \in Word, block \in Seq(Rec)
  PROVE /\ Eval \in [0 .. n -> Mach]
        /\ Eval[0] = [x |-> x, pc |-> spc]
        /\ \A j \in 1 .. n : Eval[j] = EvalRec(Eval[j - 1], block[j])
  <1> DEFINE b == [x |-> x, pc |-> spc]
             G == [j \in 1 .. n |-> [s \in Mach |-> EvalRec(s, block[j])]]
             Is(e) == e = [j \in 0 .. n |-> IF j = 0 THEN b ELSE EvalRec(e[j - 1], block[j])]
  <1>1. b \in Mach /\ n \in Nat
    BY DEF Mach, n
  <1>2. \A j \in 1 .. n : block[j] \in Rec
    <2> HIDE DEF Rec
    <2> QED BY DEF n
  <1>3. G \in StepsTo(n, Mach)
    BY <1>2, EvalRecType DEF StepsTo
  <1>4. \A s \in Mach, j \in 1 .. n : G[j][s] = EvalRec(s, block[j])
    OBVIOUS
  <1>5. \E e : Is(e)
    <2> HIDE DEF G
    <2>1. PICK e \in [0 .. n -> Mach] : e[0] = b /\ \A j \in 1 .. n : e[j] = G[j][e[j - 1]]
      <3> HIDE DEF b
      <3> QED BY <1>1, <1>3, RecursionTo
    <2>2. ASSUME NEW j \in 0 .. n PROVE e[j] = IF j = 0 THEN b ELSE EvalRec(e[j - 1], block[j])
      <3>1. CASE j = 0
        BY <2>1, <3>1
      <3>2. CASE j # 0
        <4>1. j - 1 \in 0 .. n /\ j \in 1 .. n
          BY <1>1, <3>2
        <4>2. e[j - 1] \in Mach
          BY <4>1
        <4> QED BY <1>4, <2>1, <3>2, <4>1, <4>2
      <3> QED BY <3>1, <3>2
    <2>3. Is(e)
      <3> HIDE DEF b
      <3> QED BY <2>2
    <2> QED BY <2>3
  <1>6. Eval = [j \in 0 .. n |-> IF j = 0 THEN b ELSE EvalRec(Eval[j - 1], block[j])]
    <2>1. Eval = CHOOSE e : Is(e)
      BY DEF Eval
    <2>2. Is(Eval)
      <3> HIDE DEF Is
      <3> QED BY <1>5, <2>1
    <2> QED BY <2>2
  <1>7. Eval[0] = b
    BY <1>1, <1>6
  <1>8. \A j \in 1 .. n : Eval[j] = EvalRec(Eval[j - 1], block[j])
    <2> SUFFICES ASSUME NEW j \in 1 .. n PROVE Eval[j] = EvalRec(Eval[j - 1], block[j])
      OBVIOUS
    <2>1. j \in 0 .. n /\ j # 0
      BY <1>1
    <2> QED BY <1>6, <2>1
  <1>9. \A j \in 0 .. n : Eval[j] \in Mach
    <2> DEFINE T == {j \in Nat : j <= n => Eval[j] \in Mach}
    <2>1. 0 \in T
      BY <1>1, <1>7
    <2>2. ASSUME NEW j \in Nat, j \in T PROVE j + 1 \in T
      <3> SUFFICES ASSUME j + 1 <= n PROVE Eval[j + 1] \in Mach
        OBVIOUS
      <3>1. j + 1 \in 1 .. n /\ j + 1 - 1 = j /\ j <= n
        BY <1>1
      <3> QED BY <1>2, <1>8, <2>2, <3>1, EvalRecType
    <2>3. Nat \subseteq T
      <3> HIDE DEF T
      <3> QED BY <2>1, <2>2, SetInduction
    <2> QED BY <1>1, <2>3
  <1>10. Eval \in [0 .. n -> Mach]
    BY <1>6, <1>9
  <1> QED BY <1>7, <1>8, <1>10

\* The contract's machine is the engine's: both are module Isa, with the same
\* word and the same registers.
LEMMA SameMachine ==
  /\ \A im : Runs!IsImage(im) <=> IsImage(im)
  /\ \A im, a : Runs!Fetchable(im, a) <=> Fetchable(im, a)
  /\ \A im, a : Runs!IsTrap(im, a) <=> IsTrap(im, a)
  /\ \A a, b : Runs!Add(a, b) = Add(a, b)
  /\ \A y, rs, vs : Runs!Handled(y, rs, vs) = Handled(y, rs, vs)
  /\ \A ins, a, y : Runs!NextPc(ins, a, y) = NextPc(ins, a, y)
  /\ \A ins, a, y : Runs!NextX(ins, a, y) = NextX(ins, a, y)
  /\ Runs!Word = Word /\ Runs!ResetRegs = ResetRegs
  <1> USE DEF Runs!Add, Add, Runs!Word, Word, Runs!Reg, Reg, Runs!Wr, Wr
  <1>1. \A im : Runs!IsImage(im) <=> IsImage(im)
    BY DEF Runs!IsImage, IsImage, Runs!Insn, Insn, Runs!InsnKind, InsnKind, Runs!TrapKind, TrapKind
  <1>2. \A im, a : Runs!Fetchable(im, a) <=> Fetchable(im, a)
    BY DEF Runs!Fetchable, Fetchable
  <1>3. \A im, a : Runs!IsTrap(im, a) <=> IsTrap(im, a)
    BY DEF Runs!IsTrap, IsTrap, Runs!TrapKind, TrapKind
  <1>4. \A ins, a, y : Runs!NextPc(ins, a, y) = NextPc(ins, a, y)
    BY DEF Runs!NextPc, NextPc, Runs!Taken, Taken, Runs!JalrTarget, JalrTarget
  <1>5. \A ins, a, y : Runs!NextX(ins, a, y) = NextX(ins, a, y)
    BY DEF Runs!NextX, NextX
  <1>6. Runs!ResetRegs = ResetRegs
    BY DEF Runs!ResetRegs, ResetRegs
  <1>7. \A y, rs, vs : Runs!Handled(y, rs, vs) = Handled(y, rs, vs)
    BY DEF Runs!Handled, Handled
  <1> QED BY <1>1, <1>2, <1>3, <1>4, <1>5, <1>6, <1>7

\* One ordinary instruction, in the engine's operators.
LEMMA OrdinaryDef ==
  \A s : Runs!Ordinary(s) =
    IF s.ok /\ Fetchable(img, s.pc) /\ ~IsTrap(img, s.pc)
      THEN [pc |-> NextPc(img.insn[s.pc], s.pc, s.x), x |-> NextX(img.insn[s.pc], s.pc, s.x), ok |-> TRUE]
      ELSE [s EXCEPT !.ok = FALSE]
  BY SameMachine DEF Runs!Ordinary

\* The machine of the contract, and one ordinary instruction of it.
Arch == [pc : Word, x : Regs, ok : BOOLEAN]

\* An ordinary instruction takes a machine to a machine.
LEMMA OrdinaryType ==
  ASSUME IsImage(img), NEW s \in Arch PROVE Runs!Ordinary(s) \in Arch
  <1>1. s.pc \in Word /\ s.x \in Regs /\ s.ok \in BOOLEAN /\ [s EXCEPT !.ok = FALSE] \in Arch
    BY DEF Arch
  <1>2. CASE s.ok /\ Fetchable(img, s.pc) /\ ~IsTrap(img, s.pc)
    <2>1. img.insn[s.pc] \in Insn
      BY <1>1, <1>2 DEF Fetchable, IsImage, Word
    <2>2. NextPc(img.insn[s.pc], s.pc, s.x) \in Word /\ NextX(img.insn[s.pc], s.pc, s.x) \in Regs
      BY <1>1, <2>1, StepTypes
    <2> QED BY <1>2, <2>2, OrdinaryDef DEF Arch
  <1>3. CASE ~(s.ok /\ Fetchable(img, s.pc) /\ ~IsTrap(img, s.pc))
    BY <1>1, <1>3, OrdinaryDef
  <1> QED BY <1>2, <1>3

\* The contract's execution is the function its recursion describes.
LEMMA AfterDef ==
  ASSUME IsImage(img), x \in Regs, ArchPc \in Word
  PROVE /\ Runs!After \in [Nat -> Arch]
        /\ Runs!After[0] = [pc |-> ArchPc, x |-> x, ok |-> TRUE]
        /\ \A m \in Nat : Runs!After[m + 1] = Runs!Ordinary(Runs!After[m])
  <1> DEFINE b == [pc |-> ArchPc, x |-> x, ok |-> TRUE]
             G == [m \in Nat |-> [s \in Arch |-> Runs!Ordinary(s)]]
             A == Runs!After
             Is(f) == f = [m \in Nat |-> IF m = 0 THEN b ELSE Runs!Ordinary(f[m - 1])]
  <1>1. b \in Arch
    BY DEF Arch
  <1>2. G \in Steps(Arch)
    BY OrdinaryType DEF Steps
  <1>3. \A s \in Arch, m \in Nat : G[m][s] = Runs!Ordinary(s)
    OBVIOUS
  <1>4. \E f : Is(f)
    <2> HIDE DEF G
    <2>1. PICK f \in [Nat -> Arch] : f[0] = b /\ \A m \in Nat \ {0} : f[m] = G[m][f[m - 1]]
      <3> HIDE DEF b
      <3> QED BY <1>1, <1>2, RecursionExists
    <2>2. ASSUME NEW m \in Nat PROVE f[m] = IF m = 0 THEN b ELSE Runs!Ordinary(f[m - 1])
      <3>1. CASE m = 0
        BY <2>1, <3>1
      <3>2. CASE m # 0
        <4>1. m - 1 \in Nat /\ m \in Nat \ {0}
          BY <3>2
        <4>2. f[m - 1] \in Arch
          BY <4>1
        <4> QED BY <1>3, <2>1, <3>2, <4>1, <4>2
      <3> QED BY <3>1, <3>2
    <2>3. Is(f)
      <3> HIDE DEF b
      <3> QED BY <2>2
    <2> QED BY <2>3
  <1>5. A = [m \in Nat |-> IF m = 0 THEN b ELSE Runs!Ordinary(A[m - 1])]
    <2>1. A = CHOOSE f : Is(f)
      BY DEF Runs!After
    <2>2. Is(A)
      <3> HIDE DEF Is, A
      <3> QED BY <1>4, <2>1
    <2> QED BY <2>2
  <1> HIDE DEF A
  <1>6. A[0] = b
    BY <1>5
  <1>7. \A m \in Nat : A[m + 1] = Runs!Ordinary(A[m])
    <2> SUFFICES ASSUME NEW m \in Nat PROVE A[m + 1] = Runs!Ordinary(A[m])
      OBVIOUS
    <2>1. m + 1 \in Nat /\ m + 1 # 0 /\ m + 1 - 1 = m
      OBVIOUS
    <2> HIDE DEF b
    <2>2. A[m + 1] = IF m + 1 = 0 THEN b ELSE Runs!Ordinary(A[m + 1 - 1])
      BY <1>5, <2>1
    <2> QED BY <2>1, <2>2
  <1>8. \A m \in Nat : A[m] \in Arch
    <2> DEFINE T == {m \in Nat : A[m] \in Arch}
    <2>1. 0 \in T
      BY <1>1, <1>6
    <2>2. \A m \in Nat : m \in T => m + 1 \in T
      BY <1>7, OrdinaryType
    <2>3. Nat \subseteq T
      <3> HIDE DEF T
      <3> QED BY <2>1, <2>2, SetInduction
    <2> QED BY <2>3
  <1>9. A \in [Nat -> Arch]
    BY <1>5, <1>8
  <1> QED BY <1>6, <1>7, <1>9 DEF A

-----------------------------------------------------------------------------
(* The invariant.                                                           *)

\* Every code window holds the four bytes a 32-bit instruction takes.  The hosts
\* reserve a code buffer of many pages; of a window of one to three bytes loop 1
\* would decode what lies behind it, since win is then 0.
FullWindows == \A im \in Images : im.len >= 4

\* The types, the budget that is left for the run, and the sizes of its buffer.
TypesInv ==
  /\ img \in Images /\ x \in Regs
  /\ {spc, pc, run_pc, last_pc, trap.pc} \subseteq Word
  /\ phase \in {"idle", "loop", "decode", "eval"}
  /\ max \in 0 .. MaxBudget /\ k \in Nat /\ lim \in Nat /\ insns \in Nat
  /\ block \in Seq(Rec)
  /\ n <= insns /\ insns <= lim /\ lim <= BlockMax /\ k + lim <= max
  /\ phase \in {"idle", "loop"} => lim = 0

\* What the c-th instruction of the run, counted from 0, left behind: it was
\* fetched inside the code, its record is where the walk says, and what ends a
\* run is its last instruction.
Decoded(c) ==
  LET s   == Walk[c]
      ins == img.insn[s.pc]
  IN /\ Fetchable(img, s.pc)
     /\ Walk[c + 1].recs <= n
     /\ ins.k # "jal" \/ ins.rd # 0 => block[s.recs + 1] = RecordOf(ins, s.pc)
     /\ IsTerminator(ins.k) => c = insns - 1

\* The run is the walk of the code from its start, as far as it is decoded.
PathInv ==
  phase \in {"decode", "eval"} =>
    /\ lim > 0
    /\ Walk[insns] = [recs |-> n, pc |-> pc]
    /\ \A c \in 0 .. (insns - 1) : Decoded(c)
    /\ phase = "decode" => spc = run_pc
    /\ phase = "eval" => spc = pc /\ n > 0

Inv == TypesInv /\ PathInv

\* The facts about the walk, for the image and the start at hand.
LEMMA WalkFacts ==
  ASSUME TypesInv
  PROVE /\ IsImage(img) /\ Walk \in [Nat -> Place]
        /\ Walk[0] = [recs |-> 0, pc |-> run_pc]
        /\ \A c \in Nat : Walk[c + 1] = StepOne(img, Walk[c])
  <1>1. IsImage(img) /\ run_pc \in Word
    BY PurvsAssumption DEF TypesInv
  <1> QED BY <1>1, WalkDef DEF Walk

\* The window of an image of four bytes or more makes the unchecked fetch safe.
LEMMA WindowFetch == ASSUME FullWindows, TypesInv, Decoding PROVE Fetchable(img, pc)
  <1>1. /\ img.len \in Nat /\ img.len >= 4 /\ pc \in Nat
        /\ \A a \in 0 .. (img.len - 1) : img.insn[a].w \in {2, 4}
    <2>1. img \in Images /\ IsImage(img) /\ pc \in Nat
      BY PurvsAssumption DEF TypesInv, Word
    <2>2. img.len \in Nat /\ img.len >= 4
      BY <2>1 DEF FullWindows, IsImage, Word
    <2>3. \A a \in 0 .. (img.len - 1) : img.insn[a].w \in {2, 4}
      BY <2>1 DEF IsImage, Insn
    <2> QED BY <2>1, <2>2, <2>3
  <1>2. Win = img.len - 4
    BY <1>1 DEF Win
  <1>3. CASE pc <= Win
    BY <1>1, <1>2, <1>3 DEF Fetchable
  <1>4. CASE pc > Win
    <2>1. /\ ~(pc >= img.len) /\ ~(img.len - pc < 2)
          /\ ~(img.len - pc \in 2 .. 3 /\ img.insn[pc].w = 4)
      BY <1>4 DEF Decoding, OffEnd
    <2>2. pc \in 0 .. (img.len - 1)
      BY <1>1, <2>1
    <2> QED BY <1>1, <2>1, <2>2 DEF Fetchable
  <1> QED BY <1>1, <1>2, <1>3, <1>4

\* A fetch in the window reads the instruction of the image, also the walk's.
LEMMA FetchedInsn ==
  ASSUME IsImage(img), NEW a \in Word, Fetchable(img, a)
  PROVE img.insn[a] \in Insn /\ InsnAt(img, a) = img.insn[a]
  <1>1. img.len \in Nat /\ a \in Nat /\ a < img.len /\ img.insn \in [0 .. (img.len - 1) -> Insn]
    BY DEF IsImage, Fetchable, Word
  <1> QED BY <1>1 DEF InsnAt

\* One turn of loop 1 is one turn of the walk: both kinds of decode step do what
\* step_one does, and leave the record of the instruction.
LEMMA DecodeEffect ==
  ASSUME FullWindows, Inv, NEW ins \in Fetched, DecodeJump(ins) \/ DecodeOne(ins)
  PROVE /\ phase = "decode" /\ insns < lim /\ ~DecodedLast
        /\ Fetchable(img, pc) /\ ins = img.insn[pc] /\ ins \in Insn
        /\ insns' = insns + 1
        /\ UNCHANGED <<img, spc, x, trap, phase, max, k, lim, run_pc, last_pc>>
        /\ block' = IF ins.k = "jal" /\ ins.rd = 0 THEN block ELSE Append(block, RecordOf(ins, pc))
        /\ [recs |-> n', pc |-> pc'] = StepOne(img, Walk[insns])
        /\ pc' \in Word
  <1>1. Decoding
    BY DEF DecodeJump, DecodeOne
  <1>2. Fetchable(img, pc)
    BY <1>1, WindowFetch DEF Inv
  <1>3. IsImage(img) /\ pc \in Word /\ Walk[insns] = [recs |-> n, pc |-> pc]
    BY <1>1, WalkFacts DEF Inv, TypesInv, PathInv, Decoding
  <1>4. ins = img.insn[pc] /\ ins \in Insn /\ InsnAt(img, pc) = ins
    BY <1>2, <1>3, FetchedInsn DEF Fetched
  <1>5. block' = IF ins.k = "jal" /\ ins.rd = 0 THEN block ELSE Append(block, RecordOf(ins, pc))
    BY DEF DecodeJump, DecodeOne, RecordOf
  <1>6. pc' = IF ins.k = "jal" THEN Add(pc, ins.imm) ELSE Add(pc, ins.w)
    BY DEF DecodeJump, DecodeOne
  <1>7. n \in Nat /\ n' = IF ins.k = "jal" /\ ins.rd = 0 THEN n ELSE n + 1
    <2>1. block \in Seq(Rec)
      BY DEF Inv, TypesInv
    <2>2. RecordOf(ins, pc) \in Rec
      BY <1>3, <1>4, BakeRec
    <2> HIDE DEF Rec
    <2> QED BY <1>5, <2>1, <2>2 DEF n
  <1>8. [recs |-> n', pc |-> pc'] = StepOne(img, Walk[insns])
    <2>1. StepOne(img, Walk[insns]) =
            IF ins.k = "jal" THEN [recs |-> n + (IF ins.rd = 0 THEN 0 ELSE 1), pc |-> Add(pc, ins.imm)]
            ELSE [recs |-> n + 1, pc |-> Add(pc, ins.w)]
      BY <1>3, <1>4 DEF StepOne
    <2> QED BY <1>6, <1>7, <2>1
  <1>9. pc' \in Word
    <2>1. pc \in Nat /\ ins.imm \in Nat /\ ins.w \in Nat
      BY <1>3, <1>4 DEF Insn, Word
    <2> QED BY <1>6, <2>1, AddWord
  <1> QED BY <1>1, <1>2, <1>4, <1>5, <1>8, <1>9 DEF DecodeJump, DecodeOne, Decoding

\* What ends a run leaves a record that shows it.
LEMMA TerminatorRecord ==
  ASSUME NEW ins \in Insn, NEW a \in Word, IsTerminator(ins.k)
  PROVE ins.k # "jal" /\ RecordOf(ins, a) = Bake(ins, a) /\ RecordOf(ins, a).k = ins.k
  BY BakeRec DEF IsTerminator, TrapKind, RecordOf

\* Decoding one more instruction.
LEMMA DecodeStep ==
  ASSUME FullWindows, Inv, NEW ins \in Fetched, DecodeJump(ins) \/ DecodeOne(ins)
  PROVE Inv'
  <1> DEFINE r == RecordOf(ins, pc)
  <1>1. /\ phase = "decode" /\ insns < lim /\ ~DecodedLast
        /\ Fetchable(img, pc) /\ ins = img.insn[pc] /\ ins \in Insn
        /\ insns' = insns + 1
        /\ UNCHANGED <<img, spc, x, trap, phase, max, k, lim, run_pc, last_pc>>
        /\ block' = IF ins.k = "jal" /\ ins.rd = 0 THEN block ELSE Append(block, r)
        /\ [recs |-> n', pc |-> pc'] = StepOne(img, Walk[insns])
        /\ pc' \in Word
    BY DecodeEffect
  <1>2. /\ Walk' = Walk /\ Walk \in [Nat -> Place]
        /\ \A c \in Nat : Walk[c + 1] = StepOne(img, Walk[c])
    BY <1>1, WalkFacts DEF Inv, Walk
  <1>3. /\ insns \in Nat /\ insns' \in Nat /\ block \in Seq(Rec) /\ n = Len(block) /\ n \in Nat /\ n <= insns
        /\ pc \in Word /\ r \in Rec
    <2>1. pc \in Word
      BY DEF Inv, TypesInv
    <2> QED BY <1>1, <2>1, BakeRec DEF Inv, TypesInv, n
  <1>4. Walk[insns] = [recs |-> n, pc |-> pc] /\ \A c \in 0 .. (insns - 1) : Decoded(c)
    BY <1>1 DEF Inv, PathInv
  <1> HIDE DEF r
  <1>5. /\ block' \in Seq(Rec) /\ n' \in {n, n + 1} /\ n' = Len(block')
        /\ \A j \in 1 .. n : block'[j] = block[j]
        /\ ins.k # "jal" \/ ins.rd # 0 => n' = n + 1 /\ block'[n + 1] = r
    <2> HIDE DEF Rec
    <2> QED BY <1>1, <1>3 DEF n
  <1>6. Walk[insns + 1] = [recs |-> n', pc |-> pc']
    BY <1>1, <1>2, <1>3
  <1>7. TypesInv'
    <2>1. n' <= insns' /\ insns' <= lim
      BY <1>1, <1>3, <1>5 DEF Inv, TypesInv
    <2> QED BY <1>1, <1>3, <1>5, <2>1 DEF Inv, TypesInv
  <1>8. ASSUME NEW c \in 0 .. insns PROVE Decoded(c)'
    <2>1. CASE c = insns
      <3>1. Walk[c].recs = n /\ Walk[c].pc = pc /\ Walk[c + 1].recs = n' /\ c = insns' - 1
        BY <1>1, <1>3, <1>4, <1>6, <2>1
      <3>2. ins.k # "jal" \/ ins.rd # 0 => block'[Walk[c].recs + 1] = RecordOf(ins, Walk[c].pc)
        BY <1>5, <3>1 DEF r
      <3>3. Walk[c + 1].recs <= n'
        BY <1>3, <1>5, <3>1
      <3>4. Fetchable(img, Walk[c].pc) /\ img.insn[Walk[c].pc] = ins /\ img' = img
        BY <1>1, <3>1
      <3> QED BY <1>2, <3>1, <3>2, <3>3, <3>4 DEF Decoded
    <2>2. CASE c \in 0 .. (insns - 1)
      <3> DEFINE s == Walk[c]
                 old == img.insn[s.pc]
      <3>1. /\ Fetchable(img, s.pc) /\ Walk[c + 1].recs <= n
            /\ old.k # "jal" \/ old.rd # 0 => block[s.recs + 1] = RecordOf(old, s.pc)
            /\ IsTerminator(old.k) => c = insns - 1
        BY <1>4, <2>2 DEF Decoded
      <3>2. s \in Place /\ s.recs \in Nat /\ s.pc \in Word /\ Walk[c + 1] = StepOne(img, s) /\ Walk[c + 1].recs \in Nat
        <4>1. c \in Nat /\ c + 1 \in Nat
          BY <1>3
        <4>2. s \in Place /\ Walk[c + 1] \in Place /\ Walk[c + 1] = StepOne(img, s)
          <5> HIDE DEF Place
          <5> QED BY <1>2, <4>1
        <4> QED BY <4>2 DEF Place
      <3>3. old \in Insn /\ InsnAt(img, s.pc) = old
        BY <3>1, <3>2, FetchedInsn, WalkFacts DEF Inv
      <3>4. old.k # "jal" \/ old.rd # 0 => Walk[c + 1].recs = s.recs + 1
        BY <3>2, <3>3 DEF StepOne
      <3>5. old.k # "jal" \/ old.rd # 0 => block'[s.recs + 1] = RecordOf(old, s.pc)
        <4> SUFFICES ASSUME old.k # "jal" \/ old.rd # 0 PROVE block'[s.recs + 1] = RecordOf(old, s.pc)
          OBVIOUS
        <4>1. s.recs + 1 \in 1 .. n
          BY <1>3, <3>1, <3>2, <3>4
        <4> QED BY <1>5, <3>1, <4>1
      <3>6. ~IsTerminator(old.k)
        <4> SUFFICES ASSUME IsTerminator(old.k) PROVE FALSE
          OBVIOUS
        <4>1. old.k # "jal" /\ RecordOf(old, s.pc).k = old.k
          BY <3>2, <3>3, TerminatorRecord
        <4>2. c = insns - 1 /\ c + 1 = insns
          BY <1>3, <3>1
        <4>3. s.recs + 1 = n /\ block[n].k = old.k
          BY <1>4, <3>1, <3>2, <3>4, <4>1, <4>2
        <4>4. n # 0
          BY <3>2, <4>3
        <4>5. DecodedLast
          BY <1>3, <4>3, <4>4 DEF DecodedLast, Last
        <4> QED BY <1>1, <4>5
      <3>7. Walk[c + 1].recs <= n'
        BY <1>3, <1>5, <3>1, <3>2
      <3> QED BY <1>1, <1>2, <3>1, <3>5, <3>6, <3>7 DEF Decoded
    <2> QED BY <1>3, <2>1, <2>2
  <1>9. PathInv'
    <2>1. \A c \in 0 .. (insns' - 1) : Decoded(c)'
      BY <1>1, <1>3, <1>8
    <2> QED BY <1>1, <1>2, <1>6, <2>1 DEF Inv, PathInv
  <1> QED BY <1>7, <1>9 DEF Inv

-----------------------------------------------------------------------------
(* The walk and the buffer.                                                 *)

\* The walk passes the records one by one: each count is reached, and reached
\* first at one place.
LEMMA WalkReaches ==
  ASSUME TypesInv, NEW c \in Nat, NEW r \in 0 .. Walk[c].recs
  PROVE /\ \E e \in 0 .. c : Walk[e].recs = r /\ \A d \in 0 .. (e - 1) : Walk[d].recs < r
  <1> DEFINE R(e) == Walk[e].recs
             Reached(e) == /\ \A d \in 0 .. e : R(d) <= R(e)
                           /\ \A q \in 0 .. R(e) : \E f \in 0 .. e : R(f) = q /\ \A d \in 0 .. (f - 1) : R(d) < q
             T == {e \in Nat : Reached(e)}
  <1>1. R(0) = 0 /\ \A e \in Nat : R(e) \in Nat /\ R(e + 1) \in {R(e), R(e) + 1}
    <2>1. Walk[0] = [recs |-> 0, pc |-> run_pc] /\ IsImage(img)
      BY WalkFacts
    <2>2. ASSUME NEW e \in Nat PROVE R(e) \in Nat /\ R(e + 1) \in {R(e), R(e) + 1}
      <3>1. Walk[e] \in Place /\ Walk[e + 1] = StepOne(img, Walk[e])
        BY WalkFacts
      <3>2. R(e + 1) \in {R(e), R(e) + 1}
        BY <2>1, <3>1, StepOneType
      <3> QED BY <3>1, <3>2 DEF Place
    <2> QED BY <2>1, <2>2
  <1> HIDE DEF R
  <1>2. 0 \in T
    <2>1. \A d \in 0 .. 0 : R(d) <= R(0)
      BY <1>1
    <2>2. \A q \in 0 .. R(0) : 0 \in 0 .. 0 /\ R(0) = q /\ \A d \in 0 .. (0 - 1) : R(d) < q
      BY <1>1
    <2> QED BY <2>1, <2>2
  <1>3. ASSUME NEW e \in Nat, e \in T PROVE e + 1 \in T
    <2>1. \A d \in 0 .. e + 1 : R(d) <= R(e + 1)
      <3> SUFFICES ASSUME NEW d \in 0 .. e + 1 PROVE R(d) <= R(e + 1)
        OBVIOUS
      <3>1. CASE d = e + 1
        BY <1>1, <3>1
      <3>2. CASE d \in 0 .. e
        BY <1>1, <1>3, <3>2
      <3> QED BY <3>1, <3>2
    <2>2. ASSUME NEW q \in 0 .. R(e + 1)
          PROVE \E f \in 0 .. e + 1 : R(f) = q /\ \A d \in 0 .. (f - 1) : R(d) < q
      <3>1. CASE q <= R(e)
        <4>1. q \in 0 .. R(e)
          BY <1>1, <3>1
        <4>2. PICK f \in 0 .. e : R(f) = q /\ \A d \in 0 .. (f - 1) : R(d) < q
          BY <1>3, <4>1
        <4> QED BY <4>2
      <3>2. CASE ~(q <= R(e))
        <4>1. q = R(e + 1) /\ R(e) < q
          BY <1>1, <3>2
        <4>2. \A d \in 0 .. e : R(d) < q
          BY <1>1, <1>3, <4>1
        <4> QED BY <4>1, <4>2
      <3> QED BY <3>1, <3>2
    <2> QED BY <2>1, <2>2
  <1>4. Nat \subseteq T
    <2> HIDE DEF T
    <2> QED BY <1>2, <1>3, SetInduction
  <1> QED BY <1>4 DEF R

\* The instructions fixup_pc counts: of the run, and fewer than all of it when
\* the evaluator stopped before the last record.
LEMMA FixupFacts ==
  ASSUME TypesInv, PathInv, phase = "eval", NEW ran \in Nat, ran < n
  PROVE /\ FixupInsns(ran) \in 0 .. (insns - 1)
        /\ Walk[FixupInsns(ran)].recs = ran
  <1> DEFINE Is(c) == Walk[c].recs = ran /\ \A d \in 0 .. (c - 1) : Walk[d].recs < ran
             c0 == FixupInsns(ran)
  <1>1. insns \in Nat /\ n \in Nat /\ Walk[insns].recs = n
    BY DEF TypesInv, PathInv, n
  <1>2. \E c \in 0 .. insns : Is(c)
    <2>1. ran \in 0 .. Walk[insns].recs
      BY <1>1
    <2> QED BY ONLY TypesInv, <1>1, <2>1, WalkReaches
  <1>3. c0 \in 0 .. insns /\ Is(c0)
    <2>1. c0 = CHOOSE c \in 0 .. insns : Is(c)
      BY DEF FixupInsns
    <2> HIDE DEF c0, Is
    <2> QED BY <1>2, <2>1
  <1> HIDE DEF c0
  <1>4. c0 # insns
    BY <1>1, <1>3
  <1> QED BY <1>1, <1>3, <1>4 DEF c0

\* The last record was left by an instruction of the run.
LEMMA LastRecord ==
  ASSUME TypesInv, PathInv, phase = "eval"
  PROVE \E c \in 0 .. (insns - 1) : LET s == Walk[c] IN
          /\ s.recs = n - 1 /\ Walk[c + 1].recs = n
          /\ Fetchable(img, s.pc) /\ img.insn[s.pc] \in Insn
          /\ Last(block) = RecordOf(img.insn[s.pc], s.pc)
  <1>1. insns \in Nat /\ n \in Nat \ {0} /\ Walk[insns].recs = n /\ block \in Seq(Rec)
    BY DEF TypesInv, PathInv, n
  <1>2. PICK e \in 0 .. insns : Walk[e].recs = n /\ \A d \in 0 .. (e - 1) : Walk[d].recs < n
    <2>1. n \in 0 .. Walk[insns].recs
      BY <1>1
    <2> QED BY <1>1, <2>1, WalkReaches
  <1>3. e # 0
    BY <1>1, <1>2, WalkFacts
  <1> DEFINE c == e - 1
             s == Walk[c]
             ins == img.insn[s.pc]
  <1>4. c \in 0 .. (insns - 1) /\ c \in Nat /\ c + 1 = e
    BY <1>1, <1>3
  <1> HIDE DEF c
  <1>5. s \in Place /\ Walk[c + 1] = StepOne(img, s) /\ IsImage(img) /\ s.recs < n
    BY <1>2, <1>4, WalkFacts
  <1>6. s.recs \in Nat /\ s.pc \in Word
    BY <1>5 DEF Place
  <1>7. Decoded(c)
    BY <1>4 DEF PathInv
  <1>8. ins \in Insn /\ InsnAt(img, s.pc) = ins /\ Fetchable(img, s.pc)
    BY <1>5, <1>6, <1>7, FetchedInsn DEF Decoded
  <1>9. Walk[c + 1].recs = n
    BY <1>2, <1>4
  <1>10. s.recs = n - 1 /\ (ins.k # "jal" \/ ins.rd # 0)
    BY <1>1, <1>5, <1>6, <1>8, <1>9 DEF StepOne
  <1>11. block[n] = RecordOf(ins, s.pc)
    BY <1>1, <1>6, <1>7, <1>10 DEF Decoded
  <1>12. Last(block) = block[n]
    BY DEF Last, n
  <1> QED BY <1>4, <1>8, <1>9, <1>10, <1>11, <1>12

-----------------------------------------------------------------------------
(* The evaluation and the architecture.                                     *)

\* After c instructions of the run, all of them ordinary, the architecture is
\* where the walk is and has the registers that evaluating its records leaves.
InStep(c) ==
  LET a == Runs!After[c]
      s == Walk[c]
  IN /\ a.ok /\ a.pc = s.pc
     /\ s.recs \in 0 .. n
     /\ a.x = Eval[s.recs].x /\ Eval[s.recs].pc = spc

\* The facts the lemmas below rest on, in a state with a run.
LEMMA RunFacts ==
  ASSUME Inv, phase \in {"decode", "eval"}
  PROVE /\ IsImage(img) /\ x \in Regs /\ ArchPc = run_pc /\ n \in Nat /\ insns \in Nat
        /\ block \in Seq(Rec)
        /\ \A j \in 1 .. n : block[j] \in Rec
        /\ Eval \in [0 .. n -> Mach] /\ Eval[0] = [x |-> x, pc |-> spc]
        /\ \A j \in 1 .. n : Eval[j] = EvalRec(Eval[j - 1], block[j])
        /\ Runs!After \in [Nat -> Arch] /\ Runs!After[0] = [pc |-> run_pc, x |-> x, ok |-> TRUE]
        /\ \A m \in Nat : Runs!After[m + 1] = Runs!Ordinary(Runs!After[m])
        /\ Walk \in [Nat -> Place] /\ Walk[0] = [recs |-> 0, pc |-> run_pc]
        /\ \A c \in Nat : Walk[c + 1] = StepOne(img, Walk[c])
  <1>1. /\ IsImage(img) /\ x \in Regs /\ spc \in Word /\ run_pc \in Word /\ block \in Seq(Rec) /\ insns \in Nat
        /\ ArchPc = run_pc
    BY WalkFacts DEF Inv, TypesInv, ArchPc
  <1>2. n \in Nat /\ \A j \in 1 .. n : block[j] \in Rec
    <2> HIDE DEF Rec
    <2> QED BY <1>1 DEF n
  <1>3. ArchPc \in Word
    BY <1>1
  <1>4. /\ Eval \in [0 .. n -> Mach] /\ Eval[0] = [x |-> x, pc |-> spc]
        /\ \A j \in 1 .. n : Eval[j] = EvalRec(Eval[j - 1], block[j])
    BY <1>1, EvalDef
  <1>5. /\ Runs!After \in [Nat -> Arch] /\ Runs!After[0] = [pc |-> run_pc, x |-> x, ok |-> TRUE]
        /\ \A m \in Nat : Runs!After[m + 1] = Runs!Ordinary(Runs!After[m])
    BY <1>1, <1>3, AfterDef
  <1> QED BY <1>1, <1>2, <1>4, <1>5, WalkFacts DEF Inv

\* The facts about one instruction of the run, reached in step.
LEMMA AtInsn ==
  ASSUME Inv, phase \in {"decode", "eval"}, NEW c \in 0 .. (insns - 1), InStep(c)
  PROVE LET s == Walk[c]
            ins == img.insn[s.pc]
            e == Eval[s.recs]
        IN /\ c \in Nat /\ s \in Place /\ e \in Mach /\ ins \in Insn /\ Fetchable(img, s.pc)
           /\ s.recs \in Nat /\ s.pc \in Word /\ e = [x |-> e.x, pc |-> spc] /\ e.x \in Regs
           /\ Runs!After[c] = [pc |-> s.pc, x |-> e.x, ok |-> TRUE]
           /\ ~IsTrap(img, s.pc) => Runs!After[c + 1] =
                [pc |-> NextPc(ins, s.pc, e.x), x |-> NextX(ins, s.pc, e.x), ok |-> TRUE]
           /\ Walk[c + 1] = IF ins.k = "jal"
                THEN [recs |-> s.recs + (IF ins.rd = 0 THEN 0 ELSE 1), pc |-> Add(s.pc, ins.imm)]
                ELSE [recs |-> s.recs + 1, pc |-> Add(s.pc, ins.w)]
           /\ Walk[c + 1].recs \in 0 .. n
           /\ ins.k # "jal" \/ ins.rd # 0 =>
                Eval[s.recs + 1] = EvalRec(e, RecordOf(ins, s.pc)) /\ s.recs + 1 \in 1 .. n
  <1> DEFINE s == Walk[c]
             ins == img.insn[s.pc]
             e == Eval[s.recs]
             a == Runs!After[c]
  <1>1. c \in Nat /\ IsImage(img) /\ n \in Nat
    BY RunFacts
  <1>2. s \in Place /\ a \in Arch /\ Walk[c + 1] = StepOne(img, s) /\ Runs!After[c + 1] = Runs!Ordinary(a)
    BY <1>1, RunFacts
  <1>3. s.recs \in Nat /\ s.pc \in Word /\ s.recs \in 0 .. n
    BY <1>2 DEF Place, InStep
  <1>4. e \in Mach
    <2> HIDE DEF Mach
    <2> QED BY <1>3, RunFacts
  <1>5. e = [x |-> e.x, pc |-> spc] /\ e.x \in Regs /\ a = [pc |-> s.pc, x |-> e.x, ok |-> TRUE]
    <2>1. e = [x |-> e.x, pc |-> e.pc] /\ e.x \in Regs
      BY <1>4 DEF Mach
    <2>2. a = [pc |-> a.pc, x |-> a.x, ok |-> a.ok] /\ a.ok \in BOOLEAN
      BY <1>2 DEF Arch
    <2>3. a.ok = TRUE
      BY <2>2 DEF InStep
    <2> QED BY <2>1, <2>2, <2>3 DEF InStep
  <1>6. /\ Fetchable(img, s.pc) /\ Walk[c + 1].recs <= n
        /\ ins.k # "jal" \/ ins.rd # 0 => block[s.recs + 1] = RecordOf(ins, s.pc)
    BY DEF Inv, PathInv, Decoded
  <1>7. ins \in Insn /\ InsnAt(img, s.pc) = ins
    BY <1>1, <1>3, <1>6, FetchedInsn
  <1>8. ~IsTrap(img, s.pc) => Runs!After[c + 1] =
          [pc |-> NextPc(ins, s.pc, e.x), x |-> NextX(ins, s.pc, e.x), ok |-> TRUE]
    <2> SUFFICES ASSUME ~IsTrap(img, s.pc)
                 PROVE Runs!Ordinary(a) =
                         [pc |-> NextPc(ins, s.pc, e.x), x |-> NextX(ins, s.pc, e.x), ok |-> TRUE]
      BY <1>2
    <2>1. a.ok /\ a.pc = s.pc /\ a.x = e.x
      BY DEF InStep
    <2> HIDE DEF a, s, e
    <2> QED BY <1>6, <2>1, OrdinaryDef
  <1>9. Walk[c + 1] = IF ins.k = "jal"
          THEN [recs |-> s.recs + (IF ins.rd = 0 THEN 0 ELSE 1), pc |-> Add(s.pc, ins.imm)]
          ELSE [recs |-> s.recs + 1, pc |-> Add(s.pc, ins.w)]
    BY <1>2, <1>7 DEF StepOne
  <1>10. Walk[c + 1].recs \in 0 .. n
    BY <1>1, <1>3, <1>6, <1>9
  <1>11. ASSUME ins.k # "jal" \/ ins.rd # 0
         PROVE Eval[s.recs + 1] = EvalRec(e, RecordOf(ins, s.pc)) /\ s.recs + 1 \in 1 .. n
    <2>1. Walk[c + 1].recs = s.recs + 1
      BY <1>9, <1>11
    <2>2. s.recs + 1 \in 1 .. n /\ s.recs + 1 - 1 = s.recs
      BY <1>1, <1>3, <1>10, <2>1
    <2> DEFINE j == s.recs + 1
    <2>3. block[j] = RecordOf(ins, s.pc)
      BY <1>6, <1>11
    <2>4. j \in 1 .. n /\ j - 1 = s.recs
      BY <1>3, <2>2
    <2>5. Eval[j] = EvalRec(Eval[j - 1], block[j])
      <3> HIDE DEF j
      <3> QED BY <2>4, RunFacts
    <2>6. Eval[j] = EvalRec(e, RecordOf(ins, s.pc))
      <3> HIDE DEF j, s, ins
      <3> QED BY <2>3, <2>4, <2>5
    <2> QED BY <2>2, <2>6
  <1> QED BY <1>1, <1>2, <1>3, <1>4, <1>5, <1>6, <1>7, <1>8, <1>9, <1>10, <1>11

\* The record of an ordinary instruction does to the registers what the
\* instruction does where it stands: the baked values stand for its pc.
LEMMA RecordEffect ==
  ASSUME NEW ins \in Insn, NEW a, NEW y \in Regs, NEW q,
         ~IsTerminator(ins.k), ins.k # "jal" \/ ins.rd # 0
  PROVE EvalRec([x |-> y, pc |-> q], RecordOf(ins, a)) = [x |-> NextX(ins, a, y), pc |-> q]
  <1> DEFINE e == [x |-> y, pc |-> q]
             r == RecordOf(ins, a)
  <1>1. ins.k \in {"alu", "mem", "lui", "auipc", "jal"}
    BY DEF Insn, InsnKind, IsTerminator
  <1>2. \A v : [e EXCEPT !.x = v] = [x |-> v, pc |-> q]
    OBVIOUS
  <1>3. e.x = y /\ e.pc = q
    OBVIOUS
  <1> HIDE DEF e
  <1>4. CASE ins.k = "alu"
    <2>1. r = [k |-> "alu", rd |-> ins.rd, rs |-> ins.rs, imm |-> ins.imm]
      BY <1>4 DEF RecordOf, Bake
    <2> QED BY <1>2, <1>3, <1>4, <2>1 DEF EvalRec, NextX, e
  <1>5. CASE ins.k = "mem"
    <2>1. r = [k |-> "mem", rd |-> ins.rd, rs |-> ins.rs, imm |-> ins.imm]
      BY <1>5 DEF RecordOf, Bake
    <2> QED BY <1>5, <2>1 DEF EvalRec, NextX, e
  <1>6. CASE ins.k = "lui"
    <2>1. r = [k |-> "lui", rd |-> ins.rd, rs |-> ins.rs, imm |-> ins.imm]
      BY <1>6 DEF RecordOf, Bake
    <2> QED BY <1>2, <1>3, <1>6, <2>1 DEF EvalRec, NextX, e
  <1>7. CASE ins.k = "auipc"
    <2>1. r = [k |-> "lui", rd |-> ins.rd, rs |-> ins.rs, imm |-> Add(a, ins.imm)]
      BY <1>7 DEF RecordOf, Bake
    <2> QED BY <1>2, <1>3, <1>7, <2>1 DEF EvalRec, NextX, e
  <1>8. CASE ins.k = "jal"
    <2>1. r = [k |-> "lui", rd |-> ins.rd, rs |-> ins.rs, imm |-> Add(a, ins.w)]
      BY <1>8 DEF RecordOf
    <2> QED BY <1>2, <1>3, <1>8, <2>1 DEF EvalRec, NextX, e
  <1> QED BY <1>1, <1>4, <1>5, <1>6, <1>7, <1>8

\* An ordinary instruction of the run keeps the walk, the records and the
\* architecture in step.
LEMMA OneStep ==
  ASSUME Inv, phase \in {"decode", "eval"}, NEW c \in 0 .. (insns - 1), InStep(c),
         ~IsTerminator(img.insn[Walk[c].pc].k)
  PROVE InStep(c + 1)
  <1> DEFINE s == Walk[c]
             ins == img.insn[s.pc]
             e == Eval[s.recs]
             t == Walk[c + 1]
             a == Runs!After[c + 1]
  <1>1. /\ ins \in Insn /\ s.recs \in Nat
        /\ e = [x |-> e.x, pc |-> spc] /\ e.x \in Regs
        /\ ~IsTrap(img, s.pc) =>
             a = [pc |-> NextPc(ins, s.pc, e.x), x |-> NextX(ins, s.pc, e.x), ok |-> TRUE]
        /\ t = IF ins.k = "jal"
             THEN [recs |-> s.recs + (IF ins.rd = 0 THEN 0 ELSE 1), pc |-> Add(s.pc, ins.imm)]
             ELSE [recs |-> s.recs + 1, pc |-> Add(s.pc, ins.w)]
        /\ t.recs \in 0 .. n
        /\ ins.k # "jal" \/ ins.rd # 0 =>
             Eval[s.recs + 1] = EvalRec(e, RecordOf(ins, s.pc)) /\ s.recs + 1 \in 1 .. n
    BY AtInsn
  <1>2. ~IsTerminator(ins.k)
    OBVIOUS
  <1> HIDE DEF s, e, t, a
  <1>3. a = [pc |-> NextPc(ins, s.pc, e.x), x |-> NextX(ins, s.pc, e.x), ok |-> TRUE]
    BY <1>1, <1>2 DEF IsTrap, IsTerminator
  <1>4. a.ok /\ a.pc = t.pc
    BY <1>1, <1>2, <1>3 DEF NextPc, IsTerminator
  <1>5. a.x = Eval[t.recs].x /\ Eval[t.recs].pc = spc
    <2>1. CASE ins.k = "jal" /\ ins.rd = 0
      <3>1. t.recs = s.recs
        BY <1>1, <2>1
      <3>2. NextX(ins, s.pc, e.x) = e.x
        BY <2>1 DEF NextX, Wr
      <3>3. Eval[t.recs] = e
        BY <3>1 DEF e
      <3> QED BY <1>1, <1>3, <3>2, <3>3
    <2>2. CASE ins.k # "jal" \/ ins.rd # 0
      <3>1. t.recs = s.recs + 1
        BY <1>1, <2>2
      <3>2. EvalRec(e, RecordOf(ins, s.pc)) = [x |-> NextX(ins, s.pc, e.x), pc |-> spc]
        <4>1. EvalRec([x |-> e.x, pc |-> spc], RecordOf(ins, s.pc)) = [x |-> NextX(ins, s.pc, e.x), pc |-> spc]
          BY <1>1, <1>2, <2>2, RecordEffect
        <4> QED BY <1>1, <4>1
      <3>3. Eval[t.recs] = [x |-> NextX(ins, s.pc, e.x), pc |-> spc]
        BY <1>1, <2>2, <3>1, <3>2
      <3> QED BY <1>3, <3>3
    <2> QED BY <2>1, <2>2
  <1> QED BY <1>1, <1>4, <1>5 DEF InStep, t, a

\* Every instruction of the run is reached in step: only the last one can be a
\* branch, an indirect jump or a trap.
LEMMA Follows ==
  ASSUME Inv, phase \in {"decode", "eval"}, NEW c \in 0 .. (insns - 1)
  PROVE InStep(c)
  <1> DEFINE T == {d \in Nat : d <= insns - 1 => InStep(d)}
  <1>1. insns \in Nat /\ n \in Nat
    BY RunFacts
  <1>2. 0 \in T
    <2>1. InStep(0)
      <3>1. /\ Runs!After[0] = [pc |-> run_pc, x |-> x, ok |-> TRUE] /\ Walk[0] = [recs |-> 0, pc |-> run_pc]
            /\ Eval[0] = [x |-> x, pc |-> spc]
        BY RunFacts
      <3> QED BY <1>1, <3>1 DEF InStep
    <2> QED BY <2>1
  <1>3. ASSUME NEW d \in Nat, d \in T PROVE d + 1 \in T
    <2> SUFFICES ASSUME d + 1 <= insns - 1 PROVE InStep(d + 1)
      OBVIOUS
    <2>1. d \in 0 .. (insns - 1) /\ d # insns - 1 /\ InStep(d)
      BY <1>1, <1>3
    <2>2. ~IsTerminator(img.insn[Walk[d].pc].k)
      BY <2>1 DEF Inv, PathInv, Decoded
    <2> QED BY <2>1, <2>2, OneStep
  <1>4. Nat \subseteq T
    <2> HIDE DEF T
    <2> QED BY <1>2, <1>3, SetInduction
  <1> QED BY <1>1, <1>4

\* A run without a trap, executed to its end.
LEMMA RunExecuted ==
  ASSUME Inv, phase = "eval", Last(block).k \notin TrapKind
  PROVE LET a == Runs!After[insns] IN a.ok /\ a.pc = Eval[n].pc /\ a.x = Eval[n].x
  <1> DEFINE c == insns - 1
             s == Walk[c]
             ins == img.insn[s.pc]
             e == Eval[s.recs]
             a == Runs!After[insns]
  <1>1. /\ c \in 0 .. (insns - 1) /\ c + 1 = insns /\ n \in Nat
        /\ Walk[insns] = [recs |-> n, pc |-> pc] /\ spc = pc
        /\ Last(block) = block[n]
    BY RunFacts DEF Inv, TypesInv, PathInv, Last, n
  <1>2. InStep(c)
    BY <1>1, Follows
  <1>3. CASE ~IsTerminator(ins.k)
    <2>1. InStep(c + 1)
      BY <1>1, <1>2, <1>3, OneStep
    <2>2. InStep(insns)
      BY <1>1, <2>1
    <2> QED BY <1>1, <2>2 DEF InStep
  <1>4. CASE IsTerminator(ins.k)
    <2>1. /\ ins \in Insn /\ s.recs \in Nat /\ s.pc \in Word
          /\ e = [x |-> e.x, pc |-> spc] /\ e.x \in Regs
          /\ ~IsTrap(img, s.pc) => Runs!After[c + 1] =
               [pc |-> NextPc(ins, s.pc, e.x), x |-> NextX(ins, s.pc, e.x), ok |-> TRUE]
          /\ Walk[c + 1] = IF ins.k = "jal"
               THEN [recs |-> s.recs + (IF ins.rd = 0 THEN 0 ELSE 1), pc |-> Add(s.pc, ins.imm)]
               ELSE [recs |-> s.recs + 1, pc |-> Add(s.pc, ins.w)]
          /\ ins.k # "jal" \/ ins.rd # 0 =>
               Eval[s.recs + 1] = EvalRec(e, RecordOf(ins, s.pc)) /\ s.recs + 1 \in 1 .. n
      BY <1>1, <1>2, AtInsn
    <2>2. ins.k # "jal" /\ RecordOf(ins, s.pc) = Bake(ins, s.pc) /\ RecordOf(ins, s.pc).k = ins.k
      BY <1>4, <2>1, TerminatorRecord
    <2>3. Walk[insns] = [recs |-> s.recs + 1, pc |-> Add(s.pc, ins.w)]
      BY <1>1, <2>1, <2>2
    <2>4. s.recs + 1 = n /\ spc = Add(s.pc, ins.w)
      BY <1>1, <2>3
    <2>5. block[n] = RecordOf(ins, s.pc)
      <3>1. Decoded(c)
        BY <1>1 DEF Inv, PathInv
      <3> QED BY <2>2, <2>4, <3>1 DEF Decoded
    <2>6. ins.k \in {"branch", "jalr"}
      BY <1>1, <1>4, <2>2, <2>5 DEF IsTerminator
    <2>7. Eval[n] = EvalRec(e, Bake(ins, s.pc))
      BY <2>1, <2>2, <2>4
    <2>8. a = [pc |-> NextPc(ins, s.pc, e.x), x |-> NextX(ins, s.pc, e.x), ok |-> TRUE]
      BY <1>1, <2>1, <2>6 DEF IsTrap, TrapKind
    <2> HIDE DEF s, e, ins, a
    <2>9. CASE ins.k = "branch"
      <3>1. Bake(ins, s.pc) = [k |-> "branch", rd |-> ins.rd, rs |-> ins.rs, imm |-> Add(s.pc, ins.imm)]
        BY <2>9 DEF Bake
      <3>2. Taken(Bake(ins, s.pc), e.x) <=> Taken(ins, e.x)
        BY <3>1 DEF Taken
      <3>3. Eval[n] = IF Taken(ins, e.x) THEN [x |-> e.x, pc |-> Add(s.pc, ins.imm)] ELSE [x |-> e.x, pc |-> spc]
        BY <2>1, <2>7, <3>1, <3>2 DEF EvalRec
      <3>4. NextX(ins, s.pc, e.x) = e.x
        BY <2>9 DEF NextX
      <3>5. NextPc(ins, s.pc, e.x) = IF Taken(ins, e.x) THEN Add(s.pc, ins.imm) ELSE Add(s.pc, ins.w)
        BY <2>9 DEF NextPc
      <3> QED BY <2>4, <2>8, <3>3, <3>4, <3>5 DEF a
    <2>10. CASE ins.k = "jalr"
      <3>1. Bake(ins, s.pc) = [k |-> "jalr", rd |-> ins.rd, rs |-> ins.rs, imm |-> ins.imm]
        BY <2>10 DEF Bake
      <3>2. Eval[n] = [x |-> Wr(e.x, ins.rd, spc), pc |-> JalrTarget(ins, e.x)]
        BY <2>1, <2>7, <3>1 DEF EvalRec, JalrTarget
      <3>3. NextX(ins, s.pc, e.x) = Wr(e.x, ins.rd, Add(s.pc, ins.w)) /\ NextPc(ins, s.pc, e.x) = JalrTarget(ins, e.x)
        BY <2>10 DEF NextX, NextPc
      <3> QED BY <2>4, <2>8, <3>2, <3>3 DEF a
    <2> QED BY <2>6, <2>9, <2>10
  <1> QED BY <1>3, <1>4

\* Evaluating the record of a trap changes nothing.
LEMMA TrapRecord == ASSUME NEW s, NEW rec, rec.k \in TrapKind PROVE EvalRec(s, rec) = s
  BY DEF EvalRec, TrapKind

\* A run that ends in a trap, executed up to it: the trap is the instruction
\* the architecture is at, and it changes no register.
LEMMA TrapExecuted ==
  ASSUME Inv, phase = "eval", Last(block).k \in TrapKind
  PROVE LET a == Runs!After[insns - 1] IN
          /\ insns - 1 \in Nat
          /\ a.ok /\ Fetchable(img, a.pc) /\ img.insn[a.pc].k = Last(block).k
          /\ a.x = Eval[n].x /\ pc = Add(a.pc, img.insn[a.pc].w)
  <1>1. PICK c \in 0 .. (insns - 1) :
          /\ Walk[c].recs = n - 1 /\ Walk[c + 1].recs = n
          /\ Fetchable(img, Walk[c].pc) /\ img.insn[Walk[c].pc] \in Insn
          /\ Last(block) = RecordOf(img.insn[Walk[c].pc], Walk[c].pc)
    BY LastRecord DEF Inv
  <1> DEFINE s == Walk[c]
             ins == img.insn[s.pc]
             e == Eval[s.recs]
  <1>2. /\ c \in Nat /\ n \in Nat /\ insns \in Nat /\ Walk[insns] = [recs |-> n, pc |-> pc]
        /\ IsTerminator(ins.k) => c = insns - 1
    <2>1. n \in Nat /\ insns \in Nat
      BY RunFacts
    <2>2. Walk[insns] = [recs |-> n, pc |-> pc] /\ Decoded(c)
      BY DEF Inv, PathInv
    <2> QED BY <2>1, <2>2 DEF Decoded
  <1>3. InStep(c)
    BY Follows
  <1>4. /\ ins \in Insn /\ s.recs \in Nat /\ s.pc \in Word
        /\ e = [x |-> e.x, pc |-> spc]
        /\ Runs!After[c] = [pc |-> s.pc, x |-> e.x, ok |-> TRUE]
        /\ Walk[c + 1] = IF ins.k = "jal"
             THEN [recs |-> s.recs + (IF ins.rd = 0 THEN 0 ELSE 1), pc |-> Add(s.pc, ins.imm)]
             ELSE [recs |-> s.recs + 1, pc |-> Add(s.pc, ins.w)]
        /\ ins.k # "jal" \/ ins.rd # 0 =>
             Eval[s.recs + 1] = EvalRec(e, RecordOf(ins, s.pc)) /\ s.recs + 1 \in 1 .. n
    BY <1>3, AtInsn
  <1>5. ins.k = Last(block).k /\ ins.k # "jal"
    <2>1. RecordOf(ins, s.pc).k \in TrapKind
      BY <1>1
    <2>2. ins.k # "jal"
      BY <2>1 DEF RecordOf, TrapKind
    <2>3. RecordOf(ins, s.pc) = Bake(ins, s.pc)
      BY <2>2 DEF RecordOf
    <2>4. ins.k # "auipc" /\ Bake(ins, s.pc).k = ins.k
      BY <1>4, <2>1, <2>3, BakeRec DEF TrapKind
    <2> QED BY <1>1, <2>2, <2>3, <2>4
  <1>6. c = insns - 1 /\ c + 1 = insns
    <2>1. IsTerminator(ins.k)
      BY <1>5 DEF IsTerminator
    <2> QED BY <1>2, <2>1
  <1>7. s.recs + 1 = n /\ pc = Add(s.pc, ins.w)
    BY <1>2, <1>4, <1>5, <1>6
  <1>8. Eval[n].x = e.x
    <2>1. Eval[n] = EvalRec(e, RecordOf(ins, s.pc))
      BY <1>4, <1>5, <1>7
    <2>2. EvalRec(e, RecordOf(ins, s.pc)) = e
      <3>1. RecordOf(ins, s.pc).k \in TrapKind
        BY <1>1
      <3> HIDE DEF e
      <3> QED BY ONLY <3>1, TrapRecord
    <2> QED BY <2>1, <2>2
  <1>9. insns - 1 = c
    BY <1>2, <1>6
  <1>10. Runs!After[c] = [pc |-> s.pc, x |-> e.x, ok |-> TRUE]
    BY <1>4
  <1>11. Fetchable(img, s.pc)
    BY <1>1
  <1> HIDE DEF e
  <1> QED BY ONLY <1>2, <1>5, <1>7, <1>8, <1>9, <1>10, <1>11 DEF ins

\* An evaluator that gave up before the last record: the re-walk finds the
\* instruction the architecture is at, and how many have retired.
LEMMA StopExecuted ==
  ASSUME Inv, phase = "eval", NEW ran \in Nat, ran < n
  PROVE LET m == FixupInsns(ran)
            a == Runs!After[m]
        IN m \in 0 .. (insns - 1) /\ a.ok /\ a.pc = Walk[m].pc /\ a.x = Eval[ran].x
  <1>1. FixupInsns(ran) \in 0 .. (insns - 1) /\ Walk[FixupInsns(ran)].recs = ran
    BY FixupFacts DEF Inv
  <1>2. InStep(FixupInsns(ran))
    BY <1>1, Follows
  <1> QED BY <1>1, <1>2 DEF InStep

-----------------------------------------------------------------------------
(* The induction.                                                           *)

\* RiscvEmulatorInit starts without a run.
LEMMA InvInit == Init => Inv
  <1> SUFFICES ASSUME Init PROVE Inv
    OBVIOUS
  <1>1. 0 \in Word /\ x \in Regs
    BY AddrModAssumption, LastRegAssumption DEF Init, ResetRegs, Regs, Reg, Word
  <1>2. block \in Seq(Rec) /\ n = 0
    <2> HIDE DEF Rec
    <2> QED BY DEF Init, n
  <1> QED BY <1>1, <1>2, PurvsAssumption DEF Init, NoTrap, Inv, TypesInv, PathInv

\* The end of a run leaves none.
LEMMA InvEndRun ==
  ASSUME TypesInv, EndRun, UNCHANGED <<img, max>>, phase' \in {"idle", "loop"},
         x' \in Regs, {spc', trap'.pc} \subseteq Word, k' \in Nat, k' <= max
  PROVE Inv'
  <1>1. 0 \in Word /\ BlockMax \in Nat /\ max \in Nat
    BY AddrModAssumption, PurvsAssumption DEF Word, TypesInv
  <1>2. block' \in Seq(Rec) /\ n' = 0
    <2> HIDE DEF Rec
    <2> QED BY DEF EndRun, n
  <1> QED BY <1>1, <1>2, PurvsAssumption DEF EndRun, Inv, TypesInv, PathInv

\* A handler leaves words in the registers.
LEMMA HandlerType == ASSUME NEW y \in Regs PROVE HandlerRegs(y) \subseteq Regs
  <1> SUFFICES ASSUME NEW z \in HandlerRegs(y) PROVE z \in Regs
    OBVIOUS
  <1> DEFINE left(S) == {[r \in Reg |-> IF r \in S THEN f[r] ELSE y[r]] : f \in [S -> HostWords]}
  <1>1. PICK S \in SUBSET HostRegs : z \in left(S)
    <2>1. z \in UNION {left(S) : S \in SUBSET HostRegs}
      BY DEF HandlerRegs, Handled
    <2> HIDE DEF left
    <2> QED BY <2>1
  <1>2. PICK f \in [S -> HostWords] : z = [r \in Reg |-> IF r \in S THEN f[r] ELSE y[r]]
    BY <1>1
  <1>3. \A r \in Reg : (IF r \in S THEN f[r] ELSE y[r]) \in Word
    BY <1>2, PurvsAssumption DEF Regs
  <1> QED BY <1>2, <1>3 DEF Regs

\* The machine after any number of records of the run.
LEMMA EvalType ==
  ASSUME Inv, phase \in {"decode", "eval"}, NEW j \in 0 .. n
  PROVE Eval[j].x \in Regs /\ Eval[j].pc \in Word
  <1>1. Eval[j] \in Mach
    <2> HIDE DEF Mach
    <2> QED BY RunFacts
  <1> QED BY <1>1 DEF Mach

\* A call and a return touch no run.
LEMMA InvCall == ASSUME Inv, \E b \in 0 .. MaxBudget, a \in Entries \cup {spc} : Call(b, a) PROVE Inv'
  <1>1. Entries \subseteq Word
    BY PurvsAssumption
  <1>2. n' = n
    BY DEF Call, runvars, n
  <1> QED BY <1>1, <1>2 DEF Call, runvars, Inv, TypesInv, PathInv

LEMMA InvReturn == ASSUME Inv, Return PROVE Inv'
  <1>1. n' = n
    BY DEF Return, runvars, n
  <1> QED BY <1>1 DEF Return, runvars, Inv, TypesInv, PathInv

\* A new run: nothing decoded, and a cap that the budget and the buffer allow.
LEMMA InvStartRun == ASSUME Inv, StartRun PROVE Inv'
  <1>1. img \in Images /\ spc \in Word /\ IsImage(img) /\ k \in Nat /\ max \in Nat /\ k < max
    BY PurvsAssumption DEF Inv, TypesInv, StartRun
  <1>2. lim' \in Nat /\ lim' > 0 /\ lim' <= BlockMax /\ k + lim' <= max
    BY <1>1, PurvsAssumption DEF StartRun, RunCap
  <1>3. block' \in Seq(Rec) /\ n' = 0 /\ insns' = 0
    <2> HIDE DEF Rec
    <2> QED BY DEF StartRun, n
  <1>4. Walk'[0] = [recs |-> 0, pc |-> spc]
    <2>1. Walk' = WalkFrom(img, spc)
      BY DEF StartRun, Walk
    <2> QED BY <1>1, <2>1, WalkDef
  <1>5. TypesInv'
    BY <1>1, <1>2, <1>3 DEF Inv, TypesInv, StartRun
  <1>6. PathInv'
    <2>1. 0 .. (insns' - 1) = {}
      BY <1>3
    <2>2. phase' = "decode" /\ pc' = spc /\ spc' = spc /\ run_pc' = spc /\ insns' = 0
      BY DEF StartRun
    <2>3. Walk'[insns'] = [recs |-> n', pc |-> pc']
      BY <1>3, <1>4, <2>2
    <2> QED BY <1>2, <2>1, <2>2, <2>3 DEF PathInv
  <1> QED BY <1>5, <1>6 DEF Inv

\* The end of loop 1: no record to evaluate, or the whole run is.
LEMMA InvDecodeEnd == ASSUME Inv, DecodeEnd PROVE Inv'
  <1>1. /\ phase = "decode" /\ spc' = pc /\ UNCHANGED <<img, x, trap, max>> /\ insns > 0
        /\ pc \in Word /\ trap.pc \in Word /\ x \in Regs
        /\ k \in Nat /\ insns \in Nat /\ lim \in Nat /\ max \in Nat /\ insns <= lim /\ k + lim <= max
    BY DEF DecodeEnd, DecodeDone, Inv, TypesInv
  <1>2. CASE n = 0
    <2>1. EndRun /\ phase' = "loop" /\ k' = k + insns
      BY <1>2 DEF DecodeEnd
    <2>2. k' \in Nat /\ k' <= max
      BY <1>1, <2>1
    <2> QED BY <1>1, <2>1, <2>2, InvEndRun DEF Inv
  <1>3. CASE n # 0
    <2>1. phase' = "eval" /\ UNCHANGED <<k, runvars>>
      BY <1>3 DEF DecodeEnd
    <2>2. n' = n /\ n \in Nat /\ Walk' = Walk
      BY <1>1, <2>1 DEF runvars, n, Walk, Inv, TypesInv
    <2>3. TypesInv'
      BY <1>1, <2>1, <2>2 DEF runvars, Inv, TypesInv
    <2>4. \A c \in 0 .. (insns' - 1) : Decoded(c)'
      <3>1. ASSUME NEW c \in 0 .. (insns - 1) PROVE Decoded(c)'
        <4>1. Decoded(c)
          BY <1>1 DEF Inv, PathInv
        <4> QED BY <1>1, <2>1, <2>2, <4>1 DEF runvars, Decoded
      <3> QED BY <2>1, <3>1 DEF runvars
    <2>5. PathInv'
      BY <1>1, <1>3, <2>1, <2>2, <2>4 DEF runvars, Inv, PathInv
    <2> QED BY <2>3, <2>5 DEF Inv
  <1> QED BY <1>2, <1>3

\* The end of loop 2: evaluated to the end, or up to where the evaluator stopped.
LEMMA InvEval ==
  ASSUME Inv, \/ EvalRun
              \/ \E stop \in StopChoices : EvalTrap(stop)
              \/ \E ran \in EvalStops : EvalStop(ran)
  PROVE Inv'
  <1>1. /\ phase = "eval" /\ n \in Nat /\ n > 0 /\ IsImage(img)
        /\ pc \in Word /\ last_pc \in Word /\ trap.pc \in Word
        /\ k \in Nat /\ insns \in Nat /\ lim \in Nat /\ max \in Nat /\ insns <= lim /\ k + lim <= max
    BY RunFacts DEF EvalRun, EvalTrap, EvalStop, Inv, TypesInv, PathInv
  <1>2. CASE EvalRun
    <2>1. Eval[n].x \in Regs /\ Eval[n].pc \in Word
      BY <1>1, EvalType
    <2>2. /\ EndRun /\ UNCHANGED <<img, trap, max>> /\ phase' = "loop"
          /\ x' = Eval[n].x /\ spc' = Eval[n].pc /\ k' = k + insns
      BY <1>2 DEF EvalRun
    <2>3. k' \in Nat /\ k' <= max
      BY <1>1, <2>2
    <2> QED BY <1>1, <2>1, <2>2, <2>3, InvEndRun DEF Inv
  <1>3. ASSUME NEW stop \in StopChoices, EvalTrap(stop) PROVE Inv'
    <2>1. Eval[n].x \in Regs
      BY <1>1, EvalType
    <2>2. /\ EndRun /\ UNCHANGED <<img, max>> /\ phase' \in {"idle", "loop"}
          /\ x' \in HandlerRegs(Eval[n].x) /\ spc' \in {last_pc, pc} \cup Entries /\ k' = k + insns
          /\ trap'.pc = last_pc
      BY <1>3 DEF EvalTrap
    <2>3. k' \in Nat /\ k' <= max
      BY <1>1, <2>2
    <2>4. x' \in Regs
      BY <2>1, <2>2, HandlerType
    <2>5. spc' \in Word
      BY <1>1, <2>2, PurvsAssumption
    <2> QED BY <1>1, <2>2, <2>3, <2>4, <2>5, InvEndRun DEF Inv
  <1>4. ASSUME NEW ran \in EvalStops, EvalStop(ran) PROVE Inv'
    <2> DEFINE m == FixupInsns(ran)
    <2>1. /\ EndRun /\ UNCHANGED <<img, trap, max>> /\ phase' = "loop" /\ ran < n
          /\ x' = Eval[ran].x /\ spc' = Walk[m].pc /\ k' = k + m
      BY <1>4 DEF EvalStop
    <2>2. ran \in Nat /\ ran \in 0 .. n
      BY <1>1, <2>1, PurvsAssumption
    <2>3. m \in 0 .. (insns - 1)
      BY <1>1, <2>1, <2>2, FixupFacts DEF Inv
    <2> HIDE DEF m
    <2>4. Walk[m] \in Place
      BY <1>1, <2>3, RunFacts
    <2>5. k' \in Nat /\ k' <= max /\ spc' \in Word /\ x' \in Regs
      BY <1>1, <2>1, <2>2, <2>3, <2>4, EvalType DEF Place
    <2> QED BY <1>1, <2>1, <2>5, InvEndRun DEF Inv
  <1> QED BY <1>2, <1>3, <1>4

\* Every step of the engine keeps the invariant.
LEMMA InvNext == ASSUME FullWindows, Inv, [Next]_vars PROVE Inv'
  <1>1. ASSUME NothingToRun PROVE Inv'
    <2>1. EndRun /\ phase' = "idle" /\ UNCHANGED <<img, spc, x, trap, max, k>>
      BY <1>1 DEF NothingToRun
    <2>2. k \in Nat /\ lim \in Nat /\ max \in Nat /\ k + lim <= max
      BY DEF Inv, TypesInv
    <2>3. k' \in Nat /\ k' <= max
      BY <2>1, <2>2
    <2> QED BY <2>1, <2>3, InvEndRun DEF Inv, TypesInv
  <1>2. ASSUME NEW ins \in Fetched, DecodeJump(ins) \/ DecodeOne(ins) PROVE Inv'
    BY <1>2, DecodeStep
  <1>3. ASSUME UNCHANGED vars PROVE Inv'
    <2>1. n' = n /\ Walk' = Walk
      BY <1>3 DEF vars, n, Walk
    <2>2. TypesInv'
      BY <1>3, <2>1 DEF vars, Inv, TypesInv
    <2>3. \A c : Decoded(c)' <=> Decoded(c)
      BY <1>3, <2>1 DEF vars, Decoded
    <2>4. PathInv'
      BY <1>3, <2>1, <2>3 DEF vars, Inv, PathInv
    <2> QED BY <2>2, <2>4 DEF Inv
  <1> QED BY <1>1, <1>2, <1>3, InvCall, InvReturn, InvStartRun, InvDecodeEnd, InvEval DEF Next, Loop

\* Every reachable state satisfies the invariant.
LEMMA InvAlways == ASSUME FullWindows PROVE Spec => []Inv
  <1>1. Inv /\ [Next]_vars => Inv'
    BY InvNext
  <1> QED BY <1>1, InvInit, PTL DEF Spec

\* purvs.c: the words stay 32-bit, and no run overflows the buffer, the budget
\* or its cap, for every image, budget and buffer length.
THEOREM RunFitsBuffer == ASSUME FullWindows PROVE Spec => []TypeOK
  <1>1. Inv => TypeOK
    <2> SUFFICES ASSUME Inv PROVE TypeOK
      OBVIOUS
    <2>1. IsImage(img) /\ BlockMax \in Nat /\ n \in Nat
      BY PurvsAssumption DEF Inv, TypesInv, n
    <2> QED BY <2>1 DEF Inv, TypesInv, TypeOK
  <1> QED BY <1>1, InvAlways, PTL

\* purvs.c: "while pc stays <= win ... a fetch needs no bounds check", for every
\* code window of at least four bytes.
THEOREM FetchStaysInside == ASSUME FullWindows PROVE Spec => []FetchInBounds
  <1>1. Inv => FetchInBounds
    BY WindowFetch DEF Inv, FetchInBounds
  <1> QED BY <1>1, InvAlways, PTL

-----------------------------------------------------------------------------
(* The contract.                                                            *)

\* What ends loop 1 before the first instruction is the end of the code.
LEMMA NothingFetchable ==
  ASSUME Inv, NothingToRun PROVE run_pc = spc /\ ~Fetchable(img, run_pc)
  <1>1. /\ IsImage(img) /\ pc = run_pc /\ spc = run_pc /\ pc \in Nat /\ insns = 0 /\ lim > 0 /\ lim \in Nat
        /\ n \in Nat /\ n <= insns
    <2>1. phase = "decode" /\ insns = 0
      BY DEF NothingToRun, DecodeDone
    <2>2. Walk[0] = [recs |-> 0, pc |-> run_pc] /\ Walk[0] = [recs |-> n, pc |-> pc] /\ spc = run_pc
      BY <2>1, RunFacts DEF Inv, PathInv
    <2>3. pc \in Word /\ n <= insns /\ lim \in Nat /\ lim > 0 /\ IsImage(img) /\ n \in Nat
      BY <2>1, RunFacts DEF Inv, TypesInv, PathInv
    <2> QED BY <2>1, <2>2, <2>3 DEF Word
  <1>2. ~DecodedLast
    <2>1. Len(block) = 0 /\ block \in Seq(Rec)
      BY <1>1 DEF n, Inv, TypesInv
    <2>2. block = <<>>
      <3> HIDE DEF Rec
      <3> QED BY <2>1
    <2> QED BY <2>2 DEF DecodedLast
  <1>3. OffEnd
    BY <1>1, <1>2 DEF NothingToRun, DecodeDone
  <1>4. ~Fetchable(img, pc)
    <2> SUFFICES ASSUME Fetchable(img, pc) PROVE FALSE
      OBVIOUS
    <2>1. img.len \in Nat /\ pc < img.len /\ pc + img.insn[pc].w <= img.len
      BY <1>1 DEF Fetchable, IsImage, Word
    <2>2. pc \in 0 .. (img.len - 1)
      BY <1>1, <2>1
    <2>3. img.insn[pc].w \in {2, 4}
      BY <1>1, <2>2 DEF IsImage, Insn
    <2> QED BY <1>1, <1>3, <2>1, <2>3 DEF OffEnd
  <1> QED BY <1>1, <1>4

\* A run of nothing but omitted jumps: every one of them is executed.
LEMMA JumpsExecuted ==
  ASSUME Inv, phase = "decode", n = 0, insns > 0
  PROVE LET a == Runs!After[insns] IN a.ok /\ a.pc = pc /\ a.x = x
  <1> DEFINE c == insns - 1
             ins == img.insn[Walk[c].pc]
  <1>1. /\ insns \in Nat /\ c \in 0 .. (insns - 1) /\ c + 1 = insns
        /\ Walk[insns] = [recs |-> n, pc |-> pc] /\ Eval[0] = [x |-> x, pc |-> spc]
    <2>1. insns \in Nat
      BY RunFacts
    <2>2. Walk[insns] = [recs |-> n, pc |-> pc] /\ Eval[0] = [x |-> x, pc |-> spc]
      BY RunFacts DEF Inv, PathInv
    <2> QED BY <2>1, <2>2
  <1>2. InStep(c)
    BY <1>1, Follows
  <1>3. ins \in Insn /\ (ins.k # "jal" \/ ins.rd # 0 => Walk[c].recs + 1 \in 1 .. n)
    BY <1>1, <1>2, AtInsn
  <1>4. ~IsTerminator(ins.k)
    <2>1. 1 .. n = {}
      OBVIOUS
    <2> QED BY <1>3, <2>1 DEF IsTerminator, TrapKind
  <1>5. InStep(insns)
    <2>1. InStep(c + 1)
      BY <1>1, <1>2, <1>4, OneStep
    <2> QED BY <1>1, <2>1
  <1> QED BY <1>1, <1>5 DEF InStep

\* Every step is a step of the contract or none: decoding is invisible, a run
\* is the architecture's, and the trap that ends it is the one the architecture
\* is at.
LEMMA RunsStep ==
  ASSUME Inv, Inv', StopChoices \subseteq {FALSE}, [Next]_vars
  PROVE [Runs!Next]_Runs!vars
  <1> DEFINE st == IF phase = "idle" THEN "idle" ELSE "run"
  <1> USE DEF ArchPc
  <1>1. /\ k \in Nat /\ max \in 0 .. MaxBudget /\ insns \in Nat /\ lim \in Nat /\ n \in Nat
        /\ n <= insns /\ insns <= lim /\ k + lim <= max /\ MaxBudget \in Nat
    BY PurvsAssumption DEF Inv, TypesInv, n
  <1>2. ASSUME NEW b \in 0 .. MaxBudget, NEW a \in Entries \cup {spc}, Call(b, a) PROVE Runs!Next
    <2>1. a \in Word
      BY PurvsAssumption DEF Inv, TypesInv
    <2> QED BY <1>2, <2>1, SameMachine DEF Call, Runs!Next, Runs!Enter
  <1>3. ASSUME Return PROVE Runs!Next
    <2>1. k = max
      BY <1>1, <1>3 DEF Return
    <2> QED BY <1>3, <2>1 DEF Return, Runs!Next, Runs!Return
  <1>4. ASSUME StartRun PROVE UNCHANGED Runs!vars
    BY <1>4 DEF StartRun, Runs!vars
  <1>5. ASSUME NEW ins \in Fetched, DecodeJump(ins) \/ DecodeOne(ins) PROVE UNCHANGED Runs!vars
    BY <1>5 DEF DecodeJump, DecodeOne, Decoding, Runs!vars
  <1>6. ASSUME NothingToRun PROVE Runs!Next
    <2>1. run_pc = spc /\ ~Runs!Fetchable(img, run_pc)
      BY <1>6, NothingFetchable, SameMachine
    <2> QED BY <1>6, <2>1 DEF NothingToRun, DecodeDone, Runs!Next, Runs!Return
  <1>7. ASSUME DecodeEnd PROVE Runs!Next \/ UNCHANGED Runs!vars
    <2>1. phase = "decode" /\ insns > 0 /\ spc' = pc /\ UNCHANGED <<img, x, trap, max>>
      BY <1>7 DEF DecodeEnd, DecodeDone
    <2>2. CASE n = 0
      <3>1. Runs!After[insns].ok /\ Runs!After[insns].pc = pc /\ Runs!After[insns].x = x
        BY <2>1, <2>2, JumpsExecuted
      <3>2. phase' = "loop" /\ k' = k + insns
        BY <1>7, <2>2 DEF DecodeEnd
      <3>3. Runs!Run(insns)
        BY <1>1, <2>1, <3>1, <3>2 DEF Runs!Run
      <3> QED BY <1>1, <2>1, <3>3 DEF Runs!Next
    <2>3. CASE n # 0
      <3>1. phase' = "eval" /\ UNCHANGED <<k, run_pc>>
        BY <1>7, <2>3 DEF DecodeEnd, runvars
      <3> QED BY <2>1, <3>1 DEF Runs!vars
    <2> QED BY <2>2, <2>3
  <1>8. ASSUME EvalRun PROVE Runs!Next
    <2>1. phase = "eval" /\ Last(block).k \notin TrapKind /\ n > 0
      BY <1>8 DEF EvalRun, Inv, PathInv
    <2>2. Runs!After[insns].ok /\ Runs!After[insns].pc = Eval[n].pc /\ Runs!After[insns].x = Eval[n].x
      BY <2>1, RunExecuted
    <2>3. /\ phase' = "loop" /\ x' = Eval[n].x /\ spc' = Eval[n].pc /\ k' = k + insns
          /\ UNCHANGED <<img, trap, max>>
      BY <1>8 DEF EvalRun
    <2>4. Runs!Run(insns)
      BY <1>1, <2>1, <2>2, <2>3 DEF Runs!Run
    <2> QED BY <1>1, <2>1, <2>4 DEF Runs!Next
  <1>9. ASSUME NEW stop \in StopChoices, EvalTrap(stop) PROVE Runs!Next
    <2> DEFINE m == insns - 1
               a == Runs!After[m]
    <2>1. phase = "eval" /\ Last(block).k \in TrapKind /\ ~stop
      BY <1>9 DEF EvalTrap
    <2>2. /\ m \in Nat /\ a.ok /\ Fetchable(img, a.pc) /\ img.insn[a.pc].k = Last(block).k
          /\ a.x = Eval[n].x /\ pc = Add(a.pc, img.insn[a.pc].w)
      BY <2>1, TrapExecuted
    <2>3. /\ phase' = "loop" /\ spc' = pc /\ k' = k + insns /\ UNCHANGED <<img, max>>
          /\ trap'.k = Last(block).k /\ x' \in HandlerRegs(Eval[n].x)
      BY <1>9, <2>1 DEF EvalTrap
    <2>4. /\ Runs!Fetchable(img, a.pc) /\ Runs!IsTrap(img, a.pc)
          /\ x' \in Runs!Handled(a.x, HostRegs, HostWords)
          /\ pc = Runs!Add(a.pc, img.insn[a.pc].w)
      BY <2>1, <2>2, <2>3, SameMachine DEF IsTrap, HandlerRegs
    <2>5. k' = k + m + 1 /\ k + m + 1 <= max /\ m \in 0 .. MaxBudget
      BY <1>1, <2>2, <2>3
    <2> HIDE DEF m
    <2>6. Runs!RunTrap(m)
      BY <2>1, <2>2, <2>3, <2>4, <2>5 DEF Runs!RunTrap
    <2> QED BY <2>5, <2>6 DEF Runs!Next
  <1>10. ASSUME NEW ran \in EvalStops, EvalStop(ran) PROVE Runs!Next \/ UNCHANGED Runs!vars
    <2> DEFINE m == FixupInsns(ran)
               a == Runs!After[m]
    <2>1. /\ phase = "eval" /\ ran < n /\ phase' = "loop" /\ UNCHANGED <<img, trap, max>>
          /\ x' = Eval[ran].x /\ spc' = Walk[m].pc /\ k' = k + m /\ ran \in Nat
      BY <1>10, PurvsAssumption DEF EvalStop
    <2>2. m \in 0 .. (insns - 1) /\ a.ok /\ a.pc = Walk[m].pc /\ a.x = Eval[ran].x
      BY <2>1, StopExecuted
    <2> HIDE DEF m
    <2>3. CASE m = 0
      <3>1. a = [pc |-> run_pc, x |-> x, ok |-> TRUE]
        BY <2>1, <2>3, RunFacts
      <3>2. x' = x /\ spc' = run_pc /\ k' = k
        BY <1>1, <2>1, <2>2, <2>3, <3>1
      <3> QED BY <2>1, <3>2 DEF Runs!vars
    <2>4. CASE m # 0
      <3>1. m \in 1 .. MaxBudget /\ k + m <= max
        BY <1>1, <2>2, <2>4
      <3>2. Runs!Run(m)
        BY <2>1, <2>2, <3>1 DEF Runs!Run
      <3> QED BY <3>1, <3>2 DEF Runs!Next
    <2> QED BY <2>3, <2>4
  <1>11. ASSUME UNCHANGED vars PROVE UNCHANGED Runs!vars
    BY <1>11 DEF vars, Runs!vars
  <1> QED BY <1>2, <1>3, <1>4, <1>5, <1>6, <1>7, <1>8, <1>9, <1>10, <1>11 DEF Next, Loop

\* purvs implements the contract of a batching engine, for every image with a
\* full window, every budget, buffer length, handler result and evaluator that
\* gives up.  A handler that stops the call is left out: it finds the pc of the
\* run's start, not of the trap.
THEOREM PurvsContractRefined ==
  ASSUME FullWindows, StopChoices \subseteq {FALSE} PROVE Spec => ImplementsRuns
  <1>1. Init => Runs!Init
    <2> SUFFICES ASSUME Init PROVE Runs!Init
      OBVIOUS
    <2>1. Runs!IsImage(img)
      BY PurvsAssumption, SameMachine DEF Init
    <2> QED BY <2>1, SameMachine DEF Init, NoTrap, ArchPc, Runs!Init
  <1>2. Inv /\ Inv' /\ [Next]_vars => [Runs!Next]_Runs!vars
    BY RunsStep
  <1> QED BY <1>1, <1>2, InvAlways, PTL DEF Spec, ImplementsRuns, Runs!Spec
=============================================================================

----------------------------- MODULE Transcode -----------------------------
(***************************************************************************)
(* emu/purva/transcode.c: RV32IM code is rewritten ahead of time into op   *)
(* words.  Several instructions may collapse into one op; op indices fall  *)
(* behind instruction numbers, and a map takes the one to the other.  A    *)
(* program is its decoded instructions, numbered from 0 (the code counts   *)
(* them in steps of four bytes).  The classes are kept that a fusion looks *)
(* at; "add" and "addi" also stand for the other ALU ops.                  *)
(***************************************************************************)
EXTENDS Words, Sequences, FiniteSets

CONSTANTS
  RankReg,    \* rank2reg: the callee-saved registers in save order, 13 of them
  FrameMax,   \* largest frame the 13-bit field holds: 0x1fff in the code
  LiRange,    \* reach of a 21-bit load-immediate: 2^20 in the code
  LoRange,    \* reach of a 12-bit offset: 2^11 in the code
  IdxRange,   \* LWX offsets are -1024 .. 1023 in the code
  PairRange,  \* LWLW offsets are -128 .. 127 in the code
  SrcRange, DstRange \* LWSW offsets are below 128 and 256 in the code

SpReg == 2
RaReg == 1
Branches == {"beq", "bne"}
Zeroable == {"add", "addi", "slli", "auipc"}
Unit(op, rd, rs1, rs2, imm, target, width) ==
  [op |-> op, rd |-> rd, rs1 |-> rs1, rs2 |-> rs2, imm |-> imm, target |-> target, width |-> width]
NoUnit == Unit("none", 0, 0, 0, 0, 0, 0)

\* decode: a pure write to x0 is a nop.
Decode(code, i) ==
  LET c == code[i]
      op == IF c.rd = 0 /\ c.op \in Zeroable THEN "nop" ELSE c.op
  IN Unit(op, c.rd, c.rs1, c.rs2, c.imm, c.target, 1)

\* Mutated form: what is reached only through pointers is not collected.
CollectTargetsDirect(code, ext) ==
  {code[i].target : i \in {j \in DOMAIN code : code[j].op \in Branches \cup {"jal"}}}

\* collect_targets: the places that must keep an op of their own.
CollectTargets(code, ext) ==
  {code[i].target : i \in {j \in DOMAIN code : code[j].op \in Branches \cup {"jal"}}} \cup ext

\* rank_of, or -1.
RankOf(r) ==
  IF \E j \in DOMAIN RankReg : RankReg[j] = r
    THEN (CHOOSE j \in DOMAIN RankReg : RankReg[j] = r) - 1 ELSE -1

\* Mutated form: the offsets fit the frame, the order of the registers is free.
FrameCanonicalAnyOrder(slots, N) ==
  \A p \in 0 .. (Len(slots) - 1) : \E c \in 1 .. Len(slots) : slots[c].off = N - 4 - 4 * p

\* frame_canonical: from the top of the frame down, without gaps, the saved
\* registers come in rank order.
FrameCanonical(slots, N) ==
  LET cnt == Len(slots)
      at(p) == {c \in 1 .. cnt : slots[c].off = N - 4 - 4 * p}
      rank(p) == RankOf(slots[CHOOSE c \in at(p) : \A d \in at(p) : c <= d].reg)
  IN /\ \A p \in 0 .. (cnt - 1) : at(p) # {}
     /\ \A p, q \in 0 .. (cnt - 1) : p < q => rank(p) < rank(q)

\* The instructions from i on that satisfy P, as many as there are ranks.
RunOf(code, i, P(_)) ==
  LET fits == {c \in 0 .. Len(RankReg) : i + c <= Cardinality(DOMAIN code)
                                         /\ \A j \in i .. (i + c - 1) : P(j)}
  IN CHOOSE c \in fits : \A d \in fits : d <= c

\* frame_enc: the mask holds the ranks, the frame its size.
FrameUnit(op, regs, N, width) ==
  [Unit(op, 0, 0, 0, N, 0, width) EXCEPT !.rs1 = {RankOf(r) : r \in regs}]

\* try_fuse_prologue: addi sp, then saves none of which is a jump target.
FusePrologue(code, targets, i) ==
  LET a == Decode(code, i)
      N == 0 - a.imm
      save(j) == LET s == Decode(code, j) IN
        j \notin targets /\ s.op = "sw" /\ s.rs1 = SpReg /\ RankOf(s.rs2) >= 0
      cnt == RunOf(code, i + 1, save)
      slots == [c \in 1 .. cnt |-> [reg |-> code[i + c].rs2, off |-> code[i + c].imm]]
  IN IF /\ a.op = "addi" /\ a.rd = SpReg /\ a.rs1 = SpReg /\ a.imm < 0 /\ N <= FrameMax
        /\ cnt > 0 /\ FrameCanonical(slots, N)
       THEN FrameUnit("PROLOGUE", {slots[c].reg : c \in 1 .. cnt}, N, 1 + cnt)
       ELSE NoUnit

\* try_fuse_epilogue: restores, addi sp and ret; only the head may be a target.
FuseEpilogue(code, targets, i) ==
  LET restore(j) == LET l == Decode(code, j) IN
        (j = i \/ j \notin targets) /\ l.op = "lw" /\ l.rs1 = SpReg /\ RankOf(l.rd) >= 0
      cnt == RunOf(code, i, restore)
      o == i + cnt
      slots == [c \in 1 .. cnt |-> [reg |-> code[i + c - 1].rd, off |-> code[i + c - 1].imm]]
      ok == /\ cnt > 0 /\ o + 2 <= Cardinality(DOMAIN code) /\ {o, o + 1} \cap targets = {}
            /\ LET ad == Decode(code, o)
                   rt == Decode(code, o + 1)
               IN /\ ad.op = "addi" /\ ad.rd = SpReg /\ ad.rs1 = SpReg /\ ad.imm \in 1 .. FrameMax
                  /\ rt.op = "jalr" /\ rt.rd = 0 /\ rt.rs1 = RaReg /\ rt.imm = 0
                  /\ FrameCanonical(slots, ad.imm)
  IN IF ok THEN FrameUnit("EPILOGUE", {slots[c].reg : c \in 1 .. cnt}, code[o].imm, cnt + 2)
           ELSE NoUnit

\* The load-immediate for an address near 0 or near RISCV_HALF.
LoadImm(rd, v, near0, width) ==
  IF near0 THEN Unit("LI", rd, 0, 0, v, 0, width)
  ELSE IF Signed(Wrap(v - Half)) \in (0 - LiRange) .. (LiRange - 1)
    THEN Unit("LI", rd, 0, 0, v, 0, width) ELSE NoUnit

\* try_fuse_la: auipc rd ; addi rd, rd: a data address is a constant of the true pc.
FuseLa(code, targets, i) ==
  IF i + 2 > Cardinality(DOMAIN code) \/ i + 1 \in targets THEN NoUnit
  ELSE LET a == Decode(code, i)
           b == Decode(code, i + 1)
           final == Wrap(4 * i + a.imm + b.imm)
       IN IF a.op = "auipc" /\ b.op = "addi" /\ b.rd = a.rd /\ b.rs1 = a.rd
             /\ final >= 4 * Cardinality(DOMAIN code)
            THEN LoadImm(a.rd, final, Signed(final) \in (0 - LiRange) .. (LiRange - 1), 2)
            ELSE NoUnit

\* An offset in a signed field that reaches from -range to range - 1.
InField(v, range) == v \in (0 - range) .. (range - 1)
Field(v, range) == ((v + range) % (2 * range)) - range

FuseShadd(a, b) ==
  LET other == IF b.rs1 = a.rd THEN b.rs2 ELSE b.rs1
  IN IF a.op = "slli" /\ b.op = "add" /\ b.rd = a.rd /\ a.rd \in {b.rs1, b.rs2} /\ other # a.rd
       THEN Unit("SHADD", a.rd, other, a.rs1, a.imm, 0, 2) ELSE NoUnit

FuseLwx(a, b) ==
  IF a.op = "add" /\ b.op = "lw" /\ b.rd = a.rd /\ b.rs1 = a.rd /\ InField(b.imm, IdxRange)
    THEN Unit("LWX", a.rd, a.rs1, a.rs2, Field(b.imm, IdxRange), 0, 2) ELSE NoUnit

\* The double load, and the vtable call when a jalr ra, 0(T) follows it.
FuseLwlw(code, targets, i, a, b) ==
  LET o == <<Field(a.imm, PairRange), Field(b.imm, PairRange)>>
      call == /\ i + 3 <= Cardinality(DOMAIN code) /\ i + 2 \notin targets
              /\ LET c == Decode(code, i + 2)
                 IN c.op = "jalr" /\ c.rd = RaReg /\ c.rs1 = a.rd /\ c.imm = 0
  IN IF /\ a.op = "lw" /\ a.rd # 0 /\ b.op = "lw" /\ b.rd = a.rd /\ b.rs1 = a.rd
        /\ InField(a.imm, PairRange) /\ InField(b.imm, PairRange)
       THEN IF call THEN Unit("VCALL", a.rd, a.rs1, 0, o, 0, 3) ELSE Unit("LWLW", a.rd, a.rs1, 0, o, 0, 2)
       ELSE NoUnit

FuseLwsw(a, b) ==
  IF /\ a.op = "lw" /\ a.rd # 0 /\ b.op = "sw" /\ b.rs2 = a.rd
     /\ a.imm \in 0 .. (SrcRange - 1) /\ a.imm % 4 = 0
     /\ b.imm \in 0 .. (DstRange - 1) /\ b.imm % 4 = 0
    THEN Unit("LWSW", a.rd, a.rs1, b.rs1, <<a.imm, b.imm>>, 0, 2) ELSE NoUnit

\* rs2 carries the condition: 1 branches on zero.
FuseLoadBz(a, b) ==
  IF /\ a.op \in {"lw", "lbu"} /\ a.rd # 0 /\ b.op \in Branches
     /\ (b.rs1 = a.rd /\ b.rs2 = 0) \/ (b.rs2 = a.rd /\ b.rs1 = 0)
    THEN Unit(IF a.op = "lw" THEN "LW_BZ" ELSE "LBU_BZ", a.rd, a.rs1,
              IF b.op = "beq" THEN 1 ELSE 0, a.imm, b.target, 2)
    ELSE NoUnit

\* The first of a sequence of attempts that matched.
FirstOf(tries) ==
  LET matched == {j \in DOMAIN tries : tries[j].op # "none"}
  IN IF matched = {} THEN NoUnit ELSE tries[CHOOSE j \in matched : \A h \in matched : j <= h]

\* try_fuse_pair
FusePair(code, targets, i) ==
  IF i + 2 > Cardinality(DOMAIN code) \/ i + 1 \in targets THEN NoUnit
  ELSE LET a == Decode(code, i)
           b == Decode(code, i + 1)
       IN FirstOf(<<FuseShadd(a, b), FuseLwx(a, b), FuseLwlw(code, targets, i, a, b),
                    FuseLwsw(a, b), FuseLoadBz(a, b)>>)

\* A lone auipc of a data address is a load-immediate too.
LoneAuipc(d, i) ==
  LET val == Wrap(4 * i + d.imm)
  IN IF d.op = "auipc"
       THEN LoadImm(d.rd, val, Signed(val) \in (0 - LiRange) .. (0 - LoRange - 1), 1)
       ELSE NoUnit

\* step: the unit that starts at i.
Step(code, targets, i) ==
  FirstOf(<<FusePrologue(code, targets, i), FuseEpilogue(code, targets, i),
            FuseLa(code, targets, i), FusePair(code, targets, i),
            LoneAuipc(Decode(code, i), i), Decode(code, i)>>)

\* op_words: a nop is dropped, a load and branch takes two words.
OpWords(op) == CASE op = "nop" -> 0 [] op \in {"LW_BZ", "LBU_BZ"} -> 2 [] OTHER -> 1

\* The walk both passes make: the units in order, each with its head.
Units(code, targets) ==
  LET n == Cardinality(DOMAIN code)
      from[i \in 0 .. n] ==
        IF i = n THEN <<>>
        ELSE LET u == Step(code, targets, i)
             IN <<[head |-> i, u |-> u]>> \o from[i + u.width]
  IN from[0]

WordsBefore(units, j) ==
  LET sum[h \in 0 .. (j - 1)] == IF h = 0 THEN 0 ELSE sum[h - 1] + OpWords(units[h].u.op)
  IN sum[j - 1]

\* build_map: heads to op indices; the other instructions have no entry.
BuildMap(units) ==
  [i \in {units[j].head : j \in DOMAIN units} |->
     WordsBefore(units, CHOOSE j \in DOMAIN units : units[j].head = i)]

\* target_word: a target that has no op gets a displacement of zero.
TargetWord(map, target, at) == IF target \in DOMAIN map THEN map[target] ELSE at

\* emit: a branch or a jump carries the op index it leads to.
Emit(u, at, map) ==
  CASE u.op = "nop" -> <<>>
    [] u.op \in {"LW_BZ", "LBU_BZ"} ->
         <<[u EXCEPT !.target = TargetWord(map, u.target, at)], [u EXCEPT !.op = "disp"]>>
    [] u.op \in Branches \cup {"jal"} -> <<[u EXCEPT !.target = TargetWord(map, u.target, at)]>>
    [] OTHER -> <<u>>

\* transcode_ex
TranscodeEx(code, ext) ==
  LET units == Units(code, CollectTargets(code, ext))
      map == BuildMap(units)
      ops[j \in 0 .. Len(units)] ==
        IF j = 0 THEN <<>>
        ELSE ops[j - 1] \o Emit(units[j].u, Len(ops[j - 1]), map)
  IN [ops |-> ops[Len(units)], map |-> map]
=============================================================================

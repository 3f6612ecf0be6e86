------------------------------- MODULE Tctool -------------------------------
(***************************************************************************)
(* emu/purva/tctool.c around the transcoder: the relocations the linker    *)
(* kept say which instructions take a code address, so that they can be    *)
(* re-encoded for op space.  Every instruction carries its relocation rel: *)
(* kind "hi", an auipc of the symbol at instruction to (-1: in the data)   *)
(* plus add bytes; "lo", the instruction that completes the auipc at to;   *)
(* or "none".  Refusals (exit 2) leave ok FALSE.                           *)
(***************************************************************************)
EXTENDS Transcode

NoRel == [kind |-> "none", to |-> -1, add |-> 0]

\* A displacement split as auipc and a 12-bit offset split it.
HiPart(d) == ((d + LoRange) \div (2 * LoRange)) * (2 * LoRange)
LoPart(d) == d - HiPart(d)

CodeHi(code) == {i \in DOMAIN code : code[i].rel.kind = "hi" /\ code[i].rel.to # -1}
DataHi(code) == {i \in DOMAIN code : code[i].rel.kind = "hi" /\ code[i].rel.to = -1}

\* collect_pcrel_code_fixups: each instruction that completes a code address, with
\* its auipc; every such auipc has one.
Fixups(code) ==
  {f \in CodeHi(code) \X DOMAIN code : code[f[2]].rel.kind = "lo" /\ code[f[2]].rel.to = f[1]}
AllPaired(code) == \A i \in CodeHi(code) : \E f \in Fixups(code) : f[1] = i

\* The instruction in which a symbol's address plus its addend lies.
TakenAt(rel) == rel.to + (rel.add \div 4)

\* collect_code_address_relocs, and the completing instructions: what must keep an
\* op of its own.  A sum outside the code is left out; a data symbol's is.
ExtAddrs(code, pointers) ==
  pointers \cup ({TakenAt(code[i].rel) : i \in CodeHi(code)} \cap DOMAIN code)
           \cup {f[2] : f \in Fixups(code)}

\* The ops that keep a 12-bit immediate in their low bits.
Imm16Low == {"addi", "slli", "lw", "lbu", "sw", "jalr", "LW_BZ", "LBU_BZ"}

\* The checks of apply_pcrel_code_fixups.
Fixable(code, t, f) ==
  /\ {f[1], f[2], code[f[1]].rel.to} \subseteq DOMAIN t.map
  /\ LET lo == t.ops[t.map[f[2]] + 1].op
     IN /\ code[f[2]].op = "sw" => lo = "sw"
        /\ lo \in Imm16Low
  /\ t.ops[t.map[f[1]] + 1].op = "auipc"

\* The displacement between the two ops of a pair.
Displacement(code, t, f) ==
  4 * t.map[code[f[1]].rel.to] + code[f[1]].rel.add - 4 * t.map[f[1]]

\* apply_pcrel_code_fixups: the ops of each pair are re-encoded.  Pairs that share
\* an auipc have one displacement.
ApplyFixups(code, t) ==
  LET high(j) == {f \in Fixups(code) : t.map[f[1]] + 1 = j}
      low(j) == {f \in Fixups(code) : t.map[f[2]] + 1 = j}
      d(F) == Displacement(code, t, CHOOSE f \in F : TRUE)
  IN [j \in DOMAIN t.ops |->
        IF high(j) # {} THEN [t.ops[j] EXCEPT !.imm = HiPart(d(high(j)))]
        ELSE IF low(j) # {} THEN [t.ops[j] EXCEPT !.imm = LoPart(d(low(j)))]
        ELSE t.ops[j]]

\* resolve_data_auipc: the constant a bare auipc of a data address loads.
DataValue(ops, t, i) == Wrap(4 * i + ops[t.map[i] + 1].imm)
Bare(ops, t, i) == i \in DOMAIN t.map /\ ops[t.map[i] + 1].op = "auipc"
Near(v) == \E b \in {0, Half} : Signed(Wrap(v - b)) \in (1 - LiRange) .. (LiRange - 1)
ResolveData(code, t, ops) ==
  [j \in DOMAIN ops |->
     IF \E i \in DataHi(code) : Bare(ops, t, i) /\ t.map[i] + 1 = j
       THEN LET i == CHOOSE h \in DataHi(code) : Bare(ops, t, h) /\ t.map[h] + 1 = j
            IN Unit("LI", ops[j].rd, 0, 0, DataValue(ops, t, i), 0, 1)
       ELSE ops[j]]

\* main: transcode with the addresses collected, then re-encode.
Refusal == [ok |-> FALSE]
Resolve(code, ext, t, ops) ==
  IF \A i \in DataHi(code) : Bare(ops, t, i) => Near(DataValue(ops, t, i))
    THEN [ok |-> TRUE, ext |-> ext, map |-> t.map, ops |-> ResolveData(code, t, ops)]
    ELSE Refusal
Reencode(code, ext, t) ==
  IF AllPaired(code) /\ \A f \in Fixups(code) : Fixable(code, t, f)
    THEN Resolve(code, ext, t, ApplyFixups(code, t)) ELSE Refusal
ToolFor(code, ext) == Reencode(code, ext, TranscodeEx(code, ext))
Tool(code, pointers) == ToolFor(code, ExtAddrs(code, pointers))
=============================================================================

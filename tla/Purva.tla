------------------------------- MODULE Purva -------------------------------
(***************************************************************************)
(* emu/purva/purva.c: RiscvEmulatorLoop over transcoded ops.  The op       *)
(* cursor p is the pc; straight-line ops advance it without any check,     *)
(* jumps and serviced traps check the budget.  Code addresses in registers *)
(* and memory are op-space addresses, four times an op index.  A word that *)
(* is no op (past the last op, or the second word of a two-word op) is     *)
(* left undefined: the model stops there.                                  *)
(***************************************************************************)
EXTENDS Tctool, RegionMemory

CONSTANTS
  Programs,    \* the programs: decoded instructions numbered from 0
  ExtTargets,  \* instructions whose address a program may hold in memory
  Start,       \* registers at the first call
  PtrCells,    \* byte offsets of memory words: VtCell points at CodeCell,
               \* CodeCell holds a code pointer
  Budgets,     \* the values of max the host passes
  MaxUnit,     \* most instructions one op stands for
  HostReg, HostWords, \* a0, and what a handler may leave there
  WordBits     \* bits of a word: 32 in the code

\* What the transcoder is given: instructions numbered from 0, whose registers
\* exist and whose branches, jumps and relocations name instructions.
InsnOps == {"add", "addi", "slli", "auipc", "lw", "lbu", "sw", "beq", "bne", "jal", "jalr",
            "ecall", "ebreak", "illegal"}
IsInsn(c, places) ==
  /\ c.op \in InsnOps /\ {c.rd, c.rs1, c.rs2} \subseteq DOMAIN Start
  /\ c.imm \in Int /\ (c.op = "slli" => c.imm \in Nat)
  /\ c.op \in Branches \cup {"jal"} => c.target \in places
  /\ c.rel.kind = "hi" => c.rel.add \in Int /\ c.rel.to \in places \cup {-1}
IsProgram(c) ==
  /\ IsFiniteSet(DOMAIN c) /\ DOMAIN c = 0 .. (Cardinality(DOMAIN c) - 1)
  /\ \A i \in DOMAIN c : IsInsn(c[i], DOMAIN c)

ASSUME ProgramAssumption ==
  \A c \in Programs : IsProgram(c) /\ ExtTargets \subseteq DOMAIN c
ASSUME MachineAssumption ==
  /\ Start \in [DOMAIN Start -> Word] /\ {SpReg, RaReg} \subseteq DOMAIN Start
  /\ HostWords \subseteq Word /\ RankReg \in Seq(DOMAIN Start)
  /\ {PtrCells.vt, PtrCells.code} \subseteq Nat
  /\ {LiRange, LoRange, IdxRange, PairRange, WordBits} \subseteq Nat \ {0}

VARIABLES
  code, ext,   \* the program and the instructions reached through pointers
  tc,          \* its transcoding
  spc, x, mem, \* s->pc, s->x, the writable buffer
  phase,       \* idle, run
  p, k, max    \* the loop's cursor, count and budget

vars == <<code, ext, tc, spc, x, mem, phase, p, k, max>>

n_ops == Len(tc.ops)
clen == 4 * n_ops

\* tctool: a code pointer in the data becomes the op address of its target; one
\* without an op is left as linked.
Patched(t, e) ==
  PutWord(PutWord([o \in 0 .. (WLen - 1) |-> 0], PtrCells.vt, WBase + PtrCells.code),
          PtrCells.code, IF e \in DOMAIN t.map THEN 4 * t.map[e] ELSE 4 * e)

Init ==
  /\ code \in Programs
  /\ \E e \in ExtTargets :
       \E t \in {Tool(code, {e})} :
         t.ok /\ ext = t.ext /\ tc = [ops |-> t.ops, map |-> t.map] /\ mem = Patched(tc, e)
  /\ spc = 0 /\ x = Start
  /\ phase = "idle" /\ p = 0 /\ k = 0 /\ max = 0

\* The loop is entered; a pc outside the code returns at once.
Call(b) ==
  /\ phase = "idle"
  /\ IF spc >= clen THEN phase' = "idle" /\ p' = 0 ELSE phase' = "run" /\ p' = spc \div 4
  /\ max' = b /\ k' = 0
  /\ UNCHANGED <<code, ext, tc, spc, x, mem>>

w == tc.ops[p + 1]
AtOp == phase = "run" /\ p < n_ops /\ tc.ops[p + 1].op # "disp"
Op(names) == AtOp /\ w.op \in names

-----------------------------------------------------------------------------
(* The three ways on.                                                       *)

Leave(a) == phase' = "idle" /\ spc' = a /\ p' = 0

\* NEXT: no check of the budget, no check of the end.
GoOn(words, cost) ==
  phase' = "run" /\ p' = p + words /\ k' = k + cost /\ UNCHANGED spc

\* Mutated form: a jump is not counted.
RelocFree(idx, cost) ==
  /\ k' = k
  /\ IF k' >= max THEN Leave(4 * idx) ELSE phase' = "run" /\ p' = idx /\ UNCHANGED spc

\* RELOC
Reloc(idx, cost) ==
  /\ k' = k + cost
  /\ IF k' >= max THEN Leave(4 * idx) ELSE phase' = "run" /\ p' = idx /\ UNCHANGED spc

\* jalr and its fused forms: the target may lie outside the code.
Indirect(t, cost) ==
  /\ k' = k + cost
  /\ IF t >= clen \/ k' >= max THEN Leave(t)
     ELSE phase' = "run" /\ p' = t \div 4 /\ UNCHANGED spc

-----------------------------------------------------------------------------
(* The handlers.                                                            *)

Even(v) == v - (v % 2)
Base == x[w.rs1]
SetX(rd, v) == x' = [x EXCEPT ![rd] = v]
SetLoaded(rd, v) == x' = IF rd = 0 THEN x ELSE [x EXCEPT ![rd] = v]
Link(rd) == IF rd = 0 THEN x ELSE [x EXCEPT ![rd] = 4 * p + 4]

\* ALU ops, load-immediates and SHADD, which counts twice; auipc adds to the op
\* cursor.
Alu ==
  /\ Op({"add", "addi", "slli", "auipc", "LI", "SHADD"})
  /\ SetX(w.rd, CASE w.op = "add"   -> Wrap(Base + x[w.rs2])
                  [] w.op = "addi"  -> Wrap(Base + w.imm)
                  [] w.op = "slli"  -> Wrap(Base * 2^(w.imm % WordBits))
                  [] w.op = "auipc" -> Wrap(4 * p + w.imm)
                  [] w.op = "LI"    -> w.imm
                  [] w.op = "SHADD" -> Wrap(Base + x[w.rs2] * 2^w.imm))
  /\ GoOn(1, IF w.op = "SHADD" THEN 2 ELSE 1)
  /\ UNCHANGED <<code, ext, tc, mem, max>>

Load ==
  /\ Op({"lw", "lbu"})
  /\ SetLoaded(w.rd, IF w.op = "lw" THEN LoadWord(mem, Wrap(Base + w.imm))
                                    ELSE LoadByte(mem, Wrap(Base + w.imm)))
  /\ GoOn(1, 1) /\ UNCHANGED <<code, ext, tc, mem, max>>

Store ==
  /\ Op({"sw"})
  /\ mem' = StoreWord(mem, Wrap(Base + w.imm), x[w.rs2])
  /\ GoOn(1, 1) /\ UNCHANGED <<code, ext, tc, x, max>>

Lwx ==
  /\ Op({"LWX"})
  /\ SetX(w.rd, LoadWord(mem, Wrap(Base + x[w.rs2] + w.imm)))
  /\ GoOn(1, 2) /\ UNCHANGED <<code, ext, tc, mem, max>>

\* The word behind two loads.
Indirected == LoadWord(mem, Wrap(LoadWord(mem, Wrap(Base + w.imm[1])) + w.imm[2]))

Lwlw ==
  /\ Op({"LWLW"})
  /\ SetX(w.rd, Indirected)
  /\ GoOn(1, 2) /\ UNCHANGED <<code, ext, tc, mem, max>>

\* The loaded register may be the store's base.
Lwsw ==
  /\ Op({"LWSW"})
  /\ LET v == LoadWord(mem, Wrap(Base + w.imm[1]))
     IN /\ SetX(w.rd, v)
        /\ mem' = StoreWord(mem, Wrap(x'[w.rs2] + w.imm[2]), v)
  /\ GoOn(1, 2) /\ UNCHANGED <<code, ext, tc, max>>

Branch ==
  /\ Op(Branches)
  /\ IF (w.op = "beq") = (Base = x[w.rs2]) THEN Reloc(w.target, 1) ELSE GoOn(1, 1)
  /\ UNCHANGED <<code, ext, tc, x, mem, max>>

\* Both words are skipped when the branch is not taken.
LoadBz ==
  /\ Op({"LW_BZ", "LBU_BZ"})
  /\ LET a == Wrap(Base + w.imm)
         v == IF w.op = "LW_BZ" THEN LoadWord(mem, a) ELSE LoadByte(mem, a)
     IN /\ SetX(w.rd, v)
        /\ IF (v = 0) = (w.rs2 = 1) THEN Reloc(w.target, 2) ELSE GoOn(2, 2)
  /\ UNCHANGED <<code, ext, tc, mem, max>>

Jal ==
  /\ Op({"jal"})
  /\ x' = Link(w.rd) /\ Reloc(w.target, 1)
  /\ UNCHANGED <<code, ext, tc, mem, max>>

Jalr ==
  /\ Op({"jalr"})
  /\ x' = Link(w.rd) /\ Indirect(Even(Wrap(Base + w.imm)), 1)
  /\ UNCHANGED <<code, ext, tc, mem, max>>

\* The register keeps the target with bit 0 already cleared.
Vcall ==
  /\ Op({"VCALL"})
  /\ LET t == Even(Indirected)
     IN x' = [x EXCEPT ![w.rd] = t, ![RaReg] = 4 * p + 4] /\ Indirect(t, 3)
  /\ UNCHANGED <<code, ext, tc, mem, max>>

-----------------------------------------------------------------------------
(* Frames.  The mask is a set of ranks; the q-th of them lies 4 + 4q below  *)
(* the frame's top.                                                         *)

Depth(mask, r) == 4 + 4 * Cardinality({q \in mask : q < r})
SaveSpan == 4 * Len(RankReg)

\* Mutated form: only the top itself is checked.
FrameTopLoose(top) == Rel(top) <= WLen

\* frame_top: the widest band any mask can need lies in the writable buffer.
FrameTop(top) == Wrap(Rel(top) - SaveSpan) <= Wrap(WLen - SaveSpan)

\* The host buffer offset of a slot: unchecked below a good frame top, checked
\* slot by slot otherwise; -1 goes to the callback.
Slot(top, d) ==
  IF FrameTop(top) THEN Rel(top) - d
  ELSE IF Hits(Wrap(top - d), 4) THEN Rel(Wrap(top - d)) ELSE -1

Prologue ==
  /\ Op({"PROLOGUE"})
  /\ LET sp0 == x[SpReg]
         slot(r) == Slot(sp0, Depth(w.rs1, r))
         covers(r, o) == slot(r) # -1 /\ o \in slot(r) .. (slot(r) + 3)
     IN /\ mem' = [o \in DOMAIN mem |->
                     IF \E r \in w.rs1 : covers(r, o)
                       THEN LET r == CHOOSE r \in w.rs1 : covers(r, o)
                            IN ByteOf(x[RankReg[r + 1]], o - slot(r))
                       ELSE mem[o]]
        /\ SetX(SpReg, Wrap(sp0 - w.imm))
  /\ GoOn(1, Cardinality(w.rs1) + 1)
  /\ UNCHANGED <<code, ext, tc, max>>

Epilogue ==
  /\ Op({"EPILOGUE"})
  /\ LET top == Wrap(x[SpReg] + w.imm)
         slot(r) == Slot(top, Depth(w.rs1, r))
         word(r) == IF slot(r) = -1 THEN CbWord
                    ELSE IF slot(r) \in 0 .. (WLen - 4) THEN WordAt(mem, slot(r)) ELSE 0
     IN /\ x' = [g \in DOMAIN x |->
                   IF g = SpReg THEN top
                   ELSE IF RankOf(g) \in w.rs1 THEN word(RankOf(g)) ELSE x[g]]
        /\ Indirect(Even(x'[RaReg]), Cardinality(w.rs1) + 2)
  /\ UNCHANGED <<code, ext, tc, mem, max>>

\* ecall, ebreak, illegal: the handler may change a0 and may stop the run.
Trap(stop) ==
  /\ Op({"ecall", "ebreak", "illegal"})
  /\ k' = k + 1
  /\ x' \in {x} \cup {[x EXCEPT ![HostReg] = v] : v \in HostWords}
  /\ IF stop THEN Leave(4 * p)
     ELSE IF k' >= max THEN Leave(4 * p + 4)
     ELSE phase' = "run" /\ p' = p + 1 /\ spc' = 4 * p
  /\ UNCHANGED <<code, ext, tc, mem, max>>

Loop ==
  \/ Alu \/ Load \/ Store \/ Lwx \/ Lwlw \/ Lwsw \/ Branch \/ LoadBz \/ Jal \/ Jalr \/ Vcall
  \/ Prologue \/ Epilogue
  \/ \E stop \in BOOLEAN : Trap(stop)

Next == (\E b \in Budgets : Call(b)) \/ Loop

Spec == Init /\ [][Next]_vars

\* The loop is sequential code and the handlers return.
FairSpec == Spec /\ WF_vars(Loop)

-----------------------------------------------------------------------------

\* transcode.h: what can be reached keeps an op of its own.  No branch, jump
\* or code pointer leads into the inside of a fused op.
TargetsKept ==
  /\ \A i \in DOMAIN code : code[i].op \in Branches \cup {"jal"} => code[i].target \in DOMAIN tc.map
  /\ ext \subseteq DOMAIN tc.map

\* frame_top: "when [top-52, top) is in the writable region".  The saves and
\* restores it lets through unchecked stay inside the host buffer.
FrameInBuffer ==
  Op({"PROLOGUE", "EPILOGUE"})
  => LET top == IF w.op = "PROLOGUE" THEN x[SpReg] ELSE Wrap(x[SpReg] + w.imm)
     IN FrameTop(top) => \A r \in w.rs1 : Slot(top, Depth(w.rs1, r)) \in 0 .. (WLen - 4)

\* Every call returns, whatever the program: each cycle of ops passes a budget
\* check (or runs into a word that is no op).
CallReturns == phase = "run" ~> phase = "idle" \/ ~AtOp

\* The band frame_top checks for is no longer than the writable buffer, of which
\* main.c gives the stack 16 MiB at least; purvarun.h leaves it to the embedder.
\* Else its limit would wrap.
BandFits == SaveSpan <= WLen

\* A linker's program: an auipc takes a relocated address, at most a few bytes off
\* the code symbol (tctool.c keeps a longer addend as it is, whatever happened to
\* the instructions it passes), and what completes one has an offset to put its
\* low part in; none of them is a nop.  A shift stays inside the word.
IsLinked(c) ==
  \A i \in DOMAIN c :
    /\ c[i].rel.kind = "hi" => c[i].op = "auipc" /\ c[i].rd # 0
    /\ i \in CodeHi(c) => c[i].rel.add \in -3 .. 3
    /\ c[i].op = "auipc" /\ c[i].rd # 0 => c[i].rel.kind = "hi"
    /\ c[i].rel.kind = "lo" => /\ c[i].op \in {"addi", "lw", "lbu", "sw", "jalr"}
                               /\ c[i].op = "addi" => c[i].rd # 0
    /\ c[i].op = "slli" => c[i].imm < WordBits

\* x0 reads as zero, and the handlers leave it alone; neither x0 nor sp is one of
\* the registers a frame saves.
RegistersFit ==
  /\ 0 \in DOMAIN Start /\ Start[0] = 0 /\ HostReg # 0
  /\ \A j \in DOMAIN RankReg : RankReg[j] \notin {0, SpReg}

\* The host's budgets, and room for every op in what the source may do in a step.
StepsFit == Budgets \subseteq Nat /\ MaxUnit \in Nat /\ MaxUnit >= 3 /\ MaxUnit >= Len(RankReg) + 2

\* Every op has an address of its own: the code of a program is far from filling
\* the address space.
CodeFits == \A c \in Programs : 4 * Cardinality(DOMAIN c) < AddrMod

\* The code pointers a fused call loads are even: it leaves the called address
\* in its register with bit 0 cleared.
EvenCalls == Op({"VCALL"}) => Indirected % 2 = 0

Src == INSTANCE SourceProgram WITH
  map <- tc.map, opend <- n_ops, st <- phase,
  pc <- IF phase = "run" THEN 4 * p ELSE IF spc >= clen THEN spc ELSE spc - (spc % 4)

\* transcode.h: fusion "replays the exact instruction effects".  Running the
\* ops is running the source program, in registers, memory, pc and count,
\* whatever budgets the host slices it into.
ImplementsSource == Src!Spec
=============================================================================

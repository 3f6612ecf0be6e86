------------------------------- MODULE Purvs -------------------------------
(***************************************************************************)
(* RiscvEmulatorLoop of emu/purvs/purvs.c: decode ahead, then evaluate.    *)
(* Loop 1 lowers a run of instructions into `block`, tracing through       *)
(* unconditional jumps and baking every pc-relative value, until a branch, *)
(* an indirect jump, a trap, the budget, the buffer or the end of the      *)
(* code.  Loop 2 (s->eval) executes the block; an evaluator that stops     *)
(* early makes the loop re-walk the code to recover pc.                    *)
(***************************************************************************)
EXTENDS Isa, SequencesExt

CONSTANTS
  Images,      \* the code images a host may load
  MaxBudget,   \* largest max the host passes
  BlockMax,    \* RISCV_BLOCK_MAX: 64 in the code
  Entries,     \* addresses the host and its handlers may put into s->pc
  HostRegs,    \* the registers a handler may write
  HostWords,   \* what it may leave there
  StopChoices, \* what trap handlers may return: TRUE stops
  EvalStops    \* record counts after which a custom eval may stop; {} = default

ASSUME PurvsAssumption ==
  /\ \A im \in Images : IsImage(im)
  /\ MaxBudget \in Nat /\ BlockMax \in Nat /\ BlockMax > 0
  /\ Entries \subseteq Word /\ HostRegs \subseteq Reg /\ HostWords \subseteq Word
  /\ StopChoices \subseteq BOOLEAN /\ EvalStops \subseteq Nat

VARIABLES
  img,       \* s->readonly: code window (pointer and length)
  spc, x,    \* s->pc, s->x
  trap,      \* s->pc and trap op as the last handler saw them
  phase,     \* where control is: idle, loop, decode, eval
  max, k,    \* budget and retired count of this call
  lim,       \* cap on the guest instructions of this run
  pc,        \* decode cursor
  run_pc,    \* where the run starts
  last_pc,   \* the pc the loop will report for a trap
  insns,     \* guest instructions decoded into the run
  block      \* the records of the run; n is Len(block)

vars == <<img, spc, x, trap, phase, max, k, lim, pc, run_pc, last_pc, insns, block>>

runvars == <<lim, pc, run_pc, last_pc, insns, block>>

n == Len(block)
NoTrap == [pc |-> 0, k |-> "none"]

\* RiscvEmulatorInit
Init ==
  /\ img \in Images
  /\ spc = 0
  /\ x = ResetRegs
  /\ trap = NoTrap
  /\ phase = "idle"
  /\ max = 0 /\ k = 0 /\ lim = 0
  /\ pc = 0 /\ run_pc = 0 /\ last_pc = 0 /\ insns = 0 /\ block = <<>>

Call(b, a) ==
  /\ phase = "idle"
  /\ phase' = "loop" /\ spc' = a /\ max' = b /\ k' = 0
  /\ UNCHANGED <<img, x, trap, runvars>>

Return ==
  /\ phase = "loop" /\ k >= max
  /\ phase' = "idle"
  /\ UNCHANGED <<img, spc, x, trap, max, k, runvars>>

\* The run's variables are local to one turn of the outer loop.
EndRun ==
  lim' = 0 /\ pc' = 0 /\ run_pc' = 0 /\ last_pc' = 0 /\ insns' = 0 /\ block' = <<>>

\* Mutated form: the buffer caps the run, the budget does not.
RunCapBuffer == BlockMax

\* One cap for both the buffer and the budget.
RunCap == IF max - k < BlockMax THEN max - k ELSE BlockMax

\* The top of the outer loop: a new run at s->pc, capped by budget and buffer.
StartRun ==
  /\ phase = "loop" /\ k < max
  /\ phase' = "decode"
  /\ lim' = RunCap
  /\ pc' = spc /\ run_pc' = spc /\ last_pc' = spc
  /\ insns' = 0 /\ block' = <<>>
  /\ UNCHANGED <<img, spc, x, trap, max, k>>

-----------------------------------------------------------------------------
(* Loop 1.                                                                  *)

\* Mutated form: sized for a compressed instruction.
WinShort == img.len - 2

\* The last pc at which a 4-byte fetch needs no bounds check.
Win == IF img.len >= 4 THEN img.len - 4 ELSE 0

\* The careful check, made only in the tail or out of the window.
OffEnd ==
  /\ pc > Win
  /\ \/ pc >= img.len
     \/ img.len - pc < 2
     \/ img.len - pc \in 2 .. 3 /\ img.insn[pc].w = 4

IsTerminator(kind) == kind \in {"branch", "jalr"} \cup TrapKind

\* decode_one: auipc becomes the constant it computes and a branch carries its
\* absolute target, so that no record needs its own pc.
Bake(ins, a) ==
  LET rec(kind, v) == [k |-> kind, rd |-> ins.rd, rs |-> ins.rs, imm |-> v]
  IN CASE ins.k = "auipc"  -> rec("lui", Add(a, ins.imm))
       [] ins.k = "branch" -> rec("branch", Add(a, ins.imm))
       [] OTHER            -> rec(ins.k, ins.imm)

\* What the loop reads at pc: past the end of the code, anything.
Fetched == IF Fetchable(img, pc) THEN {img.insn[pc]} ELSE Insn

DecodedLast == block # <<>> /\ IsTerminator(Last(block).k)

Decoding == phase = "decode" /\ insns < lim /\ ~DecodedLast /\ ~OffEnd

\* A jump with a static target is traced: decoding goes on at its target.  A
\* linking one leaves its link as a lui record, a plain one leaves no record.
DecodeJump(ins) ==
  /\ Decoding /\ ins.k = "jal"
  /\ insns' = insns + 1
  /\ pc' = Add(pc, ins.imm)
  /\ block' = IF ins.rd = 0 THEN block
              ELSE Append(block, [k |-> "lui", rd |-> ins.rd, rs |-> ins.rs, imm |-> Add(pc, ins.w)])
  /\ UNCHANGED <<img, spc, x, trap, phase, max, k, lim, run_pc, last_pc>>

DecodeOne(ins) ==
  /\ Decoding /\ ins.k # "jal"
  /\ insns' = insns + 1
  /\ pc' = Add(pc, ins.w)
  /\ block' = Append(block, Bake(ins, pc))
  /\ UNCHANGED <<img, spc, x, trap, phase, max, k, lim, run_pc, last_pc>>

DecodeDone == phase = "decode" /\ (insns >= lim \/ DecodedLast \/ OffEnd)

\* Nothing could be decoded: the call ends with s->pc where it is.
NothingToRun ==
  /\ DecodeDone /\ insns = 0
  /\ phase' = "idle" /\ EndRun
  /\ UNCHANGED <<img, spc, x, trap, max, k>>

\* Mutated form: the jumps of a run without records are not counted.
DecodeEndJumpsFree ==
  /\ DecodeDone /\ insns > 0
  /\ spc' = pc
  /\ IF n = 0 THEN phase' = "loop" /\ k' = k /\ EndRun
              ELSE phase' = "eval" /\ UNCHANGED <<k, runvars>>
  /\ UNCHANGED <<img, x, trap, max>>

\* s->pc is preset to the fall-through.  A run of omitted jumps needs no eval.
DecodeEnd ==
  /\ DecodeDone /\ insns > 0
  /\ spc' = pc
  /\ IF n = 0 THEN phase' = "loop" /\ k' = k + insns /\ EndRun
              ELSE phase' = "eval" /\ UNCHANGED <<k, runvars>>
  /\ UNCHANGED <<img, x, trap, max>>

-----------------------------------------------------------------------------
(* Loop 2.                                                                  *)

\* One handler of RiscvEmulatorDefaultEval on s = [x, pc].
EvalRec(s, rec) ==
  CASE rec.k = "alu"    -> [s EXCEPT !.x = Wr(s.x, rec.rd, Add(s.x[rec.rs], rec.imm))]
    [] rec.k = "lui"    -> [s EXCEPT !.x = Wr(s.x, rec.rd, rec.imm)]
    [] rec.k = "branch" -> IF Taken(rec, s.x) THEN [s EXCEPT !.pc = rec.imm] ELSE s
    [] rec.k = "jalr"   -> [x |-> Wr(s.x, rec.rd, s.pc), pc |-> JalrTarget(rec, s.x)]
    [] OTHER            -> s

\* The machine after the first j records of the run.
Eval[j \in 0 .. n] ==
  IF j = 0 THEN [x |-> x, pc |-> spc] ELSE EvalRec(Eval[j - 1], block[j])

\* The whole run executed and its last record is no trap.
EvalRun ==
  LET s == Eval[n] IN
  /\ phase = "eval" /\ Last(block).k \notin TrapKind
  /\ x' = s.x /\ spc' = s.pc
  /\ k' = k + insns /\ phase' = "loop" /\ EndRun
  /\ UNCHANGED <<img, trap, max>>

HandlerRegs(y) == Handled(y, HostRegs, HostWords)

\* The run ended in a trap: s->pc is set to last_pc for the handler, and to
\* the fall-through if the handler does not stop the call; if it does, s->pc is
\* what the handler left there.
EvalTrap(stop) ==
  LET s == Eval[n] IN
  /\ phase = "eval" /\ Last(block).k \in TrapKind
  /\ k' = k + insns
  /\ trap' = [pc |-> last_pc, k |-> Last(block).k]
  /\ x' \in HandlerRegs(s.x)
  /\ IF stop THEN phase' = "idle" /\ spc' \in {last_pc} \cup Entries
             ELSE phase' = "loop" /\ spc' = pc
  /\ EndRun
  /\ UNCHANGED <<img, max>>

\* What step_one reads, without a check: past the end of the code, anything.
InsnAt(im, a) == IF a < im.len THEN im.insn[a] ELSE CHOOSE ins \in Insn : TRUE

\* One turn of fixup_pc: jumps are followed, a plain one passes no record.
StepOne(im, s) ==
  LET ins == InsnAt(im, s.pc)
  IN IF ins.k = "jal"
       THEN [recs |-> s.recs + (IF ins.rd = 0 THEN 0 ELSE 1), pc |-> Add(s.pc, ins.imm)]
       ELSE [recs |-> s.recs + 1, pc |-> Add(s.pc, ins.w)]

\* fixup_pc from a: records passed and pc reached after each number of turns.
WalkFrom(im, a) ==
  LET w[c \in Nat] == IF c = 0 THEN [recs |-> 0, pc |-> a] ELSE StepOne(im, w[c - 1])
  IN w

Walk == WalkFrom(img, run_pc)

\* The instructions fixup_pc covers to pass `records` records.
FixupInsns(records) ==
  CHOOSE c \in 0 .. insns :
    Walk[c].recs = records /\ \A d \in 0 .. (c - 1) : Walk[d].recs < records

\* Mutated form: records are counted in place of instructions.
EvalStopCountsRecords(ran) ==
  LET done == FixupInsns(ran) IN
  /\ phase = "eval" /\ ran < n
  /\ x' = Eval[ran].x
  /\ spc' = Walk[done].pc
  /\ k' = k + ran /\ phase' = "loop" /\ EndRun
  /\ UNCHANGED <<img, trap, max>>

\* A custom eval stopped after `ran` records.
EvalStop(ran) ==
  LET done == FixupInsns(ran) IN
  /\ phase = "eval" /\ ran < n
  /\ x' = Eval[ran].x
  /\ spc' = Walk[done].pc
  /\ k' = k + done /\ phase' = "loop" /\ EndRun
  /\ UNCHANGED <<img, trap, max>>

Loop ==
  \/ Return \/ StartRun
  \/ \E ins \in Fetched : DecodeJump(ins) \/ DecodeOne(ins)
  \/ NothingToRun \/ DecodeEnd
  \/ EvalRun
  \/ \E stop \in StopChoices : EvalTrap(stop)
  \/ \E ran \in EvalStops : EvalStop(ran)

Next ==
  \/ \E b \in 0 .. MaxBudget, a \in Entries \cup {spc} : Call(b, a)
  \/ Loop

Spec == Init /\ [][Next]_vars

\* The loop is sequential code and the handlers and the evaluator return.
FairSpec == Spec /\ WF_vars(Loop)

-----------------------------------------------------------------------------

\* Type correctness: the words stay 32-bit and a run never holds more records
\* than instructions nor more instructions than its cap (RISCV_BLOCK_SLOTS).
TypeOK ==
  /\ IsImage(img)
  /\ x \in Regs
  /\ {spc, pc, run_pc, last_pc, trap.pc} \subseteq Word
  /\ phase \in {"idle", "loop", "decode", "eval"}
  /\ k <= max /\ insns <= lim /\ n <= insns /\ n <= BlockMax

\* purvs.c: "while pc stays <= win ... a fetch needs no bounds check".  Every
\* instruction loop 1 decodes lies inside the code window.
FetchInBounds == Decoding => Fetchable(img, pc)

\* purvs.h: pc and inst "are valid inside ecall/ebreak/illegal"; purvs.c: "set
\* the faulting pc".  The instruction at the pc a handler was shown is the one
\* that trapped.
TrapPcValid == trap # NoTrap => trap.pc < img.len /\ img.insn[trap.pc].k = trap.k

\* Every call returns, also with an evaluator that stops early.
CallReturns == phase # "idle" ~> phase = "idle"

\* Until its run is executed, the machine is where the run starts.
ArchPc == IF phase \in {"decode", "eval"} THEN run_pc ELSE spc

Runs == INSTANCE EngineRuns WITH
  pc <- ArchPc, st <- IF phase = "idle" THEN "idle" ELSE "run", cause <- trap.k

\* Decoding ahead, baking, tracing through jumps and the pc re-walk are
\* invisible: every run is a sequence of architectural instructions, counted
\* exactly, and a call returns short only at a pc that cannot be fetched or on
\* a stopping trap, with pc at that trap.
ImplementsRuns == Runs!Spec
=============================================================================

------------------------------- MODULE Purv --------------------------------
(***************************************************************************)
(* RiscvEmulatorLoop of emu/purv.c: decode and execute fused.  The outer   *)
(* loop validates pc and sizes a window of instructions that can be        *)
(* fetched with no further bounds check; the inner loop runs the window    *)
(* straight-line; a taken branch or a jump assigns pc and goes back to the *)
(* outer loop.  The host calls the loop again and again with budgets of    *)
(* its choice.                                                             *)
(***************************************************************************)
EXTENDS Isa

CONSTANTS
  Images,    \* the code images a host may load
  MaxBudget, \* largest max the host passes
  Entries,   \* addresses the host and its handlers may put into s->pc
  HostRegs,  \* the registers a handler may write
  HostWords  \* what it may leave there

ASSUME ImagesAssumption == \A im \in Images : IsImage(im)
ASSUME MaxBudgetAssumption == MaxBudget \in Nat
ASSUME EntriesAssumption == Entries \subseteq Word
ASSUME HostAssumption == HostRegs \subseteq Reg /\ HostWords \subseteq Word

VARIABLES
  img,    \* s->readonly: code window (pointer and length)
  spc,    \* s->pc
  x,      \* s->x
  trap,   \* s->pc and s->inst as the last handler saw them
  phase,  \* where control is: idle, outer, inner, out, trapout
  pc,     \* the loop's local pc
  max, k, \* budget and retired count of this call
  base,   \* pc at which the current window was sized
  safe,   \* instructions the window admits
  i       \* instructions run in the window

vars == <<img, spc, x, trap, phase, pc, max, k, base, safe, i>>

NoTrap == [pc |-> 0, k |-> "none"]

\* RiscvEmulatorInit
Init ==
  /\ img \in Images
  /\ spc = 0
  /\ x = ResetRegs
  /\ trap = NoTrap
  /\ phase = "idle"
  /\ pc = 0 /\ max = 0 /\ k = 0 /\ base = 0 /\ safe = 0 /\ i = 0

\* The host enters the loop, at s->pc or at an address it has just put there.
Call(b, a) ==
  /\ phase = "idle"
  /\ phase' = "outer" /\ spc' = a /\ pc' = a /\ max' = b /\ k' = 0
  /\ UNCHANGED <<img, x, trap, base, safe, i>>

\* Mutated form: the straddle check is dropped.
NoWindowNoStraddle == pc >= img.len \/ img.len - pc < 2

\* The outer loop's reasons to stop looking for a window at pc.
NoWindow ==
  \/ pc >= img.len
  \/ img.len - pc < 2
  \/ img.len - pc \in 2 .. 3 /\ img.insn[pc].w = 4  \* straddles the end

\* Mutated forms: the tail is not special; one instruction too many.
SafeCountNoTail == (img.len - pc) \div 4
SafeCountOffByOne == 1 + ((img.len - pc) \div 4)

\* A compressed instruction in the tail, else the worst case of all 32-bit.
SafeCount == IF img.len - pc < 4 THEN 1 ELSE (img.len - pc) \div 4

OuterExit ==
  /\ phase = "outer"
  /\ k >= max \/ NoWindow
  /\ phase' = "out"
  /\ UNCHANGED <<img, spc, x, trap, pc, max, k, base, safe, i>>

OuterWindow ==
  /\ phase = "outer"
  /\ k < max /\ ~NoWindow
  /\ phase' = "inner" /\ base' = pc /\ safe' = SafeCount /\ i' = 0
  /\ UNCHANGED <<img, spc, x, trap, pc, max, k>>

InWindow == i < safe /\ k < max

InnerEnd ==
  /\ phase = "inner"
  /\ ~InWindow
  /\ phase' = "outer"
  /\ UNCHANGED <<img, spc, x, trap, pc, max, k, base, safe, i>>

\* The instruction at pc leaves the window: a taken branch, jal, jalr.
Leaves(ins) == ins.k \in {"jal", "jalr"} \/ (ins.k = "branch" /\ Taken(ins, x))

\* `done`: advance pc and stay in the window.
StepSeq ==
  LET ins == img.insn[pc] IN
  /\ phase = "inner" /\ InWindow
  /\ ins.k \notin TrapKind /\ ~Leaves(ins)
  /\ k' = k + 1
  /\ x' = NextX(ins, pc, x)
  /\ pc' = Add(pc, ins.w)
  /\ i' = i + 1
  /\ UNCHANGED <<img, spc, trap, phase, max, base, safe>>

\* A control transfer assigns pc and breaks to the outer loop.
StepJump ==
  LET ins == img.insn[pc] IN
  /\ phase = "inner" /\ InWindow
  /\ ins.k \notin TrapKind /\ Leaves(ins)
  /\ k' = k + 1
  /\ x' = NextX(ins, pc, x)
  /\ pc' = NextPc(ins, pc, x)
  /\ phase' = "outer"
  /\ UNCHANGED <<img, spc, trap, max, base, safe, i>>

\* What a handler may do to the state it is handed: write registers, and s->pc.
HandlerRegs(y) == Handled(y, HostRegs, HostWords)
HandlerPcs == {pc} \cup Entries

\* Mutated form: the loop takes its pc back from the state after the handler.
StepTrapReload(stop, y, a) ==
  LET ins == img.insn[pc] IN
  /\ phase = "inner" /\ InWindow
  /\ ins.k \in TrapKind
  /\ k' = k + 1
  /\ spc' = a /\ trap' = [pc |-> pc, k |-> ins.k]
  /\ x' = y
  /\ IF stop THEN phase' = "trapout" /\ pc' = a /\ i' = i
             ELSE phase' = phase /\ pc' = Add(a, ins.w) /\ i' = i + 1
  /\ UNCHANGED <<img, max, base, safe>>

\* ecall, ebreak, illegal: s->pc and s->inst are set for the handler, which may
\* leave another pc there; a nonzero return goes to `out` with the loop's own pc
\* at the trap, zero to `done`.  A NULL handler is one of the outcomes (ecall
\* goes on, the others stop).
StepTrap(stop, y, a) ==
  LET ins == img.insn[pc] IN
  /\ phase = "inner" /\ InWindow
  /\ ins.k \in TrapKind
  /\ k' = k + 1
  /\ spc' = a /\ trap' = [pc |-> pc, k |-> ins.k]
  /\ x' = y
  /\ IF stop THEN phase' = "trapout" /\ pc' = pc /\ i' = i
             ELSE phase' = phase /\ pc' = Add(pc, ins.w) /\ i' = i + 1
  /\ UNCHANGED <<img, max, base, safe>>

\* out: s->pc = pc; return k.
Out ==
  /\ phase \in {"out", "trapout"}
  /\ phase' = "idle" /\ spc' = pc
  /\ UNCHANGED <<img, x, trap, pc, max, k, base, safe, i>>

Loop ==
  \/ OuterExit \/ OuterWindow \/ InnerEnd
  \/ StepSeq \/ StepJump
  \/ \E stop \in BOOLEAN, y \in HandlerRegs(x), a \in HandlerPcs : StepTrap(stop, y, a)
  \/ Out

Next ==
  \/ \E b \in 0 .. MaxBudget, a \in Entries \cup {spc} : Call(b, a)
  \/ Loop

Spec == Init /\ [][Next]_vars

\* The loop is ordinary sequential code: once entered it keeps executing, and
\* the handlers it calls return.  Nothing obliges the host to call it.
FairSpec == Spec /\ WF_vars(Loop)

-----------------------------------------------------------------------------

\* Type correctness: every word the loop keeps stays a 32-bit word.
TypeOK ==
  /\ IsImage(img)
  /\ spc \in Word /\ pc \in Word
  /\ x \in Regs
  /\ trap \in [pc : Word, k : TrapKind \cup {"none"}]
  /\ phase \in {"idle", "outer", "inner", "out", "trapout"}
  /\ max \in Nat /\ k \in Nat
  /\ base \in Word /\ safe \in Nat /\ i \in Nat

\* Every fetch the inner loop makes, with no bounds check of its own, lies
\* wholly inside [0, code_len): purv.c sizes the window so that "every fetch
\* is in range".
FetchInBounds == phase = "inner" /\ InWindow => Fetchable(img, pc)

\* Why: inside a window pc has moved at most 4 bytes per instruction run, and
\* the window was sized for that; the tail window holds one compressed one.
WindowInv ==
  phase = "inner" =>
    /\ base <= pc /\ pc <= base + 4 * i
    /\ i <= safe
    /\ \/ base + 4 * safe <= img.len
       \/ safe = 1 /\ (i = 0 => pc = base /\ Fetchable(img, base))

\* The count never exceeds the budget of the call.
BudgetInv == k <= max

\* The loop falls through to its return only with the budget spent or with no
\* instruction to fetch at pc: a short return is never spurious.
ExitInv == phase = "out" => k = max \/ ~Fetchable(img, pc)

\* Every call of RiscvEmulatorLoop returns: each turn of the outer loop
\* retires at least one instruction or leaves it.
CallReturns == phase # "idle" ~> phase = "idle"

\* The architectural pc: s->pc between calls, the loop's local pc in a call.
ArchPc == IF phase = "idle" THEN spc ELSE pc

\* How the contract sees where control is.
CallState == IF phase = "idle" THEN "idle" ELSE IF phase = "trapout" THEN "stop" ELSE "run"

Contract == INSTANCE EngineContract WITH pc <- ArchPc, st <- CallState

\* purv.c implements the contract: every loop iteration is one architectural
\* instruction or none, whatever the window and budget boundaries.
ImplementsContract == Contract!Spec
=============================================================================

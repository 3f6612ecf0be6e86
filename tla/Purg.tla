-------------------------------- MODULE Purg --------------------------------
(***************************************************************************)
(* The machine of emu/purg.c: one call of RiscvEmulatorLoop executes one   *)
(* instruction, reaching memory and traps through hooks of the host, and   *)
(* any hook may raise an illegal instruction.  Registers have XLen bits;   *)
(* addresses are integers and do not wrap.  Only x[1] and x[2] are kept,   *)
(* the others read 0; was is what they held before the last instruction,   *)
(* and out the value that instruction gave its destination, kept or not.   *)
(***************************************************************************)
EXTENDS PurgDecode, AluValues

CONSTANTS LowHalves,   \* the halfwords a fetch may find: all, or a sample,
          HighHalves,  \* and the second halves of a 32-bit instruction
          ProbeLows, ProbeHighs,  \* the words around which the host also uses its other calls
          MaxLoops     \* bound on the calls of RiscvEmulatorLoop in one life of a state

ASSUME HalvesAssumption ==
  /\ LowHalves \subseteq Half /\ HighHalves \subseteq Half
  /\ ProbeLows \subseteq LowHalves /\ ProbeHighs \subseteq HighHalves
ASSUME MaxLoopsAssumption == MaxLoops \in Nat \ {0}

VARIABLES pc, pcnext,   \* programcounter, programcounternext
          insn,         \* instruction
          trapflag,     \* trapflag.illegalinstruction
          regs, was,    \* x[1], x[2] now, and before the last instruction
          did, out,     \* what the last instruction did, and the value of its destination
          illegals,     \* calls of the illegal-instruction hook in the last Loop
          asked,        \* the host raised an illegal instruction since the last Loop
          forced,       \* a raise, by the host before or by a hook during the last Loop
          moved,        \* the pc was set by the host, in the last Loop or since
          loops         \* calls of Loop so far

vars == <<pc, pcnext, insn, trapflag, regs, was, did, out, illegals, asked, forced, moved, loops>>

\* ROM_ORIGIN, scaled down: a word-aligned address.
ROM_ORIGIN == 64
NoRegs == [r \in {1, 2} |-> 0]
NoWord == [lo |-> 0, hi |-> 0]

\* The value of register r.
X(r) == IF r \in DOMAIN regs THEN regs[r] ELSE 0

\* calloc and RiscvEmulatorInit.
Init ==
  /\ pc = ROM_ORIGIN /\ pcnext = ROM_ORIGIN
  /\ insn = NoWord
  /\ trapflag = FALSE
  /\ regs = NoRegs /\ was = NoRegs
  /\ did = Plain(0, "none") /\ out = 0 /\ illegals = 0
  /\ asked = FALSE /\ forced = FALSE /\ moved = FALSE
  /\ loops = 0

\* The value of the destination of the instruction m at address at; loaded is
\* what the load hook gave, extended.
ValueOf(m, at, loaded) ==
  CASE m.op \in AluOps \cup MulOps ->
         PurgOperation(m.op, X(m.a), IF m.ri = "r" THEN X(m.b) ELSE Wrap(m.b))
    [] m.op \in LoadOps -> loaded
    [] m.op = "lui"     -> Wrap(m.imm)
    [] m.op = "auipc"   -> Wrap(at + m.imm)
    [] m.op \in {"jal", "jalr"} -> Wrap(at + m.w)
    [] OTHER -> 0

\* programcounternext after the instruction m at address at.
PcAfter(m, at) ==
  CASE m.op = "jal"  -> at + m.imm
    [] m.op = "jalr" -> ((X(m.a) + m.imm) \div 2) * 2
    [] m.op \in BranchOps /\ PurgTaken(m.op, X(m.a), X(m.b)) -> at + m.imm
    [] OTHER -> at + m.w

\* The instructions that call a hook besides the fetch.
CallsHook(m) == m.op \in LoadOps \cup StoreOps \cup {"ecall", "ebreak"}

\* Mutated form: the flag is left set after the hook.
TrapKeep(flag) == [calls |-> IF flag THEN 1 ELSE 0, left |-> flag]

\* The end of Loop: the illegal-instruction hook once, and the flag cleared after
\* it, so that a raise inside the hook is dropped.
Trap(flag) == [calls |-> IF flag THEN 1 ELSE 0, left |-> FALSE]

\* RiscvEmulatorLoop on the instruction w.  raiseFetch, raiseHook: a fetch, or the
\* hook of the instruction, raised; loaded: what a load gave; to: where the ecall
\* hook set the pc, or -1.
Execute(w, raiseFetch, raiseHook, loaded, to) ==
  LET m == PurgDecode(w)
      v == ValueOf(m, pcnext, loaded)
      trap == Trap(trapflag \/ raiseFetch \/ raiseHook \/ m.op = "illegal")
  IN /\ raiseHook => CallsHook(m)
     /\ loaded # 0 => m.op \in LoadOps
     /\ to # -1 => m.op = "ecall"
     /\ insn' = w
     /\ did' = m
     /\ out' = v
     /\ was' = regs
     /\ regs' = IF m.rd \in DOMAIN regs THEN [regs EXCEPT ![m.rd] = v] ELSE regs
     /\ pc' = IF to # -1 THEN to ELSE pcnext
     /\ pcnext' = IF to # -1 THEN to ELSE PcAfter(m, pcnext)
     /\ illegals' = trap.calls
     /\ trapflag' = trap.left
     /\ asked' = FALSE
     /\ forced' = (asked \/ raiseFetch \/ raiseHook)
     /\ moved' = (to # -1)
     /\ loops' = loops + 1

\* A word is followed past its first call, with a raise, or with registers that
\* are not 0, only when it is one of the probes.
Fresh == loops = 0 /\ regs = NoRegs /\ ~asked
Probed == insn.lo \in ProbeLows /\ insn.hi \in ProbeHighs /\ regs = NoRegs
MayLoop == loops < MaxLoops /\ (loops > 0 => Probed)

\* A call of Loop in which no hook interferes.
RiscvEmulatorLoop ==
  /\ MayLoop
  /\ \E lo \in (IF Fresh THEN LowHalves ELSE ProbeLows) :
     \E hi \in (IF lo % 4 # 3 THEN {0} ELSE IF Fresh THEN HighHalves ELSE ProbeHighs) :
     \E loaded \in {0, 1} :
        Execute([lo |-> lo, hi |-> hi], FALSE, FALSE, loaded, -1)

\* A call in which a hook raises, or the ecall hook moves the pc.
RiscvEmulatorLoopHooked ==
  /\ MayLoop /\ regs = NoRegs
  /\ \E lo \in ProbeLows, raiseFetch, raiseHook \in BOOLEAN, to \in {-1, ROM_ORIGIN + 32} :
        /\ raiseFetch \/ raiseHook \/ to # -1
        /\ Execute([lo |-> lo, hi |-> 0], raiseFetch, raiseHook, 0, to)

\* RiscvEmulatorSetRegister, RiscvEmulatorSetProgramCounter, and
\* RiscvEmulatorRaiseIllegalInstruction from outside a hook: for the next Loop.
RiscvEmulatorSetRegister ==
  \E i \in {0, 1, 2}, v \in Value :
     /\ loops = 0 /\ ~asked
     /\ regs' = IF i = 0 THEN regs ELSE [regs EXCEPT ![i] = v]
     /\ UNCHANGED <<pc, pcnext, insn, trapflag, was, did, out, illegals, asked, forced, moved, loops>>

RiscvEmulatorSetProgramCounter ==
  /\ loops > 0 /\ Probed
  /\ pc' = ROM_ORIGIN /\ pcnext' = ROM_ORIGIN
  /\ moved' = TRUE
  /\ UNCHANGED <<insn, trapflag, regs, was, did, out, illegals, asked, forced, loops>>

RiscvEmulatorRaiseIllegalInstruction ==
  /\ MayLoop /\ regs = NoRegs
  /\ trapflag' = TRUE
  /\ asked' = TRUE
  /\ UNCHANGED <<pc, pcnext, insn, regs, was, did, out, illegals, forced, moved, loops>>

\* RiscvEmulatorDestroy, and a new RiscvEmulatorCreate.
Recreate ==
  /\ loops > 0
  /\ pc' = ROM_ORIGIN /\ pcnext' = ROM_ORIGIN
  /\ insn' = NoWord
  /\ trapflag' = FALSE
  /\ regs' = NoRegs /\ was' = NoRegs
  /\ did' = Plain(0, "none") /\ out' = 0 /\ illegals' = 0
  /\ asked' = FALSE /\ forced' = FALSE /\ moved' = FALSE
  /\ loops' = 0

Next ==
  \/ RiscvEmulatorLoop \/ RiscvEmulatorLoopHooked \/ RiscvEmulatorSetRegister
  \/ RiscvEmulatorSetProgramCounter \/ RiscvEmulatorRaiseIllegalInstruction \/ Recreate

Spec == Init /\ [][Next]_vars
=============================================================================

------------------------------- MODULE Driver ------------------------------
(***************************************************************************)
(* The reference host emu/main.c (and purvs/main.c, the same text around   *)
(* the other engine): it loads an image, runs the engine in slices,        *)
(* services its callbacks and turns what happened into a process exit      *)
(* status.  The engine is its contract: a call runs instructions until the *)
(* budget is spent, a handler returns nonzero or pc leaves the code; the   *)
(* guest chooses every instruction.                                        *)
(***************************************************************************)
EXTENDS Loader

CONSTANTS
  Slice,      \* instructions per engine call: 2^16 in the code
  MaxInsns,   \* --max-insns
  Modes,      \* command lines: subset of {"test", "bare", "user", "invoke",
              \* "userinvoke"}; "bare" is a test without a tohost symbol
  Sigs,       \* --signature: subset of {"none", "good", "unwritable", "nosymbols"}
  ExitCodes,  \* the codes a guest passes to exit
  HostWords,  \* the nonzero words a guest stores to tohost
  Breaks      \* the addresses a guest passes to brk

ASSUME SliceAssumption == Slice \in Nat \ {0} /\ MaxInsns \in Nat
ASSUME GuestAssumption ==
  /\ ExitCodes \subseteq Nat /\ HostWords \subseteq Nat \ {0}
  /\ Breaks \subseteq 0 .. (AddrMod - 1)

VARIABLES
  mode, sigfile,              \* how purv was invoked
  g_halt, g_exit, g_faulted,  \* the handlers' globals
  g_brk,                      \* program break
  tohost,                     \* the guest's tohost word
  at,                         \* where pc is: code, magic (MAGIC_RET), outside
  i, budget, ran,             \* the run loop's counters
  phase,                      \* load, top, run, check, end, exited
  said,                       \* the run loop's last diagnostic
  status                      \* what main returns

vars == <<loadVars, mode, sigfile, g_halt, g_exit, g_faulted, g_brk, tohost, at, i, budget, ran, phase, said, status>>
host == <<loadVars, mode, sigfile, said, status, budget>>

g_user_mode == mode \in {"user", "userinvoke"}
invoke == mode \in {"invoke", "userinvoke"}
g_have_tohost == mode = "test"

Init ==
  /\ mode \in Modes /\ sigfile \in Sigs
  /\ g_halt = FALSE /\ g_exit = 1 /\ g_faulted = FALSE
  /\ g_brk = 0 /\ tohost = 0 /\ at = "code"
  /\ i = 0 /\ budget = 0 /\ ran = 0
  /\ phase = "load" /\ said = "" /\ status = -1
  /\ LoadInit

\* Up to a page boundary, in 32 bits.
PageUp(a) == (U32(a + Page - 1) \div Page) * Page

-----------------------------------------------------------------------------
(* Before the run loop.                                                     *)

Loading ==
  /\ phase = "load" /\ Load
  /\ UNCHANGED <<mode, sigfile, g_halt, g_exit, g_faulted, g_brk, tohost, at, i, budget, ran, phase, said, status>>

\* return 2, or exit(2) in the loader: no memory, no image, or no such function.
Refused ==
  /\ phase = "load"
  /\ loading = "failed" \/ (loading = "done" /\ invoke)
  /\ status' = 2 /\ phase' = "exited"
  /\ UNCHANGED <<loadVars, mode, sigfile, g_halt, g_exit, g_faulted, g_brk, tohost, at, i, budget, ran, said>>

\* The break starts past the data, and the guest at its entry or at the function.
Loaded ==
  /\ phase = "load" /\ loading = "done"
  /\ g_brk' = PageUp(data_end)
  /\ phase' = "top"
  /\ UNCHANGED <<host, g_halt, g_exit, g_faulted, tohost, at, i, ran>>

-----------------------------------------------------------------------------
(* One guest instruction inside RiscvEmulatorLoop(st, budget).              *)

\* The engine executes an instruction that does not stop it.
Goes == phase = "run" /\ ran < budget /\ at = "code"
Counted == ran' = ran + 1 /\ UNCHANGED <<i, phase>>

\* A handler returned nonzero: the call returns and the slice is accounted.
Stopped == ran' = ran + 1 /\ i' = i + ran + 1 /\ phase' = "check"

Plain ==
  /\ Goes /\ Counted
  /\ UNCHANGED <<host, g_halt, g_exit, g_faulted, g_brk, tohost, at>>

\* A jump out of the code window, or the invoked function's return.
Jump(where) ==
  /\ Goes /\ Counted
  /\ where = "magic" => invoke
  /\ at' = where
  /\ UNCHANGED <<host, g_halt, g_exit, g_faulted, g_brk, tohost>>

StoreTohost(v) ==
  /\ Goes /\ Counted
  /\ tohost' = v
  /\ UNCHANGED <<host, g_halt, g_exit, g_faulted, g_brk, at>>

\* on_oob: the first bad access is recorded; the engine cannot be stopped.
OnOob ==
  /\ Goes /\ Counted
  /\ IF g_faulted THEN UNCHANGED <<g_faulted, g_halt, g_exit>>
     ELSE g_faulted' = TRUE /\ g_halt' = TRUE /\ g_exit' = 1
  /\ UNCHANGED <<host, g_brk, tohost, at>>

\* on_illegal
OnIllegal ==
  /\ Goes /\ Stopped
  /\ g_halt' = TRUE /\ g_exit' = 1
  /\ UNCHANGED <<host, g_faulted, g_brk, tohost, at>>

\* on_ebreak: stops the engine and sets nothing.
OnEbreak ==
  /\ Goes /\ Stopped
  /\ UNCHANGED <<host, g_halt, g_exit, g_faulted, g_brk, tohost, at>>

\* on_ecall ends with "return g_halt".
EcallReturns(halt) == IF halt THEN Stopped ELSE Counted

\* on_ecall, exit and exit_group.
EcallExit(code) ==
  /\ Goes /\ g_user_mode
  /\ g_exit' = code /\ g_halt' = TRUE
  /\ EcallReturns(TRUE)
  /\ UNCHANGED <<host, g_faulted, g_brk, tohost, at>>

\* RISCV_HALF + g_heap_size, in 32 bits: 0 when the heap ends with the space.
HeapTop == U32(Half + heap_len)

\* on_ecall, brk: the break only grows, and stays below the heap's end.
EcallBrk(a) ==
  /\ Goes /\ g_user_mode
  /\ g_brk' = IF a >= g_brk /\ a < HeapTop THEN a ELSE g_brk
  /\ EcallReturns(g_halt)
  /\ UNCHANGED <<host, g_halt, g_exit, g_faulted, tohost, at>>

\* on_ecall, write and unknown numbers; outside --user an ecall is a nop.
EcallOther ==
  /\ Goes
  /\ EcallReturns(g_user_mode /\ g_halt)
  /\ UNCHANGED <<host, g_halt, g_exit, g_faulted, g_brk, tohost, at>>

Guest ==
  \/ Plain \/ OnOob \/ OnIllegal \/ OnEbreak \/ EcallOther
  \/ \E where \in {"outside", "magic"} : Jump(where)
  \/ \E v \in HostWords : StoreTohost(v)
  \/ \E code \in ExitCodes : EcallExit(code)
  \/ \E a \in Breaks : EcallBrk(a)

-----------------------------------------------------------------------------
(* The run loop.                                                            *)

StartSlice ==
  /\ phase = "top" /\ i < MaxInsns /\ ~g_halt
  /\ budget' = IF MaxInsns - i > Slice THEN Slice ELSE MaxInsns - i
  /\ ran' = 0 /\ phase' = "run"
  /\ UNCHANGED <<loadVars, mode, sigfile, g_halt, g_exit, g_faulted, g_brk, tohost, at, i, said, status>>

LoopDone ==
  /\ phase = "top" /\ (i >= MaxInsns \/ g_halt)
  /\ phase' = "end"
  /\ UNCHANGED <<host, g_halt, g_exit, g_faulted, g_brk, tohost, at, i, ran>>

\* Mutated form: the slice is not added to the total.
SliceReturnsUncounted ==
  /\ phase = "run" /\ (ran = budget \/ at # "code")
  /\ i' = i /\ phase' = "check"
  /\ UNCHANGED <<host, g_halt, g_exit, g_faulted, g_brk, tohost, at, ran>>

\* The engine spent the budget, or has no instruction to fetch.
SliceReturns ==
  /\ phase = "run" /\ (ran = budget \/ at # "code")
  /\ i' = i + ran /\ phase' = "check"
  /\ UNCHANGED <<host, g_halt, g_exit, g_faulted, g_brk, tohost, at, ran>>

\* Mutated form: the poll is skipped when the budget was not spent.
TohostSetFullSlice == g_have_tohost /\ tohost # 0 /\ ran = budget

TohostSet == g_have_tohost /\ tohost # 0

CheckHalt ==
  /\ phase = "check" /\ g_halt
  /\ phase' = "end"
  /\ UNCHANGED <<host, g_halt, g_exit, g_faulted, g_brk, tohost, at, i, ran>>

\* Mutated form: the poll comes first.
CheckTohostFirst ==
  /\ phase = "check" /\ TohostSet
  /\ g_exit' = (IF tohost = 1 THEN 0 ELSE 1) /\ g_halt' = TRUE /\ phase' = "end"
  /\ UNCHANGED <<host, g_faulted, g_brk, tohost, at, i, ran>>

CheckTohost ==
  /\ phase = "check" /\ ~g_halt /\ TohostSet
  /\ g_exit' = (IF tohost = 1 THEN 0 ELSE 1) /\ g_halt' = TRUE /\ phase' = "end"
  /\ UNCHANGED <<host, g_faulted, g_brk, tohost, at, i, ran>>

\* ran < budget: the invoke sentinel, or "fetch outside code".
CheckShort ==
  /\ phase = "check" /\ ~g_halt /\ ~TohostSet /\ ran < budget
  /\ phase' = "end"
  /\ IF invoke /\ at = "magic" THEN UNCHANGED <<g_halt, g_exit, said>>
     ELSE g_halt' = TRUE /\ g_exit' = 1 /\ said' = "fetch outside code"
  /\ UNCHANGED <<loadVars, mode, sigfile, status, budget, g_faulted, g_brk, tohost, at, i, ran>>

CheckNext ==
  /\ phase = "check" /\ ~g_halt /\ ~TohostSet /\ ran = budget
  /\ phase' = "top"
  /\ UNCHANGED <<host, g_halt, g_exit, g_faulted, g_brk, tohost, at, i, ran>>

\* What main returns: 2 when the cap was reached or there is no signature to
\* dump; a dump that fails is a failure (dump_signature sets g_exit).  A user
\* program resolves no signature symbols.
ExitStatus ==
  IF invoke THEN (IF i >= MaxInsns THEN 2 ELSE 0)
  ELSE IF ~g_halt THEN 2
  ELSE CASE sigfile = "none" -> g_exit
         [] g_user_mode \/ sigfile = "nosymbols" -> 2
         [] sigfile = "unwritable" -> 1
         [] OTHER -> g_exit

Exit ==
  /\ phase = "end"
  /\ status' = ExitStatus /\ phase' = "exited"
  /\ UNCHANGED <<loadVars, mode, sigfile, g_halt, g_exit, g_faulted, g_brk, tohost, at, i, budget, ran, said>>

Next ==
  \/ Loading \/ Refused \/ Loaded
  \/ Guest
  \/ StartSlice \/ LoopDone \/ SliceReturns
  \/ CheckHalt \/ CheckTohost \/ CheckShort \/ CheckNext
  \/ Exit

\* One sequential program: it keeps executing until it exits.
Spec == Init /\ [][Next]_vars /\ WF_vars(Next)

-----------------------------------------------------------------------------

\* main.c: "Exit status is 0 on PASS, non-zero on FAIL".  A conformance run is
\* reported as passed only if it stored 1 to tohost and never faulted, although
\* the guest runs on to the end of the slice after either.
PassMeansPass ==
  phase = "exited" /\ mode = "test" /\ status = 0 => tohost = 1 /\ ~g_faulted

\* main.c: "at worst a test spins one slice past its tohost store before we
\* notice".  A conformance run that stored to tohost gets a verdict on what it
\* did: it is never reported as a runaway fetch or as having hit the cap, even
\* if that is what it went on to do in the same slice.
TohostVerdict ==
  phase = "exited" /\ mode = "test" /\ tohost # 0 =>
    said = "" /\ (status = 2 => sigfile = "nosymbols")

\* Memory the guest got from brk is its own: inside the heap buffer, above every
\* loaded segment with its zero-filled part, in whatever order the file lists
\* them, and still zero; at the end of the address space too, where the end of
\* the heap is 0 in 32 bits.
BreakClear ==
  \A a \in 0 .. (AddrMod - 1) :
     phase # "load" /\ loading = "done" /\ PageUp(data_end) <= a /\ a < g_brk =>
       /\ a >= Half /\ a < Half + heap_len
       /\ <<"heap", a - Half>> \notin filled
       /\ \A k \in DOMAIN image :
            image[k].load => ~(image[k].vaddr <= a /\ a < image[k].vaddr + image[k].memsz)

\* Whatever the guest does, the process ends: the cap bounds it.
Terminates == <>(phase = "exited")

\* main.c: a bad access is reported and halts the run, "it is a userspace
\* segfault".  The process must not report success.
FaultFails == phase = "exited" /\ g_faulted => status # 0
=============================================================================

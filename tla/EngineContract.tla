-------------------------- MODULE EngineContract ---------------------------
(***************************************************************************)
(* What RiscvEmulatorLoop(state, max) promises its host (emu/purv.h): run  *)
(* up to max instructions, one architectural step at a time; leave         *)
(* state->pc at the next instruction; a trap is reported with its own pc   *)
(* and, if its handler stops, pc is left AT the trap; a return short of    *)
(* max means that a handler stopped or that pc left the code window.       *)
(* Nothing here says how an engine decodes or batches: the engines are     *)
(* shown to implement this module.                                         *)
(***************************************************************************)
EXTENDS Isa

CONSTANTS
  MaxBudget, \* largest max a host passes to one call
  HostRegs,  \* the registers a handler may write
  HostWords  \* what it may leave there

VARIABLES
  img,    \* the loaded code image
  pc,     \* the architectural pc
  x,      \* the register file
  st,     \* "idle" between calls, "run" inside one, "stop" after a stopping trap
  max,    \* budget of the current call
  k,      \* instructions retired by the current call
  trap    \* pc and kind shown to the last handler, or NoTrap

vars == <<img, pc, x, st, max, k, trap>>

NoTrap == [pc |-> 0, k |-> "none"]

Init ==
  /\ IsImage(img)
  /\ pc = 0
  /\ x = ResetRegs
  /\ st = "idle"
  /\ max = 0
  /\ k = 0
  /\ trap = NoTrap

\* The host enters the loop; it may first move pc (entry point, debugger).
Enter(b, a) ==
  /\ st = "idle"
  /\ st' = "run" /\ max' = b /\ k' = 0 /\ pc' = a
  /\ UNCHANGED <<img, x, trap>>

\* One ordinary instruction.
Retire ==
  /\ st = "run" /\ k < max
  /\ Fetchable(img, pc) /\ ~IsTrap(img, pc)
  /\ pc' = NextPc(img.insn[pc], pc, x)
  /\ x' = NextX(img.insn[pc], pc, x)
  /\ k' = k + 1
  /\ UNCHANGED <<img, st, max, trap>>

HandlerRegs(y) == Handled(y, HostRegs, HostWords)

\* One trap: the handler sees the trapping pc and stops the call, or lets it
\* go on after the instruction.  What it does to pc does not count.
Trap(stop, y) ==
  /\ st = "run" /\ k < max
  /\ Fetchable(img, pc) /\ IsTrap(img, pc)
  /\ trap' = [pc |-> pc, k |-> img.insn[pc].k]
  /\ x' = y
  /\ k' = k + 1
  /\ IF stop THEN st' = "stop" /\ pc' = pc
             ELSE st' = st /\ pc' = Add(pc, img.insn[pc].w)
  /\ UNCHANGED <<img, max>>

\* The call returns only for one of the documented reasons.
Return ==
  /\ \/ st = "stop"
     \/ st = "run" /\ (k = max \/ ~Fetchable(img, pc))
  /\ st' = "idle"
  /\ UNCHANGED <<img, pc, x, max, k, trap>>

Next ==
  \/ \E b \in 0 .. MaxBudget, a \in Word : Enter(b, a)
  \/ Retire
  \/ \E stop \in BOOLEAN, y \in HandlerRegs(x) : Trap(stop, y)
  \/ Return

Spec == Init /\ [][Next]_vars
=============================================================================

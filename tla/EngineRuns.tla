----------------------------- MODULE EngineRuns ----------------------------
(***************************************************************************)
(* The engine contract as a host of a batching engine sees it: purvs       *)
(* decodes ahead and then executes a whole run, so a step is one or more   *)
(* architectural instructions, the last of which may be a trap.  What is   *)
(* not promised here is the pc a handler is shown: see Purvs!TrapPcValid.  *)
(***************************************************************************)
EXTENDS Isa

CONSTANTS MaxBudget, HostRegs, HostWords

VARIABLES
  img, pc, x, \* image, architectural pc, registers
  st,         \* "idle" or "run"
  max, k,     \* budget and retired count of the current call
  cause       \* kind of the last trap handled

vars == <<img, pc, x, st, max, k, cause>>

\* The machine s after one ordinary instruction; ok turns FALSE when there is
\* none, because it cannot be fetched or is a trap.
Ordinary(s) ==
  IF s.ok /\ Fetchable(img, s.pc) /\ ~IsTrap(img, s.pc)
    THEN [pc |-> NextPc(img.insn[s.pc], s.pc, s.x),
          x  |-> NextX(img.insn[s.pc], s.pc, s.x), ok |-> TRUE]
    ELSE [s EXCEPT !.ok = FALSE]

\* The machine after m ordinary instructions from here.
After[m \in Nat] ==
  IF m = 0 THEN [pc |-> pc, x |-> x, ok |-> TRUE] ELSE Ordinary(After[m - 1])

Init ==
  /\ IsImage(img)
  /\ pc = 0 /\ x = ResetRegs
  /\ st = "idle" /\ max = 0 /\ k = 0 /\ cause = "none"

Enter ==
  /\ st = "idle" /\ st' = "run"
  /\ max' \in 0 .. MaxBudget /\ k' = 0 /\ pc' \in Word
  /\ UNCHANGED <<img, x, cause>>

\* m instructions retire, none of them a trap.
Run(m) ==
  LET s == After[m] IN
  /\ st = "run" /\ k + m <= max /\ s.ok
  /\ pc' = s.pc /\ x' = s.x /\ k' = k + m
  /\ UNCHANGED <<img, st, max, cause>>

\* m instructions retire and then one trap, which the host lets go on or
\* which ends the call with pc at the trap.
RunTrap(m) ==
  LET s == After[m] IN
  /\ st = "run" /\ k + m + 1 <= max
  /\ s.ok /\ Fetchable(img, s.pc) /\ IsTrap(img, s.pc)
  /\ k' = k + m + 1 /\ cause' = img.insn[s.pc].k
  /\ x' \in Handled(s.x, HostRegs, HostWords)
  /\ \/ st' = "run" /\ pc' = Add(s.pc, img.insn[s.pc].w)
     \/ st' = "idle" /\ pc' = s.pc
  /\ UNCHANGED <<img, max>>

Return ==
  /\ st = "run" /\ (k = max \/ ~Fetchable(img, pc))
  /\ st' = "idle"
  /\ UNCHANGED <<img, pc, x, max, k, cause>>

Next ==
  \/ Enter
  \/ \E m \in 1 .. MaxBudget : Run(m)
  \/ \E m \in 0 .. MaxBudget : RunTrap(m)
  \/ Return

Spec == Init /\ [][Next]_vars
=============================================================================

---------------------------- MODULE UndoHistory ----------------------------
(***************************************************************************)
(* What reverse execution promises a debugger (emu/README.md): before each *)
(* step the register file is remembered, reversing puts it back exactly,   *)
(* only the newest `depth` steps are remembered, and past the oldest of    *)
(* them reverse is a no-op.                                                *)
(***************************************************************************)
EXTENDS Integers, Sequences

VARIABLES
  regs,  \* registers and pc
  hist,  \* the remembered register files, oldest first
  depth, \* how many can be remembered
  busy   \* "recv" awaiting gdb, "run" or "rev" executing, "closed"

vars == <<regs, hist, depth, busy>>

\* The last d elements of s.
Newest(s, d) == IF Len(s) <= d THEN s ELSE SubSeq(s, Len(s) - d + 1, Len(s))

Init == hist = <<>> /\ depth \in Nat /\ busy = "recv"

\* gdb may write registers while the guest is stopped; that is not a step.
Poke == busy = "recv" /\ UNCHANGED hist

Step == busy = "run" /\ hist' = Newest(Append(hist, regs), depth)

Undo ==
  /\ busy = "rev"
  /\ IF hist = <<>> THEN UNCHANGED <<regs, hist>>
     ELSE regs' = hist[Len(hist)] /\ hist' = SubSeq(hist, 1, Len(hist) - 1)

Next == (Poke \/ Step \/ Undo) /\ UNCHANGED depth

Spec == Init /\ [][Next]_vars
=============================================================================

------------------------------ MODULE PurvaRun -----------------------------
(***************************************************************************)
(* emu/purva/purvarun.h: guests embedded in a host.  The host initialises, *)
(* runs and frees instances on one thread; the engine finds its program    *)
(* through one global, g_prog, and a host callback may itself run another  *)
(* instance, so calls of purva_run nest.  The engine is reduced to what    *)
(* purva_run sees of it (Purva models it): ops that cost fuel, budget      *)
(* checks at jumps and serviced hostcalls, a pc that leaves the code.      *)
(***************************************************************************)
EXTENDS Integers, Sequences, SequencesExt

CONSTANTS
  Inst,       \* the instances
  None,       \* no program
  Fuels,      \* the fuel the host grants per call
  Costs,      \* what one op charges: 1, or more for a fused or bulk op
  Straight,   \* longest straight-line run of the programs, in fuel
  ExitCodes,  \* the codes guests exit with
  WriteLens,  \* the lengths guests write
  Chunk,      \* bytes copied out at a time: 512 in the code
  MaxDepth    \* nesting of purva_run

ASSUME RunAssumption ==
  /\ None \notin Inst /\ Fuels \subseteq Nat /\ Costs \subseteq Nat \ {0}
  /\ Straight \in Nat /\ Chunk \in Nat \ {0} /\ MaxDepth \in Nat
  /\ WriteLens \subseteq Nat

VARIABLES
  g_prog,  \* the instance whose program is installed
  run,     \* the PurvaRun of each instance
  stack,   \* the host thread's calls of purva_run, the innermost last
  exits    \* the codes each instance's guest has passed to exit

vars == <<g_prog, run, stack, exits>>

Status == {"FUEL", "DONE", "TRAP"}
Blank == [live |-> FALSE, status |-> "TRAP", exit_code |-> 0, inside |-> FALSE]

Init ==
  /\ g_prog = None
  /\ run = [r \in Inst |-> Blank]
  /\ stack = <<>>
  /\ exits = [r \in Inst |-> {}]

Top == Last(stack)
SetTop(f) == stack' = [stack EXCEPT ![Len(stack)] = f]
OnStack(r) == \E j \in DOMAIN stack : stack[j].r = r

\* The host's own code runs: outside every call, or in a callback.
HostRuns == stack = <<>> \/ (stack # <<>> /\ Top.at \in {"user", "write"})

\* purva_run_init; the code of an image may be empty.
InitRun(r) ==
  /\ HostRuns /\ ~OnStack(r) /\ ~run[r].live
  /\ \E inside \in BOOLEAN :
       run' = [run EXCEPT ![r] = [live |-> TRUE, status |-> "FUEL", exit_code |-> 0, inside |-> inside]]
  /\ exits' = [exits EXCEPT ![r] = {}]
  /\ UNCHANGED <<g_prog, stack>>

\* purva_run_init refuses the image or runs out of memory: the cleared struct
\* stays, and a cleared status reads DONE.
InitFails(r) ==
  /\ HostRuns /\ ~OnStack(r) /\ ~run[r].live
  /\ run' = [run EXCEPT ![r] = [Blank EXCEPT !.status = "DONE"]]
  /\ UNCHANGED <<g_prog, stack, exits>>

\* purva_run_free; the status stays.
FreeRun(r) ==
  /\ HostRuns /\ ~OnStack(r) /\ run[r].live
  /\ run' = [run EXCEPT ![r].live = FALSE]
  /\ UNCHANGED <<g_prog, stack, exits>>

Frame(r, fuel) ==
  [r |-> r, at |-> "while", prog |-> None, fuel |-> fuel, total |-> 0,
   k |-> 0, straight |-> 0, left |-> 0, sent |-> <<>>, off |-> 0]

\* Mutated form: the program is installed only when none is.
RunArmedOnce(r, fuel) ==
  /\ HostRuns /\ ~OnStack(r) /\ run[r].live /\ run[r].status = "FUEL" /\ Len(stack) < MaxDepth
  /\ g_prog' = IF g_prog = None THEN r ELSE g_prog
  /\ stack' = Append(stack, Frame(r, fuel))
  /\ UNCHANGED <<run, exits>>

\* Mutated form: an instance that has ended is run again.
RunEnded(r, fuel) ==
  /\ HostRuns /\ ~OnStack(r) /\ run[r].live /\ Len(stack) < MaxDepth
  /\ g_prog' = r
  /\ run' = [run EXCEPT ![r].status = "FUEL"]
  /\ stack' = Append(stack, Frame(r, fuel))
  /\ UNCHANGED exits

\* purva_run: an instance that has ended answers its status and runs nothing,
\* so only one that can run is pushed.
Run(r, fuel) ==
  /\ HostRuns /\ ~OnStack(r) /\ run[r].live /\ run[r].status = "FUEL" /\ Len(stack) < MaxDepth
  /\ g_prog' = r
  /\ stack' = Append(stack, Frame(r, fuel))
  /\ UNCHANGED <<run, exits>>

\* The fuel is used up: purva_run returns.
FuelGone ==
  /\ stack # <<>> /\ Top.at = "while" /\ Top.total >= Top.fuel
  /\ stack' = Front(stack)
  /\ UNCHANGED <<g_prog, run, exits>>

\* RiscvEmulatorLoop takes the program from g_prog once, at its entry.
EnterLoop ==
  /\ stack # <<>> /\ Top.at = "while" /\ Top.total < Top.fuel
  /\ SetTop([Top EXCEPT !.at = IF run[Top.r].inside THEN "loop" ELSE "back",
                        !.prog = g_prog, !.k = 0, !.straight = 0])
  /\ UNCHANGED <<g_prog, run, exits>>

-----------------------------------------------------------------------------
(* The guest.                                                               *)

InLoop == stack # <<>> /\ Top.at = "loop"
Budget == Top.fuel - Top.total

\* An op that falls through: no budget check.
Op(c) ==
  /\ InLoop /\ Top.straight + c <= Straight
  /\ SetTop([Top EXCEPT !.k = @ + c, !.straight = @ + c])
  /\ UNCHANGED <<g_prog, run, exits>>

\* Mutated form: nothing checks the budget.
CheckedUnbudgeted(f, inside) ==
  /\ SetTop([f EXCEPT !.k = @ + 1, !.straight = 0, !.at = IF inside THEN "loop" ELSE "back"])
  /\ run' = [run EXCEPT ![Top.r].inside = inside]

\* A jump, or a hostcall that was serviced: here the budget is checked.
Checked(f, inside) ==
  /\ SetTop([f EXCEPT !.k = @ + 1, !.straight = 0,
                      !.at = IF ~inside \/ f.k + 1 >= Budget THEN "back" ELSE "loop"])
  /\ run' = [run EXCEPT ![Top.r].inside = inside]

Jump(inside) == InLoop /\ Checked(Top, inside) /\ UNCHANGED <<g_prog, exits>>

\* A hook that stops the run sets the status.
Stops(status) ==
  /\ SetTop([Top EXCEPT !.k = @ + 1, !.at = "back"])
  /\ run' = [run EXCEPT ![Top.r].status = status]

\* ebreak, an illegal op, an unknown hostcall, a callback that asks to stop
OnTrap == InLoop /\ Stops("TRAP") /\ UNCHANGED <<g_prog, exits>>

\* Mutated form: the hook answers "go on".
ExitGoesOn(code) ==
  /\ InLoop
  /\ SetTop([Top EXCEPT !.k = @ + 1])
  /\ run' = [run EXCEPT ![Top.r].status = "DONE", ![Top.r].exit_code = code]
  /\ exits' = [exits EXCEPT ![Top.r] = @ \cup {code}]
  /\ UNCHANGED g_prog

Exit(code) ==
  /\ InLoop
  /\ SetTop([Top EXCEPT !.k = @ + 1, !.at = "back"])
  /\ run' = [run EXCEPT ![Top.r].status = "DONE", ![Top.r].exit_code = code]
  /\ exits' = [exits EXCEPT ![Top.r] = @ \cup {code}]
  /\ UNCHANGED g_prog

\* malloc, free, realloc, and a write without a callback
Serviced == InLoop /\ Checked(Top, TRUE) /\ UNCHANGED <<g_prog, exits>>

Write(len) ==
  /\ InLoop
  /\ SetTop([Top EXCEPT !.at = "write", !.left = len, !.off = 0, !.sent = <<>>])
  /\ UNCHANGED <<g_prog, run, exits>>

ChunkLen == IF Top.left > Chunk THEN Chunk ELSE Top.left

\* Mutated form: the chunk counts as written whatever the callback says.
WriteChunkWhole(wrote) ==
  /\ stack # <<>> /\ Top.at = "write" /\ Top.left > 0 /\ wrote \in 1 .. ChunkLen
  /\ SetTop([Top EXCEPT !.sent = @ \o [j \in 1 .. wrote |-> Top.off + j],
                        !.off = @ + ChunkLen, !.left = @ - ChunkLen])
  /\ UNCHANGED <<g_prog, run, exits>>

\* The callback takes the first `wrote` bytes of the chunk at off.
WriteChunk(wrote) ==
  /\ stack # <<>> /\ Top.at = "write" /\ Top.left > 0 /\ wrote \in 1 .. ChunkLen
  /\ SetTop([Top EXCEPT !.sent = @ \o [j \in 1 .. wrote |-> Top.off + j],
                        !.off = @ + wrote, !.left = @ - wrote])
  /\ UNCHANGED <<g_prog, run, exits>>

\* Everything is written, or the callback took nothing.
WriteEnds ==
  /\ stack # <<>> /\ Top.at = "write"
  /\ Checked([Top EXCEPT !.left = 0, !.off = 0, !.sent = <<>>], TRUE)
  /\ UNCHANGED <<g_prog, exits>>

\* A hostcall of the host's own: the callback runs, and may run instances.
UserCall ==
  /\ InLoop
  /\ SetTop([Top EXCEPT !.at = "user"])
  /\ UNCHANGED <<g_prog, run, exits>>

UserReturns(stop) ==
  /\ stack # <<>> /\ Top.at = "user"
  /\ IF stop THEN Stops("TRAP") ELSE Checked(Top, TRUE)
  /\ UNCHANGED <<g_prog, exits>>

\* Mutated form: a pc that left the code is only noticed by the next call.
LoopBackLate ==
  /\ stack # <<>> /\ Top.at = "back"
  /\ IF run[Top.r].status # "FUEL" THEN stack' = Front(stack) /\ UNCHANGED run
     ELSE SetTop([Top EXCEPT !.at = "while", !.total = @ + Top.k, !.k = 0, !.straight = 0]) /\ UNCHANGED run
  /\ UNCHANGED <<g_prog, exits>>

\* Back in purva_run's loop: an ended guest ends it, a pc outside the code and
\* a call that ran nothing are traps.
LoopBack ==
  /\ stack # <<>> /\ Top.at = "back"
  /\ IF run[Top.r].status # "FUEL" THEN stack' = Front(stack) /\ UNCHANGED run
     ELSE IF ~run[Top.r].inside \/ Top.k = 0
       THEN stack' = Front(stack) /\ run' = [run EXCEPT ![Top.r].status = "TRAP"]
       ELSE SetTop([Top EXCEPT !.at = "while", !.total = @ + Top.k, !.k = 0, !.straight = 0]) /\ UNCHANGED run
  /\ UNCHANGED <<g_prog, exits>>

Host == \E r \in Inst : InitRun(r) \/ InitFails(r) \/ FreeRun(r) \/ \E fuel \in Fuels : Run(r, fuel)

Guest ==
  \/ \E c \in Costs : Op(c)
  \/ \E inside \in BOOLEAN : Jump(inside)
  \/ OnTrap \/ Serviced \/ UserCall
  \/ \E code \in ExitCodes : Exit(code)
  \/ \E len \in WriteLens : Write(len)

Thread == FuelGone \/ EnterLoop \/ LoopBack \/ Guest

\* A callback returns.
Returns ==
  \/ \E stop \in BOOLEAN : UserReturns(stop)
  \/ WriteEnds
  \/ \E wrote \in 1 .. Chunk : WriteChunk(wrote)

Next == Host \/ Thread \/ Returns

Spec == Init /\ [][Next]_vars

\* Calls are sequential code on one thread; a host callback returns, whatever
\* it runs before.
FairSpec ==
  /\ Spec
  /\ WF_vars(Thread)
  /\ \A d \in 1 .. MaxDepth : SF_vars(Len(stack) = d /\ Returns)

-----------------------------------------------------------------------------

\* purvarun.h lets a call overshoot its fuel: by at most one straight-line run and
\* the jump or hostcall behind it, over all the engine calls of one purva_run and
\* with other instances run from its hostcalls.
OvershootBounded ==
  \A j \in DOMAIN stack :
     LET f == stack[j] IN
     f.total + f.k <= f.fuel + Straight /\ f.total <= f.fuel + Straight

\* purvarun.h: "Multiple PurvaRun instances may coexist; the engine's program
\* pointer is re-armed on every purva_run call".  However runs are sliced,
\* interleaved and nested, an instance executes its own program.
OwnProgram ==
  \A j \in DOMAIN stack : stack[j].prog # None => stack[j].prog = stack[j].r

\* DONE says that this guest called exit, once, with this code; and a guest
\* that called it is DONE once its call has returned.
DoneIsExit ==
  \A r \in Inst : run[r].live =>
    /\ run[r].status = "DONE" => exits[r] = {run[r].exit_code}
    /\ exits[r] # {} => run[r].status = "DONE"

\* A guest whose call returned with FUEL can be continued: its pc is in the
\* code (unless it never ran).
FuelResumes ==
  [][\A r \in Inst : OnStack(r) /\ ~OnStack(r)' /\ run[r].live /\ run'[r].status = "FUEL"
       => run'[r].inside \/ Top.total = 0]_vars

\* An instance that has ended stays so until it is freed.
EndedStays ==
  [][\A r \in Inst : run[r].live /\ run[r].status # "FUEL" /\ run'[r].live => run'[r] = run[r]]_vars

\* The write hostcall delivers the guest's bytes in order, none twice and none
\* left out, however little the callback takes at a time.
WrittenInOrder ==
  \A j \in DOMAIN stack :
    stack[j].sent = [i \in 1 .. stack[j].off |-> i]

\* Every purva_run returns.
RunReturns == stack # <<>> ~> stack = <<>>
=============================================================================

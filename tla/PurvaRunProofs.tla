--------------------------- MODULE PurvaRunProofs ---------------------------
(***************************************************************************)
(* What PurvaRun promises, for every number of instances, every fuel, any  *)
(* nesting and any costs.  A call of purva_run is a frame; the inductive   *)
(* invariant says what holds of a frame at each of its program points      *)
(* (FrameOK), that only the innermost call runs (Suspended), that a call   *)
(* nests no call of the same instance (OneCallEach), and that a call which *)
(* is about to enter the engine has its own program installed (Armed).     *)
(* OwnProgram rests on the last: it would not hold if a call could come    *)
(* back to the engine after a callback ran another instance, and what      *)
(* excludes that is that an engine call that returns to purva_run with     *)
(* its guest still running has used up its fuel.                           *)
(***************************************************************************)
EXTENDS PurvaRun, SequenceTheorems, TLAPS

At == {"while", "loop", "user", "write", "back"}

Frames ==
  [r : Inst, at : At, prog : Inst \cup {None}, fuel : Nat, total : Nat, k : Nat,
   straight : Nat, left : Nat, sent : Seq(Nat), off : Nat]

Runs == [live : BOOLEAN, status : Status, exit_code : ExitCodes \cup {0}, inside : BOOLEAN]

TypeOK ==
  /\ g_prog \in Inst \cup {None}
  /\ run \in [Inst -> Runs]
  /\ stack \in Seq(Frames)
  /\ exits \in [Inst -> SUBSET ExitCodes]

\* A call f of an instance whose PurvaRun is p.
FrameOK(f, p) ==
  /\ p.live
  /\ f.at # "back" => p.status = "FUEL"
  /\ f.prog \in {None, f.r}
  /\ f.sent = [i \in 1 .. f.off |-> i]
  /\ f.at = "while" =>
       /\ f.k = 0 /\ f.total <= f.fuel + Straight
       /\ f.total = 0 \/ (f.total >= f.fuel /\ p.inside)
  /\ f.at \in {"loop", "user", "write"} =>
       /\ f.straight <= f.k /\ f.straight <= Straight
       /\ f.total + f.k < f.fuel + f.straight
  /\ f.at = "back" =>
       /\ f.total + f.k <= f.fuel + Straight
       /\ p.status = "FUEL" /\ p.inside /\ f.k # 0 => f.total + f.k >= f.fuel

FramesOK == \A j \in DOMAIN stack : FrameOK(stack[j], run[stack[j].r])

OneCallEach == \A i, j \in DOMAIN stack : i # j => stack[i].r # stack[j].r

Suspended == \A j \in DOMAIN stack : j # Len(stack) => stack[j].at \in {"user", "write"}

Armed == stack # <<>> /\ Top.at = "while" /\ Top.total < Top.fuel => g_prog = Top.r

Inv == TypeOK /\ FramesOK /\ OneCallEach /\ Suspended /\ Armed /\ DoneIsExit

-----------------------------------------------------------------------------

\* Replacing the innermost call changes no other call.
LEMMA SetTopStack ==
  ASSUME stack \in Seq(Frames), stack # <<>>, NEW f \in Frames, SetTop(f)
  PROVE  /\ stack' \in Seq(Frames) /\ stack' # <<>>
         /\ Len(stack') = Len(stack) /\ DOMAIN stack' = DOMAIN stack
         /\ Len(stack) \in DOMAIN stack
         /\ stack'[Len(stack)] = f
         /\ \A j \in DOMAIN stack : j # Len(stack) => stack'[j] = stack[j]
  BY DEF SetTop

\* What is known of the innermost call.
LEMMA TopFacts ==
  ASSUME Inv, stack # <<>>
  PROVE  /\ Top \in Frames /\ Top.r \in Inst /\ run[Top.r] \in Runs
         /\ FrameOK(Top, run[Top.r])
         /\ run = [run EXCEPT ![Top.r] = run[Top.r]]
         /\ run[Top.r].status = "DONE" => exits[Top.r] = {run[Top.r].exit_code}
         /\ exits[Top.r] # {} => run[Top.r].status = "DONE"
         /\ exits \in [Inst -> SUBSET ExitCodes]
  <1>1. stack \in Seq(Frames) /\ run \in [Inst -> Runs] /\ exits \in [Inst -> SUBSET ExitCodes]
    BY DEF Inv, TypeOK
  <1>2. Len(stack) \in DOMAIN stack /\ Top = stack[Len(stack)] /\ Top \in Frames
    BY <1>1 DEF Top, Last
  <1>3. Top.r \in Inst /\ run[Top.r] \in Runs /\ run = [run EXCEPT ![Top.r] = run[Top.r]]
    BY <1>1, <1>2 DEF Frames
  <1>4. FrameOK(Top, run[Top.r])
    BY <1>2 DEF Inv, FramesOK
  <1>5. run[Top.r].live
    BY <1>4 DEF FrameOK
  <1> QED BY <1>1, <1>2, <1>3, <1>4, <1>5 DEF Inv, DoneIsExit

\* A step that moves the innermost call to f and its instance to p.
LEMMA TopStep ==
  ASSUME Inv, stack # <<>>, NEW f \in Frames, SetTop(f), f.r = Top.r,
         NEW p \in Runs, run' = [run EXCEPT ![Top.r] = p], FrameOK(f, p),
         f.at = "while" => f.total >= f.fuel,
         g_prog' = g_prog, exits' \in [Inst -> SUBSET ExitCodes],
         \A r \in Inst : r # Top.r => exits'[r] = exits[r],
         p.status = "DONE" => exits'[Top.r] = {p.exit_code},
         exits'[Top.r] # {} => p.status = "DONE"
  PROVE  Inv'
  <1>0. /\ stack \in Seq(Frames) /\ run \in [Inst -> Runs] /\ Top.r \in Inst
        /\ Top = stack[Len(stack)]
    BY TopFacts DEF Inv, TypeOK, Top, Last
  <1>1. /\ stack' \in Seq(Frames) /\ stack' # <<>>
        /\ Len(stack') = Len(stack) /\ DOMAIN stack' = DOMAIN stack
        /\ Len(stack) \in DOMAIN stack
        /\ stack'[Len(stack)] = f
        /\ \A j \in DOMAIN stack : j # Len(stack) => stack'[j] = stack[j]
    BY <1>0, SetTopStack
  <1>2. \A j \in DOMAIN stack : stack'[j].r = stack[j].r
    BY <1>0, <1>1
  <1>3. run' \in [Inst -> Runs]
    BY <1>0
  <1>4. TypeOK'
    BY <1>1, <1>3 DEF Inv, TypeOK
  <1>5. OneCallEach'
    BY <1>1, <1>2 DEF Inv, OneCallEach
  <1>6. Suspended'
    BY <1>1 DEF Inv, Suspended
  <1>7. Armed'
    <2>1. Top' = f
      BY <1>1 DEF Top, Last
    <2> QED BY <2>1 DEF Armed, Frames
  <1>8. FramesOK'
    <2> SUFFICES ASSUME NEW j \in DOMAIN stack
                 PROVE  FrameOK(stack'[j], run'[stack'[j].r])
      BY <1>1 DEF FramesOK
    <2>1. CASE j = Len(stack)
      BY <1>0, <1>1, <2>1
    <2>2. CASE j # Len(stack)
      <3>1. stack[j].r # Top.r /\ stack[j].r \in Inst
        <4>1. stack[j] \in Frames
          BY <1>0
        <4>2. stack[j].r # stack[Len(stack)].r
          BY <1>1, <2>2 DEF Inv, OneCallEach
        <4> QED BY <1>0, <4>1, <4>2 DEF Frames
      <3>2. FrameOK(stack[j], run[stack[j].r])
        BY DEF Inv, FramesOK
      <3>3. stack'[j] = stack[j] /\ run'[stack'[j].r] = run[stack[j].r]
        BY <1>0, <1>1, <2>2, <3>1
      <3> QED BY <3>2, <3>3
    <2> QED BY <2>1, <2>2
  <1>9. DoneIsExit'
    BY <1>0 DEF Inv, DoneIsExit, Runs
  <1> QED BY <1>4, <1>5, <1>6, <1>7, <1>8, <1>9 DEF Inv

\* A sequence without its last element.
LEMMA FrontFacts ==
  ASSUME NEW S, NEW s \in Seq(S), s # <<>>
  PROVE  /\ Front(s) \in Seq(S)
         /\ Len(Front(s)) = Len(s) - 1 /\ DOMAIN Front(s) \subseteq DOMAIN s
         /\ \A j \in DOMAIN Front(s) : j \in DOMAIN s /\ j # Len(s) /\ Front(s)[j] = s[j]
  <1>1. Len(s) \in Nat /\ Len(s) >= 1 /\ DOMAIN s = 1 .. Len(s)
    OBVIOUS
  <1>2. Front(s) = SubSeq(s, 1, Len(s) - 1)
    BY DEF Front
  <1>3. \A j \in 1 .. Len(s) - 1 : s[j] \in S
    BY <1>1
  <1>4. /\ Front(s) \in Seq(S) /\ Len(Front(s)) = Len(s) - 1
        /\ \A j \in 1 .. Len(s) - 1 : Front(s)[j] = s[j]
    BY <1>1, <1>2, <1>3, SubSeqProperties
  <1> QED BY <1>1, <1>4

\* A step that ends the innermost call and leaves its instance at p.
LEMMA PopStep ==
  ASSUME Inv, stack # <<>>, stack' = Front(stack),
         NEW p \in Runs, run' = [run EXCEPT ![Top.r] = p],
         g_prog' = g_prog, exits' = exits,
         p.status = "DONE" => exits[Top.r] = {p.exit_code},
         exits[Top.r] # {} => p.status = "DONE"
  PROVE  Inv'
  <1>0. /\ stack \in Seq(Frames) /\ run \in [Inst -> Runs] /\ Top.r \in Inst
        /\ Top = stack[Len(stack)] /\ Len(stack) \in DOMAIN stack
    BY TopFacts DEF Inv, TypeOK, Top, Last
  <1>1. /\ stack' \in Seq(Frames) /\ DOMAIN stack' \subseteq DOMAIN stack
        /\ Len(stack') = Len(stack) - 1
        /\ \A j \in DOMAIN stack' : j \in DOMAIN stack /\ j # Len(stack) /\ stack'[j] = stack[j]
    BY <1>0, FrontFacts
  <1>2. TypeOK'
    BY <1>0, <1>1 DEF Inv, TypeOK
  <1>3. OneCallEach'
    BY <1>1 DEF Inv, OneCallEach
  <1>4. Suspended'
    BY <1>1 DEF Inv, Suspended
  <1>5. Armed'
    <2> SUFFICES ASSUME stack' # <<>> PROVE Top'.at # "while"
      BY DEF Armed
    <2>1. Len(stack') \in DOMAIN stack' /\ Top' = stack'[Len(stack')]
      BY <1>1 DEF Top, Last
    <2>2. Top'.at \in {"user", "write"}
      BY <1>1, <2>1 DEF Inv, Suspended
    <2> QED BY <2>2
  <1>6. FramesOK'
    <2> SUFFICES ASSUME NEW j \in DOMAIN stack'
                 PROVE  FrameOK(stack'[j], run'[stack'[j].r])
      BY DEF FramesOK
    <2>1. j \in DOMAIN stack /\ j # Len(stack) /\ stack'[j] = stack[j] /\ stack[j] \in Frames
      BY <1>0, <1>1
    <2>2. stack[j].r # stack[Len(stack)].r
      BY <1>0, <2>1 DEF Inv, OneCallEach
    <2>3. run'[stack[j].r] = run[stack[j].r]
      BY <1>0, <2>1, <2>2 DEF Frames
    <2> QED BY <2>1, <2>3 DEF Inv, FramesOK
  <1>7. DoneIsExit'
    BY <1>0 DEF Inv, DoneIsExit, Runs
  <1> QED BY <1>2, <1>3, <1>4, <1>5, <1>6, <1>7 DEF Inv

\* The bytes a callback has taken, one chunk further.
LEMMA SentOn ==
  ASSUME NEW n \in Nat, NEW m \in Nat
  PROVE  [i \in 1 .. n |-> i] \o [j \in 1 .. m |-> n + j] = [i \in 1 .. n + m |-> i]
  OBVIOUS

-----------------------------------------------------------------------------

\* A budget check, or the end of the loop, behind a jump or a hostcall that was
\* serviced; f is the innermost call with its write forgotten.
LEMMA CheckedStep ==
  ASSUME Inv, stack # <<>>, Top.at \in {"loop", "user", "write"},
         NEW f \in Frames, f.r = Top.r, f.prog = Top.prog, f.fuel = Top.fuel,
         f.total = Top.total, f.k = Top.k, f.straight = Top.straight,
         f.sent = [i \in 1 .. f.off |-> i],
         NEW inside \in BOOLEAN, Checked(f, inside), g_prog' = g_prog, exits' = exits
  PROVE  Inv'
  <1> DEFINE to == IF ~inside \/ f.k + 1 >= Budget THEN "back" ELSE "loop"
             g == [f EXCEPT !.k = f.k + 1, !.straight = 0, !.at = to]
             p == [run[Top.r] EXCEPT !.inside = inside]
  <1>0. /\ Top \in Frames /\ Top.r \in Inst /\ run[Top.r] \in Runs
        /\ FrameOK(Top, run[Top.r]) /\ exits \in [Inst -> SUBSET ExitCodes]
        /\ run[Top.r].status = "DONE" => exits[Top.r] = {run[Top.r].exit_code}
        /\ exits[Top.r] # {} => run[Top.r].status = "DONE"
    BY TopFacts
  <1>1. SetTop(g) /\ run' = [run EXCEPT ![Top.r] = p]
    BY Zenon DEF Checked
  <1>2. /\ g \in Frames /\ g.at = to /\ g.k = f.k + 1 /\ g.straight = 0 /\ g.r = Top.r
        /\ g.prog = f.prog /\ g.fuel = f.fuel /\ g.total = f.total /\ g.off = f.off /\ g.sent = f.sent
    <2>1. to \in At /\ f.k + 1 \in Nat
      BY DEF Frames, At
    <2>2. g.straight = 0
      BY DEF Frames
    <2> HIDE DEF to
    <2> QED BY <2>1 DEF Frames
  <1>3. /\ p \in Runs /\ p.live = run[Top.r].live /\ p.status = run[Top.r].status
        /\ p.inside = inside /\ p.exit_code = run[Top.r].exit_code
    BY <1>0 DEF Runs
  <1>4. FrameOK(g, p)
    <2>1. p.live /\ p.status = "FUEL" /\ g.prog \in {None, g.r}
      BY <1>0, <1>2, <1>3 DEF FrameOK
    <2>2. /\ Top.fuel \in Nat /\ Top.total \in Nat /\ Top.k \in Nat /\ Top.straight \in Nat
          /\ Top.total + Top.k < Top.fuel + Top.straight
          /\ Top.straight <= Straight /\ Straight \in Nat
      BY <1>0, RunAssumption DEF FrameOK, Frames
    <2>3. CASE ~inside \/ f.k + 1 >= Budget
      BY <1>2, <1>3, <2>1, <2>2, <2>3 DEF FrameOK, Budget
    <2>4. CASE inside /\ f.k + 1 < Budget
      <3>1. g.at = "loop"
        BY <1>2, <2>2, <2>4 DEF Budget
      <3>2. g.total + g.k < g.fuel + g.straight
        BY <1>2, <2>2, <2>4 DEF Budget
      <3> QED BY <1>2, <1>3, <2>1, <2>2, <3>1, <3>2 DEF FrameOK
    <2>5. f.k + 1 >= Budget \/ f.k + 1 < Budget
      BY <2>2 DEF Budget
    <2> QED BY <2>3, <2>4, <2>5
  <1> HIDE DEF to, g, p
  <1>5. g.at # "while"
    BY <1>2 DEF to
  <1> QED BY <1>0, <1>1, <1>2, <1>3, <1>4, <1>5, TopStep

\* A hook that stops the run.
LEMMA StopStep ==
  ASSUME Inv, stack # <<>>, Top.at \in {"loop", "user"},
         Stops("TRAP"), g_prog' = g_prog, exits' = exits
  PROVE  Inv'
  <1> DEFINE g == [Top EXCEPT !.k = Top.k + 1, !.at = "back"]
             p == [run[Top.r] EXCEPT !.status = "TRAP"]
  <1>0. /\ Top \in Frames /\ Top.r \in Inst /\ run[Top.r] \in Runs
        /\ FrameOK(Top, run[Top.r]) /\ exits \in [Inst -> SUBSET ExitCodes]
        /\ exits[Top.r] # {} => run[Top.r].status = "DONE"
    BY TopFacts
  <1>1. SetTop(g) /\ run' = [run EXCEPT ![Top.r] = p]
    BY Zenon DEF Stops
  <1>2. /\ g \in Frames /\ g.at = "back" /\ g.k = Top.k + 1 /\ g.r = Top.r
        /\ g.prog = Top.prog /\ g.fuel = Top.fuel /\ g.total = Top.total
        /\ g.off = Top.off /\ g.sent = Top.sent
    <2>1. "back" \in At /\ Top.k + 1 \in Nat
      BY <1>0 DEF Frames, At
    <2> QED BY <1>0, <2>1 DEF Frames
  <1>3. p \in Runs /\ p.live = run[Top.r].live /\ p.status = "TRAP"
    BY <1>0 DEF Runs, Status
  <1>4. FrameOK(g, p)
    <2>1. /\ Top.fuel \in Nat /\ Top.total \in Nat /\ Top.k \in Nat /\ Top.straight \in Nat
          /\ Top.total + Top.k < Top.fuel + Top.straight
          /\ Top.straight <= Straight /\ Straight \in Nat
      BY <1>0, RunAssumption DEF FrameOK, Frames
    <2>2. g.total + g.k <= g.fuel + Straight
      BY <1>2, <2>1
    <2> QED BY <1>0, <1>2, <1>3, <2>2 DEF FrameOK
  <1>5. exits[Top.r] = {}
    BY <1>0 DEF FrameOK
  <1> HIDE DEF g, p
  <1> QED BY <1>0, <1>1, <1>2, <1>3, <1>4, <1>5, TopStep

-----------------------------------------------------------------------------

LEMMA InitInv == Init => Inv
  <1> SUFFICES ASSUME Init PROVE Inv
    OBVIOUS
  <1>1. TypeOK
    BY DEF Init, TypeOK, Blank, Runs, Status
  <1> QED BY <1>1 DEF Init, Inv, FramesOK, OneCallEach, Suspended, Armed, DoneIsExit, Blank

\* The host initialises and frees instances that no call is running.
LEMMA HostOnRun ==
  ASSUME Inv, NEW r \in Inst, ~OnStack(r), NEW p \in Runs, run' = [run EXCEPT ![r] = p],
         g_prog' = g_prog, stack' = stack,
         exits' = exits \/ exits' = [exits EXCEPT ![r] = {}],
         p.live => p.status = "FUEL" /\ exits'[r] = {}
  PROVE  Inv'
  <1>1. /\ run \in [Inst -> Runs] /\ exits \in [Inst -> SUBSET ExitCodes]
        /\ stack \in Seq(Frames)
    BY DEF Inv, TypeOK
  <1>2. TypeOK'
    BY <1>1 DEF Inv, TypeOK
  <1>3. FramesOK'
    <2> SUFFICES ASSUME NEW j \in DOMAIN stack PROVE FrameOK(stack[j], run'[stack[j].r])
      BY DEF FramesOK
    <2>1. stack[j] \in Frames
      BY <1>1
    <2>2. stack[j].r # r /\ stack[j].r \in Inst
      BY <2>1 DEF OnStack, Frames
    <2>3. run'[stack[j].r] = run[stack[j].r]
      BY <1>1, <2>2
    <2> QED BY <2>3 DEF Inv, FramesOK
  <1>4. OneCallEach' /\ Suspended'
    BY DEF Inv, OneCallEach, Suspended
  <1>5. Armed'
    BY DEF Inv, Armed, Top
  <1>6. DoneIsExit'
    BY <1>1 DEF Inv, DoneIsExit
  <1> QED BY <1>2, <1>3, <1>4, <1>5, <1>6 DEF Inv

\* A call of purva_run begins: from outside, or from a callback of the call below.
LEMMA RunPushes ==
  ASSUME Inv, NEW r \in Inst, NEW fuel \in Fuels, Run(r, fuel)
  PROVE  Inv'
  <1>0. /\ stack \in Seq(Frames) /\ run \in [Inst -> Runs]
        /\ stack' = Append(stack, Frame(r, fuel)) /\ run' = run /\ exits' = exits /\ g_prog' = r
    BY DEF Inv, TypeOK, Run
  <1>1. fuel \in Nat /\ Straight \in Nat
    BY RunAssumption
  <1>2. Frame(r, fuel) \in Frames
    BY <1>1 DEF Frame, Frames, At
  <1>3. /\ stack' \in Seq(Frames) /\ Len(stack') = Len(stack) + 1 /\ Len(stack) \in Nat
        /\ stack'[Len(stack')] = Frame(r, fuel)
        /\ \A j \in DOMAIN stack' : j # Len(stack') => j \in DOMAIN stack /\ stack'[j] = stack[j]
    BY <1>0, <1>2
  <1>4. TypeOK'
    BY <1>0, <1>3 DEF Inv, TypeOK
  <1>5. FramesOK'
    <2>1. FrameOK(Frame(r, fuel), run[r])
      <3>1. <<>> = [i \in 1 .. 0 |-> i]
        OBVIOUS
      <3> QED BY <1>1, <3>1 DEF FrameOK, Frame, Run
    <2> QED BY <1>0, <1>3, <2>1 DEF Inv, FramesOK, Frame
  <1>6. OneCallEach'
    <2>1. \A j \in DOMAIN stack : stack[j].r # r
      BY DEF Run, OnStack
    <2> QED BY <1>3, <2>1 DEF Inv, OneCallEach, Frame
  <1>7. Suspended'
    <2>1. stack # <<>> => stack[Len(stack)].at \in {"user", "write"}
      BY <1>0 DEF Run, HostRuns, Top, Last
    <2> QED BY <1>3, <2>1 DEF Inv, Suspended
  <1>8. Armed'
    <2>1. Top' = Frame(r, fuel)
      BY <1>3 DEF Top, Last
    <2> QED BY <1>0, <2>1 DEF Armed, Frame
  <1>9. DoneIsExit'
    BY <1>0 DEF Inv, DoneIsExit
  <1> QED BY <1>4, <1>5, <1>6, <1>7, <1>8, <1>9 DEF Inv

LEMMA HostInv == Inv /\ Host => Inv'
  <1> SUFFICES ASSUME Inv, NEW r \in Inst,
                      InitRun(r) \/ InitFails(r) \/ FreeRun(r) \/ \E fuel \in Fuels : Run(r, fuel)
               PROVE  Inv'
    BY DEF Host
  <1>0. run \in [Inst -> Runs] /\ run[r] \in Runs /\ exits \in [Inst -> SUBSET ExitCodes]
    BY DEF Inv, TypeOK
  <1>1. CASE InitRun(r)
    <2> PICK inside \in BOOLEAN :
          run' = [run EXCEPT ![r] = [live |-> TRUE, status |-> "FUEL", exit_code |-> 0, inside |-> inside]]
      BY <1>1 DEF InitRun
    <2>1. [live |-> TRUE, status |-> "FUEL", exit_code |-> 0, inside |-> inside] \in Runs
      BY DEF Runs, Status
    <2> QED BY <1>0, <1>1, <2>1, HostOnRun DEF InitRun
  <1>2. CASE InitFails(r)
    <2>1. [Blank EXCEPT !.status = "DONE"] \in Runs /\ ~[Blank EXCEPT !.status = "DONE"].live
      BY DEF Blank, Runs, Status
    <2> QED BY <1>2, <2>1, HostOnRun DEF InitFails
  <1>3. CASE FreeRun(r)
    <2>1. run' = [run EXCEPT ![r] = [run[r] EXCEPT !.live = FALSE]]
      BY <1>3 DEF FreeRun
    <2>2. [run[r] EXCEPT !.live = FALSE] \in Runs /\ ~[run[r] EXCEPT !.live = FALSE].live
      BY <1>0 DEF Runs
    <2> QED BY <1>3, <2>1, <2>2, HostOnRun DEF FreeRun
  <1>4. CASE \E fuel \in Fuels : Run(r, fuel)
    BY <1>4, RunPushes
  <1> QED BY <1>1, <1>2, <1>3, <1>4

\* The innermost call moves within the run's own bookkeeping: no PurvaRun and
\* no exit code changes.
LEMMA MoveStep ==
  ASSUME Inv, stack # <<>>, NEW g \in Frames, SetTop(g), g.r = Top.r,
         FrameOK(g, run[Top.r]), g.at = "while" => g.total >= g.fuel,
         UNCHANGED <<g_prog, run, exits>>
  PROVE  Inv'
  <1>1. run' = [run EXCEPT ![Top.r] = run[Top.r]]
    BY TopFacts
  <1> QED BY <1>1, TopFacts, TopStep

LEMMA EnterLoopInv == Inv /\ EnterLoop => Inv'
  <1> SUFFICES ASSUME Inv, EnterLoop PROVE Inv'
    OBVIOUS
  <1> DEFINE to == IF run[Top.r].inside THEN "loop" ELSE "back"
             g == [Top EXCEPT !.at = to, !.prog = g_prog, !.k = 0, !.straight = 0]
  <1>0. /\ stack # <<>> /\ Top.at = "while" /\ Top.total < Top.fuel
        /\ Top \in Frames /\ Top.r \in Inst /\ run[Top.r] \in Runs /\ FrameOK(Top, run[Top.r])
        /\ Straight \in Nat
    BY TopFacts, RunAssumption DEF EnterLoop
  <1>1. g_prog = Top.r /\ g_prog \in Inst
    BY <1>0 DEF Inv, Armed, TypeOK
  <1>2. SetTop(g) /\ UNCHANGED <<g_prog, run, exits>>
    BY Zenon DEF EnterLoop
  <1>3. to \in At \ {"while"} /\ to \in {"loop", "back"}
    BY DEF At
  <1> HIDE DEF to
  <1>4. /\ g \in Frames /\ g.at = to /\ g.k = 0 /\ g.straight = 0 /\ g.r = Top.r
        /\ g.prog = g_prog /\ g.fuel = Top.fuel /\ g.total = Top.total
        /\ g.off = Top.off /\ g.sent = Top.sent
    <2>1. g_prog \in Inst \cup {None} /\ to \in At
      BY <1>1, <1>3
    <2> QED BY <1>0, <2>1 DEF Frames
  <1>5. FrameOK(g, run[Top.r])
    <2>1. Top.fuel \in Nat /\ Top.total \in Nat
      BY <1>0 DEF Frames
    <2> QED BY <1>0, <1>1, <1>3, <1>4, <2>1 DEF FrameOK
  <1> HIDE DEF g
  <1> QED BY <1>0, <1>2, <1>3, <1>4, <1>5, MoveStep

LEMMA FuelGoneInv == Inv /\ FuelGone => Inv'
  <1> SUFFICES ASSUME Inv, FuelGone PROVE Inv'
    OBVIOUS
  <1>1. stack # <<>> /\ stack' = Front(stack) /\ UNCHANGED <<g_prog, run, exits>>
    BY DEF FuelGone
  <1>2. run' = [run EXCEPT ![Top.r] = run[Top.r]]
    BY <1>1, TopFacts
  <1> QED BY <1>1, <1>2, TopFacts, PopStep

LEMMA LoopBackInv == Inv /\ LoopBack => Inv'
  <1> SUFFICES ASSUME Inv, LoopBack PROVE Inv'
    OBVIOUS
  <1>0. /\ stack # <<>> /\ Top.at = "back" /\ UNCHANGED <<g_prog, exits>>
        /\ Top \in Frames /\ run[Top.r] \in Runs /\ FrameOK(Top, run[Top.r])
        /\ run[Top.r].status = "DONE" => exits[Top.r] = {run[Top.r].exit_code}
        /\ exits[Top.r] # {} => run[Top.r].status = "DONE"
    BY TopFacts DEF LoopBack
  <1>1. CASE run[Top.r].status # "FUEL"
    <2>1. stack' = Front(stack) /\ UNCHANGED run
      BY <1>1 DEF LoopBack
    <2>2. run' = [run EXCEPT ![Top.r] = run[Top.r]]
      BY <1>0, <2>1, TopFacts
    <2> QED BY <1>0, <2>1, <2>2, PopStep
  <1>2. CASE run[Top.r].status = "FUEL" /\ (~run[Top.r].inside \/ Top.k = 0)
    <2> DEFINE p == [run[Top.r] EXCEPT !.status = "TRAP"]
    <2>1. stack' = Front(stack) /\ run' = [run EXCEPT ![Top.r] = p]
      BY <1>2 DEF LoopBack
    <2>2. p \in Runs /\ p.status = "TRAP"
      BY <1>0 DEF Runs, Status
    <2> HIDE DEF p
    <2> QED BY <1>0, <1>2, <2>1, <2>2, PopStep
  <1>3. CASE run[Top.r].status = "FUEL" /\ run[Top.r].inside /\ Top.k # 0
    <2> DEFINE g == [Top EXCEPT !.at = "while", !.total = Top.total + Top.k, !.k = 0, !.straight = 0]
    <2>1. SetTop(g) /\ UNCHANGED <<g_prog, run, exits>>
      BY <1>0, <1>3, Zenon DEF LoopBack
    <2>2. /\ Top.fuel \in Nat /\ Top.total \in Nat /\ Top.k \in Nat
          /\ Top.total + Top.k >= Top.fuel /\ Top.total + Top.k <= Top.fuel + Straight
      BY <1>0, <1>3 DEF Frames, FrameOK
    <2>3. Top.total + Top.k \in Nat /\ "while" \in At
      BY <2>2 DEF At
    <2>4. /\ g \in Frames /\ g.at = "while" /\ g.k = 0 /\ g.r = Top.r /\ g.prog = Top.prog
          /\ g.fuel = Top.fuel /\ g.total = Top.total + Top.k
          /\ g.off = Top.off /\ g.sent = Top.sent
      BY <1>0, <2>3 DEF Frames
    <2>5. FrameOK(g, run[Top.r])
      BY <1>0, <1>3, <2>2, <2>4 DEF FrameOK
    <2> HIDE DEF g
    <2> QED BY <1>0, <2>1, <2>2, <2>4, <2>5, MoveStep
  <1> QED BY <1>1, <1>2, <1>3

\* The guest, up to its next budget check or stop.
LEMMA GuestInv == Inv /\ Guest => Inv'
  <1> SUFFICES ASSUME Inv, Guest PROVE Inv'
    OBVIOUS
  <1>0. /\ stack # <<>> /\ Top.at = "loop"
        /\ Top \in Frames /\ Top.r \in Inst /\ run[Top.r] \in Runs /\ FrameOK(Top, run[Top.r])
        /\ exits \in [Inst -> SUBSET ExitCodes]
        /\ exits[Top.r] # {} => run[Top.r].status = "DONE"
    BY TopFacts DEF Guest, Op, Jump, OnTrap, Serviced, UserCall, Exit, Write, InLoop
  <1>1. /\ Top.fuel \in Nat /\ Top.total \in Nat /\ Top.k \in Nat /\ Top.straight \in Nat
        /\ Top.off \in Nat /\ Top.sent = [i \in 1 .. Top.off |-> i] /\ Top.straight <= Top.k
        /\ Top.total + Top.k < Top.fuel + Top.straight
        /\ Top.straight <= Straight /\ Straight \in Nat
        /\ run[Top.r].live /\ run[Top.r].status = "FUEL" /\ Top.prog \in {None, Top.r}
    BY <1>0, RunAssumption DEF Frames, FrameOK
  <1>2. ASSUME NEW c \in Costs, Op(c) PROVE Inv'
    <2> DEFINE g == [Top EXCEPT !.k = Top.k + c, !.straight = Top.straight + c]
    <2>1. SetTop(g) /\ UNCHANGED <<g_prog, run, exits>> /\ Top.straight + c <= Straight
      BY <1>2, Zenon DEF Op
    <2>2. Top.k + c \in Nat /\ Top.straight + c \in Nat /\ c \in Nat
      BY <1>1, RunAssumption
    <2>3. /\ g \in Frames /\ g.at = "loop" /\ g.k = Top.k + c /\ g.straight = Top.straight + c
          /\ g.r = Top.r /\ g.prog = Top.prog /\ g.fuel = Top.fuel /\ g.total = Top.total
          /\ g.off = Top.off /\ g.sent = Top.sent
      BY <1>0, <2>2 DEF Frames
    <2> HIDE DEF g
    <2>4. FrameOK(g, run[Top.r])
      <3>1. /\ g.straight <= g.k /\ g.straight <= Straight
            /\ g.total + g.k < g.fuel + g.straight
        <4> DEFINE t == Top.total  k == Top.k  fu == Top.fuel  st == Top.straight
        <4>1. /\ t \in Nat /\ k \in Nat /\ fu \in Nat /\ st \in Nat /\ c \in Nat
              /\ st <= k /\ t + k < fu + st /\ st + c <= Straight
              /\ g.total = t /\ g.k = k + c /\ g.fuel = fu /\ g.straight = st + c
          BY <1>1, <2>1, <2>2, <2>3
        <4> HIDE DEF t, k, fu, st
        <4> QED BY <4>1
      <3> QED BY <1>1, <2>3, <3>1 DEF FrameOK
    <2> QED BY <1>0, <2>1, <2>3, <2>4, MoveStep
  <1>3. ASSUME NEW inside \in BOOLEAN, Jump(inside) PROVE Inv'
    BY <1>0, <1>1, <1>3, CheckedStep DEF Jump
  <1>4. CASE OnTrap
    BY <1>0, <1>4, StopStep DEF OnTrap
  <1>5. CASE Serviced
    BY <1>0, <1>1, <1>5, CheckedStep DEF Serviced
  <1>6. CASE UserCall
    <2> DEFINE g == [Top EXCEPT !.at = "user"]
    <2>1. SetTop(g) /\ UNCHANGED <<g_prog, run, exits>>
      BY <1>6, Zenon DEF UserCall
    <2>2. /\ g \in Frames /\ g.at = "user" /\ g.k = Top.k /\ g.straight = Top.straight
          /\ g.r = Top.r /\ g.prog = Top.prog /\ g.fuel = Top.fuel /\ g.total = Top.total
          /\ g.off = Top.off /\ g.sent = Top.sent
      BY <1>0 DEF Frames, At
    <2>3. FrameOK(g, run[Top.r])
      BY <1>1, <2>2 DEF FrameOK
    <2> HIDE DEF g
    <2> QED BY <1>0, <2>1, <2>2, <2>3, MoveStep
  <1>7. ASSUME NEW code \in ExitCodes, Exit(code) PROVE Inv'
    <2> DEFINE g == [Top EXCEPT !.k = Top.k + 1, !.at = "back"]
               p == [run[Top.r] EXCEPT !.status = "DONE", !.exit_code = code]
    <2>1. /\ SetTop(g) /\ g_prog' = g_prog
          /\ exits' = [exits EXCEPT ![Top.r] = exits[Top.r] \cup {code}]
      BY <1>7, Zenon DEF Exit
    <2>2. run' = [run EXCEPT ![Top.r] = p]
      BY <1>0, <1>7 DEF Exit, Inv, TypeOK, Runs
    <2>3. p \in Runs /\ p.live /\ p.status = "DONE" /\ p.exit_code = code
      BY <1>0, <1>1 DEF Runs, Status
    <2>4. Top.k + 1 \in Nat /\ "back" \in At
      BY <1>1 DEF At
    <2>5. /\ g \in Frames /\ g.at = "back" /\ g.k = Top.k + 1
          /\ g.r = Top.r /\ g.prog = Top.prog /\ g.fuel = Top.fuel /\ g.total = Top.total
          /\ g.off = Top.off /\ g.sent = Top.sent
      BY <1>0, <2>4 DEF Frames
    <2>6. FrameOK(g, p)
      BY <1>1, <2>3, <2>5 DEF FrameOK
    <2>7. exits[Top.r] = {}
      BY <1>0, <1>1
    <2>8. /\ exits' \in [Inst -> SUBSET ExitCodes] /\ exits'[Top.r] = {code}
          /\ \A r \in Inst : r # Top.r => exits'[r] = exits[r]
      BY <1>0, <2>1, <2>7
    <2> HIDE DEF g, p
    <2> QED BY <1>0, <2>1, <2>2, <2>3, <2>5, <2>6, <2>8, TopStep
  <1>8. ASSUME NEW len \in WriteLens, Write(len) PROVE Inv'
    <2> DEFINE g == [Top EXCEPT !.at = "write", !.left = len, !.off = 0, !.sent = <<>>]
    <2>1. SetTop(g) /\ UNCHANGED <<g_prog, run, exits>>
      BY <1>8, Zenon DEF Write
    <2>2. len \in Nat /\ "write" \in At /\ <<>> \in Seq(Nat) /\ <<>> = [i \in 1 .. 0 |-> i]
      BY RunAssumption DEF At
    <2>3. /\ g \in Frames /\ g.at = "write" /\ g.k = Top.k /\ g.straight = Top.straight
          /\ g.r = Top.r /\ g.prog = Top.prog /\ g.fuel = Top.fuel /\ g.total = Top.total
          /\ g.off = 0 /\ g.sent = <<>>
      BY <1>0, <2>2 DEF Frames
    <2>4. FrameOK(g, run[Top.r])
      BY <1>1, <2>2, <2>3 DEF FrameOK
    <2> HIDE DEF g
    <2> QED BY <1>0, <2>1, <2>3, <2>4, MoveStep
  <1> QED BY <1>2, <1>3, <1>4, <1>5, <1>6, <1>7, <1>8 DEF Guest

\* A callback returns.
LEMMA ReturnsInv == Inv /\ Returns => Inv'
  <1> SUFFICES ASSUME Inv, Returns PROVE Inv'
    OBVIOUS
  <1>0. /\ stack # <<>> /\ Top.at \in {"user", "write"}
        /\ Top \in Frames /\ Top.r \in Inst /\ run[Top.r] \in Runs /\ FrameOK(Top, run[Top.r])
    BY TopFacts DEF Returns, UserReturns, WriteEnds, WriteChunk
  <1>1. Top.off \in Nat /\ Top.left \in Nat /\ Top.sent = [i \in 1 .. Top.off |-> i]
    BY <1>0 DEF Frames, FrameOK
  <1>2. ASSUME NEW stop \in BOOLEAN, UserReturns(stop) PROVE Inv'
    BY <1>0, <1>1, <1>2, StopStep, CheckedStep DEF UserReturns
  <1>3. CASE WriteEnds
    <2> DEFINE f == [Top EXCEPT !.left = 0, !.off = 0, !.sent = <<>>]
    <2>1. Checked(f, TRUE) /\ g_prog' = g_prog /\ exits' = exits
      BY <1>3, Zenon DEF WriteEnds
    <2>2. <<>> \in Seq(Nat) /\ <<>> = [i \in 1 .. 0 |-> i]
      OBVIOUS
    <2>3. /\ f \in Frames /\ f.off = 0 /\ f.sent = <<>> /\ f.r = Top.r /\ f.prog = Top.prog
          /\ f.fuel = Top.fuel /\ f.total = Top.total /\ f.k = Top.k /\ f.straight = Top.straight
      BY <1>0, <2>2 DEF Frames
    <2> HIDE DEF f
    <2> QED BY <1>0, <2>1, <2>2, <2>3, CheckedStep
  <1>4. ASSUME NEW wrote \in 1 .. Chunk, WriteChunk(wrote) PROVE Inv'
    <2> DEFINE sent == Top.sent \o [j \in 1 .. wrote |-> Top.off + j]
               g == [Top EXCEPT !.sent = sent, !.off = Top.off + wrote, !.left = Top.left - wrote]
    <2>1. /\ SetTop(g) /\ UNCHANGED <<g_prog, run, exits>>
          /\ Top.left > 0 /\ wrote \in 1 .. ChunkLen
      BY <1>4, Zenon DEF WriteChunk
    <2>2. wrote \in Nat /\ Top.off + wrote \in Nat /\ Top.left - wrote \in Nat
      BY <1>1, <2>1, RunAssumption DEF ChunkLen
    <2>3. sent = [i \in 1 .. Top.off + wrote |-> i] /\ sent \in Seq(Nat)
      <3> DEFINE n == Top.off
      <3>1. n \in Nat /\ wrote \in Nat /\ sent = [i \in 1 .. n |-> i] \o [j \in 1 .. wrote |-> n + j]
        BY <1>1, <2>2
      <3> HIDE DEF n, sent
      <3>2. sent = [i \in 1 .. n + wrote |-> i]
        BY <3>1, SentOn
      <3>3. sent \in Seq(Nat)
        BY <3>1, <3>2
      <3> QED BY <3>2, <3>3 DEF n
    <2> HIDE DEF sent
    <2>4. /\ g \in Frames /\ g.at = Top.at /\ g.k = Top.k /\ g.straight = Top.straight
          /\ g.r = Top.r /\ g.prog = Top.prog /\ g.fuel = Top.fuel /\ g.total = Top.total
          /\ g.off = Top.off + wrote /\ g.sent = sent
      BY <1>0, <2>2, <2>3 DEF Frames
    <2> HIDE DEF g
    <2>5. FrameOK(g, run[Top.r])
      BY <1>0, <2>3, <2>4 DEF FrameOK
    <2> QED BY <1>0, <2>1, <2>4, <2>5, MoveStep
  <1> QED BY <1>2, <1>3, <1>4 DEF Returns

LEMMA StepInv == Inv /\ [Next]_vars => Inv'
  <1>1. Inv /\ UNCHANGED vars => Inv'
    <2> SUFFICES ASSUME Inv, UNCHANGED vars PROVE Inv'
      OBVIOUS
    <2>1. TypeOK' /\ FramesOK'
      BY DEF vars, Inv, TypeOK, FramesOK
    <2>2. OneCallEach' /\ Suspended' /\ Armed' /\ DoneIsExit'
      BY DEF vars, Inv, OneCallEach, Suspended, Armed, Top, DoneIsExit
    <2> QED BY <2>1, <2>2 DEF Inv
  <1> QED BY <1>1, HostInv, FuelGoneInv, EnterLoopInv, LoopBackInv, GuestInv, ReturnsInv
          DEF Next, Thread

-----------------------------------------------------------------------------

\* However runs of several instances are sliced, interleaved and nested in each
\* other's callbacks, an engine call executes the program of its own instance.
THEOREM OwnProgramAlways == Spec => []OwnProgram
  <1>1. Inv => OwnProgram
    BY DEF Inv, FramesOK, FrameOK, OwnProgram
  <1> QED BY <1>1, InitInv, StepInv, PTL DEF Spec

\* DONE says that the guest called exit, once, with this code, and a guest that
\* called it is DONE.
THEOREM DoneIsExitAlways == Spec => []DoneIsExit
  <1>1. Inv => DoneIsExit
    BY DEF Inv
  <1> QED BY <1>1, InitInv, StepInv, PTL DEF Spec

\* The bytes of a write reach the callback in order, none twice, none left out.
THEOREM WrittenInOrderAlways == Spec => []WrittenInOrder
  <1>1. Inv => WrittenInOrder
    BY DEF Inv, FramesOK, FrameOK, WrittenInOrder
  <1> QED BY <1>1, InitInv, StepInv, PTL DEF Spec

\* Over all its engine calls, a purva_run charges at most its fuel and one
\* straight-line run.
THEOREM OvershootAlwaysBounded == Spec => []OvershootBounded
  <1>1. Inv => OvershootBounded
    <2> SUFFICES ASSUME Inv, NEW j \in DOMAIN stack
                 PROVE  /\ stack[j].total + stack[j].k <= stack[j].fuel + Straight
                        /\ stack[j].total <= stack[j].fuel + Straight
      BY DEF OvershootBounded
    <2> DEFINE f == stack[j]
    <2>1. f \in Frames /\ FrameOK(f, run[f.r])
      BY DEF Inv, TypeOK, FramesOK
    <2> HIDE DEF f
    <2>2. /\ f.at \in At /\ f.fuel \in Nat /\ f.total \in Nat /\ f.k \in Nat /\ f.straight \in Nat
          /\ Straight \in Nat
      BY <2>1, RunAssumption DEF Frames
    <2>3. f.total + f.k <= f.fuel + Straight
      <3>1. CASE f.at = "while"
        BY <2>1, <2>2, <3>1 DEF FrameOK
      <3>2. CASE f.at \in {"loop", "user", "write"}
        <4>1. f.total + f.k < f.fuel + f.straight /\ f.straight <= Straight
          BY <2>1, <3>2 DEF FrameOK
        <4> QED BY <2>2, <4>1
      <3>3. CASE f.at = "back"
        BY <2>1, <3>3 DEF FrameOK
      <3> QED BY <2>2, <3>1, <3>2, <3>3 DEF At
    <2>4. f.total <= f.fuel + Straight
      BY <2>2, <2>3
    <2> QED BY <2>3, <2>4 DEF f
  <1> QED BY <1>1, InitInv, StepInv, PTL DEF Spec

\* An instance that has ended stays as it ended until it is freed: no late hook,
\* no nested call and no further purva_run changes its status or its exit code.
THEOREM EndedStaysAlways == Spec => EndedStays
  <1>1. Inv /\ [Next]_vars =>
          [\A r \in Inst : run[r].live /\ run[r].status # "FUEL" /\ run'[r].live => run'[r] = run[r]]_vars
    <2> SUFFICES ASSUME Inv, Next, NEW r \in Inst,
                        run[r].live, run[r].status # "FUEL", run'[r].live
                 PROVE  run'[r] = run[r]
      BY DEF vars
    <2>0. run \in [Inst -> Runs]
      BY DEF Inv, TypeOK
    <2>1. ASSUME NEW q \in Inst, InitRun(q) \/ InitFails(q) \/ FreeRun(q)
          PROVE  run'[r] = run[r]
      BY <2>0, <2>1 DEF InitRun, InitFails, FreeRun, Runs
    <2>2. ASSUME NEW q \in Inst, NEW fuel \in Fuels, Run(q, fuel) PROVE run'[r] = run[r]
      BY <2>2 DEF Run
    <2>3. ASSUME Thread \/ Returns, NEW p, run' = [run EXCEPT ![Top.r] = p],
                 stack # <<>>, run[Top.r].status = "FUEL"
          PROVE  run'[r] = run[r]
      BY <2>0, <2>3
    <2>4. ASSUME Thread \/ Returns PROVE run' = run \/ \E p : run' = [run EXCEPT ![Top.r] = p]
      BY <2>4 DEF Thread, Returns, Guest, FuelGone, EnterLoop, LoopBack, Op, Jump, OnTrap, Serviced,
                  UserCall, Exit, Write, UserReturns, WriteEnds, WriteChunk, Checked, Stops
    <2>5. ASSUME Thread \/ Returns PROVE run' = run \/ (stack # <<>> /\ run[Top.r].status = "FUEL")
      <3>1. stack # <<>>
        BY <2>5 DEF Thread, Returns, Guest, FuelGone, EnterLoop, LoopBack, Op, Jump, OnTrap, Serviced,
                    UserCall, Exit, Write, UserReturns, WriteEnds, WriteChunk, InLoop
      <3>2. Top.at # "back" => run[Top.r].status = "FUEL"
        BY <3>1, TopFacts DEF FrameOK
      <3>3. Top.at = "back" => run' = run \/ run[Top.r].status = "FUEL"
        BY <2>5 DEF Thread, Returns, Guest, FuelGone, EnterLoop, LoopBack, Op, Jump, OnTrap, Serviced,
                    UserCall, Exit, Write, UserReturns, WriteEnds, WriteChunk, InLoop
      <3> QED BY <3>1, <3>2, <3>3
    <2> QED BY <2>1, <2>2, <2>3, <2>4, <2>5 DEF Next, Host
  <1> QED BY <1>1, InitInv, StepInv, PTL DEF Spec, EndedStays

\* No call has returned.
CallsKept == \A j \in DOMAIN stack : j \in DOMAIN stack' /\ stack'[j].r = stack[j].r

\* The running call returns from purva_run's own loop only: with its fuel used
\* up, or with an engine call back.
LEMMA EndsOrStays ==
  ASSUME Inv, Thread \/ Returns
  PROVE  stack # <<>> /\ (FuelGone \/ (LoopBack /\ stack' = Front(stack)) \/ CallsKept)
  <1>1. stack # <<>>
    BY DEF Thread, Returns, Guest, FuelGone, EnterLoop, LoopBack, Op, Jump, OnTrap, Serviced,
           UserCall, Exit, Write, UserReturns, WriteEnds, WriteChunk, InLoop
  <1>2. stack \in Seq(Frames) /\ Top = stack[Len(stack)] /\ Top \in Frames
    BY <1>1, TopFacts DEF Inv, TypeOK, Top, Last
  <1> HIDE DEF Top
  <1>3. ASSUME NEW f, SetTop(f), f.r = Top.r PROVE CallsKept
    BY <1>2, <1>3 DEF SetTop, CallsKept
  <1>4. ASSUME NEW f \in Frames, NEW inside, Checked(f, inside), f.r = Top.r PROVE CallsKept
    BY <1>3, <1>4 DEF Checked, Frames
  <1>5. ASSUME NEW status, Stops(status) PROVE CallsKept
    BY <1>2, <1>3, <1>5 DEF Stops, Frames
  <1>6. CASE EnterLoop
    BY <1>2, <1>3, <1>6 DEF EnterLoop, Frames
  <1>7. CASE LoopBack
    BY <1>1, <1>2, <1>3, <1>7 DEF LoopBack, Frames
  <1>8. ASSUME NEW c \in Costs, Op(c) PROVE CallsKept
    BY <1>2, <1>3, <1>8 DEF Op, Frames
  <1>9. ASSUME NEW code, Exit(code) PROVE CallsKept
    BY <1>2, <1>3, <1>9 DEF Exit, Frames
  <1>10. ASSUME UserCall \/ \E len \in WriteLens : Write(len) PROVE CallsKept
    BY <1>2, <1>3, <1>10 DEF UserCall, Write, Frames
  <1>11. CASE WriteEnds
    <2> DEFINE f == [Top EXCEPT !.left = 0, !.off = 0, !.sent = <<>>]
    <2>1. f \in Frames /\ f.r = Top.r
      <3>1. <<>> \in Seq(Nat)
        OBVIOUS
      <3> QED BY <1>2, <3>1 DEF Frames
    <2>2. Checked(f, TRUE)
      BY <1>11, Zenon DEF WriteEnds
    <2> HIDE DEF f
    <2> QED BY <1>1, <1>4, <2>1, <2>2
  <1>12. ASSUME NEW wrote, WriteChunk(wrote) PROVE CallsKept
    BY <1>2, <1>3, <1>12 DEF WriteChunk, Frames
  <1>13. CASE Guest
    BY <1>1, <1>2, <1>4, <1>5, <1>8, <1>9, <1>10, <1>13 DEF Guest, Jump, OnTrap, Serviced
  <1>14. CASE Returns
    BY <1>1, <1>2, <1>4, <1>5, <1>11, <1>12, <1>14 DEF Returns, UserReturns
  <1> QED BY <1>1, <1>6, <1>7, <1>13, <1>14 DEF Thread

\* A guest whose purva_run returned with fuel used up, and ran at all, is still
\* inside its code and can be continued.
THEOREM FuelAlwaysResumes == Spec => FuelResumes
  <1>1. Inv /\ [Next]_vars =>
          [\A r \in Inst : OnStack(r) /\ ~OnStack(r)' /\ run[r].live /\ run'[r].status = "FUEL"
             => run'[r].inside \/ Top.total = 0]_vars
    <2> SUFFICES ASSUME Inv, Next, NEW r \in Inst,
                        OnStack(r), ~OnStack(r)', run'[r].status = "FUEL"
                 PROVE  run'[r].inside \/ Top.total = 0
      BY DEF vars
    <2>0. stack \in Seq(Frames) /\ run \in [Inst -> Runs]
      BY DEF Inv, TypeOK
    <2>1. ~CallsKept
      BY DEF CallsKept, OnStack
    <2>2. ~Host
      <3>1. ASSUME NEW q \in Inst, InitRun(q) \/ InitFails(q) \/ FreeRun(q) PROVE CallsKept
        BY <3>1 DEF InitRun, InitFails, FreeRun, CallsKept
      <3>2. ASSUME NEW q \in Inst, NEW fuel \in Fuels, Run(q, fuel) PROVE CallsKept
        BY <2>0, <3>2 DEF Run, CallsKept
      <3> QED BY <2>1, <3>1, <3>2 DEF Host
    <2>3. stack # <<>> /\ (FuelGone \/ (LoopBack /\ stack' = Front(stack)))
      BY <2>1, <2>2, EndsOrStays DEF Next
    <2>4. Top.r = r
      <3>1. stack' = Front(stack)
        BY <2>3 DEF FuelGone
      <3>2. PICK j \in DOMAIN stack : stack[j].r = r
        BY DEF OnStack
      <3>3. j = Len(stack)
        <4>1. stack' = SubSeq(stack, 1, Len(stack) - 1) /\ Len(stack) \in Nat
          BY <2>0, <3>1 DEF Front
        <4>2. j # Len(stack) => j \in DOMAIN stack' /\ stack'[j] = stack[j]
          BY <2>0, <4>1
        <4> QED BY <3>2, <4>2 DEF OnStack
      <3> QED BY <2>3, <3>2, <3>3 DEF Top, Last
    <2>5. CASE FuelGone
      BY <2>3, <2>4, <2>5, TopFacts DEF FuelGone, FrameOK
    <2>6. CASE LoopBack /\ stack' = Front(stack)
      <3>1. ~\E f : SetTop(f)
        <4>1. Len(stack) \in Nat /\ Len(Front(stack)) = Len(stack) - 1
          BY <2>0, <2>3, FrontFacts
        <4>2. ASSUME NEW f, SetTop(f) PROVE Len(stack') = Len(stack)
          BY <2>0, <4>2 DEF SetTop
        <4> QED BY <2>6, <4>1, <4>2
      <3>2. (run' = run /\ run[Top.r].status # "FUEL") \/ run' = [run EXCEPT ![Top.r].status = "TRAP"]
        BY <2>6, <3>1, Zenon DEF LoopBack
      <3>3. run'[r].status # "FUEL"
        BY <2>0, <2>4, <3>2 DEF Runs
      <3> QED BY <3>3
    <2> QED BY <2>3, <2>5, <2>6
  <1> QED BY <1>1, InitInv, StepInv, PTL DEF Spec, FuelResumes
=============================================================================

----------------------------- MODULE PurvProofs ----------------------------
(***************************************************************************)
(* For every image, budget and schedule of calls: the unchecked fetches of *)
(* purv.c stay inside the code window, and its run loop implements the     *)
(* contract of purv.h.                                                     *)
(***************************************************************************)
EXTENDS Purv, TLAPS

(* What the operators of the guest machine return.                          *)

\* A 32-bit sum is a word.
LEMMA AddWord == ASSUME NEW a \in Nat, NEW b \in Nat PROVE Add(a, b) \in Word
  BY AddrModAssumption DEF Add, Word

\* Clearing bit 0 of a word gives a word.
LEMMA JalrWord ==
  ASSUME NEW ins \in Insn, NEW y \in Regs PROVE JalrTarget(ins, y) \in Word
  <1> DEFINE t == Add(y[ins.rs], ins.imm)
  <1>1. y[ins.rs] \in Nat /\ ins.imm \in Nat
    BY DEF Insn, Regs, Word
  <1>2. t \in Word
    BY <1>1, AddWord
  <1>3. t - (t % 2) \in Word
    <2> HIDE DEF t
    <2> QED BY <1>2, AddrModAssumption DEF Word
  <1> QED BY <1>3 DEF JalrTarget

\* Writing a word to any register gives a register file.
LEMMA WrRegs ==
  ASSUME NEW y \in Regs, NEW r \in Reg, NEW v \in Word PROVE Wr(y, r, v) \in Regs
  BY DEF Wr, Regs

\* One instruction takes words to words and registers to registers.
LEMMA StepTypes ==
  ASSUME NEW ins \in Insn, NEW a \in Word, NEW y \in Regs
  PROVE NextPc(ins, a, y) \in Word /\ NextX(ins, a, y) \in Regs
  <1>1. /\ ins.w \in Nat /\ ins.imm \in Word /\ ins.imm \in Nat /\ ins.rd \in Reg
        /\ y[ins.rs] \in Nat /\ a \in Nat
    BY DEF Insn, Regs, Word
  <1>2. Add(a, ins.imm) \in Word /\ Add(a, ins.w) \in Word /\ Add(y[ins.rs], ins.imm) \in Word
    BY <1>1, AddWord
  <1>3. NextPc(ins, a, y) \in Word
    BY <1>2, JalrWord DEF NextPc
  <1>4. NextX(ins, a, y) \in Regs
    BY <1>1, <1>2, WrRegs DEF NextX
  <1> QED BY <1>3, <1>4

\* A sum that does not reach the modulus does not wrap.
LEMMA AddNoWrap ==
  ASSUME NEW a \in Nat, NEW b \in Nat, a + b < AddrMod PROVE Add(a, b) = a + b
  BY AddrModAssumption DEF Add

\* An address up to the end of an image is a word.
LEMMA WordSum ==
  ASSUME NEW im, IsImage(im), NEW a \in Nat, NEW w \in {2, 4}, a + w <= im.len
  PROVE a + w \in Word
  <1>1. im.len \in Nat /\ im.len < AddrMod
    BY AddrModAssumption DEF IsImage, Word
  <1> QED BY <1>1, AddrModAssumption DEF Word

-----------------------------------------------------------------------------
(* The run loop.                                                            *)

\* What a handler leaves in the register file is a register file.
LEMMA HandlerTypes ==
  ASSUME NEW y \in Regs, NEW z \in HandlerRegs(y) PROVE z \in Regs
  <1> DEFINE left(S) == {[r \in Reg |-> IF r \in S THEN f[r] ELSE y[r]] : f \in [S -> HostWords]}
  <1>1. PICK S \in SUBSET HostRegs : z \in left(S)
    <2>1. z \in UNION {left(S) : S \in SUBSET HostRegs}
      BY DEF HandlerRegs, Handled
    <2> HIDE DEF left
    <2> QED BY <2>1
  <1>2. PICK f \in [S -> HostWords] : z = [r \in Reg |-> IF r \in S THEN f[r] ELSE y[r]]
    BY <1>1
  <1>3. \A r \in Reg : (IF r \in S THEN f[r] ELSE y[r]) \in Word
    BY <1>2, HostAssumption DEF Regs
  <1> QED BY <1>2, <1>3 DEF Regs

\* The inductive invariant: pc is typed only because the fetch that produced
\* it was in bounds, so the type and the window argument are proved together.
Inv == TypeOK /\ WindowInv /\ BudgetInv /\ ExitInv

\* The window argument gives the bounds of every fetch.
LEMMA WindowFetch == Inv => FetchInBounds
  <1> SUFFICES ASSUME Inv, phase = "inner", InWindow PROVE Fetchable(img, pc)
    BY DEF FetchInBounds
  <1>1. /\ img.len \in Nat /\ pc \in Nat /\ base \in Nat /\ safe \in Nat /\ i \in Nat
        /\ img.insn \in [0 .. (img.len - 1) -> Insn]
        /\ base <= pc /\ pc <= base + 4 * i /\ i < safe
    BY DEF Inv, TypeOK, IsImage, Word, WindowInv, InWindow
  <1>2. CASE base + 4 * safe <= img.len
    <2>1. pc + 4 <= img.len
      BY <1>1, <1>2
    <2>2. pc \in 0 .. (img.len - 1)
      BY <1>1, <2>1
    <2>3. img.insn[pc].w <= 4 /\ img.insn[pc].w \in Nat
      BY <1>1, <2>2 DEF Insn
    <2> QED BY <1>1, <2>1, <2>2, <2>3 DEF Fetchable
  <1>3. CASE safe = 1 /\ (i = 0 => pc = base /\ Fetchable(img, base))
    BY <1>1, <1>3
  <1> QED BY <1>2, <1>3 DEF Inv, WindowInv

\* What a fetch in the window yields.
LEMMA FetchedInsn ==
  ASSUME Inv, phase = "inner", InWindow
  PROVE /\ img.insn[pc] \in Insn
        /\ pc + img.insn[pc].w <= img.len
        /\ Add(pc, img.insn[pc].w) = pc + img.insn[pc].w
  <1>1. Fetchable(img, pc)
    BY WindowFetch DEF FetchInBounds
  <1>2. pc \in Nat /\ img.len \in Word /\ img.len \in Nat /\ img.insn \in [0 .. (img.len - 1) -> Insn]
    BY DEF Inv, TypeOK, IsImage, Word
  <1>3. pc \in 0 .. (img.len - 1) /\ pc + img.insn[pc].w <= img.len
    BY <1>1, <1>2 DEF Fetchable
  <1>4. img.insn[pc] \in Insn
    BY <1>2, <1>3
  <1>5. img.insn[pc].w \in Nat
    BY <1>4 DEF Insn
  <1>6. pc + img.insn[pc].w < AddrMod
    BY <1>2, <1>3, <1>5, AddrModAssumption DEF Word
  <1> QED BY <1>2, <1>3, <1>4, <1>5, <1>6, AddNoWrap

\* The outer loop only opens a window where an instruction fits.
LEMMA NoWindowMeaning ==
  ASSUME IsImage(img), pc \in Word PROVE NoWindow <=> ~Fetchable(img, pc)
  <1>1. img.len \in Nat /\ pc \in Nat /\ img.insn \in [0 .. (img.len - 1) -> Insn]
    BY DEF IsImage, Word
  <1>2. CASE pc >= img.len
    BY <1>1, <1>2 DEF NoWindow, Fetchable
  <1>3. CASE pc < img.len
    <2> DEFINE m == img.len - pc
               wd == img.insn[pc].w
    <2>1. pc \in 0 .. (img.len - 1)
      BY <1>1, <1>3
    <2>2. wd \in {2, 4}
      BY <1>1, <2>1 DEF Insn
    <2>3. m \in Nat /\ m > 0
      BY <1>1, <1>3
    <2>4. Fetchable(img, pc) <=> wd <= m
      BY <1>1, <1>3, <2>2 DEF Fetchable
    <2>5. NoWindow <=> m < 2 \/ (m \in 2 .. 3 /\ wd = 4)
      BY <1>1, <1>3 DEF NoWindow
    <2> HIDE DEF m, wd
    <2> QED BY ONLY <2>2, <2>3, <2>4, <2>5
  <1> QED BY <1>1, <1>2, <1>3

\* The invariant holds after RiscvEmulatorInit.
LEMMA InitInv == Init => Inv
  <1> SUFFICES ASSUME Init PROVE Inv
    OBVIOUS
  <1>1. IsImage(img)
    BY ImagesAssumption DEF Init
  <1>2. 0 \in Word /\ AddrMod \div 2 \in Word
    BY AddrModAssumption DEF Word
  <1>3. ResetRegs \in Regs
    BY <1>2 DEF ResetRegs, Regs
  <1> QED BY <1>1, <1>2, <1>3 DEF Init, Inv, TypeOK, WindowInv, BudgetInv, ExitInv, NoTrap

\* Every step of the loop and of its host preserves it.
LEMMA StepInv == Inv /\ [Next]_vars => Inv'
  <1> SUFFICES ASSUME Inv, [Next]_vars PROVE Inv'
    OBVIOUS
  <1>0. /\ img.len \in Nat /\ pc \in Nat /\ k \in Nat /\ max \in Nat /\ k <= max
        /\ base \in Nat /\ safe \in Nat /\ i \in Nat
        /\ pc \in Word /\ x \in Regs /\ spc \in Word /\ IsImage(img)
    BY DEF Inv, TypeOK, IsImage, Word, BudgetInv
  <1>1. ASSUME NEW b \in 0 .. MaxBudget, NEW a \in Entries \cup {spc}, Call(b, a)
        PROVE Inv'
    <2>1. a \in Word
      BY <1>0, EntriesAssumption
    <2>2. b \in Nat
      BY MaxBudgetAssumption
    <2>3. TypeOK'
      BY <1>1, <2>1, <2>2 DEF Call, Inv, TypeOK, IsImage
    <2>4. WindowInv' /\ BudgetInv' /\ ExitInv'
      BY <1>1, <2>2 DEF Call, WindowInv, BudgetInv, ExitInv
    <2> QED BY <2>3, <2>4 DEF Inv
  <1>2. CASE OuterExit
    <2>1. TypeOK' /\ WindowInv' /\ BudgetInv'
      BY <1>2 DEF OuterExit, Inv, TypeOK, IsImage, WindowInv, BudgetInv
    <2>2. k = max \/ ~Fetchable(img, pc)
      BY <1>0, <1>2, NoWindowMeaning DEF OuterExit
    <2>3. ExitInv'
      BY <1>2, <2>2 DEF OuterExit, ExitInv, Fetchable
    <2> QED BY <2>1, <2>3 DEF Inv
  <1>3. CASE OuterWindow
    <2>1. Fetchable(img, pc) /\ pc < img.len
      BY <1>0, <1>3, NoWindowMeaning DEF OuterWindow, Fetchable
    <2>2. SafeCount \in Nat
      BY <1>0, <2>1 DEF SafeCount
    <2>3. pc + 4 * SafeCount <= img.len \/ SafeCount = 1
      BY <1>0, <2>1 DEF SafeCount
    <2>4. TypeOK' /\ BudgetInv' /\ ExitInv'
      BY <1>3, <2>2 DEF OuterWindow, Inv, TypeOK, IsImage, BudgetInv, ExitInv
    <2>5. WindowInv'
      BY <1>0, <1>3, <2>1, <2>2, <2>3 DEF OuterWindow, WindowInv, Fetchable
    <2> QED BY <2>4, <2>5 DEF Inv
  <1>4. CASE InnerEnd
    BY <1>4 DEF InnerEnd, Inv, TypeOK, IsImage, WindowInv, BudgetInv, ExitInv
  <1>5. CASE StepSeq
    <2>1. /\ img.insn[pc] \in Insn /\ img.insn[pc].w \in {2, 4}
          /\ pc' = pc + img.insn[pc].w
          /\ pc + img.insn[pc].w <= img.len
      BY <1>5, FetchedInsn DEF StepSeq, Insn
    <2>2. pc' \in Word
      BY <1>0, <2>1, WordSum
    <2>5. x' \in Regs
      BY <1>0, <1>5, <2>1, StepTypes DEF StepSeq
    <2>3. TypeOK' /\ BudgetInv' /\ ExitInv'
      BY <1>0, <1>5, <2>2, <2>5 DEF StepSeq, Inv, TypeOK, IsImage, BudgetInv, InWindow, ExitInv
    <2>4. WindowInv'
      <3>1. /\ base <= pc /\ pc <= base + 4 * i /\ i < safe
            /\ base + 4 * safe <= img.len \/ safe = 1
        BY <1>5 DEF StepSeq, Inv, WindowInv, InWindow
      <3>2. /\ base' = base /\ safe' = safe /\ i' = i + 1 /\ img' = img
            /\ pc <= pc' /\ pc' <= pc + 4
        BY <1>0, <1>5, <2>1 DEF StepSeq
      <3>3. base' <= pc' /\ pc' <= base' + 4 * i' /\ i' <= safe' /\ i' # 0
        BY <1>0, <2>1, <3>1, <3>2
      <3> QED BY <3>1, <3>2, <3>3 DEF WindowInv
    <2> QED BY <2>3, <2>4 DEF Inv
  <1>6. CASE StepJump
    <2>1. img.insn[pc] \in Insn
      BY <1>6, FetchedInsn DEF StepJump
    <2>2. pc' \in Word /\ x' \in Regs
      BY <1>0, <1>6, <2>1, StepTypes DEF StepJump
    <2>3. phase' = "outer" /\ k' = k + 1 /\ k < max
      BY <1>6 DEF StepJump, InWindow
    <2>4. TypeOK'
      BY <1>0, <1>6, <2>2, <2>3 DEF StepJump, Inv, TypeOK, IsImage
    <2>5. BudgetInv'
      BY <1>0, <1>6, <2>3 DEF StepJump, BudgetInv
    <2> QED BY <2>3, <2>4, <2>5 DEF Inv, WindowInv, ExitInv
  <1>7. ASSUME NEW stop \in BOOLEAN, NEW y \in HandlerRegs(x), NEW a \in HandlerPcs, StepTrap(stop, y, a)
        PROVE Inv'
    <2>1. /\ img.insn[pc] \in Insn /\ img.insn[pc].w \in {2, 4}
          /\ Add(pc, img.insn[pc].w) = pc + img.insn[pc].w
          /\ pc + img.insn[pc].w <= img.len
      BY <1>7, FetchedInsn DEF StepTrap, Insn
    <2>2. y \in Regs
      BY <1>0, HandlerTypes
    <2>3. pc' \in Word /\ spc' \in Word
      <3>1. pc + img.insn[pc].w \in Word
        BY <1>0, <2>1, WordSum
      <3> QED BY <1>0, <1>7, <2>1, <3>1, EntriesAssumption DEF StepTrap, HandlerPcs
    <2>4. TypeOK' /\ BudgetInv' /\ ExitInv'
      BY <1>0, <1>7, <2>2, <2>3 DEF StepTrap, Inv, TypeOK, IsImage, BudgetInv, InWindow, ExitInv
    <2>5. WindowInv'
      BY <1>0, <1>7, <2>1 DEF StepTrap, Inv, WindowInv, InWindow
    <2> QED BY <2>4, <2>5 DEF Inv
  <1>8. CASE Out
    BY <1>8 DEF Out, Inv, TypeOK, IsImage, WindowInv, BudgetInv, ExitInv
  <1>9. CASE UNCHANGED vars
    BY <1>9 DEF vars, Inv, TypeOK, IsImage, WindowInv, BudgetInv, ExitInv, Fetchable
  <1> QED BY <1>1, <1>2, <1>3, <1>4, <1>5, <1>6, <1>7, <1>8, <1>9 DEF Next, Loop

\* The state of the run loop is always well typed.
THEOREM TypeCorrect == Spec => []TypeOK
  <1>1. Inv => TypeOK
    BY DEF Inv
  <1> QED BY <1>1, InitInv, StepInv, PTL DEF Spec

\* No fetch of the inner loop, which checks no bounds, leaves the code window.
THEOREM FetchSafety == Spec => []FetchInBounds
  BY InitInv, StepInv, WindowFetch, PTL DEF Spec

\* Inside a window pc has moved at most four bytes per instruction run, and the
\* window was sized for that: why the inner loop of purv.c needs no bounds check.
THEOREM WindowCorrect == Spec => []WindowInv
  <1>1. Inv => WindowInv
    BY DEF Inv
  <1> QED BY <1>1, InitInv, StepInv, PTL DEF Spec

\* The contract's copy of the guest machine is the guest machine.
LEMMA SameMachine ==
  /\ \A im : Contract!IsImage(im) <=> IsImage(im)
  /\ \A im, a : Contract!Fetchable(im, a) <=> Fetchable(im, a)
  /\ \A im, a : Contract!IsTrap(im, a) <=> IsTrap(im, a)
  /\ \A a, b : Contract!Add(a, b) = Add(a, b)
  /\ \A ins, a, y : Contract!NextPc(ins, a, y) = NextPc(ins, a, y)
  /\ \A ins, a, y : Contract!NextX(ins, a, y) = NextX(ins, a, y)
  /\ \A y : Contract!HandlerRegs(y) = HandlerRegs(y)
  /\ Contract!Word = Word /\ Contract!Reg = Reg /\ Contract!ResetRegs = ResetRegs
  <1> USE DEF Contract!Add, Add, Contract!Word, Word, Contract!Reg, Reg, Contract!Wr, Wr
  <1>1. \A im : Contract!IsImage(im) <=> IsImage(im)
    BY DEF Contract!IsImage, IsImage, Contract!Insn, Insn, Contract!InsnKind, InsnKind,
           Contract!TrapKind, TrapKind
  <1>2. \A im, a : Contract!Fetchable(im, a) <=> Fetchable(im, a)
    BY DEF Contract!Fetchable, Fetchable
  <1>3. \A im, a : Contract!IsTrap(im, a) <=> IsTrap(im, a)
    BY DEF Contract!IsTrap, IsTrap, Contract!TrapKind, TrapKind
  <1>4. \A ins, a, y : Contract!NextPc(ins, a, y) = NextPc(ins, a, y)
    BY DEF Contract!NextPc, NextPc, Contract!Taken, Taken, Contract!JalrTarget, JalrTarget
  <1>5. \A ins, a, y : Contract!NextX(ins, a, y) = NextX(ins, a, y)
    BY DEF Contract!NextX, NextX
  <1>6. \A y : Contract!HandlerRegs(y) = HandlerRegs(y)
    BY DEF Contract!HandlerRegs, HandlerRegs, Contract!Handled, Handled
  <1>7. Contract!ResetRegs = ResetRegs
    BY DEF Contract!ResetRegs, ResetRegs
  <1> QED BY <1>1, <1>2, <1>3, <1>4, <1>5, <1>6, <1>7

\* The initial states of purv.c are initial states of the contract.
LEMMA InitContract == Init => Contract!Init
  BY ImagesAssumption, SameMachine DEF Init, Contract!Init, ArchPc, CallState, NoTrap, Contract!NoTrap

\* Every step of purv.c is a step of the contract, or none.
LEMMA StepContract == Inv /\ [Next]_vars => [Contract!Next]_Contract!vars
  <1> SUFFICES ASSUME Inv, [Next]_vars PROVE [Contract!Next]_Contract!vars
    OBVIOUS
  <1> USE DEF ArchPc, CallState
  <1>0. /\ IsImage(img) /\ pc \in Word /\ k \in Nat /\ max \in Nat /\ k <= max /\ spc \in Word
    BY DEF Inv, TypeOK, BudgetInv
  <1>1. ASSUME NEW b \in 0 .. MaxBudget, NEW a \in Entries \cup {spc}, Call(b, a)
        PROVE Contract!Next
    <2>1. a \in Word
      BY <1>0, EntriesAssumption
    <2>2. Contract!Enter(b, a)
      BY <1>1 DEF Call, Contract!Enter
    <2> QED BY <2>1, <2>2, SameMachine DEF Contract!Next
  <1>2. CASE OuterExit
    BY <1>2 DEF OuterExit, Contract!vars
  <1>3. CASE OuterWindow
    BY <1>3 DEF OuterWindow, Contract!vars
  <1>4. CASE InnerEnd
    BY <1>4 DEF InnerEnd, Contract!vars
  <1>5. CASE StepSeq
    <2>1. Fetchable(img, pc)
      BY <1>5, WindowFetch DEF StepSeq, FetchInBounds
    <2>2. NextPc(img.insn[pc], pc, x) = Add(pc, img.insn[pc].w)
      BY <1>5 DEF StepSeq, Leaves, NextPc
    <2>3. Contract!Retire
      BY <1>5, <2>1, <2>2, SameMachine DEF StepSeq, InWindow, Contract!Retire, IsTrap
    <2> QED BY <2>3 DEF Contract!Next
  <1>6. CASE StepJump
    <2>1. Fetchable(img, pc)
      BY <1>6, WindowFetch DEF StepJump, FetchInBounds
    <2>2. Contract!Retire
      BY <1>6, <2>1, SameMachine DEF StepJump, InWindow, Contract!Retire, IsTrap
    <2> QED BY <2>2 DEF Contract!Next
  <1>7. ASSUME NEW stop \in BOOLEAN, NEW y \in HandlerRegs(x), NEW a \in HandlerPcs, StepTrap(stop, y, a)
        PROVE Contract!Next
    <2>1. Fetchable(img, pc)
      BY <1>7, WindowFetch DEF StepTrap, FetchInBounds
    <2>2. Contract!Trap(stop, y)
      BY <1>7, <2>1, SameMachine DEF StepTrap, InWindow, Contract!Trap, IsTrap
    <2> QED BY <2>2, SameMachine DEF Contract!Next
  <1>8. CASE Out
    <2>1. Contract!Return
      BY <1>8, SameMachine DEF Out, Inv, ExitInv, Contract!Return
    <2> QED BY <2>1 DEF Contract!Next
  <1>9. CASE UNCHANGED vars
    BY <1>9 DEF vars, Contract!vars
  <1> QED BY <1>1, <1>2, <1>3, <1>4, <1>5, <1>6, <1>7, <1>8, <1>9 DEF Next, Loop

\* The run loop of purv.c implements the contract of purv.h for every image,
\* every budget and every pattern of calls.
THEOREM ContractRefined == Spec => ImplementsContract
  <1>1. Spec => []Inv
    BY InitInv, StepInv, PTL DEF Spec
  <1> QED BY <1>1, InitContract, StepContract, PTL DEF Spec, ImplementsContract, Contract!Spec
=============================================================================

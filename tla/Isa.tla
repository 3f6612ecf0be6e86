-------------------------------- MODULE Isa --------------------------------
(***************************************************************************)
(* The guest machine every engine of this repository executes, reduced to  *)
(* what the run loops tell apart: how wide an instruction is, where it     *)
(* sends the pc, what it leaves in the register file and whether it calls  *)
(* out to the host.  An image is the decoder's view of the read-only span: *)
(* its length in bytes and, per byte offset, the instruction that a fetch  *)
(* at that offset decodes to.  "alu" stands for every op that writes rd    *)
(* from its operands (the arithmetic itself is left out), "mem" for      *)
(* every op that leaves pc and the registers alone (stores, fences).       *)
(***************************************************************************)
EXTENDS Integers

CONSTANTS
  AddrMod,  \* size of the address space: 2^32 in the code
  LastReg   \* registers are x0 .. x(LastReg): 31 in the code

ASSUME AddrModAssumption == AddrMod \in Nat /\ AddrMod > 1
ASSUME LastRegAssumption == LastReg \in Nat

Word == 0 .. (AddrMod - 1)
Reg  == 0 .. LastReg
Regs == [Reg -> Word]

\* The register file after Init: sp is RISCV_HALF, the middle of the address
\* space, everything else 0.
ResetRegs == [r \in Reg |-> IF r = 2 THEN AddrMod \div 2 ELSE 0]

TrapKind == {"ecall", "ebreak", "illegal"}
InsnKind == {"alu", "mem", "lui", "auipc", "branch", "jal", "jalr"} \cup TrapKind

\* A decoded instruction: byte width, kind, destination, source, immediate.
Insn == [w : {2, 4}, k : InsnKind, rd : Reg, rs : Reg, imm : Word]

\* Mutated form: the sum is kept wider than 32 bits.
AddWide(a, b) == a + b

\* uint32_t addition
Add(a, b) == (a + b) % AddrMod

\* wr(): a write to x0 is dropped.
Wr(x, rd, v) == IF rd = 0 THEN x ELSE [x EXCEPT ![rd] = v]

\* What a host handler may leave of the register file x: any of regs may hold
\* any of vals.
Handled(x, regs, vals) ==
  UNION {{[r \in Reg |-> IF r \in S THEN f[r] ELSE x[r]] : f \in [S -> vals]} : S \in SUBSET regs}

\* An instruction lies wholly inside the code window.
Fetchable(img, a) == a < img.len /\ a + img.insn[a].w <= img.len

IsTrap(img, a) == img.insn[a].k \in TrapKind

\* The branch stands for bnez: it is taken when its source is not zero.
Taken(ins, x) == x[ins.rs] # 0

\* jalr: bit 0 of the target is cleared.
JalrTarget(ins, x) == LET t == Add(x[ins.rs], ins.imm) IN t - (t % 2)

\* The pc after the (non-trapping) instruction ins at a, with registers x.
NextPc(ins, a, x) ==
  CASE ins.k = "branch" /\ Taken(ins, x) -> Add(a, ins.imm)
    [] ins.k = "jal"                     -> Add(a, ins.imm)
    [] ins.k = "jalr"                    -> JalrTarget(ins, x)
    [] OTHER                             -> Add(a, ins.w)

\* The registers after it.  jal and jalr link to the following instruction.
NextX(ins, a, x) ==
  CASE ins.k = "alu"             -> Wr(x, ins.rd, Add(x[ins.rs], ins.imm))
    [] ins.k = "lui"             -> Wr(x, ins.rd, ins.imm)
    [] ins.k = "auipc"           -> Wr(x, ins.rd, Add(a, ins.imm))
    [] ins.k \in {"jal", "jalr"} -> Wr(x, ins.rd, Add(a, ins.w))
    [] OTHER                     -> x

\* Images whose decode view is total: one instruction per byte offset, and a
\* uint32_t length.
IsImage(img) ==
  /\ img.len \in Word
  /\ img.insn \in [0 .. (img.len - 1) -> Insn]
=============================================================================

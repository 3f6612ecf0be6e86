# purv in TLA+

purv is a set of small RV32 emulators in C (`src/emu/`) that a host program
embeds: the guest runs inside one call, `RiscvEmulatorLoop`, the host owns
memory, traps and time. This directory models the engines, the memory they give
the guest, the hosts around them and the ahead-of-time transcoder, checks the
models with TLC and proves some of the results with TLAPS. `PROJECT.json` lists
components, runs, mutants, the source lines behind every definition, hazards,
findings and theorems; this file explains them.

## 1. Inventory

| Component | State | Operations | Talks to |
|---|---|---|---|
| **purv engine** `purv.c` | registers, pc, two memory regions; locals pc, k, window | `RiscvEmulatorInit`, `RiscvEmulatorLoop(max)` | host hooks `ecall`, `ebreak`, `illegal`, memory `callback` |
| **guest memory** `purv.c`, `purvmemop.h` | writable and read-only host buffers | load, store, eight bulk operations | the callback on a miss |
| **purvs engine** `purvs/purvs.c` | as purv, plus a block of decoded records | decode pass, `eval` (replaceable), `fixup_pc` | as purv, plus the evaluator |
| **ELF loader** `purvhost.h` | the host buffers, `data_end` | allocate, check the header, place segments | files; the driver starts from what it leaves |
| **host driver** `main.c` (`purvs/main.c` is the same text) | `g_halt`, `g_exit`, `g_faulted`, tohost word, break | slices, hooks, verdict, signature, invoke | the engine in slices of 2^16 |
| **gdb stub** `gdbstub.c` | breakpoint table, ring of register frames, input bytes | packets with checksum and acknowledgement, run, step, reverse, poll | the engine one step at a time; gdb over a socket |
| **guest heap** `purva/purvarun.h` (and `sqlite/host.c`) | a circular free list inside guest memory | malloc, free, realloc, morecore | hostcalls of the guest |
| **transcoder** `purva/transcode.c` | none (pure) | targets, fusion, map, emit | `tctool.c` supplies indirect targets and patches pointers |
| **transcoding tool** `purva/tctool.c` | none (pure) | collect relocations, transcode, re-encode auipc pairs, patch pointers | the linker's relocations; the transcoder |
| **portable engine** `purg.c` | registers, pc, the trap flag | one instruction per `RiscvEmulatorLoop`, raise, register and pc access | host hooks for memory and traps |
| **purva engine** `purva/purva.c` | op cursor, k, registers, memory; global `g_prog` | one handler per op | hooks as purv |
| **embedding API** `purva/purvarun.h` | `PurvaRun`: status, exit code; global `g_prog` | init, run, free, hostcalls | the purva engine, the heap, host callbacks (which may run other instances) |
| image format, sqlite port, compact host, benchmarks, conformance glue | – | – | see section 8 |

Nothing here is multi-threaded. What makes it hard to test:

* **bounds hoisted out of loops**: purv and purvs fetch without a check inside a
  window computed beforehand, `frame_top` checks one fixed band for any frame,
  bulk operations clip a span once; all arithmetic wraps at 2^32;
* **laziness**: purvs decodes ahead of execution, traces through jumps, and has
  to recover pc when an evaluator gives up; purva fuses instructions, so code
  addresses change and every jump target must keep an op;
* **budgets**: the host slices a guest arbitrarily, and a slice may end before,
  inside or after anything; engines differ in where they look at the budget;
* **re-entrancy and shared state**: handlers change registers while the loop
  holds locals; a hostcall may run another instance through the same global;
* **an asynchronous peer**: gdb's interrupt byte, damaged packets, its hanging up;
* **four decoders of one instruction set**, by hand, with bit-fields, into reused
  records and into packed op words: a difference shows for a few encodings only;
* **verdicts**: several things happen in one slice and the driver must say which
  of them counts.

`PROJECT.json` lists these as hazards, each at its line.

## 2. Modules

| Module | Models | Notes |
|---|---|---|
| `Isa` | the guest machine the interpreters execute: words, registers, images, one instruction per class (alu, load-like, auipc, branch, jal, jalr, ecall, ebreak, illegal), of 2 or 4 bytes | shared by `Purv`, `Purvs`, `Gdbstub` |
| `EngineContract` | abstract: what `purv.h` promises a host – one instruction at a time, at most `max`, stop by trap, pc and count exact | refined by `Purv` |
| `Purv` | `RiscvEmulatorLoop` of `purv.c`: outer loop, window, inner loop, exit; the host calling it again with any budget | |
| `FlatMemory` | abstract: one array of bytes over the whole address space | refined by `GuestMemory` |
| `GuestMemory` | `mem_xlate`, loads, stores, the callback, `purv_memop` | records every host-buffer access in `touch` |
| `EngineRuns` | abstract: as the contract, but a step is one or more whole instructions | refined by `Purvs` |
| `Purvs` | decode loop, traced jumps, evaluation, early stop and `fixup_pc`, trap dispatch | |
| `SmallImages` | every image over given lengths and instruction kinds | used by the MC modules |
| `Encoding` | instruction words as bits; the meaning of an instruction | shared by the decoders |
| `PurvDecode` | the decoder of `purv.c`, all compressed and 32-bit formats | |
| `PurgFields`, `PurgDecode` | the bit-field structs and unions of `purg.c`, and its decode switches | |
| `AluValues` | the results of RV32IM as `purv.c` and as `purg.c` write them | words of `XLen` bits |
| `Purg` | the machine of `purg.c`: fetch, execute, trap flag, hooks that may raise | |
| `PurvsDecode` | `decode_one` into a record that keeps what it does not set; `step_one` | |
| `TranscodeDecode` | `decode` and `emit` of `transcode.c`, and the handlers' unpacking | |
| `Decoders` | runs `Purg` and gives each word it executes to the other three | composes the eight above |
| `Loader` | `purvhost.h`: allocation, header checks, segments, `data_end` | contents are "a byte of the file" or zero |
| `Driver` | loading, then `main.c`: slices, hooks, tohost, brk, verdict, exit status | extends `Loader`; the engine is its contract, the guest chooses each instruction |
| `UndoHistory` | abstract: a bounded undo stack of register files | refined by `Gdbstub` |
| `Gdbstub` | packets, checksums, acknowledgements, no-ack mode; breakpoints, register writes, run, step, reverse, ring, poll, hang-up | a frame is whole or damaged |
| `GuestHeap` | the K&R allocator, words and sizes wrapping | the guest frees what it holds and leaves headers alone |
| `Words`, `RegionMemory` | word arithmetic; `mem_w`, `mem_r`, `ld_le`, `st_le` | |
| `Transcode` | all of `transcode.c` as operators: decode, targets, each fusion, the two passes, displacements | programs are decoded instructions |
| `Tctool` | the relocation half of `tctool.c`: addresses that keep an op, pairing, checks and re-encoding of auipc pairs, data auipcs | refusals (exit 2) leave no program |
| `SourceProgram` | abstract: the RV32IM program itself, code addresses in op space | refined by `Purva` |
| `Purva` | the op loop: every fused op, auipc, frames with fast and slow path, traps, budget; starts from what `Tctool` made of a program, with the pointers in data patched | |
| `PurvaRun` | `purvarun.h`: instances, the shared program pointer, nested calls, hostcalls, fuel | the engine is what `purva_run` sees of it |
| `MC*` | the instances TLC checks | |
| `PurvProofs`, `PurvsProofs`, `PurvaProofs`, `GuestMemoryProofs`, `PurvaRunProofs`, `GdbstubProofs`, `DriverProofs`, `GuestHeapProofs` | the theorems about each module | section 5 |

How state and actions correspond: a variable carries the C name where there is
one (`spc` is `s->pc`, `x` is `s->x`; `pc`, `k`, `max`, `safe`, `i`, `p`, `w` are
the locals), `phase` says where in the function the thread is, and an action is
the code between two such places. Where a handler, an evaluator or a callback is
the host's, the model lets it do anything its interface allows; the trap handlers
of `Purv` and `Purvs` write any of `HostRegs` and `s->pc`, and leave the code and the
regions as they are. Those of `Gdbstub` and `Purva` write one register, a0.

Definitions called *mutated form* are not part of any specification: each
is a plausible bug in the definition below it, used to see that the
property named in `PROJECT.json` would notice.

### Abstractions

* In the engine loops (`Isa`, `Transcode`) one ALU operation stands for its
  class. Which operation it is, and what it computes, is the subject of
  `Decoders` and `AluValues`.
* `AluValues` has words of `XLen` bits (4 in the run: all pairs of operands that
  differ in sign, zero and the most negative value occur), immediates wrapped to
  the word. `Purg` keeps two registers; addresses there do not wrap.
* `Decoders` compares engines on the encodings the manual defines. On the
  reserved ones (`Reserved`) they do differ, see section 7.
* `Loader` and `Driver`: symbol lookup is a choice of its outcome; `--ram` is a
  whole number of pages and the heap ends within the address space
  (`RamAssumption`), `filesz` is at most `memsz` (`ImageAssumption`).
* `Gdbstub`: bytes sent arrive, in order; a frame may be damaged in either
  direction, `MaxFaults` times in an exchange. A byte gdb sends while it waits
  arrives at once. Memory packets and qXfer are queries that are answered.
* `Tctool`: the linker relaxed every `R_RISCV_CALL` pair to a jal (the tool reads
  only `PCREL_HI20`, `PCREL_LO12` and `R_RISCV_32` relocations). A pair is not
  completed by an instruction that writes x0 (section 7).
* Words are scaled: `AddrMod` values instead of 2^32; in the memory models a
  word is four bytes of `ByteMod` values, so that carries, wrap-around and
  sign-extension still happen.
* `Purva` stops at a word that is no op (past the last one, or the second word
  of a load-and-branch). The code would read an uninitialised word of the op
  array there; compiled programs do not get there, the transcoder does not rule
  it out.
* A hostcall is assumed not to be the last op of a program (the same case).

## 3. Runs

Each run is `tlc -config X.cfg M`. Times are for two workers.

| Run | Module | Shows |
|---|---|---|
| `MCPurv` | `MCPurv` | over all images of 1, 2, 3, 6 and 8 bytes: `TypeOK`; `FetchInBounds`; `WindowInv` (window, budget and position agree); `ImplementsContract`; `CallReturns` (80 s) |
| `MCGuestMemory` | `MCGuestMemory` | `HostSafe`: no access leaves its buffer or writes the read-only one; `ImplementsFlatMemory` (90 s) |
| `MCPurvs` | `MCPurvs` | `TypeOK` (the record buffer is never overrun), `FetchInBounds`, `ImplementsRuns`, `CallReturns`, with evaluators that stop after one or two records (60 s) |
| `MCDecoders` | `MCDecoders` | `PurgAgrees`, `PurvsAgrees`, `TranscodeAgrees`: the other three decoders mean what `purv.c` means; `ValuesAgree`: same results; `IllegalOnce`: a raise traps once (30 s) |
| `MCDriver` | `MCDriver` | `PassMeansPass`, `TohostVerdict`, `BreakClear` (memory from brk is zero, inside the heap and clear of every segment), `Terminates`, in all five modes (15 s) |
| `MCGdbstub` | `MCGdbstub` | `BreakpointStops`, `NobodyStuck` (the two ends never both wait), `ImplementsUndo`, `InterruptStops`, `ReverseEnds` (110 s) |
| `MCGuestHeap` | `GuestHeap` | `Partition` (free and live blocks tile the arena), `Coalesced`, `BigEnough`, `CallsReturn` |
| `MCPurva` | `MCPurva` | `TargetsKept`, `FrameInBuffer`, `ImplementsSource`, `CallReturns` over three families of four-instruction programs (80 s) |
| `MCPurvaRun` | `PurvaRun` | `OvershootBounded` (a call exceeds its fuel by one straight run at most), `OwnProgram`, `DoneIsExit`, `WrittenInOrder`, `FuelResumes`, `EndedStays`, `RunReturns` |
| `MCMemopZeroRd` | `MCGuestMemory` | violation: a bulk operation with rd = x0 makes x0 nonzero |
| `MCPurvsTrapPc` | `MCPurvs` | violation: a trap handler sees the pc of its run's first instruction |
| `MCDriverFault` | `MCDriver` | violation: fault, then `exit(0)` in the same slice, is reported as success |

Bounds and why they are enough:

* `MCPurv`: a window never exceeds `len/2` instructions, and an image of 8 bytes
  holds windows of one and two instructions, the checked tail, a 32-bit
  instruction that straddles the end; budgets 0 to 3 end before, inside and
  after a window; entries include 0 and wherever jalr leads. A handler writes the
  one register besides x0, or not, and leaves `s->pc` at the trap or at 0; the loop
  goes on from its own pc all the same.
* `MCGuestMemory`: buffers of 4 and 1 bytes at the two anchors, addresses on
  both sides of each end, the seam between the top of the address space and 0,
  counts that fit, that are clipped and that overlap.
* `MCPurvs`: runs of four instructions against a buffer of three records, so
  either limit may come first; jumps are traced forwards, backwards and onto
  themselves. Images have at least four bytes: see section 7.
* `MCDecoders`: all 49,152 compressed halfwords; 32-bit words with every opcode
  the engines know and one they do not, every funct3, x0 and two other
  destinations, against second halves that set or clear each bit alone, which
  moves each bit of each immediate. `MaxLoops` is 2: a raise in one Loop meets the
  next one, and a record of purvs is reused. Values: every arithmetic and branch
  operation on x1 and x2 with `XLen` = 4.
* `MCDriver`: slices of 3 and a cap of 7 put the cap inside a slice and at its
  end. Images list data before or after bss, overflow a buffer, or reach the end
  of a heap that ends with the address space; breaks lie below, at and above
  each of them.
* `MCGdbstub`: a ring of two frames wraps at the third step; two breakpoints
  fill the table; polls every second step; up to two raw bytes of gdb on their
  way and one damaged frame per exchange. One program loops over a system call,
  the other may fault, stops at an ebreak and runs out of its code.
* `MCGuestHeap`: eleven units grown three or five at a time give splits, exact
  fits, joins on either and on both sides, moves and failure. Sizes stay clear
  of 2^32: see section 7.
* `MCPurva`: four instructions are what the longest fusions here take (a frame
  of two registers; the vtable call and a jump); the save band is two registers
  of 13 and the stack 8 bytes, so the first frame takes the fast path and the
  next the slow one; offsets lie inside and outside every field; one
  instruction is also reached through a pointer in memory. The third family has
  an auipc of a code address (of itself, before, behind; with an addend of 0 and
  -1; section 7, `tctool.c:297`, says why no larger ones) or of a data address, in first or second place, one or two instructions
  that complete it, and a neighbour that vanishes or fuses, so that distances
  change. `WLen` is at least
  the save band (the hosts allocate far more).
* `MCPurvaRun`: two instances nested once; a third would be one more of the
  outer or of the inner kind. Fuel 0, 2 and 3 against ops of 1 and 3.

Deadlock checking is off where the system may stop: an ended process
(`Driver`), a closed connection (`Gdbstub`), and `Purva` at a word that is no op.

## 4. Fairness

* Engines (`Purv`, `Purvs`, `Purva`): weak fairness of the loop's own steps:
  sequential code runs on, and a handler that is called returns. None for the
  host: it need not call again.
* `Driver`: weak fairness of the process; the guest chooses what it executes and
  may loop for ever. `Terminates` rests on the instruction cap alone.
* `Gdbstub`: weak fairness of the stub while it runs, reverses or reads what has
  arrived; gdb owes it nothing. `InterruptStops` needs only that the byte has
  been sent. That neither end waits for the other is an invariant
  (`NobodyStuck`) and needs no fairness.
* `GuestHeap`: weak fairness of a call in progress.
* `PurvaRun`: weak fairness of the thread inside `purva_run`; strong fairness,
  per depth of nesting, of the return of a host callback: the callback may run
  instances, each of which makes its return impossible for a while, as often as
  it likes, but it does return.

## 5. Proofs

Every theorem holds for all values of its module's constants that satisfy the
module's assumptions (`AddrModAssumption`, `RegionAssumption`, `HeapAssumption`,
...; TLC evaluates them in every run). Where it needs more, the hypothesis is
named below. `tlapm M.tla` checks a module.

**`PurvProofs`**: `TypeCorrect`, `FetchSafety`, `WindowCorrect` (`[]TypeOK`,
`[]FetchInBounds`, `[]WindowInv`) and `ContractRefined`
(`Spec => ImplementsContract`).
The inductive invariant is
`Inv == TypeOK /\ WindowInv /\ BudgetInv /\ ExitInv`. `FetchInBounds` is not
inductive: it is about the instruction at pc, and the next one is only known to
be inside because the window was sized in worst-case four-byte instructions from
`base`. `WindowInv` says so: after `i` of `safe` instructions pc has advanced at
most `4i` bytes from `base`, and `4 * safe` bytes from `base` on are inside the
code, or the window is the one instruction of the tail, found fetchable when the
window was opened. `BudgetInv` (the count never exceeds `max`) and `ExitInv` (the
loop leaves without a trap only when the budget is spent or pc cannot be
fetched) are what the contract's return needs. For the refinement,
`NoWindowMeaning` shows that the outer loop's exit test is exactly "not
fetchable", `FetchedInsn` that pc + width does not wrap, and `SameMachine`
identifies the contract's instance of the guest machine with `Purv`'s.

**`PurvsProofs`**: `RunFitsBuffer` (`[]TypeOK`: a run never exceeds the record
buffer, its cap or the budget), `FetchStaysInside` (`[]FetchInBounds`) and
`PurvsContractRefined` (`Spec => ImplementsRuns`).
The code keeps no record of which instruction a record came from; after an early
stop it walks the run again and counts. `PathInv` says the walk is right: for
every `c` below the number of instructions decoded, the `c`-th place of the walk
is fetchable, has produced the records counted there, and is an ordinary
instruction unless it is the last. From it, `RecordEffect` (evaluating a baked
record does what the instruction does) and `RunExecuted` (an induction along the
walk) give that evaluating any prefix of the buffer is that many architectural
steps, and `FixupFacts` that the second walk finds the place where the evaluator
stopped. Hypotheses: `FullWindows` (images of at least four bytes; section 7
says what happens below), and for the refinement that no handler stops the call,
because such a handler sees the pc of finding 2 and may leave another (section 7,
`purvs.c:621`). Both hold of `MCPurvs.cfg`.

**`PurvaProofs`**: `TargetsAreKept` (`[]TargetsKept`), `FramesStayInside`
(`[]FrameInBuffer`) and `OpsImplementSource` (`Spec /\ []EvenCalls =>
ImplementsSource`), for every program, relocation, word size and budget.
`StepFits` goes through the fusions one by one: what each emits is an op, the
instructions it takes lie inside the program, and none of them after the first is
a target. The transcoder's scan is therefore a walk over the program (`Walks`) whose
places include every target, the map gives each place the number of its op
(`MapFacts`, `TranscodeFacts`), and what patches an op afterwards, the second pass
and the tool's re-encoding, leaves an op (`ResolveFacts`, `FixupsFacts`,
`ToolFacts`). For the frames, `DataInv` and `OpsInv` say that registers, memory and
the op array keep their types under every handler, so that `BandInside` can be
applied to whatever sp the guest has made: the compare in `frame_top` is the
52-byte band test. Hypotheses: `ProgramAssumption` (branches, jumps and relocations
name instructions of the program, as a linker makes them), and for the frames
`BandFits`: the writable region is no shorter than the band. `purva/main.c:221` gives
the stack at least 16 MiB, and `purvarun.h:215` defaults to 16 MiB and 1 MiB but
checks no minimum, so there it is the embedder's obligation. `MCPurva` has TLC
evaluate it (`HostStack`). Section 7 says what happens without it (`purva.c:79`).

`OpsImplementSource` says that a step of the op loop is a whole number of steps of
the source program, with the same registers, memory, pc and count. Its argument:

1. *Where the ops are.* `Layout` keeps, while the ops run, what the transcoder and
   the tool made: the op at the place the map gives a unit is the one the fusion
   emitted, patched by the second pass and by the relocations of the pair
   (`ToolLinked`, `Final`, `HereIs`). A relocated code pointer is then the address
   of the op its instruction went to, and the source machine, which holds the same
   pointer, comes back to that instruction through the map.
2. *What an op stands for.* `Made`, proved fusion by fusion (`StepMade`), lists
   the instructions an op replaces, their registers and offsets, and which of them
   had to coincide for the fusion to be allowed.
3. *What these do.* `EffectIs` and the `Runs…` lemmas run the source machine over
   them, one instruction after another.
4. *That the handler does the same*: one `…Refines` lemma per handler, `LoadRefines`
   to `VcallRefines`. The frame ops are inductions over the saves and restores
   (`PrologueRefines`, `EpilogueRefines`): the slot of the j-th register of the mask
   is where the j-th store wrote (`CanonicalDepth`, `FramedSlots`), and the slots
   do not overlap (`FramedApart`), so the handler's order does not matter.
5. *The step.* `GoOnAdvances`, `RelocAdvances` and `IndirectAdvances` make a step of
   the source machine of each. `Same` is the invariant: `Inv` of the frames,
   `Layout`, words in registers and memory, and every op at an address of its own.

It assumes what the toolchain and the host give: `LinkedPrograms` (an `auipc` is
the first half of a relocated pair, less than an instruction off its code symbol,
the second half has an offset field, a shift is less than the word), `RegistersFit` (x0 is zero, frames save neither x0 nor sp),
`BandFits`, `CodeFits` (4 times the instructions is below the address space), and
`StepsFit` (the model's bound on the length of a source step has room for the
longest fusion). `MCPurva` has TLC evaluate them all (`Hypotheses`, `HostStack`).
`[]EvenCalls` is about data: no fused vtable call loads an odd code pointer. Without it the
theorem is false (`purva.c:288`, section 7). In `MCPurva` every pointer a program
can load is even; adding `INVARIANT EvenCalls` to `MCPurva.cfg` shows it.

**`GuestMemoryProofs`**: `HostSafety` (`[]HostSafe`), for all region bases and
lengths (overlapping or not), all addresses, counts and values: no load, store
or bulk operation touches a byte outside the two buffers or writes the read-only
one. Each access goes through `mem_xlate` or a span (`XlateSafe`, `WSpanSafe`,
`SpanSafe`), and clipping gives a length the span allows.
`FlatMemoryRefined` (`Spec => ImplementsFlatMemory`) is one lemma per operation
(`LoadRefines`, `StoreRefines`, `MemcpyRefines`, ...) over what they share:
the byte a host pointer sees j bytes on is the flat byte at a + j
(`WindowBytes`), a write through a pointer changes exactly that window
(`RangeWrite`), a word is the sum of its bytes (`Digits`). The fallback copy
reads memory it has already written; `CopyLoopIs` carries along its iterations
that what is still to be read is intact. Hypotheses, which TLC evaluates for the
run's constants (`HostAndGuest`): the regions do not overlap (`RegionsApart`),
and no copy's ranges meet in writable memory after one of them has wrapped past
the end of the address space (`UnwrappedCopies`; section 7, `purvmemop.h:79`).

**`PurvaRunProofs`**: `OwnProgramAlways`, `DoneIsExitAlways`,
`WrittenInOrderAlways`, `OvershootAlwaysBounded` (invariants),
`EndedStaysAlways`, `FuelAlwaysResumes` (action properties), for every number of
instances, depth of nesting and cost. The global `g_prog` is set before the
engine loop and not again after a callback. `OwnProgram` survives because a
call that comes back to `purva_run` with its guest alive has used up its fuel,
so it does not enter the loop a second time: that is `Armed`, together with
`FrameOK` (what each frame of the call stack knows at its program point),
`OneCallEach` and `Suspended` (only the innermost call moves). `FrameOK` also
carries the byte count of a write in progress and the fuel already charged.

**`GdbstubProofs`**: three independent invariants over three groups of
variables. `LinkInv` (at most one acknowledgement is under way, none while the
guest runs, and what it says is whether gdb still waits) gives `NobodyIsStuck`.
`BreakInv` gives `TableStops`: a run never passes an address that is in the
table; `TableInv` (the table holds exactly what gdb inserted) makes this
`BreakpointAlwaysStops`, if gdb has no more than `MaxBp` addresses to choose
from, as a full table drops a breakpoint and answers OK (section 7). `RingInv`
gives `UndoRefined` (`Spec => ImplementsUndo`): the slots `head - count` to
`head - 1`, modulo the length, are the undo stack, also once a push overwrites
the oldest (`NextSlots`, `FullSlots`, `PushHistory`).

**`DriverProofs`**: `BreakIsClear`, `PassIsPass`, `StoreGetsVerdict`. `LoadInv`
bounds each placed segment by `data_end` before rounding, for all images;
`BreakInv` says the break only moves between the rounded `data_end` and the end of
the heap. With a heap that ends with the address space that end is 0, and the
proof needs that brk then grants nothing. `VerdictInv` ties `g_halt`, `g_exit`
and `g_faulted` to tohost at each phase of a slice: `PassMeansPass` speaks of the
exit status alone.

**`GuestHeapProofs`**: `HeapPartition`, `HeapCoalesced`, `HeapBigEnough`, for
every arena, unit, request and order of calls. The list is threaded through the
memory it describes, so no property of it is inductive by itself. `Sound` is:
there is a set F of headers such that the list is F in ascending order and
circular (`List`), the blocks of F and those the guest holds tile the arena from
base to break (`Tiles`), no two blocks of F touch (`Apart`), and `freep` is in F.
`Held` and `Request` add the sizes promised to the guest. `heap_free` is split as
the code is: the search (`SearchEnds`: it stops at the one neighbour in address
order, from any starting point of the circle), linking (`LinkHeap`), the join
upwards (`UpperJoined`) and downwards (`LowerJoined`); malloc's split, exact fit
and growth are `TakeTail`, `TakeWhole` and `GrownHeap`. Hypothesis `RoomyWords`:
a request rounded up to units, and the least growth, stay below 2^32; without it
`BigEnough` is false (section 7, `purvarun.h:122`).

Induction is by `SetInduction` (a set that contains 0 and successors contains
every natural), proved from well-foundedness; `RecursionExists` and `RecursionTo`
give the values of a recursive function. So the walks of `Purvs` and `Purva` are
reasoned about for every length. The few facts about adding words of `Isa` are
lemmas of each module that needs them.

Only model-checked:

* all liveness (`CallReturns`, `Terminates`, `InterruptStops`, `ReverseEnds`,
  `CallsReturn`, `RunReturns`): fairness is out of the prover's reach;
* `Decoders`: they are functions of one word, TLC's run is exhaustive for
  compressed instructions, and `Bitwise` cannot be used from a proof.

## 6. Findings

The three violation runs, each against a line of the repository:

1. `MCMemopZeroRd`. `purv.h:66` says the engine never writes x0; the scans and
   compares of `purvmemop.h` assign `s->x[rd]` whatever rd is.
2. `MCPurvsTrapPc`. `purvs.c:613` says "set the faulting pc"; `last_pc` is
   assigned where the run starts and not again, so a trap that is not the first
   instruction of its run shows the handler the wrong pc.
3. `MCDriverFault`. `main.c:83` says a bad access is reported and halts the run;
   the slice runs on and a later `exit(0)` overwrites the status.

## 7. Observed deviations that are not runs

Seen while modelling; the models follow the code.

* `purvs.c:545`: with fewer than four bytes of code `win` is 0, so a 32-bit
  instruction at 0 is read past the end (the comment at 541 says otherwise).
  `MCPurvs` therefore uses images of four bytes and more.
* `purvs.c:605`: when `eval` stops early the loop goes on with the rest;
  `purvs.h:234` says that Loop stops then. `ImplementsRuns` shows that nothing is
  lost or repeated. An evaluator that executed no record at all would be called
  again for ever.
* `purvmemop.h:122`: `strcmp` and `strncmp` of a pointer that misses every
  region answer "equal"; line 31 promises a mismatch.
* `purvs.c:621`: a handler that stops the call decides `s->pc`, which purvs leaves as
  the handler wrote it; `purv.c:318` overwrites it with the loop's own. `MCPurvs` has no
  such handler.
* `main.c:133`: `on_ebreak` sets neither `g_halt` nor `g_exit`, so an ebreak is
  reported as a fetch outside the code, which the comment at 285 excludes; 314:
  `--invoke` prints a value and exits 0 after a fault, an ebreak or a runaway.
* `gdbstub.c:188`: a breakpoint beyond the table is dropped and answered OK
  (491). A `continue` over an ebreak or outside the code spins until Ctrl-C. The
  poll discards bytes other than 0x03.
* `gdbstub.c:108`: `gdb_send` takes any one byte for the acknowledgement. An
  interrupt byte that gdb sent just before the reply reached it is such a byte;
  if the reply was damaged too, gdb's request to resend is lost and both ends
  wait. `NobodyStuck` excepts exactly this case (`stray`).
* `gdbstub.c:310`: a connection closed during a run is polled, reads as end of
  file, and the run goes on; `gdbstub.h:16` says the stub serves until gdb
  detaches or kills or the program ends, and does not speak of this.
* `purg.c` and the others differ on reserved encodings: C.LUI and C.ADDI16SP with
  immediate 0, bit 5 of a compressed shift amount, a funct7 or (JALR) funct3 no
  instruction has. With funct7 32 `purvs.c` and `transcode.c` read SRA for every
  funct3 but 0 and 5.
* `main.c:123`: with a heap that ends at 2^32 the end is 0 in 32 bits, so brk
  never grows. `BreakClear` holds; the guest just gets no memory.
* `tctool.c:297` adds the addend of a code address to its symbol's op address;
  `tctool.c:201` says a byte offset means the same before and after transcoding. With an
  addend of whole instructions, `sym+8` say, it does not once an instruction on the
  way was dropped or fused: with a nop at `sym` the op address is one op beyond the
  instruction meant, although `ExtAddrs` keeps an op for that one.
  `SourceProgram!AddressAt` says which instruction is meant; with addends of 4 and
  8 in `MCPurva`, TLC finds `ImplementsSource` violated and `TargetsKept` not.
  `IsLinked` asks for addends of -3 to 3, and the programs of `MCPurva` have 0 and -1. A
  data symbol whose sum falls into the code is not modelled.
* `tctool.c:266`: an instruction that completes an auipc pair but writes x0 is
  dropped as a nop, and its map entry is the next op, which is then patched if
  its immediate has the right place. Compilers do not emit such a pair.
* `purvarun.h:122`: rounding a request close to 2^32 wraps, and malloc answers
  with a block of a header only. `MCGuestHeap` uses sizes that do not wrap.
* `purvarun.h:207`: after a failed `purva_run_init` the cleared status reads
  `PURVA_RUN_DONE` (it is 0), so a host that ignores the error is told that
  the guest exited. `PurvaRun!InitFails` keeps this.
* `purvarun.h:28` says fused ops charge what they replaced; a fused `la` counts
  once. `SourceProgram!Charge` has the exception.
* `purvmemop.h:79`: the fallback copy chooses its direction by comparing the two
  addresses, so a copy that is clipped by its region and meets itself across the
  end of the address space overwrites source bytes before it reads them, where
  `purvmemop.h:10` says overlap-safe. It takes a range that runs from the last
  address on to 0; `UnwrappedCopies` excludes exactly this.
* `purva.c:79`: with a writable region shorter than 52 bytes the limit
  `len - FRAME_SAVE_SPAN` wraps and the compare lets sp through that are far
  outside. `purva/main.c:221` never makes such a region; `purvarun.h:215` would, for
  an embedder that asks for a few bytes of stack and of ram. `BandFits` is the
  hypothesis.
* `purva.c:288`: the vtable call leaves the called address with bit 0 cleared in
  its register, where the loads it replaces leave it as loaded. It differs only
  for odd code pointers; the models hold even ones, and `EvenCalls` is the
  hypothesis of `OpsImplementSource`.
* `transcode.h:54` says a bare `transcode()` fuses nothing across an unknown
  external target; with no external targets given it fuses everything that is
  not a direct one.
* A budget of 0 still runs purva to the first jump.

## 8. Not modelled

* Of `tctool.c` the merging of ELF sections into code, rodata and rwdata, and
  `image.h`, the file format: layout and I/O.
* MEMOP inside purva's op loop (its effect is in `GuestMemory`) and loads from
  rodata in `RegionMemory`.
* The command line and the bytes of the user stack in `main.c`; the flat loader,
  one copy.
* What memory packets and qXfer carry.
* `sqlite/`: libc glue and I/O around an allocator and a driver that are
  modelled; `compact/`, `examples/`, `bench/`: guest programs and harnesses.
* The conformance glue: test plumbing.

## 9. Plan

Order so far: the engine and its contract, memory, the second engine, the
driver, the debugger, the heap, transcoder, purva and its embedding; then the
four decoders with purg, the loader, the framing of the debugger's packets, and
the tool's relocations.

Next, modelling: MEMOP in the op loop and rodata loads, then the sqlite host's
driver loop (`host.c`), a second client of the slices.

Next, proofs: every refinement and every safety invariant the runs check is a
theorem, except those of `Decoders` (section 5). As the op loop grows by MEMOP and
rodata loads, each new handler needs a line in `Made` and a `…Refines` lemma, and
`OpsImplementSource` covers it.

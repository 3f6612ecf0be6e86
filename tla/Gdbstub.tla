------------------------------ MODULE Gdbstub ------------------------------
(***************************************************************************)
(* emu/gdbstub.c: the GDB server's packet framing, run control, breakpoint *)
(* table and reverse-execution ring.  The engine is stepped one            *)
(* instruction at a time.  gdb sends a command, waits for its reply and    *)
(* acknowledges it; while it waits it may send raw bytes (0x03 interrupts  *)
(* the guest), and it may hang up at any time.  A frame may be damaged on  *)
(* the way, in either direction; its checksum shows it.  Guest memory is   *)
(* left out: the ring holds registers only, because no code calls          *)
(* RiscvEmulatorGdbRecordStore.                                            *)
(***************************************************************************)
EXTENDS Isa, Sequences

CONSTANTS
  Images,     \* the guest programs
  HistFrames, \* HIST_FRAMES: 2^16 in the code
  MaxBp,      \* GDB_MAX_BP: 64 in the code
  PollEvery,  \* steps between polls of the fd: 1024 in the code
  BpAddrs,    \* addresses gdb sets breakpoints at
  PokeWords,  \* values gdb writes to registers and pc
  MaxIn,      \* raw bytes of gdb on their way
  MaxFaults,  \* frames damaged on the way in one exchange
  HostReg, HostWords, \* a0, and what a continuing ecall leaves there
  ExitCodes   \* the codes a guest passes to exit

ASSUME GdbAssumption ==
  /\ \A im \in Images : IsImage(im)
  /\ HistFrames \in Nat \ {0} /\ MaxBp \in Nat /\ PollEvery \in Nat \ {0}
  /\ BpAddrs \subseteq Word /\ PokeWords \subseteq Word
  /\ HostReg \in Reg /\ HostWords \subseteq Word
  /\ MaxIn \in Nat /\ MaxFaults \in Nat

VARIABLES
  img, pc, x,      \* the engine's state
  halted, g_exit,  \* the host's *halted and *exitcode
  exited,          \* the exit has been reported to gdb
  g_bp,            \* the breakpoint table
  inserted,        \* addresses whose insertion was answered with OK
  g_hist, g_head, g_count, \* the ring; g_hist = <<>> when malloc failed
  mode,            \* recv, run, rev, send (awaiting the acknowledgement), closed
  cont,            \* continue rather than step
  tick,            \* 0 before the first step of a run, then 1 .. PollEvery
  inq, eof,        \* bytes gdb sent outside packets; gdb hung up
  g_noack,         \* acknowledgements are off; "soon" until the OK is out
  waiting,         \* gdb has sent a command and has no good reply yet
  faults,          \* frames damaged in this exchange
  stray            \* in it, a byte that is no acknowledgement was taken for one

vars == <<img, pc, x, halted, g_exit, exited, g_bp, inserted, g_hist, g_head,
          g_count, mode, cont, tick, inq, eof, g_noack, waiting, faults, stray>>
guest == <<img, pc, x, halted, g_exit>>
ring == <<g_hist, g_head, g_count>>
bps == <<g_bp, inserted>>
link == <<g_noack, waiting, faults, stray>>

Frame == [x |-> x, pc |-> pc]
Table == {g_bp[i] : i \in 1 .. Len(g_bp)}

\* RiscvEmulatorGdbServe up to its loop; the ring's malloc may fail.
Init ==
  /\ img \in Images
  /\ pc = 0 /\ x = ResetRegs
  /\ halted = FALSE /\ g_exit = 1 /\ exited = FALSE
  /\ g_bp = <<>> /\ inserted = {}
  /\ g_hist \in {<<>>, [s \in 0 .. (HistFrames - 1) |-> Frame]}
  /\ g_head = 0 /\ g_count = 0
  /\ mode = "recv" /\ cont = FALSE /\ tick = 0 /\ inq = <<>> /\ eof = FALSE
  /\ g_noack = "no" /\ waiting = FALSE /\ faults = 0 /\ stray = FALSE

-----------------------------------------------------------------------------
(* gdb_recv and gdb_send.                                                   *)

\* A frame is written.  It reaches gdb intact, which acknowledges it and no longer
\* waits, or damaged, which gdb asks for again; the answer queues behind q.
Deliver(q) ==
  \E ok \in BOOLEAN :
    /\ ~ok => g_noack # "yes" /\ faults < MaxFaults
    /\ faults' = IF ok THEN 0 ELSE faults + 1
    /\ waiting' = ~ok
    /\ inq' = IF g_noack = "yes" \/ eof THEN q ELSE Append(q, IF ok THEN "+" ELSE "-")

\* gdb_send up to the read of the acknowledgement; without acknowledgements the
\* stub goes straight back to gdb_recv.
Send(q) ==
  /\ Deliver(q)
  /\ mode' = IF g_noack = "yes" THEN "recv" ELSE "send"
  /\ cont' = FALSE /\ tick' = 0

\* Mutated form: a request to resend ends the wait like an acknowledgement.
AckOnce ==
  /\ mode = "send"
  /\ inq # <<>> \/ eof
  /\ inq' = IF inq = <<>> THEN inq ELSE Tail(inq)
  /\ mode' = "recv"
  /\ g_noack' = IF g_noack = "soon" THEN "yes" ELSE g_noack
  /\ stray' = (inq # <<>> /\ inq[1] \notin {"+", "-"})
  /\ UNCHANGED <<guest, exited, bps, ring, cont, tick, eof, waiting, faults>>

\* The read of one byte: '-' sends the frame again, any other byte and end of
\* file end the wait.  QStartNoAckMode takes effect after its own reply.
Ack ==
  /\ mode = "send"
  /\ inq # <<>> \/ eof
  /\ IF inq # <<>> /\ inq[1] = "-"
       THEN Deliver(Tail(inq)) /\ UNCHANGED <<mode, g_noack, stray>>
       ELSE /\ mode' = "recv"
            /\ inq' = IF inq = <<>> THEN inq ELSE Tail(inq)
            /\ g_noack' = IF g_noack = "soon" THEN "yes" ELSE g_noack
            /\ stray' = (inq # <<>> /\ inq[1] # "+")
            /\ UNCHANGED <<waiting, faults>>
  /\ UNCHANGED <<guest, exited, bps, ring, cont, tick, eof>>

\* gdb_recv skips the bytes outside a packet.
Skip ==
  /\ mode = "recv" /\ inq # <<>>
  /\ inq' = Tail(inq)
  /\ UNCHANGED <<guest, exited, bps, ring, mode, cont, tick, eof, link>>

\* A packet whose checksum is wrong: gdb_recv answers '-' and gdb sends it again.
BadPacket ==
  /\ mode = "recv" /\ ~eof /\ inq = <<>> /\ ~waiting
  /\ g_noack = "no" /\ faults < MaxFaults
  /\ faults' = faults + 1
  /\ UNCHANGED <<guest, exited, bps, ring, mode, cont, tick, inq, eof, g_noack, waiting, stray>>

\* A good packet, acknowledged with '+': the part common to all commands.
Packet ==
  /\ mode = "recv" /\ ~eof /\ inq = <<>> /\ ~waiting
  /\ stray' = FALSE
  /\ UNCHANGED <<img, halted, g_exit, eof>>

\* A command that is answered at once.
Answered == Packet /\ Send(inq) /\ UNCHANGED g_noack

\* A command that first moves the guest, forward or back.
Moving(m, c) ==
  /\ Packet
  /\ waiting' = TRUE
  /\ mode' = m /\ cont' = c /\ tick' = 0
  /\ UNCHANGED <<inq, g_noack, faults>>

\* QStartNoAckMode, which gdb sends when it connects.
StartNoAck ==
  /\ Packet /\ g_noack = "no" /\ g_count = 0 /\ g_bp = <<>>
  /\ Send(inq)
  /\ g_noack' = "soon"
  /\ UNCHANGED <<pc, x, exited, bps, ring>>

-----------------------------------------------------------------------------
(* The commands, handled while the guest is stopped.                        *)

\* 'P': reg_set drops a write to x0; register LastReg + 1 is pc.
WriteReg(i, v) ==
  /\ Answered
  /\ IF i > LastReg THEN pc' = v /\ x' = x ELSE pc' = pc /\ x' = Wr(x, i, v)
  /\ UNCHANGED <<exited, bps, ring>>

\* 'G': reg_set on every register; here all get the same value.
WriteAll(v) ==
  /\ Answered
  /\ pc' = v /\ x' = [r \in Reg |-> IF r = 0 THEN x[0] ELSE v]
  /\ UNCHANGED <<exited, bps, ring>>

\* 's', 'c' and vCont; an exited guest is not run again.
Resume(c) ==
  /\ ~exited /\ Moving("run", c)
  /\ UNCHANGED <<pc, x, exited, bps, ring>>

\* 's' and 'c' with an address.
ResumeAt(c, a) ==
  /\ ~exited /\ Moving("run", c)
  /\ pc' = a
  /\ UNCHANGED <<x, exited, bps, ring>>

\* 'bs' and 'bc'
Reverse(c) ==
  /\ Moving("rev", c)
  /\ UNCHANGED <<pc, x, exited, bps, ring>>

\* 'Z0': bp_add drops the address when the table is full; the answer is OK.
Insert(a) ==
  /\ Answered
  /\ g_bp' = IF a \in Table \/ Len(g_bp) >= MaxBp THEN g_bp ELSE Append(g_bp, a)
  /\ inserted' = inserted \cup {a}
  /\ UNCHANGED <<pc, x, exited, ring>>

\* Mutated form: the last entry is dropped but not moved into the hole.
BpDelNoMove(a) == IF a \in Table THEN SubSeq(g_bp, 1, Len(g_bp) - 1) ELSE g_bp

\* bp_del: the last entry takes the place of the first that matches.
BpDel(a) ==
  IF a \notin Table THEN g_bp
  ELSE LET i == CHOOSE i \in 1 .. Len(g_bp) : g_bp[i] = a
       IN SubSeq([g_bp EXCEPT ![i] = g_bp[Len(g_bp)]], 1, Len(g_bp) - 1)

\* 'z0'
Remove(a) ==
  /\ Answered
  /\ g_bp' = BpDel(a)
  /\ inserted' = inserted \ {a}
  /\ UNCHANGED <<pc, x, exited, ring>>

\* The commands that change nothing but are answered: '?', 'g', 'p', 'q...', 'H',
\* 'T', '!', vCont?, what is not supported, 's' and 'c' once the guest has exited;
\* 'm' and 'M', which reach only guest memory.
Query ==
  /\ Answered
  /\ UNCHANGED <<pc, x, exited, bps, ring>>

\* 'D' and 'k', or end of file where a packet should start.
Close ==
  /\ mode = "recv" /\ inq = <<>> /\ (eof \/ ~waiting)
  /\ mode' = "closed"
  /\ UNCHANGED <<guest, exited, bps, ring, cont, tick, inq, eof, link>>

-----------------------------------------------------------------------------
(* gdb_run and gdb_reverse.                                                 *)

\* What RiscvEmulatorLoop(st, 1) can do, the host's handlers of main.c
\* included: [pc, x, halted, exit].
Outcomes ==
  LET ins == img.insn[pc]
      out(a, y, h, e) == [pc |-> a, x |-> y, halted |-> h, exit |-> e]
      same(h, e) == out(pc, x, h, e)
      next == out(NextPc(ins, pc, x), NextX(ins, pc, x), halted, g_exit)
      on(y) == out(Add(pc, ins.w), y, halted, g_exit)
  IN IF ~Fetchable(img, pc) THEN {same(halted, g_exit)}
     ELSE CASE ins.k = "ecall"   -> {on(x)} \cup {on(Wr(x, HostReg, v)) : v \in HostWords}
                                   \cup {same(TRUE, e) : e \in ExitCodes}
            [] ins.k = "ebreak"  -> {same(halted, g_exit)}
            [] ins.k = "illegal" -> {same(TRUE, 1)}
            [] ins.k = "mem"     -> {next, [next EXCEPT !.halted = TRUE, !.exit = 1]}
            [] OTHER             -> {next}

\* Mutated form: a full ring keeps its oldest entry as its start.
PushKeepsHead ==
  IF g_hist = <<>> THEN UNCHANGED ring
  ELSE /\ g_hist' = [g_hist EXCEPT ![(g_head + g_count) % HistFrames] = Frame]
       /\ g_head' = g_head
       /\ g_count' = IF g_count = HistFrames THEN g_count ELSE g_count + 1

\* step_record's frame: it goes after the newest, over the oldest when full.
Push ==
  IF g_hist = <<>> THEN UNCHANGED ring
  ELSE /\ g_hist' = [g_hist EXCEPT ![(g_head + g_count) % HistFrames] = Frame]
       /\ IF g_count = HistFrames
            THEN g_head' = (g_head + 1) % HistFrames /\ g_count' = g_count
            ELSE g_head' = g_head /\ g_count' = g_count + 1

\* Mutated form: the poll only looks at the first byte and leaves it.
PollPeeks(t) ==
  [int |-> t = PollEvery /\ inq # <<>> /\ inq[1] = "int", rest |-> inq]

\* Every PollEvery-th step one byte is read, if there is one; any byte but
\* 0x03 is dropped.
Poll(t) ==
  [int |-> t = PollEvery /\ inq # <<>> /\ inq[1] = "int",
   rest |-> IF t = PollEvery /\ inq # <<>> THEN Tail(inq) ELSE inq]

\* One turn of gdb_run's loop; when the run ends, its stop reply.
RunStep(o) ==
  LET t == IF tick = PollEvery THEN 1 ELSE tick + 1
      polls == ~o.halted /\ cont /\ o.pc \notin Table
  IN /\ mode = "run"
     /\ Push
     /\ pc' = o.pc /\ x' = o.x /\ halted' = o.halted /\ g_exit' = o.exit
     /\ exited' = (exited \/ o.halted)
     /\ IF polls /\ ~Poll(t).int
          THEN tick' = t /\ inq' = Poll(t).rest /\ UNCHANGED <<mode, cont, waiting, faults>>
          ELSE Send(IF polls THEN Poll(t).rest ELSE inq)
     /\ UNCHANGED <<img, bps, eof, g_noack, stray>>

\* Mutated form: the undone frame stays in the ring.
RevStepKeeps ==
  /\ mode = "rev"
  /\ IF g_count = 0 THEN Send(inq) /\ UNCHANGED <<pc, x, g_count>>
     ELSE LET f == g_hist[(g_head + g_count - 1) % HistFrames]
          IN /\ pc' = f.pc
             /\ x' = [r \in Reg |-> IF r = 0 THEN x[0] ELSE f.x[r]]
             /\ g_count' = g_count
             /\ IF cont /\ f.pc \notin Table
                  THEN UNCHANGED <<mode, cont, tick, inq, waiting, faults>>
                  ELSE Send(inq)
  /\ UNCHANGED <<img, halted, g_exit, exited, bps, g_hist, g_head, eof, g_noack, stray>>

\* One turn of gdb_reverse's loop: undo the newest recorded step.
RevStep ==
  /\ mode = "rev"
  /\ IF g_count = 0 THEN Send(inq) /\ UNCHANGED <<pc, x, g_count>>
     ELSE LET f == g_hist[(g_head + g_count - 1) % HistFrames]
          IN /\ pc' = f.pc
             /\ x' = [r \in Reg |-> IF r = 0 THEN x[0] ELSE f.x[r]]
             /\ g_count' = g_count - 1
             /\ IF cont /\ f.pc \notin Table
                  THEN UNCHANGED <<mode, cont, tick, inq, waiting, faults>>
                  ELSE Send(inq)
  /\ UNCHANGED <<img, halted, g_exit, exited, bps, g_hist, g_head, eof, g_noack, stray>>

-----------------------------------------------------------------------------
(* gdb's side of the fd.                                                    *)

\* A raw byte while gdb waits for a reply: the interrupt, or during a run noise.
SendByte(b) ==
  /\ waiting /\ ~eof /\ Len(inq) < MaxIn
  /\ mode \in IF b = "int" THEN {"run", "rev", "send"} ELSE {"run"}
  /\ inq' = Append(inq, b)
  /\ UNCHANGED <<guest, exited, bps, ring, mode, cont, tick, eof, link>>

Hangup ==
  /\ mode # "closed" /\ ~eof
  /\ eof' = TRUE
  /\ UNCHANGED <<guest, exited, bps, ring, mode, cont, tick, inq, link>>

Command ==
  \/ \E i \in 0 .. (LastReg + 1), v \in PokeWords : WriteReg(i, v)
  \/ \E v \in PokeWords : WriteAll(v)
  \/ \E c \in BOOLEAN : Resume(c) \/ Reverse(c)
  \/ \E c \in BOOLEAN, a \in PokeWords : ResumeAt(c, a)
  \/ \E a \in BpAddrs : Insert(a) \/ Remove(a)
  \/ Query \/ StartNoAck

Serve == (\E o \in Outcomes : RunStep(o)) \/ RevStep \/ Ack \/ Skip \/ (eof /\ Close)

Next ==
  \/ Command \/ BadPacket \/ Serve \/ Close
  \/ \E b \in {"int", "other"} : SendByte(b)
  \/ Hangup

\* The stub is one sequential program that keeps executing; nothing obliges
\* gdb to send anything.
Spec == Init /\ [][Next]_vars /\ WF_vars(Serve)

-----------------------------------------------------------------------------

\* gdbstub.c: a continue keeps going "until the next pc is a breakpoint": once
\* it has made its first step it never executes an instruction at which gdb
\* holds a breakpoint.
BreakpointStops == mode = "run" /\ tick > 0 => pc \notin inserted

\* README: "Ctrl-C to interrupt a run".  An interrupt byte always stops it,
\* whatever arrived before it and however the guest loops.
InterruptStops == mode = "run" /\ (\E j \in 1 .. Len(inq) : inq[j] = "int") ~> mode # "run"

\* Reverse execution ends, at a breakpoint or where history does.
ReverseEnds == mode = "rev" ~> mode # "rev"

\* gdbstub.c: "wait for gdb's '+' (resend on '-')".  The two ends never both wait for
\* the other, whatever frames are damaged, unless in this exchange a raw byte was
\* taken for an acknowledgement: only then is gdb's request to resend lost.
NobodyStuck == mode = "recv" /\ waiting /\ inq = <<>> /\ ~eof => stray

Undo == INSTANCE UndoHistory WITH
  regs <- Frame, busy <- IF mode = "send" THEN "recv" ELSE mode,
  hist <- [i \in 1 .. g_count |-> g_hist[(g_head + i - 1) % HistFrames]],
  depth <- IF g_hist = <<>> THEN 0 ELSE HistFrames

\* README: "reversing puts the registers back exactly ... past the oldest
\* recorded step, reverse is a safe no-op".  The ring behaves as a bounded
\* stack of register files across any mix of steps, continues, reverses,
\* register writes and wrap-arounds.
ImplementsUndo == Undo!Spec
=============================================================================

--------------------------- MODULE GdbstubProofs ---------------------------
(***************************************************************************)
(* The GDB server for every guest, ring size, table size and polling       *)
(* period.  Three groups of variables are proved about one at a time: the  *)
(* link (who waits for whom), the breakpoint table, and the guest with the *)
(* ring of undone steps.                                                   *)
(***************************************************************************)
EXTENDS Gdbstub, FiniteSetTheorems, TLAPS

(* What the operators of the guest machine return.                          *)

\* A 32-bit sum is a word.
LEMMA AddWord == ASSUME NEW a \in Nat, NEW b \in Nat PROVE Add(a, b) \in Word
  BY AddrModAssumption DEF Add, Word

\* Clearing bit 0 of a word gives a word.
LEMMA JalrWord ==
  ASSUME NEW ins \in Insn, NEW y \in Regs PROVE JalrTarget(ins, y) \in Word
  <1> DEFINE t == Add(y[ins.rs], ins.imm)
  <1>1. y[ins.rs] \in Nat /\ ins.imm \in Nat
    BY DEF Insn, Regs, Word
  <1>2. t \in Word
    BY <1>1, AddWord
  <1>3. t - (t % 2) \in Word
    <2> HIDE DEF t
    <2> QED BY <1>2, AddrModAssumption DEF Word
  <1> QED BY <1>3 DEF JalrTarget

\* Writing a word to any register gives a register file.
LEMMA WrRegs ==
  ASSUME NEW y \in Regs, NEW r \in Reg, NEW v \in Word PROVE Wr(y, r, v) \in Regs
  BY DEF Wr, Regs

\* One instruction takes words to words and registers to registers.
LEMMA StepTypes ==
  ASSUME NEW ins \in Insn, NEW a \in Word, NEW y \in Regs
  PROVE NextPc(ins, a, y) \in Word /\ NextX(ins, a, y) \in Regs
  <1>1. /\ ins.w \in Nat /\ ins.imm \in Word /\ ins.imm \in Nat /\ ins.rd \in Reg
        /\ y[ins.rs] \in Nat /\ a \in Nat
    BY DEF Insn, Regs, Word
  <1>2. Add(a, ins.imm) \in Word /\ Add(a, ins.w) \in Word /\ Add(y[ins.rs], ins.imm) \in Word
    BY <1>1, AddWord
  <1>3. NextPc(ins, a, y) \in Word
    BY <1>2, JalrWord DEF NextPc
  <1>4. NextX(ins, a, y) \in Regs
    BY <1>1, <1>2, WrRegs DEF NextX
  <1> QED BY <1>3, <1>4

\* x0 stays zero: every write to the register file goes through wr().
LEMMA StepZero ==
  ASSUME NEW ins \in Insn, NEW a, NEW y \in Regs PROVE NextX(ins, a, y)[0] = y[0]
  <1>1. \A r, v : Wr(y, r, v)[0] = y[0]
    BY LastRegAssumption DEF Wr, Regs, Reg
  <1> QED BY <1>1 DEF NextX

-----------------------------------------------------------------------------

Bytes == {"+", "-", "int", "other"}
IsAck(b) == b \in {"+", "-"}
NoAcks(q) == \A j \in DOMAIN q : ~IsAck(q[j])

LinkType ==
  /\ mode \in {"recv", "run", "rev", "send", "closed"}
  /\ inq \in Seq(Bytes)
  /\ waiting \in BOOLEAN /\ eof \in BOOLEAN /\ stray \in BOOLEAN

\* At most one acknowledgement is on its way, none while the guest moves, and
\* what it says is whether gdb still waits.
LinkInv ==
  /\ LinkType
  /\ \A i, j \in DOMAIN inq : IsAck(inq[i]) /\ IsAck(inq[j]) => i = j
  /\ mode \in {"run", "rev"} => waiting /\ NoAcks(inq)
  /\ waiting => \A j \in DOMAIN inq : inq[j] # "+"
  /\ mode = "send" /\ waiting /\ ~eof => \E j \in DOMAIN inq : inq[j] = "-"
  /\ mode = "recv" /\ waiting /\ ~eof => stray

\* The table holds what gdb was told it holds, each address once.
TableInv ==
  /\ g_bp \in Seq(BpAddrs)
  /\ \A i, j \in DOMAIN g_bp : g_bp[i] = g_bp[j] => i = j
  /\ Table = inserted

\* Between the steps of a continue, the pc is at no breakpoint of the table.
BreakInv == mode = "run" /\ tick > 0 => pc \notin Table

ZeroRegs == {y \in Regs : y[0] = 0}
Recorded == [x : ZeroRegs, pc : Word]
Slots == 0 .. (HistFrames - 1)

\* The guest's registers are words and x0 is zero, in the engine and in the ring.
RingInv ==
  /\ img \in Images /\ pc \in Word /\ x \in ZeroRegs
  /\ g_head \in Slots /\ g_count \in 0 .. HistFrames
  /\ (g_hist = <<>> /\ g_count = 0) \/ g_hist \in [Slots -> Recorded]

-----------------------------------------------------------------------------
(* The link.                                                                *)

\* What gdb's answer to a frame leaves on its way to the stub.
LEMMA Delivered ==
  ASSUME eof \in BOOLEAN, NEW q \in Seq(Bytes), NoAcks(q), Deliver(q)
  PROVE  /\ inq' \in Seq(Bytes) /\ waiting' \in BOOLEAN
         /\ \A i, j \in DOMAIN inq' : IsAck(inq'[i]) /\ IsAck(inq'[j]) => i = j
         /\ waiting' => \A j \in DOMAIN inq' : inq'[j] # "+"
         /\ waiting' => g_noack # "yes"
         /\ waiting' /\ ~eof => \E j \in DOMAIN inq' : inq'[j] = "-"
  <1> PICK ok \in BOOLEAN :
        /\ ~ok => g_noack # "yes"
        /\ waiting' = ~ok
        /\ inq' = IF g_noack = "yes" \/ eof THEN q ELSE Append(q, IF ok THEN "+" ELSE "-")
    BY DEF Deliver
  <1>1. CASE g_noack = "yes" \/ eof
    BY <1>1 DEF NoAcks, IsAck
  <1>2. CASE ~(g_noack = "yes" \/ eof)
    <2> DEFINE b == IF ok THEN "+" ELSE "-"
    <2>1. inq' = Append(q, b) /\ b \in Bytes /\ (ok => b = "+") /\ (~ok => b = "-")
      BY <1>2 DEF Bytes
    <2> HIDE DEF b
    <2>2. /\ inq' \in Seq(Bytes) /\ Len(inq') = Len(q) + 1 /\ inq'[Len(q) + 1] = b
          /\ \A j \in DOMAIN inq' : j # Len(q) + 1 => ~IsAck(inq'[j])
      BY <2>1 DEF NoAcks
    <2>3. Len(q) + 1 \in DOMAIN inq'
      BY <2>2
    <2> QED BY <2>1, <2>2, <2>3 DEF IsAck
  <1> QED BY <1>1, <1>2

\* A reply, at once or at the end of a run, keeps the link in order.
LEMMA SendKeepsLink ==
  ASSUME LinkInv, NEW q \in Seq(Bytes), NoAcks(q), Send(q), eof' = eof, stray' \in BOOLEAN
  PROVE  LinkInv'
  <1>1. eof \in BOOLEAN /\ Deliver(q) /\ mode' = IF g_noack = "yes" THEN "recv" ELSE "send"
    BY DEF LinkInv, LinkType, Send
  <1> QED BY <1>1, Delivered DEF LinkInv, LinkType

\* The sequence left when a byte has been read.
LEMMA TailBytes ==
  ASSUME NEW q \in Seq(Bytes), q # <<>>
  PROVE  /\ Tail(q) \in Seq(Bytes) /\ 1 \in DOMAIN q
         /\ \A j \in DOMAIN Tail(q) : j + 1 \in DOMAIN q /\ j + 1 # 1 /\ Tail(q)[j] = q[j + 1]
  OBVIOUS

\* A command answered at once, or one that sets the guest moving.
LEMMA CommandKeepsLink == LinkInv /\ Command => LinkInv'
  <1> SUFFICES ASSUME LinkInv, Command PROVE LinkInv'
    OBVIOUS
  <1>1. Packet
    BY DEF Command, WriteReg, WriteAll, Resume, Reverse, ResumeAt, Insert, Remove, Query,
           StartNoAck, Answered, Moving
  <1>2. /\ inq = <<>> /\ inq \in Seq(Bytes) /\ NoAcks(inq) /\ eof' = eof /\ stray' = FALSE
        /\ eof \in BOOLEAN
    BY <1>1 DEF Packet, NoAcks, LinkInv, LinkType
  <1>3. CASE Send(inq)
    BY <1>2, <1>3, SendKeepsLink
  <1>4. ASSUME NEW m \in {"run", "rev"}, NEW c, Moving(m, c) PROVE LinkInv'
    <2>1. mode' = m /\ waiting' = TRUE /\ inq' = <<>> /\ m # "send" /\ m # "recv"
      BY <1>2, <1>4 DEF Moving
    <2>2. <<>> \in Seq(Bytes) /\ \A j \in DOMAIN inq' : FALSE
      BY <2>1
    <2>3. LinkType'
      BY <1>2, <2>1, <2>2 DEF LinkType
    <2> QED BY <2>1, <2>2, <2>3 DEF LinkInv, NoAcks
  <1>5. Send(inq) \/ \E m \in {"run", "rev"}, c \in BOOLEAN : Moving(m, c)
    BY DEF Command, WriteReg, WriteAll, Resume, Reverse, ResumeAt, Insert, Remove, Query,
           StartNoAck, Answered
  <1> QED BY <1>3, <1>4, <1>5

\* The read of an acknowledgement, good or bad.
LEMMA AckKeepsLink == LinkInv /\ Ack => LinkInv'
  <1> SUFFICES ASSUME LinkInv, Ack PROVE LinkInv'
    OBVIOUS
  <1>1. mode = "send" /\ inq \in Seq(Bytes) /\ eof' = eof /\ eof \in BOOLEAN /\ (inq # <<>> \/ eof)
    BY DEF Ack, LinkInv, LinkType
  <1>2. CASE inq # <<>> /\ inq[1] = "-"
    <2>1. Deliver(Tail(inq)) /\ mode' = mode /\ stray' = stray
      BY <1>2 DEF Ack
    <2>2. Tail(inq) \in Seq(Bytes) /\ NoAcks(Tail(inq))
      BY <1>1, <1>2, TailBytes DEF LinkInv, NoAcks, IsAck
    <2> QED BY <1>1, <2>1, <2>2, Delivered DEF LinkInv, LinkType
  <1>3. CASE inq = <<>>
    BY <1>1, <1>3 DEF Ack, LinkInv, LinkType
  <1>4. CASE inq # <<>> /\ inq[1] # "-"
    <2>1. /\ mode' = "recv" /\ inq' = Tail(inq) /\ waiting' = waiting
          /\ stray' = (inq # <<>> /\ inq[1] # "+")
      BY <1>4 DEF Ack
    <2>2. /\ inq' \in Seq(Bytes)
          /\ \A i, j \in DOMAIN inq' : IsAck(inq'[i]) /\ IsAck(inq'[j]) => i = j
          /\ waiting' => \A j \in DOMAIN inq' : inq'[j] # "+"
      BY <1>1, <1>4, <2>1, TailBytes DEF LinkInv
    <2>3. waiting' => stray'
      BY <1>1, <1>4, <2>1, TailBytes DEF LinkInv
    <2> QED BY <1>1, <2>1, <2>2, <2>3 DEF LinkInv, LinkType
  <1> QED BY <1>2, <1>3, <1>4

\* One turn of gdb_run's loop: the poll reads no acknowledgement.
LEMMA RunKeepsLink ==
  ASSUME LinkInv, NEW o, RunStep(o) PROVE LinkInv'
  <1>1. /\ mode = "run" /\ waiting /\ NoAcks(inq) /\ inq \in Seq(Bytes)
        /\ eof' = eof /\ stray' = stray /\ stray \in BOOLEAN /\ eof \in BOOLEAN
    BY DEF RunStep, LinkInv, LinkType
  <1>2. \A t : Poll(t).rest \in Seq(Bytes) /\ NoAcks(Poll(t).rest)
    <2>1. inq # <<>> => Tail(inq) \in Seq(Bytes) /\ NoAcks(Tail(inq))
      BY <1>1, TailBytes DEF NoAcks
    <2> QED BY <1>1, <2>1 DEF Poll
  <1>3. ASSUME NEW q \in Seq(Bytes), NoAcks(q), Send(q) PROVE LinkInv'
    BY <1>1, <1>3, SendKeepsLink
  <1>4. ASSUME NEW q \in Seq(Bytes), NoAcks(q), inq' = q, UNCHANGED <<mode, waiting>> PROVE LinkInv'
    BY <1>1, <1>4 DEF LinkInv, LinkType, NoAcks, IsAck
  <1> QED BY <1>1, <1>2, <1>3, <1>4 DEF RunStep

LEMMA LinkStep == LinkInv /\ [Next]_vars => LinkInv'
  <1> SUFFICES ASSUME LinkInv, [Next]_vars PROVE LinkInv'
    OBVIOUS
  <1>0. LinkType
    BY DEF LinkInv
  <1>1. CASE BadPacket
    BY <1>1 DEF BadPacket, LinkInv, LinkType, NoAcks
  <1>2. ASSUME NEW o, RunStep(o) PROVE LinkInv'
    BY <1>2, RunKeepsLink
  <1>3. CASE RevStep
    <2>1. mode = "rev" /\ NoAcks(inq) /\ inq \in Seq(Bytes) /\ eof' = eof /\ stray' = stray
      BY <1>3 DEF RevStep, LinkInv, LinkType
    <2>2. Send(inq) \/ UNCHANGED <<mode, inq, waiting>>
      BY <1>3 DEF RevStep
    <2>3. CASE UNCHANGED <<mode, inq, waiting>>
      BY <2>1, <2>3 DEF LinkInv, LinkType, NoAcks
    <2> QED BY <1>0, <2>1, <2>2, <2>3, SendKeepsLink DEF LinkType
  <1>4. CASE Skip
    <2>1. /\ mode = "recv" /\ inq # <<>> /\ inq' = Tail(inq)
          /\ UNCHANGED <<mode, waiting, eof, stray>>
      BY <1>4 DEF Skip, link
    <2>2. /\ inq' \in Seq(Bytes)
          /\ \A i, j \in DOMAIN inq' : IsAck(inq'[i]) /\ IsAck(inq'[j]) => i = j
          /\ waiting' => \A j \in DOMAIN inq' : inq'[j] # "+"
      BY <1>0, <2>1, TailBytes DEF LinkInv, LinkType
    <2> QED BY <2>1, <2>2 DEF LinkInv, LinkType
  <1>5. CASE Close
    BY <1>5 DEF Close, link, LinkInv, LinkType, NoAcks
  <1>6. ASSUME NEW b \in {"int", "other"}, SendByte(b) PROVE LinkInv'
    <2>1. /\ inq' = Append(inq, b) /\ inq \in Seq(Bytes) /\ b \in Bytes /\ ~IsAck(b)
          /\ UNCHANGED <<mode, waiting, eof, stray>>
      BY <1>0, <1>6 DEF SendByte, link, LinkType, Bytes, IsAck
    <2>2. /\ inq' \in Seq(Bytes) /\ DOMAIN inq \subseteq DOMAIN inq'
          /\ \A j \in DOMAIN inq : inq'[j] = inq[j]
          /\ \A j \in DOMAIN inq' : j \in DOMAIN inq \/ ~IsAck(inq'[j])
      BY <2>1
    <2> QED BY <2>1, <2>2 DEF LinkInv, LinkType, NoAcks, IsAck
  <1>7. CASE Hangup
    BY <1>7 DEF Hangup, link, LinkInv, LinkType, NoAcks
  <1>8. CASE UNCHANGED vars
    BY <1>8 DEF vars, LinkInv, LinkType, NoAcks
  <1> QED BY <1>1, <1>2, <1>3, <1>4, <1>5, <1>6, <1>7, <1>8, CommandKeepsLink, AckKeepsLink
          DEF Next, Serve

\* The two ends of the link never both wait for the other, whatever is damaged
\* on the way, unless the stub has read a raw byte for an acknowledgement.
THEOREM NobodyIsStuck == Spec => []NobodyStuck
  <1>1. Init => LinkInv
    <2>1. <<>> \in Seq(Bytes) /\ \A j \in DOMAIN <<>> : FALSE
      OBVIOUS
    <2> QED BY <2>1 DEF Init, LinkInv, LinkType, NoAcks
  <1>2. LinkInv => NobodyStuck
    BY DEF LinkInv, NobodyStuck
  <1> QED BY <1>1, <1>2, LinkStep, PTL DEF Spec

-----------------------------------------------------------------------------
(* Breakpoints.                                                             *)

\* What any step does to the table: only insertion and removal change it, and
\* only while the guest is stopped.
LEMMA TableSteps ==
  ASSUME [Next]_vars
  PROVE  \/ UNCHANGED bps
         \/ /\ mode = "recv" /\ mode' # "run"
            /\ \E a \in BpAddrs : Insert(a) \/ Remove(a)
  <1>1. CASE Command
    <2>1. ASSUME NEW a \in BpAddrs, Insert(a) \/ Remove(a) PROVE mode = "recv" /\ mode' # "run"
      BY <2>1 DEF Insert, Remove, Answered, Packet, Send
    <2> QED BY <1>1, <2>1 DEF Command, WriteReg, WriteAll, Resume, Reverse, ResumeAt, Query, StartNoAck
  <1>2. CASE BadPacket \/ Serve \/ Close \/ (\E b \in {"int", "other"} : SendByte(b)) \/ Hangup
    BY <1>2 DEF BadPacket, Serve, RunStep, RevStep, Ack, Skip, Close, SendByte, Hangup, bps
  <1>3. CASE UNCHANGED vars
    BY <1>3 DEF vars, bps
  <1> QED BY <1>1, <1>2, <1>3 DEF Next

\* A continue that goes on has looked its pc up in the table, which nobody
\* changes while the guest runs.
LEMMA BreakStep == BreakInv /\ [Next]_vars => BreakInv'
  <1> SUFFICES ASSUME BreakInv, [Next]_vars, mode' = "run", tick' > 0 PROVE pc' \notin Table'
    BY DEF BreakInv
  <1>1. Table' = Table
    BY TableSteps DEF bps, Table
  <1>2. ASSUME NEW o, RunStep(o) PROVE pc' \notin Table
    BY <1>2 DEF RunStep, Send
  <1>3. CASE UNCHANGED <<mode, tick, pc>>
    BY <1>1, <1>3 DEF BreakInv
  <1>4. ~Command
    BY DEF Command, WriteReg, WriteAll, Resume, Reverse, ResumeAt, Insert, Remove, Query,
           StartNoAck, Answered, Moving, Send
  <1>5. ~RevStep /\ ~Ack /\ ~Close
    BY DEF RevStep, Ack, Close, Send
  <1>6. CASE BadPacket \/ Skip \/ (\E b \in {"int", "other"} : SendByte(b)) \/ Hangup \/ UNCHANGED vars
    BY <1>3, <1>6 DEF BadPacket, Skip, SendByte, Hangup, vars, guest
  <1> QED BY <1>1, <1>2, <1>4, <1>5, <1>6 DEF Next, Serve

\* However the table was filled: a continue never executes an instruction whose
\* address is in it, once it has made its first step.
THEOREM TableStops == Spec => []BreakInv
  <1>1. Init => BreakInv
    BY DEF Init, BreakInv
  <1> QED BY <1>1, BreakStep, PTL DEF Spec

\* While gdb's breakpoints fit, an address that is not in the table finds room.
LEMMA TableRoom ==
  ASSUME IsFiniteSet(BpAddrs), Cardinality(BpAddrs) <= MaxBp,
         TableInv, NEW a \in BpAddrs, a \notin Table
  PROVE  Len(g_bp) < MaxBp
  <1> DEFINE n == Len(g_bp)
  <1>1. n \in Nat /\ g_bp \in [1 .. n -> BpAddrs] /\ DOMAIN g_bp = 1 .. n
    BY DEF TableInv
  <1>2. g_bp \in Injection(1 .. n, BpAddrs \ {a})
    BY <1>1 DEF TableInv, Table, Injection, IsInjective
  <1>3. /\ IsFiniteSet(BpAddrs \ {a}) /\ Cardinality(BpAddrs) \in Nat
        /\ Cardinality(BpAddrs \ {a}) = Cardinality(BpAddrs) - 1
    BY FS_RemoveElement, FS_CardinalityType
  <1> HIDE DEF n
  <1>4. Cardinality(1 .. n) <= Cardinality(BpAddrs \ {a})
    BY ONLY <1>2, <1>3, FS_Injection
  <1>5. Cardinality(1 .. n) = n
    BY ONLY <1>1, FS_Interval
  <1>6. n < MaxBp
    BY <1>1, <1>3, <1>4, <1>5, GdbAssumption
  <1> QED BY ONLY <1>6 DEF n

\* bp_del takes out one address, wherever the hole is, and no other.
LEMMA Deleted ==
  ASSUME TableInv, NEW a
  PROVE  /\ BpDel(a) \in Seq(BpAddrs)
         /\ \A i, j \in DOMAIN BpDel(a) : BpDel(a)[i] = BpDel(a)[j] => i = j
         /\ {BpDel(a)[i] : i \in 1 .. Len(BpDel(a))} = Table \ {a}
  <1> DEFINE n == Len(g_bp)
  <1>1. g_bp \in Seq(BpAddrs) /\ n \in Nat /\ DOMAIN g_bp = 1 .. n
    BY DEF TableInv
  <1>2. CASE a \notin Table
    BY <1>2 DEF BpDel, TableInv, Table
  <1>3. CASE a \in Table
    <2> DEFINE i == CHOOSE i \in 1 .. n : g_bp[i] = a
               s == SubSeq([g_bp EXCEPT ![i] = g_bp[n]], 1, n - 1)
    <2>1. i \in 1 .. n /\ g_bp[i] = a
      BY <1>3 DEF Table
    <2>2. BpDel(a) = s
      BY <1>3 DEF BpDel
    <2> HIDE DEF i
    <2>3. s = [j \in 1 .. n - 1 |-> IF j = i THEN g_bp[n] ELSE g_bp[j]]
      <3> DEFINE e == [g_bp EXCEPT ![i] = g_bp[n]]
      <3>1. e \in Seq(BpAddrs) /\ Len(e) = n
        BY <1>1, <2>1
      <3>2. \A j \in 1 .. n - 1 : e[j] = IF j = i THEN g_bp[n] ELSE g_bp[j]
        BY <1>1, <2>1
      <3> HIDE DEF e
      <3>3. SubSeq(e, 1, n - 1) = [j \in 1 .. n - 1 |-> e[j]]
        BY <1>1, <3>1
      <3> QED BY <3>2, <3>3 DEF e
    <2> HIDE DEF s
    <2>4. s \in Seq(BpAddrs) /\ Len(s) = n - 1 /\ DOMAIN s = 1 .. n - 1
      <3>1. n - 1 \in Nat /\ \A j \in 1 .. n - 1 : s[j] \in BpAddrs
        BY <1>1, <2>1, <2>3
      <3> QED BY <2>3, <3>1
    <2>5. \A j \in 1 .. n - 1 : j \in 1 .. n /\ s[j] = IF j = i THEN g_bp[n] ELSE g_bp[j]
      BY <1>1, <2>3
    <2>6. \A j, k \in 1 .. n : g_bp[j] = g_bp[k] => j = k
      BY <1>1 DEF TableInv
    <2>7. \A j, k \in DOMAIN s : s[j] = s[k] => j = k
      BY <1>1, <2>1, <2>4, <2>5, <2>6
    <2>8. \A j \in 1 .. n - 1 : s[j] \in Table \ {a}
      BY <1>1, <2>1, <2>5, <2>6 DEF Table
    <2>9. \A k \in 1 .. n : k # i => \E j \in 1 .. n - 1 : s[j] = g_bp[k]
      <3> SUFFICES ASSUME NEW k \in 1 .. n, k # i PROVE \E j \in 1 .. n - 1 : s[j] = g_bp[k]
        OBVIOUS
      <3>0. n \in Nat /\ k \in Nat /\ i \in Nat /\ 1 <= k /\ k <= n /\ 1 <= i /\ i <= n
        BY <1>1, <2>1
      <3> HIDE DEF n
      <3>1. CASE k = n
        <4>1. i \in 1 .. n - 1
          BY <3>0, <3>1
        <4>2. s[i] = g_bp[k]
          BY <2>5, <3>1, <4>1
        <4> QED BY <4>1, <4>2
      <3>2. CASE k # n
        <4>1. k \in 1 .. n - 1
          BY <3>0, <3>2
        <4>2. s[k] = g_bp[k]
          BY <2>5, <4>1
        <4> QED BY <4>1, <4>2
      <3> QED BY <3>1, <3>2
    <2>10. \A b \in Table \ {a} : \E j \in 1 .. n - 1 : s[j] = b
      BY <1>1, <2>1, <2>9 DEF Table
    <2> QED BY <2>2, <2>4, <2>7, <2>8, <2>10
  <1> QED BY <1>2, <1>3

\* Table = inserted is inductive as long as the table has room.
LEMMA TableStep ==
  ASSUME IsFiniteSet(BpAddrs), Cardinality(BpAddrs) <= MaxBp, TableInv, [Next]_vars
  PROVE  TableInv'
  <1>1. CASE UNCHANGED bps
    BY <1>1 DEF bps, TableInv, Table
  <1>2. ASSUME NEW a \in BpAddrs, Insert(a) PROVE TableInv'
    <2>1. CASE a \in Table
      BY <1>2, <2>1 DEF Insert, TableInv, Table
    <2>2. CASE a \notin Table
      <3>1. Len(g_bp) < MaxBp /\ MaxBp \in Nat /\ g_bp \in Seq(BpAddrs)
        BY <2>2, TableRoom, GdbAssumption DEF TableInv
      <3>2. g_bp' = Append(g_bp, a) /\ inserted' = inserted \cup {a}
        BY <1>2, <2>2, <3>1 DEF Insert
      <3>3. /\ g_bp' \in Seq(BpAddrs) /\ Len(g_bp') = Len(g_bp) + 1 /\ g_bp'[Len(g_bp) + 1] = a
            /\ \A j \in 1 .. Len(g_bp) : g_bp'[j] = g_bp[j]
        BY <3>1, <3>2
      <3>4. Table' = Table \cup {a}
        BY <3>1, <3>3 DEF Table
      <3>5. \A i \in DOMAIN g_bp : g_bp[i] # a
        BY <2>2, <3>1 DEF Table
      <3>6. \A i, j \in DOMAIN g_bp' : g_bp'[i] = g_bp'[j] => i = j
        BY <3>1, <3>3, <3>5 DEF TableInv
      <3> QED BY <3>2, <3>3, <3>4, <3>6 DEF TableInv
    <2> QED BY <2>1, <2>2
  <1>3. ASSUME NEW a \in BpAddrs, Remove(a) PROVE TableInv'
    <2>1. g_bp' = BpDel(a) /\ inserted' = inserted \ {a}
      BY <1>3 DEF Remove
    <2>2. Table' = Table \ {a}
      BY <2>1, Deleted DEF Table
    <2> QED BY <2>1, <2>2, Deleted DEF TableInv
  <1> QED BY <1>1, <1>2, <1>3, TableSteps

\* With breakpoints enough for its table, whatever gdb inserted and removed before:
\* a continue stops at every breakpoint gdb was told is inserted.
THEOREM BreakpointAlwaysStops ==
  ASSUME IsFiniteSet(BpAddrs), Cardinality(BpAddrs) <= MaxBp
  PROVE  Spec => []BreakpointStops
  <1>1. Init => TableInv
    <2>1. <<>> \in Seq(BpAddrs) /\ {<<>>[i] : i \in 1 .. Len(<<>>)} = {}
      OBVIOUS
    <2> QED BY <2>1 DEF Init, TableInv, Table
  <1>2. TableInv /\ [Next]_vars => TableInv'
    BY TableStep
  <1>3. TableInv /\ BreakInv => BreakpointStops
    BY DEF TableInv, BreakInv, BreakpointStops
  <1> QED BY <1>1, <1>2, <1>3, TableStops, PTL DEF Spec

-----------------------------------------------------------------------------
(* The guest and the ring.                                                  *)

\* The slot of the ring at a distance from slot 0, once around the end.
SlotNo(a) == a % HistFrames

LEMMA SlotOf ==
  ASSUME NEW a \in Nat, a < 2 * HistFrames
  PROVE  /\ SlotNo(a) \in Slots
         /\ SlotNo(a) = IF a < HistFrames THEN a ELSE a - HistFrames
  <1>1. HistFrames \in Nat /\ HistFrames > 0
    BY GdbAssumption
  <1>2. CASE a < HistFrames
    BY <1>1, <1>2 DEF Slots, SlotNo
  <1>3. CASE a >= HistFrames
    <2>1. a - HistFrames \in Nat /\ a - HistFrames < HistFrames /\ a = HistFrames * 1 + (a - HistFrames)
      BY <1>1, <1>3
    <2>2. a % HistFrames = a - HistFrames
      BY <1>1, <2>1
    <2> QED BY <1>1, <1>3, <2>1, <2>2 DEF Slots, SlotNo
  <1> QED BY <1>1, <1>2, <1>3

\* The slot of entry j, counted from 1, of a ring whose oldest entry is in slot h.
EntrySlot(h, j) == SlotNo(h + j - 1)

LEMMA EntryIs ==
  ASSUME NEW h \in Slots, NEW j \in 1 .. HistFrames
  PROVE  /\ EntrySlot(h, j) \in Slots
         /\ EntrySlot(h, j) = IF h + j - 1 < HistFrames THEN h + j - 1 ELSE h + j - 1 - HistFrames
  <1>1. /\ HistFrames \in Nat \ {0} /\ h \in Nat /\ h < HistFrames /\ j \in Nat
        /\ h + j - 1 \in Nat /\ h + j - 1 < 2 * HistFrames
    BY GdbAssumption DEF Slots
  <1> QED BY <1>1, SlotOf DEF EntrySlot

\* In a ring with room the entry after the newest falls on no entry in use.
LEMMA RoomSlots ==
  ASSUME NEW h \in Slots, NEW n \in Nat, n < HistFrames
  PROVE  /\ EntrySlot(h, n + 1) \in Slots /\ SlotNo(h + n) = EntrySlot(h, n + 1)
         /\ \A j \in 1 .. n : EntrySlot(h, j) \in Slots /\ EntrySlot(h, j) # EntrySlot(h, n + 1)
  <1>1. HistFrames \in Nat \ {0} /\ h \in Nat /\ h < HistFrames /\ n + 1 \in 1 .. HistFrames
    BY GdbAssumption DEF Slots
  <1>2. EntrySlot(h, n + 1) = IF h + n < HistFrames THEN h + n ELSE h + n - HistFrames
    <2>1. h + (n + 1) - 1 = h + n
      BY <1>1
    <2> QED BY <1>1, <2>1, EntryIs
  <1>3. SlotNo(h + n) = EntrySlot(h, n + 1)
    <2>1. h + (n + 1) - 1 = h + n
      BY <1>1
    <2> QED BY <2>1 DEF EntrySlot
  <1>4. ASSUME NEW j \in 1 .. n
        PROVE  EntrySlot(h, j) \in Slots /\ EntrySlot(h, j) # EntrySlot(h, n + 1)
    <2>1. j \in 1 .. HistFrames /\ j \in Nat
      BY <1>1
    <2>2. EntrySlot(h, j) = IF h + j - 1 < HistFrames THEN h + j - 1 ELSE h + j - 1 - HistFrames
      BY <2>1, EntryIs
    <2> QED BY <1>1, <1>2, <2>1, <2>2, EntryIs
  <1> QED BY <1>1, <1>3, <1>4, EntryIs

\* The slots of the ring seen from the slot after h, in a full ring.
LEMMA NextSlots ==
  ASSUME NEW h \in Slots, NEW next \in Slots, next = IF h + 1 < HistFrames THEN h + 1 ELSE 0
  PROVE  /\ EntrySlot(next, HistFrames) = h
         /\ \A j \in 1 .. HistFrames - 1 :
              /\ EntrySlot(next, j) = EntrySlot(h, j + 1)
              /\ EntrySlot(next, j) \in Slots /\ EntrySlot(next, j) # h
  <1>1. HistFrames \in Nat \ {0} /\ h \in Nat /\ h < HistFrames
    BY GdbAssumption DEF Slots
  <1>2. next \in Slots /\ next = IF h + 1 < HistFrames THEN h + 1 ELSE 0
    OBVIOUS
  <1>3. next \in Nat /\ next < HistFrames
    BY <1>1, <1>2
  <1>5. EntrySlot(next, HistFrames) = h
    <2>1. EntrySlot(next, HistFrames)
            = IF next + HistFrames - 1 < HistFrames THEN next + HistFrames - 1
              ELSE next + HistFrames - 1 - HistFrames
      BY <1>1, <1>2, EntryIs
    <2> QED BY <1>1, <1>2, <1>3, <2>1
  <1>6. ASSUME NEW j \in 1 .. HistFrames - 1
        PROVE  /\ EntrySlot(next, j) = EntrySlot(h, j + 1)
               /\ EntrySlot(next, j) \in Slots /\ EntrySlot(next, j) # h
    <2>1. j \in Nat /\ 1 <= j /\ j <= HistFrames - 1 /\ j \in 1 .. HistFrames /\ j + 1 \in 1 .. HistFrames
      BY <1>1
    <2>2. /\ EntrySlot(next, j) \in Slots
          /\ EntrySlot(next, j)
               = IF next + j - 1 < HistFrames THEN next + j - 1 ELSE next + j - 1 - HistFrames
      BY <1>2, <2>1, EntryIs
    <2>3. EntrySlot(h, j + 1)
            = IF h + (j + 1) - 1 < HistFrames THEN h + (j + 1) - 1 ELSE h + (j + 1) - 1 - HistFrames
      BY <2>1, EntryIs
    <2> QED BY <1>1, <1>2, <1>3, <2>1, <2>2, <2>3
  <1> QED BY <1>5, <1>6

\* In a full ring it falls on the oldest, and every other entry moves down by one.
LEMMA FullSlots ==
  ASSUME NEW h \in Slots, NEW next, next = SlotNo(h + 1)
  PROVE  /\ next \in Slots /\ SlotNo(h + HistFrames) = h /\ EntrySlot(next, HistFrames) = h
         /\ \A j \in 1 .. HistFrames - 1 :
              /\ EntrySlot(next, j) = EntrySlot(h, j + 1)
              /\ EntrySlot(next, j) \in Slots /\ EntrySlot(next, j) # h
  <1>1. HistFrames \in Nat \ {0} /\ h \in Nat /\ h < HistFrames
    BY GdbAssumption DEF Slots
  <1>2. next \in Slots /\ next = IF h + 1 < HistFrames THEN h + 1 ELSE 0
    <2>1. h + 1 \in Nat /\ h + 1 < 2 * HistFrames
      BY <1>1
    <2>2. next \in Slots /\ next = IF h + 1 < HistFrames THEN h + 1 ELSE h + 1 - HistFrames
      BY <1>1, <2>1, SlotOf
    <2> QED BY <1>1, <2>2
  <1>4. SlotNo(h + HistFrames) = h
    <2>1. h + HistFrames \in Nat /\ h + HistFrames < 2 * HistFrames
      BY <1>1
    <2>2. SlotNo(h + HistFrames)
            = IF h + HistFrames < HistFrames THEN h + HistFrames ELSE h + HistFrames - HistFrames
      BY <1>1, <2>1, SlotOf
    <2> QED BY <1>1, <2>2
  <1> QED BY <1>2, <1>4, NextSlots

\* A write to a register leaves x0 zero.
LEMMA WrZero ==
  ASSUME NEW y \in ZeroRegs, NEW r \in Reg, NEW v \in Word PROVE Wr(y, r, v) \in ZeroRegs
  <1>1. Wr(y, r, v) \in Regs
    BY WrRegs DEF ZeroRegs
  <1>2. Wr(y, r, v)[0] = y[0]
    BY LastRegAssumption DEF Wr, ZeroRegs, Regs, Reg
  <1> QED BY <1>1, <1>2 DEF ZeroRegs

\* Whatever one step of the engine and the host's handlers do.
LEMMA OutcomeTypes ==
  ASSUME RingInv, NEW o \in Outcomes PROVE o.pc \in Word /\ o.x \in ZeroRegs
  <1> DEFINE ins == img.insn[pc]
             out(a, y, h, e) == [pc |-> a, x |-> y, halted |-> h, exit |-> e]
  <1>0. /\ IsImage(img) /\ pc \in Word /\ x \in ZeroRegs /\ x \in Regs
        /\ pc \in Nat /\ img.len \in Nat /\ HostReg \in Reg /\ HostWords \subseteq Word
    BY GdbAssumption, AddrModAssumption DEF RingInv, IsImage, Word, ZeroRegs
  <1>1. CASE ~Fetchable(img, pc)
    BY <1>0, <1>1 DEF Outcomes
  <1>2. CASE Fetchable(img, pc)
    <2>1. ins \in Insn /\ ins.w \in Nat
      <3>1. pc \in 0 .. (img.len - 1)
        BY <1>0, <1>2 DEF Fetchable
      <3>2. ins \in Insn
        BY <1>0, <3>1 DEF IsImage
      <3> QED BY <3>2 DEF Insn
    <2>2. Add(pc, ins.w) \in Word
      BY <1>0, <2>1, AddWord
    <2>3. NextPc(ins, pc, x) \in Word /\ NextX(ins, pc, x) \in ZeroRegs
      BY <1>0, <2>1, StepTypes, StepZero DEF ZeroRegs
    <2>4. \A v \in HostWords : Wr(x, HostReg, v) \in ZeroRegs
      BY <1>0, WrZero
    <2>5. \/ \E h, e : o = out(pc, x, h, e)
          \/ \E h, e : o = out(NextPc(ins, pc, x), NextX(ins, pc, x), h, e)
          \/ \E h, e : \E y \in {x} \cup {Wr(x, HostReg, v) : v \in HostWords} :
                o = out(Add(pc, ins.w), y, h, e)
      <3> HIDE DEF ins
      <3>1. CASE ins.k = "ecall"
        BY <1>2, <3>1 DEF Outcomes, ins
      <3>2. CASE ins.k = "mem"
        BY <1>2, <3>2 DEF Outcomes, ins
      <3>3. CASE ins.k \notin {"ecall", "mem"}
        BY <1>2, <3>3 DEF Outcomes, ins
      <3> QED BY <3>1, <3>2, <3>3
    <2> HIDE DEF ins
    <2> QED BY <1>0, <2>2, <2>3, <2>4, <2>5
  <1> QED BY <1>1, <1>2

\* step_record keeps the ring a ring.
LEMMA PushTypes ==
  ASSUME RingInv, Push
  PROVE  /\ g_head' \in Slots /\ g_count' \in 0 .. HistFrames
         /\ (g_hist' = <<>> /\ g_count' = 0) \/ g_hist' \in [Slots -> Recorded]
  <1>0. /\ HistFrames \in Nat /\ HistFrames > 0 /\ Frame \in Recorded
        /\ g_head \in Nat /\ g_head < HistFrames /\ g_count \in Nat /\ g_count <= HistFrames
    BY GdbAssumption DEF RingInv, Slots, Frame, Recorded
  <1>1. CASE g_hist = <<>>
    BY <1>1 DEF Push, ring, RingInv, Recorded, Slots
  <1>2. CASE g_hist # <<>>
    <2>1. SlotNo(g_head + 1) \in Slots
      BY <1>0, SlotOf
    <2>2. /\ g_hist' = [g_hist EXCEPT ![SlotNo(g_head + g_count)] = Frame]
          /\ IF g_count = HistFrames
               THEN g_head' = SlotNo(g_head + 1) /\ g_count' = g_count
               ELSE g_head' = g_head /\ g_count' = g_count + 1
      BY <1>2 DEF Push, SlotNo
    <2>3. g_hist' \in [Slots -> Recorded]
      BY <1>0, <1>2, <2>2 DEF RingInv
    <2>4. g_head' \in Slots /\ g_count' \in 0 .. HistFrames
      BY <1>0, <2>1, <2>2 DEF RingInv
    <2> QED BY <2>3, <2>4
  <1> QED BY <1>1, <1>2

\* The newest entry of a ring that is not empty.
LEMMA NewestFrame ==
  ASSUME RingInv, g_count # 0
  PROVE  /\ g_hist # <<>> /\ g_count \in Nat /\ g_count - 1 \in Nat
         /\ g_hist[SlotNo(g_head + g_count - 1)] \in Recorded
  <1>1. /\ g_head \in Nat /\ g_head < HistFrames /\ g_count \in Nat /\ g_count <= HistFrames
        /\ HistFrames \in Nat
    BY GdbAssumption DEF RingInv, Slots
  <1>2. g_head + g_count - 1 \in Nat /\ g_head + g_count - 1 < 2 * HistFrames /\ g_count - 1 \in Nat
    BY <1>1
  <1>3. SlotNo(g_head + g_count - 1) \in Slots
    BY <1>2, SlotOf
  <1>4. g_hist \in [Slots -> Recorded] /\ 0 \in Slots
    BY <1>1 DEF RingInv, Slots
  <1> QED BY <1>1, <1>2, <1>3, <1>4

\* What an undone step restores: exactly the recorded registers, x0 included.
LEMMA Restored ==
  ASSUME NEW y \in ZeroRegs, NEW f \in Recorded
  PROVE  [r \in Reg |-> IF r = 0 THEN y[0] ELSE f.x[r]] = f.x
  BY LastRegAssumption DEF ZeroRegs, Recorded, Regs, Reg

LEMMA RingStep == RingInv /\ [Next]_vars => RingInv'
  <1> SUFFICES ASSUME RingInv, [Next]_vars PROVE RingInv'
    OBVIOUS
  <1>0. /\ img \in Images /\ pc \in Word /\ x \in ZeroRegs /\ x \in Regs
        /\ PokeWords \subseteq Word
    BY GdbAssumption DEF RingInv, ZeroRegs
  <1>1. ASSUME UNCHANGED <<img, ring>>, pc' \in Word, x' \in ZeroRegs PROVE RingInv'
    BY <1>1 DEF RingInv, ring
  <1>2. CASE Command
    <2>1. UNCHANGED <<img, ring>>
      BY <1>2 DEF Command, WriteReg, WriteAll, Resume, Reverse, ResumeAt, Insert, Remove, Query,
                  StartNoAck, Answered, Moving, Packet
    <2>2. ASSUME NEW r \in 0 .. (LastReg + 1), NEW v \in PokeWords, WriteReg(r, v)
          PROVE  pc' \in Word /\ x' \in ZeroRegs
      <3>1. r > LastReg \/ r \in Reg
        BY LastRegAssumption DEF Reg
      <3> QED BY <1>0, <2>2, <3>1, WrZero DEF WriteReg
    <2>3. ASSUME NEW v \in PokeWords, WriteAll(v) PROVE pc' \in Word /\ x' \in ZeroRegs
      BY <1>0, <2>3, LastRegAssumption DEF WriteAll, ZeroRegs, Regs, Reg
    <2>4. ASSUME NEW c, NEW a \in PokeWords, ResumeAt(c, a) PROVE pc' \in Word /\ x' \in ZeroRegs
      BY <1>0, <2>4 DEF ResumeAt
    <2>5. ASSUME UNCHANGED <<pc, x>> PROVE pc' \in Word /\ x' \in ZeroRegs
      BY <1>0, <2>5
    <2>6. pc' \in Word /\ x' \in ZeroRegs
      BY <1>2, <2>2, <2>3, <2>4, <2>5 DEF Command, Resume, Reverse, Insert, Remove, Query, StartNoAck
    <2> QED BY <1>1, <2>1, <2>6
  <1>3. ASSUME NEW o \in Outcomes, RunStep(o) PROVE RingInv'
    BY <1>0, <1>3, OutcomeTypes, PushTypes DEF RunStep, RingInv
  <1>4. CASE RevStep
    <2>1. CASE g_count = 0
      BY <1>0, <1>1, <1>4, <2>1 DEF RevStep, ring
    <2>2. CASE g_count # 0
      <3> DEFINE f == g_hist[SlotNo(g_head + g_count - 1)]
      <3>1. f \in Recorded /\ g_hist # <<>> /\ g_count - 1 \in Nat
        BY <2>2, NewestFrame
      <3>2. /\ pc' = f.pc /\ x' = [r \in Reg |-> IF r = 0 THEN x[0] ELSE f.x[r]]
            /\ g_count' = g_count - 1 /\ UNCHANGED <<img, g_hist, g_head>>
        BY <1>4, <2>2 DEF RevStep, SlotNo
      <3> HIDE DEF f
      <3>3. x' = f.x
        BY <1>0, <3>1, <3>2, Restored
      <3>4. pc' \in Word /\ x' \in ZeroRegs
        BY <3>1, <3>2, <3>3 DEF Recorded
      <3>5. g_count' \in 0 .. HistFrames
        BY <3>1, <3>2, GdbAssumption DEF RingInv
      <3> QED BY <3>1, <3>2, <3>4, <3>5 DEF RingInv
    <2> QED BY <2>1, <2>2
  <1>5. CASE BadPacket \/ Ack \/ Skip \/ Close \/ (\E b \in {"int", "other"} : SendByte(b)) \/ Hangup
             \/ UNCHANGED vars
    <2>1. UNCHANGED <<img, pc, x, ring>>
      BY <1>5 DEF BadPacket, Ack, Skip, Close, SendByte, Hangup, vars, guest, ring
    <2> QED BY <1>0, <1>1, <2>1
  <1> QED BY <1>2, <1>3, <1>4, <1>5 DEF Next, Serve

-----------------------------------------------------------------------------
(* The ring is a bounded stack.                                             *)

\* The abstract history the ring stands for, oldest first.
History == [i \in 1 .. g_count |-> g_hist[SlotNo(g_head + i - 1)]]
Depth == IF g_hist = <<>> THEN 0 ELSE HistFrames

\* Appending to a sequence of d elements and forgetting the oldest moves each one down.
LEMMA NewestFull ==
  ASSUME NEW S, NEW s \in Seq(S), NEW e \in S, NEW d \in Nat \ {0}, Len(s) = d
  PROVE  Undo!Newest(Append(s, e), d) = [i \in 1 .. d |-> IF i = d THEN e ELSE s[i + 1]]
  <1> DEFINE t == Append(s, e)
  <1>1. t \in Seq(S) /\ Len(t) = d + 1 /\ t[d + 1] = e /\ \A i \in 1 .. d : t[i] = s[i]
    OBVIOUS
  <1> HIDE DEF t
  <1>2. Undo!Newest(t, d) = SubSeq(t, 2, d + 1)
    BY <1>1 DEF Undo!Newest
  <1>3. SubSeq(t, 2, d + 1) = [i \in 1 .. d |-> t[i + 1]]
    BY <1>1
  <1>4. \A i \in 1 .. d : t[i + 1] = IF i = d THEN e ELSE s[i + 1]
    BY <1>1
  <1> QED BY <1>2, <1>3, <1>4 DEF t

\* Appending below the bound forgets nothing.
LEMMA NewestRoom ==
  ASSUME NEW S, NEW s \in Seq(S), NEW e \in S, NEW d \in Nat, Len(s) < d
  PROVE  Undo!Newest(Append(s, e), d) = [i \in 1 .. Len(s) + 1 |-> IF i = Len(s) + 1 THEN e ELSE s[i]]
  BY DEF Undo!Newest

\* The history is a sequence of register files.
LEMMA HistoryType ==
  ASSUME RingInv
  PROVE  /\ History \in Seq(Recorded) /\ Len(History) = g_count /\ DOMAIN History = 1 .. g_count
         /\ \A j \in 1 .. g_count : History[j] = g_hist[EntrySlot(g_head, j)]
         /\ g_count \in Nat /\ g_count <= HistFrames /\ HistFrames \in Nat \ {0} /\ g_head \in Slots
  <1>1. HistFrames \in Nat \ {0} /\ g_head \in Slots /\ g_count \in Nat /\ g_count <= HistFrames
    BY GdbAssumption DEF RingInv
  <1>2. \A j \in 1 .. g_count : EntrySlot(g_head, j) \in Slots
    BY <1>1, EntryIs
  <1>3. \A j \in 1 .. g_count : g_hist[EntrySlot(g_head, j)] \in Recorded
    <2>1. g_count # 0 => g_hist \in [Slots -> Recorded]
      BY DEF RingInv
    <2> QED BY <1>1, <1>2, <2>1
  <1>4. History = [j \in 1 .. g_count |-> g_hist[EntrySlot(g_head, j)]]
    BY DEF History, EntrySlot, SlotNo
  <1>5. History \in Seq(Recorded) /\ Len(History) = g_count
    BY <1>1, <1>3, <1>4
  <1> QED BY <1>1, <1>4, <1>5

\* Recording a step pushes on the history; a full ring forgets the oldest, and
\* without a ring nothing is remembered.
LEMMA PushHistory ==
  ASSUME RingInv, Push
  PROVE  History' = Undo!Newest(Append(History, Frame), Depth) /\ Depth' = Depth
  <1>0. Frame \in Recorded
    BY DEF RingInv, Frame, Recorded
  <1>1. /\ History \in Seq(Recorded) /\ Len(History) = g_count
        /\ \A j \in 1 .. g_count : History[j] = g_hist[EntrySlot(g_head, j)]
        /\ g_count \in Nat /\ g_count <= HistFrames /\ HistFrames \in Nat \ {0} /\ g_head \in Slots
    BY HistoryType
  <1>2. History' = [j \in 1 .. g_count' |-> g_hist'[EntrySlot(g_head', j)]]
    BY DEF History, EntrySlot, SlotNo
  <1>3. CASE g_hist = <<>>
    <2>1. g_count = 0 /\ UNCHANGED ring
      BY <1>1, <1>3 DEF RingInv, Push, Slots
    <2>2. History' = History /\ Depth' = Depth /\ Depth = 0 /\ History = <<>>
      BY <1>1, <1>3, <2>1 DEF History, Depth, ring
    <2>3. Undo!Newest(Append(<<>>, Frame), 0) = <<>>
      BY <1>0 DEF Undo!Newest
    <2> QED BY <2>2, <2>3
  <1> HIDE DEF Frame
  <1>4. ASSUME g_hist # <<>>, NEW s \in Slots, g_hist' = [g_hist EXCEPT ![s] = Frame]
        PROVE  g_hist \in [Slots -> Recorded] /\ Depth = HistFrames /\ Depth' = HistFrames
    BY <1>1, <1>4, EntryIs DEF RingInv, Depth, Slots
  <1>5. CASE g_hist # <<>> /\ g_count < HistFrames
    <2> DEFINE to == EntrySlot(g_head, g_count + 1)
    <2>1. /\ to \in Slots /\ SlotNo(g_head + g_count) = to
          /\ \A j \in 1 .. g_count : EntrySlot(g_head, j) \in Slots /\ EntrySlot(g_head, j) # to
      BY <1>1, <1>5, RoomSlots
    <2>2. g_hist' = [g_hist EXCEPT ![SlotNo(g_head + g_count)] = Frame]
          /\ g_head' = g_head /\ g_count' = g_count + 1
      BY <1>1, <1>5 DEF Push, SlotNo
    <2>3. g_hist \in [Slots -> Recorded] /\ Depth = HistFrames /\ Depth' = HistFrames
      BY <1>4, <1>5, <2>1, <2>2
    <2>4. \A j \in 1 .. g_count + 1 :
            g_hist'[EntrySlot(g_head, j)] = IF j = g_count + 1 THEN Frame ELSE History[j]
      <3>1. g_hist'[EntrySlot(g_head, g_count + 1)] = Frame
        BY <2>1, <2>2, <2>3
      <3>2. \A j \in 1 .. g_count : g_hist'[EntrySlot(g_head, j)] = History[j]
        BY <1>1, <2>1, <2>2, <2>3
      <3>3. \A j \in 1 .. g_count + 1 : j = g_count + 1 \/ (j # g_count + 1 /\ j \in 1 .. g_count)
        BY <1>1
      <3> QED BY <3>1, <3>2, <3>3
    <2>5. History' = [j \in 1 .. g_count + 1 |-> IF j = g_count + 1 THEN Frame ELSE History[j]]
      BY <1>2, <2>2, <2>4
    <2>6. /\ History \in Seq(Recorded) /\ Len(History) = g_count /\ Frame \in Recorded
          /\ HistFrames \in Nat /\ g_count < HistFrames
      BY <1>0, <1>1, <1>5
    <2>7. Undo!Newest(Append(History, Frame), HistFrames)
          = [j \in 1 .. g_count + 1 |-> IF j = g_count + 1 THEN Frame ELSE History[j]]
      BY ONLY <2>6, NewestRoom
    <2> QED BY <2>3, <2>5, <2>7
  <1>6. CASE g_hist # <<>> /\ g_count = HistFrames
    <2> DEFINE next == SlotNo(g_head + 1)
    <2>1. /\ next \in Slots /\ SlotNo(g_head + HistFrames) = g_head
          /\ EntrySlot(next, HistFrames) = g_head
          /\ \A j \in 1 .. HistFrames - 1 :
               /\ EntrySlot(next, j) = EntrySlot(g_head, j + 1)
               /\ EntrySlot(next, j) \in Slots /\ EntrySlot(next, j) # g_head
      BY <1>1, FullSlots
    <2>2. /\ g_hist' = [g_hist EXCEPT ![SlotNo(g_head + g_count)] = Frame]
          /\ g_head' = next /\ g_count' = g_count
      BY <1>6 DEF Push, SlotNo
    <2> HIDE DEF next
    <2>3. g_hist \in [Slots -> Recorded] /\ Depth = HistFrames /\ Depth' = HistFrames
      BY <1>1, <1>4, <1>6, <2>1, <2>2
    <2>4. g_hist' = [g_hist EXCEPT ![g_head] = Frame]
      BY <1>6, <2>1, <2>2
    <2>5. \A j \in 1 .. HistFrames :
            g_hist'[EntrySlot(next, j)] = IF j = HistFrames THEN Frame ELSE History[j + 1]
      <3>1. g_hist'[EntrySlot(next, HistFrames)] = Frame
        BY <1>1, <2>1, <2>3, <2>4
      <3>2. ASSUME NEW j \in 1 .. HistFrames - 1
            PROVE  g_hist'[EntrySlot(next, j)] = History[j + 1]
        <4>1. j + 1 \in 1 .. g_count
          BY <1>1, <1>6
        <4> QED BY <1>1, <2>1, <2>3, <2>4, <4>1
      <3>3. \A j \in 1 .. HistFrames :
              j = HistFrames \/ (j # HistFrames /\ j \in 1 .. HistFrames - 1)
        BY <1>1
      <3> QED BY <3>1, <3>2, <3>3
    <2>6. History' = [j \in 1 .. HistFrames |-> IF j = HistFrames THEN Frame ELSE History[j + 1]]
      BY <1>2, <1>6, <2>2, <2>5
    <2> QED BY <1>0, <1>1, <1>6, <2>3, <2>6, NewestFull
  <1> QED BY <1>1, <1>3, <1>5, <1>6

\* Undoing a step pops the newest register file, or does nothing.
LEMMA RevPops ==
  ASSUME RingInv, RevStep
  PROVE  /\ Depth' = Depth
         /\ IF History = <<>> THEN Frame' = Frame /\ History' = History
            ELSE /\ Frame' = History[Len(History)]
                 /\ History' = SubSeq(History, 1, Len(History) - 1)
  <1>1. /\ History \in Seq(Recorded) /\ Len(History) = g_count /\ g_count \in Nat
        /\ \A j \in 1 .. g_count : History[j] = g_hist[EntrySlot(g_head, j)]
    BY HistoryType
  <1>2. History' = [j \in 1 .. g_count' |-> g_hist'[EntrySlot(g_head', j)]]
    BY DEF History, EntrySlot, SlotNo
  <1>3. g_hist' = g_hist /\ g_head' = g_head /\ Depth' = Depth
    BY DEF RevStep, Depth
  <1>4. CASE g_count = 0
    <2>1. UNCHANGED <<pc, x, g_count>>
      BY <1>4 DEF RevStep
    <2>2. History = <<>> /\ Frame' = Frame /\ History' = History
      BY <1>1, <1>3, <1>4, <2>1 DEF Frame, History
    <2> QED BY <1>3, <2>2
  <1>5. CASE g_count # 0
    <2> DEFINE f == g_hist[SlotNo(g_head + g_count - 1)]
    <2>1. f \in Recorded /\ g_count - 1 \in Nat
      BY <1>5, NewestFrame
    <2>2. /\ pc' = f.pc /\ x' = [r \in Reg |-> IF r = 0 THEN x[0] ELSE f.x[r]]
          /\ g_count' = g_count - 1
      BY <1>5 DEF RevStep, SlotNo
    <2>3. f = History[Len(History)]
      BY <1>1, <2>1 DEF EntrySlot
    <2> HIDE DEF f
    <2>4. Frame' = f
      <3>1. x' = f.x
        BY <2>1, <2>2, Restored DEF RingInv
      <3>2. Frame' = [x |-> f.x, pc |-> f.pc]
        BY <2>2, <3>1 DEF Frame
      <3> QED BY <2>1, <3>2 DEF Recorded
    <2>5. History' = [j \in 1 .. g_count - 1 |-> History[j]]
      BY <1>1, <1>2, <1>3, <2>1, <2>2
    <2>6. SubSeq(History, 1, Len(History) - 1) = [j \in 1 .. g_count - 1 |-> History[j]]
      BY <1>1, <2>1
    <2> QED BY <1>1, <1>3, <1>5, <2>3, <2>4, <2>5, <2>6
  <1> QED BY <1>4, <1>5

\* The promise of reverse execution, said of this ring.
LEMMA UndoSteps ==
  ASSUME UNCHANGED Depth,
         \/ mode \in {"recv", "send"} /\ UNCHANGED History
         \/ mode = "run" /\ History' = Undo!Newest(Append(History, Frame), Depth)
         \/ /\ mode = "rev"
            /\ IF History = <<>> THEN UNCHANGED <<Frame, History>>
               ELSE Frame' = History[Len(History)] /\ History' = SubSeq(History, 1, Len(History) - 1)
         \/ UNCHANGED <<Frame, History, mode>>
  PROVE  [Undo!Next]_(Undo!vars)
  BY DEF Undo!Next, Undo!Poke, Undo!Step, Undo!Undo, Undo!vars, History, Depth, SlotNo

\* Every step of the stub is a step of the bounded history, or none.
LEMMA StepUndo == RingInv /\ [Next]_vars => [Undo!Next]_(Undo!vars)
  <1> SUFFICES ASSUME RingInv, [Next]_vars PROVE [Undo!Next]_(Undo!vars)
    OBVIOUS
  <1>1. ASSUME UNCHANGED ring PROVE UNCHANGED <<History, Depth>>
    BY <1>1 DEF ring, History, Depth
  <1>2. CASE Command
    <2>1. mode = "recv" /\ UNCHANGED ring
      BY <1>2 DEF Command, WriteReg, WriteAll, Resume, Reverse, ResumeAt, Insert, Remove, Query,
                  StartNoAck, Answered, Moving, Packet
    <2> QED BY <1>1, <2>1, UndoSteps
  <1>3. ASSUME NEW o \in Outcomes, RunStep(o) PROVE [Undo!Next]_(Undo!vars)
    <2>1. mode = "run" /\ Push
      BY <1>3 DEF RunStep
    <2> QED BY <2>1, PushHistory, UndoSteps
  <1>4. CASE RevStep
    <2>1. mode = "rev"
      BY <1>4 DEF RevStep
    <2> QED BY <1>4, <2>1, RevPops, UndoSteps
  <1>5. CASE BadPacket \/ Ack \/ Skip \/ Close
    <2>1. mode \in {"recv", "send"} /\ UNCHANGED ring
      BY <1>5 DEF BadPacket, Ack, Skip, Close
    <2> QED BY <1>1, <2>1, UndoSteps
  <1>6. CASE (\E b \in {"int", "other"} : SendByte(b)) \/ Hangup \/ UNCHANGED vars
    <2>1. UNCHANGED <<mode, pc, x>> /\ UNCHANGED ring
      BY <1>6 DEF SendByte, Hangup, guest, vars, ring
    <2>2. UNCHANGED Frame
      BY <2>1 DEF Frame
    <2> QED BY <1>1, <2>1, <2>2, UndoSteps
  <1> QED BY <1>2, <1>3, <1>4, <1>5, <1>6 DEF Next, Serve

\* The ring of register files behaves as a bounded stack across any mix of steps,
\* continues, reverses, register writes and wrap-arounds, at any size.
THEOREM UndoRefined == Spec => ImplementsUndo
  <1>1. Init => RingInv
    <2> SUFFICES ASSUME Init PROVE RingInv
      OBVIOUS
    <2>1. 0 \in Word /\ ResetRegs \in ZeroRegs
      BY AddrModAssumption, LastRegAssumption DEF Word, ResetRegs, ZeroRegs, Regs, Reg
    <2>2. Frame \in Recorded
      BY <2>1 DEF Init, Frame, Recorded
    <2> QED BY <2>1, <2>2, GdbAssumption DEF Init, RingInv, Slots
  <1>2. Init => Undo!Init
    BY GdbAssumption DEF Init, Undo!Init
  <1> QED BY <1>1, <1>2, RingStep, StepUndo, PTL DEF Spec, ImplementsUndo, Undo!Spec
=============================================================================

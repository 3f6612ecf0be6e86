------------------------- MODULE GuestMemoryProofs -------------------------
(***************************************************************************)
(* For every placement and size of the two regions, and every address and  *)
(* length a guest can form, no access leaves the host buffer behind its    *)
(* region and no write reaches the read-only buffer; and two regions that  *)
(* do not overlap, however the buffers, memmove and the byte-by-byte       *)
(* fallback divide the work, behave as one flat array of bytes.            *)
(***************************************************************************)
EXTENDS GuestMemory, WellFoundedInduction, TLAPS

\* The region lengths and the modulus are numbers.
LEMMA RegionTypes == /\ AddrMod \in Nat /\ AddrMod > 0
                     /\ WLen \in Nat /\ RLen \in Nat /\ WBase \in Int /\ RBase \in Int
  <1>1. AddrMod \in Nat /\ AddrMod > 0
    BY ByteModAssumption, AddrModAssumption
  <1> QED BY <1>1, RegionAssumption

\* An offset into a region is a natural number.
LEMMA RelType == ASSUME NEW a \in Int, NEW base \in Int PROVE Rel(a, base) \in Nat
  BY RegionTypes DEF Rel

\* One dereference is safe.
Safe(t) ==
  \/ t.region = "w" /\ t.off + t.n <= WLen
  \/ t.region = "r" /\ t.off + t.n <= RLen /\ ~t.write

\* mem_xlate: a hit of n bytes leaves n bytes in the buffer.
LEMMA XlateSafe ==
  ASSUME NEW a \in Int, NEW n \in Nat, NEW wr \in BOOLEAN, Hit(MemXlate(a, n, wr)),
         NEW t \in Touch(MemXlate(a, n, wr), n, wr)
  PROVE Safe(t)
  <1> DEFINE p == MemXlate(a, n, wr)
  <1>1. t = [region |-> p.region, off |-> p.off, n |-> n, write |-> wr]
    BY DEF Touch
  <1>2. Rel(a, WBase) \in Nat /\ Rel(a, RBase) \in Nat
    BY RelType, RegionTypes
  <1>3. CASE Span(a, n, WBase, WLen)
    BY <1>1, <1>2, <1>3, RegionTypes DEF MemXlate, Span, Safe
  <1>4. CASE ~Span(a, n, WBase, WLen)
    <2>1. ~wr /\ Span(a, n, RBase, RLen)
      BY <1>4 DEF MemXlate, Hit, Miss
    <2> QED BY <1>1, <1>2, <1>4, <2>1, RegionTypes DEF MemXlate, Span, Safe
  <1> QED BY <1>3, <1>4

\* pmo_wspan: avail bytes of the writable buffer follow the pointer.
LEMMA WSpanSafe ==
  ASSUME NEW a \in Int, NEW n \in Nat, n <= PmoWSpan(a).avail, NEW wr \in BOOLEAN,
         NEW t \in Touch(PmoWSpan(a), n, wr)
  PROVE Safe(t)
  <1>1. t = [region |-> PmoWSpan(a).region, off |-> PmoWSpan(a).off, n |-> n, write |-> wr] /\ n > 0
    BY DEF Touch
  <1>2. Rel(a, WBase) \in Nat
    BY RelType, RegionTypes
  <1>3. Rel(a, WBase) < WLen
    BY <1>1 DEF PmoWSpan
  <1> QED BY <1>1, <1>2, <1>3, RegionTypes DEF PmoWSpan, Safe

\* pmo_span: avail bytes of the pointer's buffer follow it.
LEMMA SpanSafe ==
  ASSUME NEW a \in Int, NEW n \in Nat, n <= PmoSpan(a).avail,
         NEW t \in Touch(PmoSpan(a), n, FALSE)
  PROVE Safe(t)
  <1>2. Rel(a, WBase) \in Nat /\ Rel(a, RBase) \in Nat
    BY RelType, RegionTypes
  <1>3. CASE Rel(a, WBase) < WLen
    BY <1>3, WSpanSafe DEF PmoSpan
  <1>4. CASE ~(Rel(a, WBase) < WLen)
    <2>1. t = [region |-> PmoSpan(a).region, off |-> PmoSpan(a).off, n |-> n, write |-> FALSE] /\ n > 0
      BY DEF Touch
    <2>2. Rel(a, RBase) < RLen
      BY <1>4, <2>1 DEF PmoSpan
    <2> QED BY <1>2, <1>4, <2>1, <2>2, RegionTypes DEF PmoSpan, Safe
  <1> QED BY <1>3, <1>4

\* The count left in a span is a natural number, positive on a hit.
LEMMA AvailType ==
  ASSUME NEW a \in Int
  PROVE /\ PmoSpan(a).avail \in Nat /\ PmoWSpan(a).avail \in Nat
        /\ Hit(PmoSpan(a)) => 1 <= PmoSpan(a).avail
        /\ Hit(PmoWSpan(a)) => 1 <= PmoWSpan(a).avail
  <1>1. Rel(a, WBase) \in Nat /\ Rel(a, RBase) \in Nat
    BY RelType, RegionTypes
  <1> QED BY <1>1, RegionTypes DEF PmoSpan, PmoWSpan, Hit

\* The byte-by-byte fallback dereferences one byte of a hit at a time.
LEMMA BytesSafe ==
  ASSUME NEW a \in Int, NEW n \in Nat, NEW wr \in BOOLEAN, NEW t \in BytesTouched(a, n, wr)
  PROVE Safe(t)
  <1> DEFINE span(i) == IF wr THEN PmoWSpan(Plus(a, i)) ELSE PmoSpan(Plus(a, i))
  <1>1. PICK i \in 0 .. (n - 1) : Hit(span(i)) /\ t \in Touch(span(i), 1, wr)
    BY DEF BytesTouched
  <1>2. Plus(a, i) \in Int
    BY RegionTypes DEF Plus
  <1>3. CASE wr
    <2>1. 1 <= PmoWSpan(Plus(a, i)).avail
      BY <1>1, <1>2, <1>3, AvailType
    <2> QED BY <1>1, <1>2, <1>3, <2>1, WSpanSafe
  <1>4. CASE ~wr
    <2>1. 1 <= PmoSpan(Plus(a, i)).avail
      BY <1>1, <1>2, <1>4, AvailType
    <2>2. wr = FALSE
      BY <1>4
    <2> QED BY <1>1, <1>2, <2>1, <2>2, SpanSafe
  <1> QED BY <1>3, <1>4

\* Every memory instruction leaves only safe dereferences.
LEMMA AccessSafe == Access => \A t \in touch' : Safe(t)
  <1> SUFFICES ASSUME Access, NEW t \in touch' PROVE Safe(t)
    OBVIOUS
  <1>0. Addrs \subseteq Int /\ Values \subseteq Int /\ Counts \subseteq Nat
    BY OperandAssumption, RegionTypes
  <1>1. ASSUME NEW a \in Addrs, NEW n \in {1, 2, 4}, NEW sg \in BOOLEAN, NEW z \in BOOLEAN,
               Load(a, n, sg, z)
        PROVE Safe(t)
    <2>1. Hit(MemXlate(a, n, FALSE)) /\ t \in Touch(MemXlate(a, n, FALSE), n, FALSE)
      BY <1>1 DEF Load
    <2> QED BY <1>0, <2>1, XlateSafe
  <1>2. ASSUME NEW a \in Addrs, NEW n \in {1, 2, 4}, NEW v \in Values, Store(a, n, v)
        PROVE Safe(t)
    <2>1. Hit(MemXlate(a, n, TRUE)) /\ t \in Touch(MemXlate(a, n, TRUE), n, TRUE)
      BY <1>2 DEF Store
    <2> QED BY <1>0, <2>1, XlateSafe
  <1>3. ASSUME NEW z \in BOOLEAN, NEW a \in Int, NEW b \in Int, NEW n \in Nat, Memop(z, a, b, n)
        PROVE Safe(t)
    <2>1. CASE Memcpy(a, b, n)
      <3>1. \/ n <= PmoWSpan(a).avail /\ t \in Touch(PmoWSpan(a), n, TRUE)
            \/ n <= PmoSpan(b).avail /\ t \in Touch(PmoSpan(b), n, FALSE)
            \/ t \in BytesTouched(a, n, TRUE)
            \/ t \in BytesTouched(b, n, FALSE)
        BY <2>1 DEF Memcpy
      <3> QED BY <3>1, WSpanSafe, SpanSafe, BytesSafe
    <2>2. CASE Memset(a, b, n)
      <3>1. \/ n <= PmoWSpan(a).avail /\ t \in Touch(PmoWSpan(a), n, TRUE)
            \/ t \in BytesTouched(a, n, TRUE)
        BY <2>2 DEF Memset
      <3>2. ASSUME n <= PmoWSpan(a).avail, t \in Touch(PmoWSpan(a), n, TRUE) PROVE Safe(t)
        BY <3>2, WSpanSafe
      <3> QED BY <3>1, <3>2, BytesSafe
    <2>3. ASSUME NEW op, NEW ends, NEW c \in Nat, Compare(op, ends, z, a, b, c) PROVE Safe(t)
      <3> DEFINE m == Smaller(Smaller(c, PmoSpan(a).avail), PmoSpan(b).avail)
      <3>1. t \in Touch(PmoSpan(a), m, FALSE) \/ t \in Touch(PmoSpan(b), m, FALSE)
        BY <2>3 DEF Compare
      <3>2. m \in Nat /\ m <= PmoSpan(a).avail /\ m <= PmoSpan(b).avail
        BY AvailType DEF Smaller
      <3> HIDE DEF m
      <3> QED BY <3>1, <3>2, SpanSafe
    <2>4. ASSUME NEW op, NEW ends, NEW c \in Nat, Search(op, ends, z, a, b, c) PROVE Safe(t)
      <3> DEFINE m == Smaller(c, PmoSpan(a).avail)
      <3>1. t \in Touch(PmoSpan(a), m, FALSE)
        BY <2>4 DEF Search
      <3>2. m \in Nat /\ m <= PmoSpan(a).avail
        BY AvailType DEF Smaller
      <3> QED BY <3>1, <3>2, SpanSafe
    <2>5. CASE Strlen(z, a)
      <3>1. PICK m \in Nat : m = PmoSpan(a).avail
        BY AvailType
      <3>2. t \in Touch(PmoSpan(a), PmoSpan(a).avail, FALSE)
        BY <2>5 DEF Strlen
      <3>3. t \in Touch(PmoSpan(a), m, FALSE)
        BY <3>1, <3>2, Zenon
      <3>4. m <= PmoSpan(a).avail
        BY <3>1, AvailType
      <3> QED BY <3>3, <3>4, SpanSafe
    <2>6. AddrMod - 1 \in Nat
      BY RegionTypes
    <2> QED BY <1>3, <2>1, <2>2, <2>3, <2>4, <2>5, <2>6 DEF Memop
  <1> QED BY <1>0, <1>1, <1>2, <1>3, OperandAssumption DEF Access

\* No guest access leaves its host buffer or writes the read-only one.
THEOREM HostSafety == Spec => []HostSafe
  <1>1. Init => HostSafe
    BY DEF Init, HostSafe
  <1>2. HostSafe /\ [Next]_vars => HostSafe'
    <2> SUFFICES ASSUME HostSafe, [Next]_vars PROVE HostSafe'
      OBVIOUS
    <2>1. CASE Access
      BY <2>1, AccessSafe DEF HostSafe, Safe
    <2>2. CASE Retire
      BY <2>2 DEF Retire, HostSafe
    <2>3. CASE UNCHANGED vars
      BY <2>3 DEF vars, HostSafe
    <2> QED BY <2>1, <2>2, <2>3 DEF Next
  <1> QED BY <1>1, <1>2, PTL DEF Spec

-----------------------------------------------------------------------------
(* Words and offsets.                                                       *)

\* Reducing a number that is at most one turn away from the words.
LEMMA OneTurn ==
  ASSUME NEW v \in Int
  PROVE /\ v % AddrMod \in Word
        /\ 0 <= v /\ v < AddrMod => v % AddrMod = v
        /\ AddrMod <= v /\ v < 2 * AddrMod => v % AddrMod = v - AddrMod
        /\ -AddrMod <= v /\ v < 0 => v % AddrMod = v + AddrMod
  <1>1. AddrMod \in Nat /\ AddrMod > 0
    BY RegionTypes
  <1>2. v % AddrMod \in Word
    BY <1>1 DEF Word
  <1>3. 0 <= v /\ v < AddrMod => v % AddrMod = v
    BY <1>1
  <1>4. AddrMod <= v /\ v < 2 * AddrMod => v % AddrMod = v - AddrMod
    BY <1>1
  <1>5. -AddrMod <= v /\ v < 0 => v % AddrMod = v + AddrMod
    BY <1>1
  <1> QED BY <1>2, <1>3, <1>4, <1>5

\* Addresses and offsets are each other's inverse.
LEMMA PlusRel ==
  ASSUME NEW a \in Word, NEW b \in Word, NEW j \in Word
  PROVE /\ Rel(a, b) \in Word /\ Plus(b, j) \in Word
        /\ Plus(b, Rel(a, b)) = a
        /\ Rel(Plus(b, j), b) = j
  <1>1. a \in Int /\ b \in Int /\ j \in Int /\ AddrMod \in Nat /\ AddrMod > 0
    BY RegionTypes DEF Word
  <1>2. /\ Rel(a, b) \in Word
        /\ Rel(a, b) = IF a >= b THEN a - b ELSE a - b + AddrMod
    BY <1>1, OneTurn DEF Rel, Word
  <1>3. /\ Plus(b, j) \in Word
        /\ Plus(b, j) = IF b + j < AddrMod THEN b + j ELSE b + j - AddrMod
    BY <1>1, OneTurn DEF Plus, Word
  <1>4. Plus(b, Rel(a, b)) = a
    BY <1>1, <1>2, OneTurn DEF Plus, Word
  <1>5. Rel(Plus(b, j), b) = j
    BY <1>1, <1>3, OneTurn DEF Rel, Word
  <1> QED BY <1>2, <1>3, <1>4, <1>5

\* Inside a region offsets are linear: the byte j behind a, and where b lies
\* from a.
LEMMA RelPlus ==
  ASSUME NEW a \in Word, NEW base \in Word, NEW j \in Nat, Rel(a, base) + j < AddrMod
  PROVE Rel(Plus(a, j), base) = Rel(a, base) + j
  <1>1. a \in Nat /\ base \in Nat /\ a < AddrMod /\ base < AddrMod /\ AddrMod \in Nat
    BY RegionTypes DEF Word
  <1>2. Rel(a, base) = IF a >= base THEN a - base ELSE a - base + AddrMod
    BY <1>1, OneTurn DEF Rel
  <1>3. j < AddrMod
    BY <1>1, <1>2
  <1>4. Plus(a, j) = IF a + j < AddrMod THEN a + j ELSE a + j - AddrMod
    BY <1>1, <1>3, OneTurn DEF Plus
  <1>5. Plus(a, j) \in Nat /\ Plus(a, j) < AddrMod
    BY <1>1, <1>3, <1>4
  <1>6. Rel(Plus(a, j), base) = IF Plus(a, j) >= base THEN Plus(a, j) - base ELSE Plus(a, j) - base + AddrMod
    BY <1>1, <1>5, OneTurn DEF Rel
  <1> QED BY <1>1, <1>2, <1>3, <1>4, <1>6

LEMMA RelWithin ==
  ASSUME NEW a \in Word, NEW b \in Word, NEW base \in Word, NEW n \in Nat,
         Rel(a, base) + n <= AddrMod
  PROVE /\ Rel(b, a) < n => Rel(b, base) = Rel(a, base) + Rel(b, a)
        /\ Rel(a, base) <= Rel(b, base) /\ Rel(b, base) < Rel(a, base) + n
             => Rel(b, a) = Rel(b, base) - Rel(a, base)
  <1>1. /\ a \in Nat /\ b \in Nat /\ base \in Nat /\ AddrMod \in Nat
        /\ a < AddrMod /\ b < AddrMod /\ base < AddrMod
    BY RegionTypes DEF Word
  <1>2. Rel(a, base) = IF a >= base THEN a - base ELSE a - base + AddrMod
    BY <1>1, OneTurn DEF Rel
  <1>3. Rel(b, base) = IF b >= base THEN b - base ELSE b - base + AddrMod
    BY <1>1, OneTurn DEF Rel
  <1>4. Rel(b, a) = IF b >= a THEN b - a ELSE b - a + AddrMod
    BY <1>1, OneTurn DEF Rel
  <1> QED BY <1>1, <1>2, <1>3, <1>4

-----------------------------------------------------------------------------
(* The address space.                                                       *)

Buffers == w \in [0 .. (WLen - 1) -> Byte] /\ r \in [0 .. (RLen - 1) -> Byte]

\* The bases are words, the lengths less than the address space.
LEMMA Regions ==
  /\ WBase \in Word /\ RBase \in Word /\ WLen < AddrMod /\ RLen < AddrMod
  /\ \A a \in Word : Rel(a, WBase) \in Nat /\ Rel(a, RBase) \in Nat
  /\ \A a \in Word : a \in Nat
  <1>1. WBase \in Word /\ RBase \in Word /\ WLen < AddrMod /\ RLen < AddrMod
    BY RegionTypes, RegionAssumption DEF Word
  <1>2. \A a \in Word : a \in Nat
    BY RegionTypes DEF Word
  <1>3. \A a \in Word : Rel(a, WBase) \in Word /\ Rel(a, RBase) \in Word
    BY <1>1, PlusRel
  <1> QED BY <1>1, <1>2, <1>3

\* The byte at a, whatever backs it.
LEMMA ViewAt ==
  ASSUME Buffers, NEW a \in Word
  PROVE /\ Rel(a, WBase) < WLen => View[a] = w[Rel(a, WBase)]
        /\ ~(Rel(a, WBase) < WLen) /\ Rel(a, RBase) < RLen => View[a] = r[Rel(a, RBase)]
        /\ ~(Rel(a, WBase) < WLen) /\ ~(Rel(a, RBase) < RLen) => View[a] = CbWord % ByteMod
  <1>1. Rel(a, WBase) \in Nat /\ Rel(a, RBase) \in Nat
    BY Regions
  <1>2. View[a] = IF Hit(PmoSpan(a)) THEN Deref(w, PmoSpan(a), 0) ELSE CbWord % ByteMod
    BY DEF View
  <1>3. ASSUME Rel(a, WBase) < WLen PROVE View[a] = w[Rel(a, WBase)]
    <2>1. PmoSpan(a) = [region |-> "w", off |-> Rel(a, WBase), avail |-> WLen - Rel(a, WBase)]
      BY <1>3 DEF PmoSpan, PmoWSpan
    <2>2. Rel(a, WBase) + 0 = Rel(a, WBase) /\ Rel(a, WBase) \in 0 .. (WLen - 1)
      BY <1>1, <1>3, RegionTypes
    <2> QED BY <1>2, <2>1, <2>2 DEF Hit, Deref, Buffers
  <1>4. ASSUME ~(Rel(a, WBase) < WLen), Rel(a, RBase) < RLen PROVE View[a] = r[Rel(a, RBase)]
    <2>1. PmoSpan(a) = [region |-> "r", off |-> Rel(a, RBase), avail |-> RLen - Rel(a, RBase)]
      BY <1>4 DEF PmoSpan
    <2>2. Rel(a, RBase) + 0 = Rel(a, RBase) /\ Rel(a, RBase) \in 0 .. (RLen - 1)
      BY <1>1, <1>4, RegionTypes
    <2> QED BY <1>2, <2>1, <2>2 DEF Hit, Deref, Buffers
  <1>5. ~(Rel(a, WBase) < WLen) /\ ~(Rel(a, RBase) < RLen) => ~Hit(PmoSpan(a))
    BY DEF PmoSpan, Hit
  <1> QED BY <1>2, <1>3, <1>4, <1>5

\* Every byte of the address space is a byte.
LEMMA ViewType == ASSUME Buffers PROVE View \in [Word -> Byte]
  <1> SUFFICES ASSUME NEW a \in Word PROVE View[a] \in Byte
    BY DEF View
  <1>1. Rel(a, WBase) \in Nat /\ Rel(a, RBase) \in Nat
    BY Regions
  <1>2. CbWord % ByteMod \in Byte
    BY ByteModAssumption, CbAssumption, RegionTypes DEF Byte
  <1>3. Rel(a, WBase) < WLen => w[Rel(a, WBase)] \in Byte
    BY <1>1, RegionTypes DEF Buffers
  <1>4. Rel(a, RBase) < RLen => r[Rel(a, RBase)] \in Byte
    BY <1>1, RegionTypes DEF Buffers
  <1> QED BY <1>2, <1>3, <1>4, ViewAt

\* What the host pointer p sees j bytes on is the guest's memory at a + j.
LEMMA WindowBytes ==
  ASSUME RegionsApart, Buffers, NEW a \in Word, NEW j \in Nat
  PROVE /\ Rel(a, WBase) + j < WLen =>
             /\ Plus(a, j) \in Word /\ Rel(Plus(a, j), WBase) = Rel(a, WBase) + j
             /\ View[Plus(a, j)] = w[Rel(a, WBase) + j]
        /\ Rel(a, RBase) + j < RLen =>
             /\ Plus(a, j) \in Word /\ Rel(Plus(a, j), RBase) = Rel(a, RBase) + j
             /\ View[Plus(a, j)] = r[Rel(a, RBase) + j]
  <1>1. Rel(a, WBase) \in Nat /\ Rel(a, RBase) \in Nat /\ a \in Int
    BY Regions
  <1>2. Plus(a, j) \in Word
    BY <1>1, OneTurn DEF Plus
  <1>3. ASSUME Rel(a, WBase) + j < WLen PROVE Rel(Plus(a, j), WBase) = Rel(a, WBase) + j
    BY <1>1, <1>3, Regions, RelPlus, RegionTypes
  <1>4. ASSUME Rel(a, RBase) + j < RLen PROVE Rel(Plus(a, j), RBase) = Rel(a, RBase) + j
    BY <1>1, <1>4, Regions, RelPlus, RegionTypes
  <1>5. ASSUME Rel(a, WBase) + j < WLen PROVE View[Plus(a, j)] = w[Rel(a, WBase) + j]
    BY <1>2, <1>3, <1>5, ViewAt
  <1>6. ASSUME Rel(a, RBase) + j < RLen PROVE View[Plus(a, j)] = r[Rel(a, RBase) + j]
    BY <1>2, <1>4, <1>6, ViewAt DEF RegionsApart
  <1> QED BY <1>2, <1>3, <1>4, <1>5, <1>6

\* A pointer from mem_xlate, and one from a span, show the guest's memory.
LEMMA XlateBytes ==
  ASSUME RegionsApart, Buffers, NEW a \in Word, NEW n \in Nat, NEW wr \in BOOLEAN,
         Hit(MemXlate(a, n, wr)), NEW j \in 0 .. (n - 1)
  PROVE Deref(w, MemXlate(a, n, wr), j) = View[Plus(a, j)]
  <1>1. Rel(a, WBase) \in Nat /\ Rel(a, RBase) \in Nat /\ j \in Nat /\ j < n
    BY Regions
  <1>2. CASE Span(a, n, WBase, WLen)
    <2>1. Rel(a, WBase) + j \in 0 .. (WLen - 1)
      BY <1>1, <1>2, RegionTypes DEF Span
    <2>2. Deref(w, MemXlate(a, n, wr), j) = w[Rel(a, WBase) + j]
      BY <1>2, <2>1 DEF MemXlate, Deref, Buffers
    <2>3. Rel(a, WBase) + j < WLen /\ j \in Nat
      BY <1>1, <2>1, RegionTypes
    <2> QED BY <2>2, <2>3, WindowBytes
  <1>3. CASE ~Span(a, n, WBase, WLen)
    <2>1. Span(a, n, RBase, RLen) /\ MemXlate(a, n, wr) = [region |-> "r", off |-> Rel(a, RBase)]
      BY <1>3 DEF MemXlate, Hit, Miss
    <2>2. Rel(a, RBase) + j \in 0 .. (RLen - 1)
      BY <1>1, <2>1, RegionTypes DEF Span
    <2>3. Deref(w, MemXlate(a, n, wr), j) = r[Rel(a, RBase) + j]
      BY <2>1, <2>2 DEF Deref, Buffers
    <2>4. Rel(a, RBase) + j < RLen /\ j \in Nat
      BY <1>1, <2>2, RegionTypes
    <2> QED BY <2>3, <2>4, WindowBytes
  <1> QED BY <1>2, <1>3

LEMMA SpanBytes ==
  ASSUME RegionsApart, Buffers, NEW a \in Word, NEW j \in Nat, j < PmoSpan(a).avail
  PROVE Deref(w, PmoSpan(a), j) = View[Plus(a, j)]
  <1>1. Rel(a, WBase) \in Nat /\ Rel(a, RBase) \in Nat
    BY Regions
  <1>2. CASE Rel(a, WBase) < WLen
    <2>1. PmoSpan(a) = [region |-> "w", off |-> Rel(a, WBase), avail |-> WLen - Rel(a, WBase)]
      BY <1>2 DEF PmoSpan, PmoWSpan
    <2>2. Rel(a, WBase) + j \in 0 .. (WLen - 1)
      BY <1>1, <2>1, RegionTypes
    <2>3. Deref(w, PmoSpan(a), j) = w[Rel(a, WBase) + j]
      BY <2>1, <2>2 DEF Deref, Buffers
    <2>4. Rel(a, WBase) + j < WLen /\ j \in Nat
      BY <1>1, <2>2, RegionTypes
    <2> QED BY <2>3, <2>4, WindowBytes
  <1>3. CASE ~(Rel(a, WBase) < WLen)
    <2>1. PmoSpan(a) = [region |-> "r", off |-> Rel(a, RBase), avail |-> RLen - Rel(a, RBase)]
      BY <1>3 DEF PmoSpan
    <2>2. Rel(a, RBase) + j \in 0 .. (RLen - 1)
      BY <1>1, <2>1, RegionTypes
    <2>3. Deref(w, PmoSpan(a), j) = r[Rel(a, RBase) + j]
      BY <2>1, <2>2 DEF Deref, Buffers
    <2>4. Rel(a, RBase) + j < RLen /\ j \in Nat
      BY <1>1, <2>2, RegionTypes
    <2> QED BY <2>3, <2>4, WindowBytes
  <1> QED BY <1>2, <1>3

-----------------------------------------------------------------------------
(* The flat memory's operators in terms of the regions.                     *)

LEMMA FlatNames ==
  /\ Flat!Word = Word /\ Flat!Byte = Byte
  /\ \A a, j : Flat!Plus(a, j) = Plus(a, j)
  /\ \A a, base : Flat!Rel(a, base) = Rel(a, base)
  /\ \A v, j : Flat!ByteOf(v, j) = StoredByte(v, j)
  BY DEF Flat!Word, Word, Flat!Byte, Byte, Flat!Plus, Plus, Flat!Rel, Rel, Flat!ByteOf,
         StoredByte, Flat!Power, Power

\* A span of n bytes is backed exactly when mem_xlate finds it; one byte, when
\* its span is not empty; and a span holds what is backed.
LEMMA Backing ==
  ASSUME NEW a \in Word, NEW n \in Nat
  PROVE /\ Flat!Writable(a, n) <=> Rel(a, WBase) < WLen /\ Rel(a, WBase) + n <= WLen
        /\ Flat!Writable(a, n) <=> Hit(MemXlate(a, n, TRUE))
        /\ Flat!Readable(a, n) <=> Hit(MemXlate(a, n, FALSE))
        /\ RegionsApart /\ Flat!Readable(a, n) => n <= PmoSpan(a).avail
  <1>1. Rel(a, WBase) \in Nat /\ Rel(a, RBase) \in Nat
    BY Regions
  <1>2. Flat!Writable(a, n) <=> Rel(a, WBase) < WLen /\ Rel(a, WBase) + n <= WLen
    BY FlatNames DEF Flat!Writable, Flat!Inside
  <1>3. Flat!Readable(a, n) <=> \/ Rel(a, WBase) < WLen /\ Rel(a, WBase) + n <= WLen
                                \/ Rel(a, RBase) < RLen /\ Rel(a, RBase) + n <= RLen
    BY <1>2, FlatNames DEF Flat!Readable, Flat!Inside
  <1>4. /\ Span(a, n, WBase, WLen) <=> Rel(a, WBase) < WLen /\ Rel(a, WBase) + n <= WLen
        /\ Span(a, n, RBase, RLen) <=> Rel(a, RBase) < RLen /\ Rel(a, RBase) + n <= RLen
    BY <1>1, RegionTypes DEF Span
  <1>5. Flat!Writable(a, n) <=> Hit(MemXlate(a, n, TRUE))
    BY <1>2, <1>4 DEF MemXlate, Hit, Miss
  <1>6. Flat!Readable(a, n) <=> Hit(MemXlate(a, n, FALSE))
    BY <1>3, <1>4 DEF MemXlate, Hit, Miss
  <1>7. ASSUME RegionsApart, Flat!Readable(a, n) PROVE n <= PmoSpan(a).avail
    <2>1. CASE Rel(a, WBase) < WLen
      <3>1. Rel(a, WBase) + n <= WLen
        BY <1>3, <1>7, <2>1 DEF RegionsApart
      <3>2. PmoSpan(a).avail = WLen - Rel(a, WBase)
        BY <2>1 DEF PmoSpan, PmoWSpan
      <3> QED BY <1>1, <3>1, <3>2, RegionTypes
    <2>2. CASE ~(Rel(a, WBase) < WLen)
      <3>1. Rel(a, RBase) < RLen /\ Rel(a, RBase) + n <= RLen
        BY <1>3, <1>7, <2>2
      <3>2. PmoSpan(a).avail = RLen - Rel(a, RBase)
        BY <2>2, <3>1 DEF PmoSpan
      <3> QED BY <1>1, <3>1, <3>2, RegionTypes
    <2> QED BY <2>1, <2>2
  <1> QED BY <1>2, <1>5, <1>6, <1>7

LEMMA OneByte ==
  ASSUME NEW a \in Word
  PROVE /\ Flat!Writable(a, 1) <=> Rel(a, WBase) < WLen
        /\ Flat!Readable(a, 1) <=> Rel(a, WBase) < WLen \/ Rel(a, RBase) < RLen
        /\ Hit(PmoWSpan(a)) <=> Flat!Writable(a, 1)
        /\ Hit(PmoSpan(a)) <=> Flat!Readable(a, 1)
  <1>1. Rel(a, WBase) \in Nat /\ Rel(a, RBase) \in Nat
    BY Regions
  <1>2. /\ Flat!Writable(a, 1) <=> Rel(a, WBase) < WLen
        /\ Flat!Readable(a, 1) <=> Rel(a, WBase) < WLen \/ Rel(a, RBase) < RLen
    BY <1>1, FlatNames, RegionTypes DEF Flat!Writable, Flat!Readable, Flat!Inside
  <1>3. Hit(PmoWSpan(a)) <=> Rel(a, WBase) < WLen
    BY DEF Hit, PmoWSpan
  <1>4. Hit(PmoSpan(a)) <=> Rel(a, WBase) < WLen \/ Rel(a, RBase) < RLen
    BY DEF Hit, PmoSpan, PmoWSpan
  <1> QED BY <1>2, <1>3, <1>4

\* The bytes of [a, a+n), counted from a, are those at most n from a.
LEMMA RangeOf ==
  ASSUME NEW a \in Word, NEW n \in Word
  PROVE /\ \A j \in 0 .. (n - 1) : Plus(a, j) \in Word /\ Rel(Plus(a, j), a) = j
        /\ \A b \in Word : Rel(b, a) < n => Rel(b, a) \in 0 .. (n - 1) /\ Plus(a, Rel(b, a)) = b
  <1>1. n \in Nat /\ \A j \in 0 .. (n - 1) : j \in Word /\ j < n
    BY RegionTypes DEF Word
  <1>2. \A b \in Word : Rel(b, a) \in Word /\ Rel(b, a) \in Nat
    BY PlusRel, Regions
  <1>3. ASSUME NEW j \in 0 .. (n - 1) PROVE Plus(a, j) \in Word /\ Rel(Plus(a, j), a) = j
    BY <1>1, PlusRel
  <1>4. ASSUME NEW b \in Word, Rel(b, a) < n PROVE Rel(b, a) \in 0 .. (n - 1) /\ Plus(a, Rel(b, a)) = b
    <2>1. Plus(a, Rel(b, a)) = b
      BY PlusRel
    <2> QED BY <1>1, <1>2, <1>4, <2>1
  <1> QED BY <1>3, <1>4

\* The addresses the fallback reports are those of the range that miss.
LEMMA Missed ==
  ASSUME NEW a \in Word, NEW n \in Word
  PROVE /\ {Plus(a, j) : j \in {i \in 0 .. (n - 1) : ~Hit(PmoSpan(Plus(a, i)))}}
             = {b \in Word : Rel(b, a) < n /\ ~Flat!Readable(b, 1)}
        /\ {Plus(a, j) : j \in {i \in 0 .. (n - 1) : ~Hit(PmoWSpan(Plus(a, i)))}}
             = {b \in Word : Rel(b, a) < n /\ ~Flat!Writable(b, 1)}
  <1>1. \A j \in 0 .. (n - 1) : /\ Plus(a, j) \in Word /\ Rel(Plus(a, j), a) < n
                                /\ Hit(PmoSpan(Plus(a, j))) <=> Flat!Readable(Plus(a, j), 1)
                                /\ Hit(PmoWSpan(Plus(a, j))) <=> Flat!Writable(Plus(a, j), 1)
    <2> SUFFICES ASSUME NEW j \in 0 .. (n - 1)
                 PROVE /\ Plus(a, j) \in Word /\ Rel(Plus(a, j), a) < n
                       /\ Hit(PmoSpan(Plus(a, j))) <=> Flat!Readable(Plus(a, j), 1)
                       /\ Hit(PmoWSpan(Plus(a, j))) <=> Flat!Writable(Plus(a, j), 1)
      OBVIOUS
    <2>1. Plus(a, j) \in Word /\ Rel(Plus(a, j), a) = j
      BY RangeOf
    <2>2. j < n
      BY Regions
    <2> QED BY <2>1, <2>2, OneByte
  <1>2. \A b \in Word : Rel(b, a) < n => \E j \in 0 .. (n - 1) : b = Plus(a, j)
    BY RangeOf
  <1> QED BY <1>1, <1>2

-----------------------------------------------------------------------------
(* Writes.                                                                  *)

\* The address space after the writable buffer has become m.
LEMMA ViewNext ==
  ASSUME Buffers, NEW m \in [0 .. (WLen - 1) -> Byte], w' = m, r' = r
  PROVE /\ Buffers'
        /\ View' = [a \in Word |-> IF Rel(a, WBase) < WLen THEN m[Rel(a, WBase)] ELSE View[a]]
  <1>1. Buffers'
    BY DEF Buffers
  <1>2. ASSUME NEW a \in Word
        PROVE View'[a] = IF Rel(a, WBase) < WLen THEN m[Rel(a, WBase)] ELSE View[a]
    <2>1. View'[a] = IF Hit(PmoSpan(a)) THEN Deref(w, PmoSpan(a), 0)' ELSE CbWord % ByteMod
      BY DEF View
    <2>2. View[a] = IF Hit(PmoSpan(a)) THEN Deref(w, PmoSpan(a), 0) ELSE CbWord % ByteMod
      BY DEF View
    <2>3. Rel(a, WBase) \in Nat
      BY Regions
    <2>4. CASE Rel(a, WBase) < WLen
      <3>1. PmoSpan(a) = [region |-> "w", off |-> Rel(a, WBase), avail |-> WLen - Rel(a, WBase)]
        BY <2>4 DEF PmoSpan, PmoWSpan
      <3>2. Rel(a, WBase) + 0 = Rel(a, WBase) /\ Rel(a, WBase) \in DOMAIN m
        BY <2>3, <2>4, RegionTypes
      <3>3. Deref(w, PmoSpan(a), 0)' = m[Rel(a, WBase)]
        BY <3>1, <3>2 DEF Deref
      <3> QED BY <2>1, <2>4, <3>1, <3>3 DEF Hit
    <2>5. CASE ~(Rel(a, WBase) < WLen)
      <3>1. Hit(PmoSpan(a)) => PmoSpan(a).region = "r"
        BY <2>5 DEF PmoSpan, Hit
      <3>2. Hit(PmoSpan(a)) => Deref(w, PmoSpan(a), 0)' = Deref(w, PmoSpan(a), 0)
        BY <3>1 DEF Deref
      <3> QED BY <2>1, <2>2, <2>5, <3>2
    <2> QED BY <2>4, <2>5
  <1> QED BY <1>1, <1>2 DEF View

\* Nothing written.
LEMMA ViewSame == ASSUME Buffers, UNCHANGED <<w, r>> PROVE Buffers' /\ View' = View
  BY DEF Buffers, View, Deref

\* n bytes from a become those of g.
Overwritten(m, o, n, g) == [q \in DOMAIN m |-> IF q >= o /\ q < o + n THEN g[q - o] ELSE m[q]]

LEMMA RangeWrite ==
  ASSUME Buffers, NEW a \in Word, NEW n \in Nat, Rel(a, WBase) + n <= WLen,
         NEW g \in [0 .. (n - 1) -> Byte],
         r' = r, w' = Overwritten(w, Rel(a, WBase), n, g)
  PROVE /\ Buffers'
        /\ \A b \in Word : Rel(b, a) < n => Flat!Writable(b, 1)
        /\ View' = [b \in Word |-> IF Rel(b, a) < n THEN g[Rel(b, a)] ELSE View[b]]
  <1> DEFINE o == Rel(a, WBase)
             m == Overwritten(w, o, n, g)
  <1>1. o \in Nat /\ WLen \in Nat /\ WLen < AddrMod /\ WBase \in Word /\ AddrMod \in Nat
    BY Regions, RegionTypes
  <1>2. m \in [0 .. (WLen - 1) -> Byte]
    BY <1>1 DEF Overwritten, Buffers
  <1>3. \A b \in Word : Rel(b, WBase) \in Nat /\ Rel(b, a) \in Nat
    BY Regions, PlusRel
  <1>4. ASSUME NEW b \in Word
        PROVE /\ Rel(b, a) < n => Rel(b, WBase) = o + Rel(b, a)
              /\ o <= Rel(b, WBase) /\ Rel(b, WBase) < o + n => Rel(b, a) = Rel(b, WBase) - o
    <2>1. o + n <= AddrMod
      BY <1>1
    <2> QED BY <1>1, <2>1, RelWithin
  <1>5. ASSUME NEW b \in Word, Rel(b, a) < n PROVE Flat!Writable(b, 1)
    <2>1. Rel(b, WBase) = o + Rel(b, a)
      BY <1>4, <1>5
    <2>2. Rel(b, WBase) < WLen
      BY <1>1, <1>3, <1>5, <2>1
    <2> QED BY <2>2, OneByte
  <1>6. ASSUME NEW b \in Word
        PROVE (IF Rel(b, WBase) < WLen THEN m[Rel(b, WBase)] ELSE View[b])
                = IF Rel(b, a) < n THEN g[Rel(b, a)] ELSE View[b]
    <2>1. Rel(b, WBase) < WLen => View[b] = w[Rel(b, WBase)] /\ Rel(b, WBase) \in DOMAIN w
      BY <1>1, <1>3, ViewAt DEF Buffers
    <2>2. Rel(b, WBase) < WLen =>
            m[Rel(b, WBase)] = IF Rel(b, WBase) >= o /\ Rel(b, WBase) < o + n
                                 THEN g[Rel(b, WBase) - o] ELSE w[Rel(b, WBase)]
      BY <2>1 DEF Overwritten
    <2>3. CASE Rel(b, a) < n
      <3>1. Rel(b, WBase) = o + Rel(b, a)
        BY <1>4, <2>3
      <3>2. /\ Rel(b, WBase) < WLen /\ Rel(b, WBase) >= o /\ Rel(b, WBase) < o + n
            /\ Rel(b, WBase) - o = Rel(b, a)
        BY <1>1, <1>3, <2>3, <3>1
      <3> QED BY <2>2, <2>3, <3>2
    <2>4. CASE ~(Rel(b, a) < n)
      <3>1. ~(Rel(b, WBase) >= o /\ Rel(b, WBase) < o + n)
        BY <1>1, <1>3, <1>4, <2>4
      <3> QED BY <2>1, <2>2, <2>4, <3>1
    <2> QED BY <2>3, <2>4
  <1> HIDE DEF m
  <1>7. /\ Buffers'
        /\ View' = [b \in Word |-> IF Rel(b, WBase) < WLen THEN m[Rel(b, WBase)] ELSE View[b]]
    <2>1. w' = m
      BY DEF m
    <2> QED BY <1>2, <2>1, ViewNext
  <1> QED BY <1>5, <1>6, <1>7

\* Powers and bytes.
LEMMA Powers ==
  /\ ByteMod \in Nat /\ ByteMod > 1
  /\ Power(0) = 1 /\ Power(1) = ByteMod /\ Power(2) = ByteMod * ByteMod
  /\ Power(3) = ByteMod * ByteMod * ByteMod /\ Power(4) = AddrMod
  /\ \A j \in 0 .. 4 : Power(j) \in Nat /\ Power(j) > 0 /\ Power(j) <= AddrMod
  <1>1. ByteMod \in Nat /\ ByteMod > 1
    BY ByteModAssumption
  <1>2. /\ Power(0) = 1 /\ Power(1) = ByteMod /\ Power(2) = ByteMod * ByteMod
        /\ Power(3) = ByteMod * ByteMod * ByteMod /\ Power(4) = AddrMod
    BY AddrModAssumption DEF Power
  <1> DEFINE m2 == ByteMod * ByteMod
             m3 == ByteMod * ByteMod * ByteMod
  <1>3. m2 \in Nat /\ m2 >= ByteMod
    BY <1>1
  <1>4. m3 \in Nat /\ m3 >= m2
    BY <1>1, <1>3
  <1>5. AddrMod >= m3 /\ AddrMod \in Nat
    <2>1. AddrMod = m3 * ByteMod
      BY AddrModAssumption
    <2>2. \A x, y \in Nat : y > 1 => x * y \in Nat /\ x * y >= x
      OBVIOUS
    <2> HIDE DEF m3
    <2> QED BY <1>1, <1>4, <2>1, <2>2
  <1> HIDE DEF m2, m3
  <1>6. Power(2) = m2 /\ Power(3) = m3
    BY <1>2 DEF m2, m3
  <1>7. \A j \in 0 .. 4 : j = 0 \/ j = 1 \/ j = 2 \/ j = 3 \/ j = 4
    OBVIOUS
  <1>8. \A j \in 0 .. 4 : Power(j) \in Nat /\ Power(j) > 0 /\ Power(j) <= AddrMod
    BY <1>1, <1>2, <1>3, <1>4, <1>5, <1>6, <1>7
  <1> QED BY <1>1, <1>2, <1>8

LEMMA StoredType == ASSUME NEW v \in Nat, NEW j \in 0 .. 3 PROVE StoredByte(v, j) \in Byte
  <1>1. Power(j) \in Nat /\ Power(j) > 0 /\ ByteMod \in Nat /\ ByteMod > 1
    BY Powers
  <1> DEFINE d == Power(j)
  <1> HIDE DEF d
  <1>2. v \div d \in Int
    BY <1>1 DEF d
  <1> QED BY <1>1, <1>2 DEF d, StoredByte, Byte

\* sb, sh, sw
LEMMA StoreRefines ==
  ASSUME Buffers, NEW a \in Word, NEW n \in {1, 2, 4}, NEW v \in Nat, Store(a, n, v)
  PROVE Buffers' /\ Flat!StoreOp(a, n, v)
  <1>1. n \in Nat /\ (Hit(MemXlate(a, n, TRUE)) <=> Flat!Writable(a, n))
    <2>1. n \in Nat
      OBVIOUS
    <2> QED BY <2>1, Backing
  <1>2. CASE Flat!Writable(a, n)
    <2> DEFINE g == [j \in 0 .. (n - 1) |-> StoredByte(v, j)]
    <2>1. g \in [0 .. (n - 1) -> Byte]
      BY StoredType
    <2>2. Rel(a, WBase) < WLen /\ Rel(a, WBase) + n <= WLen /\ Rel(a, WBase) \in Nat
      BY <1>1, <1>2, Backing, Regions
    <2>3. MemXlate(a, n, TRUE).off = Rel(a, WBase)
      BY <1>1, <1>2 DEF MemXlate, Hit, Miss
    <2>4. w' = [o \in DOMAIN w |-> IF o >= Rel(a, WBase) /\ o < Rel(a, WBase) + n
                                     THEN StoredByte(v, o - Rel(a, WBase)) ELSE w[o]]
      BY <1>1, <1>2, <2>3 DEF Store
    <2>5. w' = Overwritten(w, Rel(a, WBase), n, g) /\ r' = r
      <3>1. \A o \in DOMAIN w : o >= Rel(a, WBase) /\ o < Rel(a, WBase) + n
                                  => o - Rel(a, WBase) \in 0 .. (n - 1)
        BY <2>2, RegionTypes DEF Buffers
      <3>2. r' = r
        BY DEF Store
      <3> QED BY <2>4, <3>1, <3>2 DEF Overwritten
    <2> HIDE DEF g
    <2>6. /\ Buffers'
          /\ View' = [b \in Word |-> IF Rel(b, a) < n THEN g[Rel(b, a)] ELSE View[b]]
      BY <1>1, <2>1, <2>2, <2>5, RangeWrite
    <2>7. \A b \in Word : Rel(b, a) < n => g[Rel(b, a)] = StoredByte(v, Rel(b, a))
      <3>1. \A b \in Word : Rel(b, a) \in Nat
        BY PlusRel, Regions
      <3> QED BY <3>1 DEF g
    <2>8. View' = [b \in Word |-> IF Rel(b, a) < n THEN StoredByte(v, Rel(b, a)) ELSE View[b]]
      BY <2>6, <2>7
    <2>9. cb' = {} /\ UNCHANGED res
      BY <1>1, <1>2 DEF Store
    <2> QED BY <1>2, <2>6, <2>8, <2>9, FlatNames DEF Flat!StoreOp
  <1>3. CASE ~Flat!Writable(a, n)
    <2>1. UNCHANGED <<w, r, res>> /\ cb' = {a}
      BY <1>1, <1>3 DEF Store
    <2>2. Buffers' /\ View' = View
      BY <2>1, ViewSame
    <2> QED BY <1>3, <2>1, <2>2 DEF Flat!StoreOp
  <1> QED BY <1>2, <1>3

\* The part of n bytes from a that lies in the writable region becomes that of g.
Reached(m, a, n, g) ==
  [o \in DOMAIN m |-> IF Rel(Plus(WBase, o), a) < n THEN g[Rel(Plus(WBase, o), a)] ELSE m[o]]

\* The offsets of the writable buffer and the addresses they stand for.
LEMMA OffsetAddr ==
  /\ \A o \in 0 .. (WLen - 1) : Plus(WBase, o) \in Word /\ Rel(Plus(WBase, o), WBase) = o
  /\ \A b \in Word : Rel(b, WBase) < WLen =>
                        Rel(b, WBase) \in 0 .. (WLen - 1) /\ Plus(WBase, Rel(b, WBase)) = b
  <1>1. WBase \in Word /\ WLen \in Word
    BY Regions, RegionTypes DEF Word
  <1> QED BY <1>1, RangeOf

LEMMA PartWrite ==
  ASSUME Buffers, NEW a \in Word, NEW n \in Word, NEW g \in [0 .. (n - 1) -> Byte],
         r' = r, w' = Reached(w, a, n, g)
  PROVE /\ Buffers'
        /\ View' = [b \in Word |-> IF Rel(b, a) < n /\ Flat!Writable(b, 1)
                                     THEN g[Rel(b, a)] ELSE View[b]]
  <1> DEFINE m == Reached(w, a, n, g)
  <1>1. ASSUME NEW b \in Word, Rel(b, a) < n PROVE g[Rel(b, a)] \in Byte
    BY <1>1, RangeOf
  <1>2. m \in [0 .. (WLen - 1) -> Byte]
    <2>1. ASSUME NEW o \in 0 .. (WLen - 1) PROVE m[o] \in Byte
      <3>1. Plus(WBase, o) \in Word /\ w[o] \in Byte /\ o \in DOMAIN w
        BY OffsetAddr DEF Buffers
      <3> QED BY <1>1, <3>1 DEF Reached
    <2>2. DOMAIN w = 0 .. (WLen - 1)
      BY DEF Buffers
    <2> QED BY <2>1, <2>2 DEF Reached
  <1>3. ASSUME NEW b \in Word
        PROVE (IF Rel(b, WBase) < WLen THEN m[Rel(b, WBase)] ELSE View[b])
                = IF Rel(b, a) < n /\ Flat!Writable(b, 1) THEN g[Rel(b, a)] ELSE View[b]
    <2>1. Flat!Writable(b, 1) <=> Rel(b, WBase) < WLen
      BY OneByte
    <2>2. CASE Rel(b, WBase) < WLen
      <3>1. /\ Rel(b, WBase) \in DOMAIN w /\ Plus(WBase, Rel(b, WBase)) = b
            /\ View[b] = w[Rel(b, WBase)]
        BY <2>2, OffsetAddr, ViewAt DEF Buffers
      <3>2. m[Rel(b, WBase)] = IF Rel(b, a) < n THEN g[Rel(b, a)] ELSE w[Rel(b, WBase)]
        BY <3>1 DEF Reached
      <3> QED BY <2>1, <2>2, <3>1, <3>2
    <2> QED BY <2>1, <2>2
  <1> HIDE DEF m
  <1>4. w' = m
    BY DEF m
  <1>5. /\ Buffers'
        /\ View' = [b \in Word |-> IF Rel(b, WBase) < WLen THEN m[Rel(b, WBase)] ELSE View[b]]
    BY <1>2, <1>4, ViewNext
  <1> QED BY <1>3, <1>5

\* A span with n bytes left is n bytes of the writable region.
LEMMA WholeSpan ==
  ASSUME NEW a \in Word, NEW n \in Nat, Hit(PmoWSpan(a)), n <= PmoWSpan(a).avail
  PROVE PmoWSpan(a).off = Rel(a, WBase) /\ Rel(a, WBase) + n <= WLen
  <1>1. Rel(a, WBase) < WLen /\ Rel(a, WBase) \in Nat
    BY Regions DEF PmoWSpan, Hit
  <1> QED BY <1>1, RegionTypes DEF PmoWSpan

\* memset
LEMMA MemsetRefines ==
  ASSUME Buffers, NEW a \in Word, NEW c \in Word, NEW n \in Word, Memset(a, c, n)
  PROVE Buffers' /\ Flat!SetOp(a, c, n)
  <1> DEFINE g == [j \in 0 .. (n - 1) |-> c % ByteMod]
             d == PmoWSpan(a)
             fast == Hit(d) /\ n <= d.avail
             hits == {i \in 0 .. (n - 1) : Hit(PmoWSpan(Plus(a, i)))}
  <1>1. n \in Nat /\ c \in Nat /\ r' = r /\ UNCHANGED res
    BY Regions DEF Memset
  <1>2. g \in [0 .. (n - 1) -> Byte]
    BY <1>1, Powers DEF Byte
  <1>3. \A b \in Word : Rel(b, a) < n => g[Rel(b, a)] = c % ByteMod
    BY RangeOf
  <1>4. CASE fast
    <2>1. d.off = Rel(a, WBase) /\ Rel(a, WBase) + n <= WLen /\ Rel(a, WBase) \in Nat
      BY <1>1, <1>4, WholeSpan, Regions
    <2>2. w' = [o \in DOMAIN w |-> IF o >= Rel(a, WBase) /\ o < Rel(a, WBase) + n
                                     THEN c % ByteMod ELSE w[o]]
      BY <1>4, <2>1 DEF Memset
    <2>3. \A o \in DOMAIN w : o >= Rel(a, WBase) /\ o < Rel(a, WBase) + n
                                => o - Rel(a, WBase) \in 0 .. (n - 1)
      BY <1>1, <2>1, RegionTypes DEF Buffers
    <2>4. w' = Overwritten(w, Rel(a, WBase), n, g)
      BY <2>2, <2>3 DEF Overwritten
    <2> HIDE DEF g, d
    <2>5. /\ Buffers'
          /\ \A b \in Word : Rel(b, a) < n => Flat!Writable(b, 1)
          /\ View' = [b \in Word |-> IF Rel(b, a) < n THEN g[Rel(b, a)] ELSE View[b]]
      BY <1>1, <1>2, <2>1, <2>4, RangeWrite
    <2>6. View' = [b \in Word |-> IF Rel(b, a) < n /\ Flat!Writable(b, 1)
                                    THEN c % ByteMod ELSE View[b]]
      BY <1>3, <2>5
    <2>7. cb' = {}
      BY <1>4 DEF Memset, d
    <2>8. {b \in Word : Rel(b, a) < n /\ ~Flat!Writable(b, 1)} = {}
      BY <2>5
    <2> QED BY <1>1, <2>5, <2>6, <2>7, <2>8, FlatNames DEF Flat!SetOp
  <1>5. CASE ~fast
    <2>1. /\ w' = [o \in DOMAIN w |-> IF \E i \in hits : PmoWSpan(Plus(a, i)).off = o
                                        THEN c % ByteMod ELSE w[o]]
          /\ cb' = {Plus(a, j) : j \in (0 .. (n - 1)) \ hits}
      BY <1>5 DEF Memset
    <2>2. ASSUME NEW o \in DOMAIN w
          PROVE (\E i \in hits : PmoWSpan(Plus(a, i)).off = o) <=> Rel(Plus(WBase, o), a) < n
      <3>1. o \in 0 .. (WLen - 1) /\ Plus(WBase, o) \in Word /\ Rel(Plus(WBase, o), WBase) = o
        BY OffsetAddr DEF Buffers
      <3>2. ASSUME NEW i \in hits, PmoWSpan(Plus(a, i)).off = o PROVE Rel(Plus(WBase, o), a) < n
        <4>1. Plus(a, i) \in Word /\ Rel(Plus(a, i), a) = i /\ i < n
          BY <1>1, RangeOf
        <4>2. Rel(Plus(a, i), WBase) = o /\ Rel(Plus(a, i), WBase) < WLen
          BY <3>2 DEF PmoWSpan, Hit
        <4>3. Plus(WBase, o) = Plus(a, i)
          BY <4>1, <4>2, OffsetAddr
        <4> QED BY <4>1, <4>3
      <3>3. ASSUME Rel(Plus(WBase, o), a) < n PROVE \E i \in hits : PmoWSpan(Plus(a, i)).off = o
        <4> DEFINE i == Rel(Plus(WBase, o), a)
        <4>1. i \in 0 .. (n - 1) /\ Plus(a, i) = Plus(WBase, o)
          BY <3>1, <3>3, RangeOf
        <4>2. Rel(Plus(a, i), WBase) = o /\ o < WLen
          BY <3>1, <4>1, RegionTypes
        <4> HIDE DEF i
        <4>3. Hit(PmoWSpan(Plus(a, i))) /\ PmoWSpan(Plus(a, i)).off = o
          BY <4>2 DEF PmoWSpan, Hit
        <4> QED BY <4>1, <4>3
      <3> QED BY <3>2, <3>3
    <2>3. w' = Reached(w, a, n, g)
      <3>1. \A o \in DOMAIN w : Rel(Plus(WBase, o), a) < n => g[Rel(Plus(WBase, o), a)] = c % ByteMod
        BY <1>3, OffsetAddr DEF Buffers
      <3> HIDE DEF g, hits
      <3> QED BY <2>1, <2>2, <3>1 DEF Reached
    <2> HIDE DEF g
    <2>4. /\ Buffers'
          /\ View' = [b \in Word |-> IF Rel(b, a) < n /\ Flat!Writable(b, 1)
                                       THEN g[Rel(b, a)] ELSE View[b]]
      BY <1>1, <1>2, <2>3, PartWrite
    <2>5. View' = [b \in Word |-> IF Rel(b, a) < n /\ Flat!Writable(b, 1)
                                    THEN c % ByteMod ELSE View[b]]
      BY <1>3, <2>4
    <2>6. (0 .. (n - 1)) \ hits = {i \in 0 .. (n - 1) : ~Hit(PmoWSpan(Plus(a, i)))}
      OBVIOUS
    <2>7. cb' = {b \in Word : Rel(b, a) < n /\ ~Flat!Writable(b, 1)}
      BY <2>1, <2>6, Missed
    <2> QED BY <1>1, <2>4, <2>5, <2>7, FlatNames DEF Flat!SetOp
  <1> QED BY <1>4, <1>5

-----------------------------------------------------------------------------
(* Copies.                                                                  *)

\* A set of naturals with 0 and with the successor of each member is all of them.
LEMMA FromZero ==
  ASSUME NEW S, 0 \in S, \A i \in Nat : i \in S => i + 1 \in S
  PROVE Nat \subseteq S
  <1> DEFINE R == {ss \in Nat \X Nat : ss[1] < ss[2]}
             T == Nat \ S
  <1>1. IsWellFoundedOn(R, Nat)
    BY NatLessThanWellFounded, Zenon DEF OpToRel
  <1>2. SUFFICES ASSUME T # {} PROVE FALSE
    OBVIOUS
  <1>3. PICK m \in T : \A y \in T : <<y, m>> \notin R
    <2> HIDE DEF R, T
    <2>1. T \subseteq Nat
      BY DEF T
    <2> QED BY <1>1, <1>2, <2>1, WFMin
  <1>4. m \in Nat \ {0}
    OBVIOUS
  <1>5. m - 1 \in Nat /\ <<m - 1, m>> \in R /\ m - 1 + 1 = m
    BY <1>4
  <1>6. m - 1 \in S
    BY <1>3, <1>5
  <1> QED BY <1>3, <1>5, <1>6

\* The indices copied in i steps, in the order the code picks.
Copied(a, b, n, i) == IF a > b THEN (n - i) .. (n - 1) ELSE 0 .. (i - 1)

\* The writable buffer when the indices in D are copied.
Partly(a, b, D) ==
  [o \in DOMAIN w |-> IF Rel(Plus(WBase, o), a) \in D
                        THEN View[Plus(b, Rel(Plus(WBase, o), a))] ELSE w[o]]

\* Index j is next: its source is none of the bytes copied to at the indices in D.
Intact(n, a, b, D, j) ==
  j \in 0 .. (n - 1) /\ D \subseteq 0 .. (n - 1) /\ \A e \in D : a + e # b + j

\* One byte is added to those copied: its source has not been overwritten.
LEMMA CopyStep ==
  ASSUME RegionsApart, Buffers, NEW a \in Word, NEW b \in Word, NEW n \in Word,
         Unwrapped(a, b, n), NEW D, NEW j, Intact(n, a, b, D, j)
  PROVE CopyByte(Partly(a, b, D), Plus(a, j), Plus(b, j)) = Partly(a, b, D \cup {j})
  <1> DEFINE m == Partly(a, b, D)
             q1 == PmoSpan(Plus(b, j))
             q2 == PmoWSpan(Plus(a, j))
             v == IF Hit(q1) THEN Deref(m, q1, 0) ELSE CbWord
  <1>0. j \in 0 .. (n - 1) /\ D \subseteq 0 .. (n - 1) /\ \A e \in D : a + e # b + j
    BY DEF Intact
  <1>1. /\ Plus(a, j) \in Word /\ Rel(Plus(a, j), a) = j /\ Plus(b, j) \in Word
        /\ DOMAIN w = 0 .. (WLen - 1) /\ DOMAIN m = DOMAIN w
    BY <1>0, RangeOf DEF Buffers, Partly
  <1>2. v % ByteMod = View[Plus(b, j)]
    <2> DEFINE s == Plus(b, j)
               o == Rel(s, WBase)
    <2>1. View[s] \in Byte /\ View[s] % ByteMod = View[s]
      <3>1. View[s] \in Byte
        BY <1>1, ViewType
      <3> QED BY <3>1, Powers DEF Byte
    <2>2. CASE o < WLen
      <3>1. o \in DOMAIN w /\ o + 0 = o /\ Plus(WBase, o) = s
        BY <1>1, <2>2, OffsetAddr
      <3>2. q1 = [region |-> "w", off |-> o, avail |-> WLen - o]
        BY <2>2 DEF PmoSpan, PmoWSpan
      <3>3. Hit(q1) /\ Deref(m, q1, 0) = m[o]
        BY <1>1, <3>1, <3>2 DEF Deref, Hit
      <3>4. Rel(s, a) \notin D
        <4> SUFFICES ASSUME Rel(s, a) \in D PROVE FALSE
          OBVIOUS
        <4> DEFINE e == Rel(s, a)
        <4>1. e \in 0 .. (n - 1) /\ Plus(a, e) = s
          <5>1. e \in 0 .. (n - 1)
            BY <1>0
          <5> QED BY <1>1, <5>1, PlusRel
        <4>2. Hit(PmoWSpan(s))
          BY <2>2 DEF PmoWSpan, Hit
        <4>3. a + e = b + j
          <5>1. Plus(a, e) = Plus(b, j) /\ Hit(PmoWSpan(Plus(a, e)))
            BY <4>1, <4>2
          <5> HIDE DEF e, s, o
          <5> QED BY <1>0, <4>1, <5>1 DEF Unwrapped
        <4> QED BY <1>0, <4>3
      <3>5. m[o] = w[o] /\ View[s] = w[o]
        BY <1>1, <2>2, <3>1, <3>4, ViewAt DEF Partly
      <3> QED BY <2>1, <3>3, <3>5
    <2>3. CASE ~(o < WLen) /\ Rel(s, RBase) < RLen
      <3>1. q1 = [region |-> "r", off |-> Rel(s, RBase), avail |-> RLen - Rel(s, RBase)]
        BY <2>3 DEF PmoSpan
      <3>2. Rel(s, RBase) + 0 = Rel(s, RBase) /\ Rel(s, RBase) \in DOMAIN r
        <4>1. Rel(s, RBase) \in Nat
          BY <1>1, Regions
        <4>2. DOMAIN r = 0 .. (RLen - 1)
          BY DEF Buffers
        <4> QED BY <2>3, <4>1, <4>2, RegionTypes
      <3>3. Hit(q1) /\ Deref(m, q1, 0) = r[Rel(s, RBase)]
        BY <3>1, <3>2 DEF Deref, Hit
      <3> QED BY <1>1, <2>1, <2>3, <3>3, ViewAt
    <2>4. CASE ~(o < WLen) /\ ~(Rel(s, RBase) < RLen)
      <3>1. ~Hit(q1)
        BY <2>4 DEF PmoSpan, Hit
      <3> QED BY <1>1, <2>4, <3>1, ViewAt
    <2> QED BY <2>2, <2>3, <2>4
  <1>3. CopyByte(m, Plus(a, j), Plus(b, j))
          = IF Hit(q2) THEN [m EXCEPT ![q2.off] = View[Plus(b, j)]] ELSE m
    BY <1>2 DEF CopyByte
  <1>4. ASSUME NEW o \in 0 .. (WLen - 1)
        PROVE Rel(Plus(WBase, o), a) = j <=> Hit(q2) /\ q2.off = o
    <2>1. Plus(WBase, o) \in Word /\ Rel(Plus(WBase, o), WBase) = o /\ o < WLen
      BY OffsetAddr, RegionTypes
    <2>2. Rel(Plus(WBase, o), a) = j => Plus(WBase, o) = Plus(a, j)
      BY <2>1, PlusRel
    <2>3. Hit(q2) => q2.off = Rel(Plus(a, j), WBase) /\ Rel(Plus(a, j), WBase) < WLen
      BY DEF PmoWSpan, Hit
    <2>4. Hit(q2) /\ q2.off = o => Plus(WBase, o) = Plus(a, j)
      BY <1>1, <2>3, OffsetAddr
    <2>5. Plus(WBase, o) = Plus(a, j) => Hit(q2) /\ q2.off = o
      BY <2>1 DEF PmoWSpan, Hit
    <2> QED BY <1>1, <2>2, <2>4, <2>5
  <1> DEFINE c == CopyByte(m, Plus(a, j), Plus(b, j))
             p == Partly(a, b, D \cup {j})
  <1>5. ASSUME NEW o \in 0 .. (WLen - 1)
        PROVE (IF Hit(q2) /\ q2.off = o THEN View[Plus(b, j)] ELSE m[o]) = p[o]
    <2>1. o \in DOMAIN w
      BY <1>1
    <2> HIDE DEF q2
    <2> QED BY <1>4, <2>1 DEF Partly
  <1>6. DOMAIN c = DOMAIN w /\ DOMAIN p = DOMAIN w
    BY <1>1, <1>3 DEF Partly
  <1>7. \A o \in DOMAIN w : c[o] = IF Hit(q2) /\ q2.off = o THEN View[Plus(b, j)] ELSE m[o]
    <2> HIDE DEF q2, m, v
    <2> QED BY <1>1, <1>3
  <1>8. \A o \in DOMAIN w : c[o] = p[o]
    BY <1>1, <1>5, <1>7
  <1>9. c = [o \in DOMAIN w |-> c[o]] /\ p = [o \in DOMAIN w |-> p[o]]
    <2>1. p = [o \in DOMAIN w |-> p[o]]
      BY DEF Partly
    <2>2. m = [o \in DOMAIN m |-> m[o]]
      BY DEF Partly
    <2>3. c = [o \in DOMAIN w |-> c[o]]
      <3> HIDE DEF m, q2, v
      <3> QED BY <1>1, <1>3, <2>2
    <2> QED BY <2>1, <2>3
  <1> HIDE DEF c, p, q1, q2, v, m
  <1>10. c = p
    BY <1>8, <1>9
  <1> QED BY <1>10 DEF c, p, m

\* The loop copies every index once, and none before its source is read.
LEMMA CopyLoopIs ==
  ASSUME RegionsApart, Buffers, NEW a \in Word, NEW b \in Word, NEW n \in Word, Unwrapped(a, b, n)
  PROVE CopyLoop(a, b, n) = Partly(a, b, 0 .. (n - 1))
  <1> DEFINE P(i) == Partly(a, b, Copied(a, b, n, i))
             Q(i, m) == LET j == CopyOrder(a, b, n, i - 1)
                        IN CopyByte(m, Plus(a, j), Plus(b, j))
             Is(f) == f = [i \in 0 .. n |-> IF i = 0 THEN w ELSE Q(i, f[i - 1])]
             F == CHOOSE f : Is(f)
  <1>1. n \in Nat /\ a \in Nat /\ b \in Nat
    BY Regions
  <1>2. P(0) = w
    <2>1. Copied(a, b, n, 0) = {}
      BY <1>1 DEF Copied
    <2>2. w = [o \in DOMAIN w |-> w[o]]
      BY DEF Buffers
    <2> QED BY <2>1, <2>2 DEF Partly
  <1>3. ASSUME NEW i \in 1 .. n PROVE Q(i, P(i - 1)) = P(i)
    <2> DEFINE j == CopyOrder(a, b, n, i - 1)
               D == Copied(a, b, n, i - 1)
    <2>1. j \in 0 .. (n - 1) /\ D \subseteq 0 .. (n - 1) /\ D \cup {j} = Copied(a, b, n, i)
      <3>1. CASE a > b
        BY <1>1, <3>1 DEF CopyOrder, Copied
      <3>2. CASE ~(a > b)
        BY <1>1, <3>2 DEF CopyOrder, Copied
      <3> QED BY <3>1, <3>2
    <2>2. Intact(n, a, b, D, j)
      <3>1. CASE a > b
        BY <1>1, <2>1, <3>1 DEF CopyOrder, Copied, Intact
      <3>2. CASE ~(a > b)
        BY <1>1, <2>1, <3>2 DEF CopyOrder, Copied, Intact
      <3> QED BY <3>1, <3>2
    <2> HIDE DEF j, D
    <2>3. CopyByte(Partly(a, b, D), Plus(a, j), Plus(b, j)) = Partly(a, b, D \cup {j})
      BY <2>2, CopyStep
    <2> QED BY <2>1, <2>3 DEF j, D
  <1> HIDE DEF P, Q
  <1>4. \E f : Is(f)
    <2> DEFINE g == [i \in 0 .. n |-> P(i)]
    <2>1. ASSUME NEW i \in 0 .. n PROVE g[i] = IF i = 0 THEN w ELSE Q(i, g[i - 1])
      <3>1. CASE i = 0
        BY <1>2, <3>1
      <3>2. CASE i # 0
        <4>1. i \in 1 .. n /\ i - 1 \in 0 .. n
          BY <1>1, <3>2
        <4> QED BY <1>3, <3>2, <4>1
      <3> QED BY <3>1, <3>2
    <2>2. Is(g)
      BY <2>1
    <2> QED BY <2>2
  <1>5. Is(F)
    <2> HIDE DEF Is
    <2> QED BY <1>4
  <1>6. CopyLoop(a, b, n) = F[n]
    BY DEF CopyLoop, Q
  <1> HIDE DEF F
  <1>7. F[n] = P(n)
    <2> DEFINE S == {i \in Nat : i <= n => F[i] = P(i)}
    <2>1. 0 \in S
      BY <1>1, <1>2, <1>5
    <2>2. ASSUME NEW i \in Nat, i \in S PROVE i + 1 \in S
      <3> SUFFICES ASSUME i + 1 <= n PROVE F[i + 1] = P(i + 1)
        OBVIOUS
      <3>1. i + 1 \in 1 .. n /\ i + 1 \in 0 .. n /\ i + 1 # 0 /\ i + 1 - 1 = i /\ F[i] = P(i)
        BY <1>1, <2>2
      <3>2. \A e \in 0 .. n : F[e] = IF e = 0 THEN w ELSE Q(e, F[e - 1])
        BY <1>5
      <3>3. F[i + 1] = Q(i + 1, F[i + 1 - 1])
        BY <3>1, <3>2
      <3>4. Q(i + 1, P(i + 1 - 1)) = P(i + 1)
        BY <1>3, <3>1
      <3> QED BY <3>1, <3>3, <3>4
    <2>3. Nat \subseteq S
      <3> HIDE DEF S
      <3> QED BY <2>1, <2>2, FromZero
    <2> QED BY <1>1, <2>3
  <1>8. Copied(a, b, n, n) = 0 .. (n - 1)
    BY <1>1 DEF Copied
  <1> QED BY <1>6, <1>7, <1>8 DEF P

\* memcpy: memmove inside the regions, byte by byte across their ends.
LEMMA MemcpyRefines ==
  ASSUME RegionsApart, Buffers, NEW a \in Word, NEW b \in Word, NEW n \in Word,
         Unwrapped(a, b, n), Memcpy(a, b, n)
  PROVE Buffers' /\ Flat!CopyOp(a, b, n)
  <1> DEFINE g == [j \in 0 .. (n - 1) |-> View[Plus(b, j)]]
             d == PmoWSpan(a)
             q == PmoSpan(b)
             fast == Hit(d) /\ Hit(q) /\ n <= d.avail /\ n <= q.avail
  <1>1. n \in Nat /\ r' = r /\ UNCHANGED res
    BY Regions DEF Memcpy
  <1>2. g \in [0 .. (n - 1) -> Byte]
    BY RangeOf, ViewType
  <1>3. \A e \in Word : Rel(e, a) < n => g[Rel(e, a)] = View[Plus(b, Rel(e, a))]
    BY RangeOf
  <1>4. CASE fast
    <2>1. d.off = Rel(a, WBase) /\ Rel(a, WBase) + n <= WLen /\ Rel(a, WBase) \in Nat
      BY <1>1, <1>4, WholeSpan, Regions
    <2>2. w' = [o \in DOMAIN w |-> IF o >= Rel(a, WBase) /\ o < Rel(a, WBase) + n
                                     THEN Deref(w, q, o - Rel(a, WBase)) ELSE w[o]]
      BY <1>4, <2>1 DEF Memcpy
    <2>3. \A o \in DOMAIN w : o >= Rel(a, WBase) /\ o < Rel(a, WBase) + n
                                => o - Rel(a, WBase) \in 0 .. (n - 1)
      BY <1>1, <2>1, RegionTypes DEF Buffers
    <2>4. \A j \in 0 .. (n - 1) : Deref(w, q, j) = g[j]
      <3> SUFFICES ASSUME NEW j \in 0 .. (n - 1) PROVE Deref(w, q, j) = View[Plus(b, j)]
        OBVIOUS
      <3>1. j \in Nat /\ j < q.avail
        <4>1. q.avail \in Nat
          BY AvailType, Regions
        <4> HIDE DEF q
        <4> QED BY <1>1, <1>4, <4>1
      <3> QED BY <3>1, SpanBytes
    <2>5. w' = Overwritten(w, Rel(a, WBase), n, g)
      <3> HIDE DEF g, q
      <3> QED BY <2>2, <2>3, <2>4 DEF Overwritten
    <2> HIDE DEF g, d, q
    <2>6. /\ Buffers'
          /\ \A e \in Word : Rel(e, a) < n => Flat!Writable(e, 1)
          /\ View' = [e \in Word |-> IF Rel(e, a) < n THEN g[Rel(e, a)] ELSE View[e]]
      BY <1>1, <1>2, <2>1, <2>5, RangeWrite
    <2>7. View' = [e \in Word |-> IF Rel(e, a) < n /\ Flat!Writable(e, 1)
                                    THEN View[Plus(b, Rel(e, a))] ELSE View[e]]
      BY <1>3, <2>6
    <2>8. cb' = {}
      BY <1>4 DEF Memcpy, d, q
    <2>9. \A e \in Word : Rel(e, b) < n => Flat!Readable(e, 1)
      <3> SUFFICES ASSUME NEW e \in Word, Rel(e, b) < n PROVE Flat!Readable(e, 1)
        OBVIOUS
      <3> DEFINE j == Rel(e, b)
      <3>1. j \in 0 .. (n - 1) /\ Plus(b, j) = e
        BY RangeOf
      <3>2. Rel(b, WBase) \in Nat /\ Rel(b, RBase) \in Nat
        BY Regions
      <3>3. \/ Rel(b, WBase) < WLen /\ q.avail = WLen - Rel(b, WBase)
            \/ Rel(b, RBase) < RLen /\ q.avail = RLen - Rel(b, RBase)
        BY <1>4 DEF q, PmoSpan, PmoWSpan, Hit
      <3> HIDE DEF j
      <3>4. \/ Rel(b, WBase) + j < WLen \/ Rel(b, RBase) + j < RLen
        BY <1>1, <1>4, <3>1, <3>2, <3>3, RegionTypes
      <3>5. j \in Nat
        BY <3>1
      <3>6. Rel(e, WBase) < WLen \/ Rel(e, RBase) < RLen
        BY <3>1, <3>4, <3>5, WindowBytes
      <3> QED BY <3>6, OneByte
    <2>10. {e \in Word : Rel(e, a) < n /\ ~Flat!Writable(e, 1)} = {}
           /\ {e \in Word : Rel(e, b) < n /\ ~Flat!Readable(e, 1)} = {}
      BY <2>6, <2>9
    <2> QED BY <1>1, <2>6, <2>7, <2>8, <2>10, FlatNames DEF Flat!CopyOp
  <1>5. CASE ~fast
    <2>1. /\ w' = CopyLoop(a, b, n)
          /\ cb' = {Plus(b, j) : j \in {i \in 0 .. (n - 1) : ~Hit(PmoSpan(Plus(b, i)))}}
                   \cup {Plus(a, j) : j \in {i \in 0 .. (n - 1) : ~Hit(PmoWSpan(Plus(a, i)))}}
      BY <1>5 DEF Memcpy
    <2>2. w' = Reached(w, a, n, g)
      <3>1. ASSUME NEW o \in DOMAIN w
            PROVE /\ Rel(Plus(WBase, o), a) \in 0 .. (n - 1) <=> Rel(Plus(WBase, o), a) < n
                  /\ Rel(Plus(WBase, o), a) < n
                       => g[Rel(Plus(WBase, o), a)] = View[Plus(b, Rel(Plus(WBase, o), a))]
        <4>1. Plus(WBase, o) \in Word
          BY OffsetAddr DEF Buffers
        <4>2. Rel(Plus(WBase, o), a) \in Nat
          BY <4>1, PlusRel, Regions
        <4> QED BY <1>1, <1>3, <4>1, <4>2
      <3>2. w' = Partly(a, b, 0 .. (n - 1))
        BY <2>1, CopyLoopIs
      <3> HIDE DEF g
      <3> QED BY <3>1, <3>2 DEF Partly, Reached
    <2> HIDE DEF g
    <2>3. /\ Buffers'
          /\ View' = [e \in Word |-> IF Rel(e, a) < n /\ Flat!Writable(e, 1)
                                       THEN g[Rel(e, a)] ELSE View[e]]
      BY <1>1, <1>2, <2>2, PartWrite
    <2>4. View' = [e \in Word |-> IF Rel(e, a) < n /\ Flat!Writable(e, 1)
                                    THEN View[Plus(b, Rel(e, a))] ELSE View[e]]
      BY <1>3, <2>3
    <2>5. cb' = {e \in Word : Rel(e, b) < n /\ ~Flat!Readable(e, 1)}
                \cup {e \in Word : Rel(e, a) < n /\ ~Flat!Writable(e, 1)}
      BY <2>1, Missed
    <2> QED BY <1>1, <2>3, <2>4, <2>5, FlatNames DEF Flat!CopyOp
  <1> QED BY <1>4, <1>5

-----------------------------------------------------------------------------
(* Loads.                                                                   *)

\* Division undoes a product and a remainder.
LEMMA DivMod ==
  ASSUME NEW d \in Nat, d > 0, NEW q \in Nat, NEW e \in 0 .. (d - 1)
  PROVE (q * d + e) \div d = q /\ (q * d + e) % d = e
  <1> DEFINE s == q * d + e
             k == s \div d
             t == s % d
  <1>1. s \in Nat /\ k \in Int /\ t \in 0 .. (d - 1) /\ s = d * k + t
    OBVIOUS
  <1>2. d * (k - q) = e - t
    BY <1>1
  <1> HIDE DEF k, t, s
  <1>3. k = q
    <2>1. ASSUME k > q PROVE FALSE
      <3>1. d * (k - q) >= d
        BY <1>1, <2>1
      <3> QED BY <1>1, <1>2, <3>1
    <2>2. ASSUME k < q PROVE FALSE
      <3>1. d * (q - k) >= d
        BY <1>1, <2>2
      <3>2. d * (q - k) = t - e
        BY <1>1, <1>2
      <3> QED BY <1>1, <3>1, <3>2
    <2> QED BY <1>1, <2>1, <2>2
  <1>4. t = e
    BY <1>1, <1>2, <1>3
  <1> QED BY <1>3, <1>4 DEF k, t, s

\* A little-endian sum of four bytes, and what its bytes are.
Sum4(b) == b[0] + b[1] * Power(1) + b[2] * Power(2) + b[3] * Power(3)

LEMMA Digits ==
  ASSUME NEW b \in [0 .. 3 -> Byte]
  PROVE /\ Sum4(b) \in Nat
        /\ \A j \in 0 .. 3 : StoredByte(Sum4(b), j) = b[j]
        /\ Sum4(b) < Power(4)
        /\ b[2] = 0 /\ b[3] = 0 => Sum4(b) < Power(2)
        /\ b[1] = 0 /\ b[2] = 0 /\ b[3] = 0 => Sum4(b) < Power(1)
  <1> DEFINE m == ByteMod
             b0 == b[0] b1 == b[1] b2 == b[2] b3 == b[3]
             s == b0 + b1 * m + b2 * (m * m) + b3 * (m * m * m)
             s1 == b1 + b2 * m + b3 * (m * m)
             s2 == b2 + b3 * m
             low2 == b0 + b1 * m
             low3 == b0 + b1 * m + b2 * (m * m)
  <1>1. /\ m \in Nat /\ m > 1 /\ Power(0) = 1 /\ Power(1) = m /\ Power(2) = m * m
        /\ Power(3) = m * m * m /\ Power(4) = m * m * m * m
    BY Powers, AddrModAssumption
  <1>2. b0 \in 0 .. (m - 1) /\ b1 \in 0 .. (m - 1) /\ b2 \in 0 .. (m - 1) /\ b3 \in 0 .. (m - 1)
    BY DEF Byte
  <1>3. Sum4(b) = s
    BY <1>1 DEF Sum4
  <1> HIDE DEF b0, b1, b2, b3, m
  <1> DEFINE mm == m * m
             mmm == m * m * m
  <1>4. mm \in Nat /\ mm > 0 /\ mmm \in Nat /\ mmm > 0 /\ mmm = mm * m /\ mm >= m
    BY <1>1
  <1>5. b1 * m \in Nat /\ b1 * m <= mm - m
    <2>1. (m - 1) * m = mm - m
      BY <1>1
    <2>2. b1 * m <= (m - 1) * m
      BY <1>1, <1>2
    <2>3. b1 * m \in Nat
      BY <1>1, <1>2
    <2> QED BY <2>1, <2>2, <2>3
  <1>6. low2 \in 0 .. (mm - 1)
    BY <1>1, <1>2, <1>4, <1>5
  <1>7. b2 * mm \in Nat /\ b2 * mm <= mmm - mm
    <2>1. (m - 1) * mm = mmm - mm
      BY <1>1, <1>4
    <2> HIDE DEF mm, mmm
    <2>2. b2 * mm <= (m - 1) * mm
      BY <1>1, <1>2, <1>4
    <2>3. b2 * mm \in Nat
      BY <1>1, <1>2, <1>4
    <2> QED BY <2>1, <2>2, <2>3
  <1>8. low3 \in 0 .. (mmm - 1)
    <2>1. low3 = low2 + b2 * mm
      BY <1>1, <1>2
    <2> HIDE DEF low2, low3, mm, mmm
    <2> QED BY <1>4, <1>6, <1>7, <2>1
  <1>9. s1 \in Nat /\ s2 \in Nat
    <2>1. b2 * m \in Nat /\ b3 * m \in Nat /\ b3 * (m * m) \in Nat
      BY <1>1, <1>2
    <2> QED BY <1>2, <2>1
  <1>10. s = s1 * m + b0 /\ s1 = s2 * m + b1 /\ s = s2 * mm + low2 /\ s = b3 * mmm + low3
    BY <1>1, <1>2
  <1>11. b3 * mmm \in Nat /\ b3 * mmm <= m * mmm - mmm
    <2> HIDE DEF mmm
    <2>1. (m - 1) * mmm = m * mmm - mmm
      BY <1>1, <1>4
    <2>2. b3 * mmm <= (m - 1) * mmm
      BY <1>1, <1>2, <1>4
    <2>3. b3 * mmm \in Nat
      BY <1>1, <1>2, <1>4
    <2> QED BY <2>1, <2>2, <2>3
  <1>12. Power(4) = m * mmm
    BY <1>1
  <1>13. /\ b2 = 0 /\ b3 = 0 => s = low2
         /\ b1 = 0 /\ b2 = 0 /\ b3 = 0 => s = b0
    BY <1>1, <1>2
  <1> HIDE DEF s, s1, s2, low2, low3, mm, mmm
  <1>14. s \in Nat /\ s < Power(4)
    <2> DEFINE u == b3 * mmm
               v == m * mmm
    <2>1. u \in Nat /\ u <= v - mmm /\ v \in Nat /\ s = u + low3 /\ Power(4) = v
      BY <1>1, <1>4, <1>10, <1>11, <1>12
    <2> HIDE DEF u, v
    <2> QED BY <1>4, <1>8, <2>1
  <1>15. s % m = b0 /\ s \div m = s1
    BY <1>1, <1>2, <1>9, <1>10, DivMod
  <1>16. s1 % m = b1
    <2>1. (s2 * m + b1) % m = b1
      BY <1>1, <1>2, <1>9, DivMod
    <2> QED BY <1>10, <2>1
  <1>17. s \div mm = s2
    BY <1>4, <1>6, <1>9, <1>10, DivMod
  <1>18. s2 % m = b2
    <2>1. s2 = b3 * m + b2 /\ b3 \in Nat
      BY <1>1, <1>2 DEF s2
    <2> QED BY <1>1, <1>2, <2>1, DivMod
  <1>19. s \div mmm = b3 /\ b3 % m = b3
    <2>1. b3 \in Nat
      BY <1>2
    <2>2. s \div mmm = b3
      BY <1>4, <1>8, <1>10, <2>1, DivMod
    <2> QED BY <1>1, <1>2, <2>2
  <1>20. s \div 1 = s
    BY <1>14
  <1>21. /\ StoredByte(s, 0) = b0 /\ StoredByte(s, 1) = b1
         /\ StoredByte(s, 2) = b2 /\ StoredByte(s, 3) = b3
    <2>1. Power(2) = mm /\ Power(3) = mmm
      BY <1>1 DEF mm, mmm
    <2>2. ByteMod = m
      BY DEF m
    <2> QED BY <1>1, <1>15, <1>16, <1>17, <1>18, <1>19, <1>20, <2>1, <2>2 DEF StoredByte
  <1>22. \A j \in 0 .. 3 : StoredByte(s, j) = b[j]
    <2>1. \A j \in 0 .. 3 : j = 0 \/ j = 1 \/ j = 2 \/ j = 3
      OBVIOUS
    <2> QED BY <1>21, <2>1 DEF b0, b1, b2, b3
  <1>23. /\ b[2] = 0 /\ b[3] = 0 => s < Power(2)
         /\ b[1] = 0 /\ b[2] = 0 /\ b[3] = 0 => s < Power(1)
    <2>1. low2 < Power(2)
      BY <1>1, <1>4, <1>6 DEF mm
    <2>2. b0 < Power(1)
      BY <1>1, <1>2
    <2> QED BY <1>13, <2>1, <2>2 DEF b1, b2, b3
  <1> QED BY <1>3, <1>14, <1>22, <1>23

\* Sign-extension gives a word, and on a value of n bytes it is two's complement.
LEMMA SextIs ==
  ASSUME NEW v \in Nat, NEW n \in {1, 2, 4}
  PROVE /\ Sext(v, n) \in Word /\ v % Power(n) \in Word
        /\ v < Power(n) => Sext(v, n) = Flat!SignExtended(v, n) /\ v % Power(n) = v
  <1> DEFINE d == Power(n)
             low == v % d
  <1>1. d \in Nat /\ d > 0 /\ d <= AddrMod /\ AddrMod \in Nat
    <2>1. n \in 0 .. 4
      OBVIOUS
    <2> QED BY <2>1, Powers, RegionTypes
  <1>2. Flat!Power(n) = d
    BY DEF Flat!Power, Power
  <1>3. Sext(v, n) = IF 2 * low >= d THEN (low + AddrMod - d) % AddrMod ELSE low
    BY DEF Sext
  <1>4. Flat!SignExtended(v, n) = IF 2 * v >= d THEN (v - d) % AddrMod ELSE v
    BY <1>2 DEF Flat!SignExtended
  <1> HIDE DEF d
  <1>5. low \in Nat /\ low < d
    BY <1>1
  <1>6. v < d => low = v
    BY <1>1
  <1> HIDE DEF low
  <1>7. low + AddrMod - d \in Int /\ (low + AddrMod - d) % AddrMod = low + AddrMod - d
        /\ (low + AddrMod - d) % AddrMod \in Word
    BY <1>1, <1>5, OneTurn
  <1>8. low \in Word
    BY <1>1, <1>5 DEF Word
  <1>9. v < d => (v - d) % AddrMod = v - d + AddrMod
    BY <1>1, OneTurn
  <1>10. v < d => Sext(v, n) = Flat!SignExtended(v, n)
    BY <1>1, <1>3, <1>4, <1>6, <1>7, <1>9
  <1> QED BY <1>3, <1>6, <1>7, <1>8, <1>10 DEF d, low

\* lb, lh, lw, lbu, lhu
LEMMA LoadRefines ==
  ASSUME RegionsApart, Buffers, NEW a \in Word, NEW n \in {1, 2, 4}, NEW sg \in BOOLEAN,
         NEW z \in BOOLEAN, Load(a, n, sg, z)
  PROVE Buffers' /\ Flat!LoadOp(a, n, sg, z)
  <1> DEFINE p == MemXlate(a, n, FALSE)
             v == IF Hit(p) THEN ByteSum(p, n) ELSE CbWord
             b == [j \in 0 .. 3 |-> IF j < n THEN Deref(w, p, j) ELSE 0]
  <1>1. n \in Nat /\ (Hit(p) <=> Flat!Readable(a, n)) /\ Flat!Power(n) = Power(n)
    <2>1. n \in Nat
      OBVIOUS
    <2> QED BY <2>1, Backing DEF Flat!Power, Power
  <1>2. /\ res' = IF z THEN res ELSE IF sg THEN Sext(v, n) ELSE v % Power(n)
        /\ cb' = IF z \/ Hit(p) THEN {} ELSE {a}
        /\ UNCHANGED <<w, r>>
    BY DEF Load
  <1>3. Buffers' /\ View' = View
    BY <1>2, ViewSame
  <1>4. ASSUME Hit(p) PROVE /\ v \in Nat /\ v < Power(n)
                            /\ \A j \in 0 .. (n - 1) : Flat!ByteOf(v, j) = View[Flat!Plus(a, j)]
    <2>1. \A j \in 0 .. (n - 1) : j \in 0 .. 3 /\ Deref(w, p, j) = View[Plus(a, j)] /\ View[Plus(a, j)] \in Byte
      <3> SUFFICES ASSUME NEW j \in 0 .. (n - 1)
                   PROVE j \in 0 .. 3 /\ Deref(w, p, j) = View[Plus(a, j)] /\ View[Plus(a, j)] \in Byte
        OBVIOUS
      <3>1. Deref(w, p, j) = View[Plus(a, j)]
        BY <1>1, <1>4, XlateBytes
      <3>2. Plus(a, j) \in Word
        BY Regions, OneTurn DEF Plus
      <3>3. View[Plus(a, j)] \in Byte
        BY <3>2, ViewType
      <3>4. j \in 0 .. 3
        OBVIOUS
      <3> HIDE DEF p
      <3> QED BY <3>1, <3>3, <3>4
    <2>2. b \in [0 .. 3 -> Byte]
      <3>1. 0 \in Byte
        BY Powers DEF Byte
      <3>2. \A j \in 0 .. 3 : j < n => j \in 0 .. (n - 1)
        BY <1>1
      <3> HIDE DEF p
      <3> QED BY <2>1, <3>1, <3>2
    <2>3. v = Sum4(b)
      <3>1. v = (IF 0 < n THEN Deref(w, p, 0) * Power(0) ELSE 0) + (IF 1 < n THEN Deref(w, p, 1) * Power(1) ELSE 0)
                + (IF 2 < n THEN Deref(w, p, 2) * Power(2) ELSE 0) + (IF 3 < n THEN Deref(w, p, 3) * Power(3) ELSE 0)
        BY <1>4 DEF ByteSum
      <3>2. /\ b[0] = IF 0 < n THEN Deref(w, p, 0) ELSE 0
            /\ b[1] = IF 1 < n THEN Deref(w, p, 1) ELSE 0
            /\ b[2] = IF 2 < n THEN Deref(w, p, 2) ELSE 0
            /\ b[3] = IF 3 < n THEN Deref(w, p, 3) ELSE 0
        OBVIOUS
      <3> HIDE DEF b, p, v
      <3>3. \A j \in 0 .. 3 : b[j] \in Nat /\ Power(j) \in Nat
        <4>1. \A j \in 0 .. 3 : b[j] \in Byte /\ j \in 0 .. 4
          BY <2>2
        <4>2. \A j \in 0 .. 4 : Power(j) \in Nat
          BY Powers
        <4>3. Byte \subseteq Nat
          BY Powers DEF Byte
        <4> QED BY <4>1, <4>2, <4>3
      <3>4. Power(0) = 1
        BY Powers
      <3>5. \A j \in 0 .. 3 : 0 * Power(j) = 0
        BY <3>3
      <3>6. /\ (IF 0 < n THEN Deref(w, p, 0) * Power(0) ELSE 0) = b[0]
            /\ (IF 1 < n THEN Deref(w, p, 1) * Power(1) ELSE 0) = b[1] * Power(1)
            /\ (IF 2 < n THEN Deref(w, p, 2) * Power(2) ELSE 0) = b[2] * Power(2)
            /\ (IF 3 < n THEN Deref(w, p, 3) * Power(3) ELSE 0) = b[3] * Power(3)
        BY <1>1, <3>2, <3>3, <3>4, <3>5
      <3> QED BY <3>1, <3>6 DEF Sum4
    <2>4. v < Power(n)
      <3>1. /\ b[1] = IF 1 < n THEN Deref(w, p, 1) ELSE 0
            /\ b[2] = IF 2 < n THEN Deref(w, p, 2) ELSE 0
            /\ b[3] = IF 3 < n THEN Deref(w, p, 3) ELSE 0
        OBVIOUS
      <3> HIDE DEF b, v, p
      <3>2. /\ n = 1 => b[1] = 0 /\ b[2] = 0 /\ b[3] = 0
            /\ n = 2 => b[2] = 0 /\ b[3] = 0
        BY <3>1
      <3> QED BY <2>2, <2>3, <3>2, Digits
    <2>5. v \in Nat /\ \A j \in 0 .. 3 : StoredByte(v, j) = b[j]
      <3> HIDE DEF b, v
      <3> QED BY <2>2, <2>3, Digits
    <2>6. \A j \in 0 .. (n - 1) : b[j] = View[Plus(a, j)]
      <3> HIDE DEF p
      <3> QED BY <1>1, <2>1
    <2> HIDE DEF b, v
    <2> QED BY <2>1, <2>4, <2>5, <2>6, FlatNames
  <1>5. v \in Nat
    <2>1. CbWord \in Nat
      BY CbAssumption, RegionTypes
    <2> HIDE DEF p
    <2> QED BY <1>4, <2>1
  <1> HIDE DEF v, p, b
  <1>6. ~z => res' \in Word
    BY <1>2, <1>5, SextIs
  <1>7. Flat!Readable(a, n) /\ ~z =>
          /\ v \in 0 .. (Flat!Power(n) - 1)
          /\ \A j \in 0 .. (n - 1) : Flat!ByteOf(v, j) = View[Flat!Plus(a, j)]
          /\ res' = IF sg THEN Flat!SignExtended(v, n) ELSE v
    <2> SUFFICES ASSUME Flat!Readable(a, n), ~z
                 PROVE /\ v \in 0 .. (Flat!Power(n) - 1)
                       /\ \A j \in 0 .. (n - 1) : Flat!ByteOf(v, j) = View[Flat!Plus(a, j)]
                       /\ res' = IF sg THEN Flat!SignExtended(v, n) ELSE v
      OBVIOUS
    <2>1. v \in Nat /\ v < Power(n) /\ \A j \in 0 .. (n - 1) : Flat!ByteOf(v, j) = View[Flat!Plus(a, j)]
      BY <1>1, <1>4
    <2>2. Power(n) \in Nat
      <3>1. n \in 0 .. 4
        OBVIOUS
      <3> QED BY <3>1, Powers
    <2>3. Sext(v, n) = Flat!SignExtended(v, n) /\ v % Power(n) = v
      BY <2>1, SextIs
    <2> QED BY <1>1, <1>2, <2>1, <2>2, <2>3
  <1>8. (IF z THEN UNCHANGED res ELSE res' \in Word)
        /\ cb' = IF z \/ Flat!Readable(a, n) THEN {} ELSE {a}
    BY <1>1, <1>2, <1>6
  <1> QED BY <1>3, <1>7, <1>8, FlatNames DEF Flat!LoadOp

-----------------------------------------------------------------------------
(* Comparisons and searches.                                                *)

\* i is the first member of D, or n when there is none.
FirstOf(i, n, D) == IF D = {} THEN i = n ELSE i \in D /\ \A e \in 0 .. (i - 1) : e \notin D

LEMMA FirstExists ==
  ASSUME NEW n \in Nat, NEW D, D \subseteq 0 .. (n - 1)
  PROVE /\ \E i : FirstOf(i, n, D)
        /\ \A i, j : FirstOf(i, n, D) /\ FirstOf(j, n, D) => i = j
        /\ \A i : FirstOf(i, n, D) => i \in 0 .. n /\ (i < n <=> i \in D)
  <1>1. ASSUME NEW i, FirstOf(i, n, D) PROVE i \in 0 .. n /\ (i < n <=> i \in D)
    <2>1. CASE D = {}
      BY <1>1, <2>1 DEF FirstOf
    <2>2. CASE D # {}
      <3>1. i \in D
        BY <1>1, <2>2 DEF FirstOf
      <3>2. i \in 0 .. (n - 1)
        BY <3>1, Zenon
      <3>3. i \in 0 .. n /\ i < n
        BY ONLY n \in Nat, <3>2
      <3> QED BY <3>1, <3>3
    <2> QED BY <2>1, <2>2
  <1>2. ASSUME NEW i, NEW j, FirstOf(i, n, D), FirstOf(j, n, D) PROVE i = j
    <2>1. CASE D = {}
      BY <1>2, <2>1 DEF FirstOf
    <2>2. CASE D # {}
      <3>0. i \in D /\ j \in D
        BY <1>2, <2>2 DEF FirstOf
      <3>1. i \in D /\ j \in D /\ i \in Nat /\ j \in Nat
        <4>1. i \in 0 .. (n - 1) /\ j \in 0 .. (n - 1)
          BY <3>0, Zenon
        <4> QED BY ONLY n \in Nat, <3>0, <4>1
      <3>2. \A e \in 0 .. (i - 1) : e \notin D
        BY <1>2, <2>2 DEF FirstOf
      <3>3. \A e \in 0 .. (j - 1) : e \notin D
        BY <1>2, <2>2 DEF FirstOf
      <3>4. ~(j < i) /\ ~(i < j)
        BY <3>1, <3>2, <3>3
      <3> QED BY <3>1, <3>4
    <2> QED BY <2>1, <2>2
  <1>3. CASE D = {}
    BY <1>1, <1>2, <1>3 DEF FirstOf
  <1>4. CASE D # {}
    <2> DEFINE R == {ss \in Nat \X Nat : ss[1] < ss[2]}
    <2>1. IsWellFoundedOn(R, Nat)
      BY NatLessThanWellFounded, Zenon DEF OpToRel
    <2>2. D \subseteq Nat
      OBVIOUS
    <2>3. PICK i \in D : \A y \in D : <<y, i>> \notin R
      <3> HIDE DEF R
      <3> QED BY <1>4, <2>1, <2>2, WFMin
    <2>4. \A e \in 0 .. (i - 1) : e \notin D
      <3> SUFFICES ASSUME NEW e \in 0 .. (i - 1), e \in D PROVE FALSE
        OBVIOUS
      <3>1. <<e, i>> \in R
        BY <2>2
      <3> QED BY <2>3, <3>1
    <2> QED BY <1>1, <1>2, <1>4, <2>3, <2>4 DEF FirstOf
  <1> QED BY <1>3, <1>4

\* memcmp, strcmp, strncmp
LEMMA CompareRefines ==
  ASSUME RegionsApart, Buffers, NEW op, NEW ends \in BOOLEAN, NEW z, NEW a \in Word, NEW b \in Word,
         NEW count \in Word, Compare(op, ends, z, a, b, count)
  PROVE Buffers' /\ Flat!CompareOp(a, b, count, ends)
  <1> DEFINE p == PmoSpan(a)
             q == PmoSpan(b)
             n == Smaller(Smaller(count, p.avail), q.avail)
             decides(j) == \/ Deref(w, p, j) # Deref(w, q, j)
                           \/ ends /\ Deref(w, p, j) = 0
             i == FirstIndex(n, decides)
             D == {j \in 0 .. (n - 1) : decides(j)}
             x(j) == View[Plus(a, j)]
             y(j) == View[Plus(b, j)]
             settles(j) == x(j) # y(j) \/ (ends /\ x(j) = 0)
  <1>1. /\ res' = IF i < n THEN (Deref(w, p, i) - Deref(w, q, i)) % AddrMod ELSE 0
        /\ cb' = {} /\ UNCHANGED <<w, r>>
    BY DEF Compare, SetRd
  <1>2. Buffers' /\ View' = View
    BY <1>1, ViewSame
  <1>3. count \in Nat /\ p.avail \in Nat /\ q.avail \in Nat /\ n \in Nat
        /\ n <= count /\ n <= p.avail /\ n <= q.avail
        /\ (n = count \/ n = p.avail \/ n = q.avail)
    <2>1. count \in Nat /\ a \in Int /\ b \in Int
      BY Regions
    <2>2. p.avail \in Nat /\ q.avail \in Nat
      BY <2>1, AvailType
    <2> HIDE DEF p, q
    <2> QED BY <2>1, <2>2 DEF Smaller
  <1>4. FirstOf(i, n, D)
    <2>1. i = IF \E j \in 0 .. (n - 1) : decides(j)
                THEN CHOOSE j \in 0 .. (n - 1) : decides(j) /\ \A e \in 0 .. (j - 1) : ~decides(e)
                ELSE n
      BY DEF FirstIndex
    <2> HIDE DEF p, q, n, decides, i
    <2>2. PICK m : FirstOf(m, n, D)
      <3>1. n \in Nat /\ D \subseteq 0 .. (n - 1)
        BY <1>3
      <3> HIDE DEF D
      <3> QED BY ONLY <3>1, FirstExists
    <2>3. CASE D = {}
      BY <2>1, <2>3 DEF FirstOf
    <2>4. CASE D # {}
      <3>1. m \in 0 .. (n - 1) /\ decides(m) /\ \A e \in 0 .. (m - 1) : ~decides(e)
        BY <1>3, <2>2, <2>4 DEF FirstOf
      <3>2. i \in 0 .. (n - 1) /\ decides(i) /\ \A e \in 0 .. (i - 1) : ~decides(e)
        BY <2>1, <3>1
      <3> QED BY <2>4, <3>2 DEF FirstOf
    <2> QED BY <2>3, <2>4
  <1> HIDE DEF i
  <1>5. ASSUME NEW j \in 0 .. (n - 1)
        PROVE Deref(w, p, j) = x(j) /\ Deref(w, q, j) = y(j) /\ x(j) \in Byte /\ y(j) \in Byte
    <2>1. j \in Nat /\ j < p.avail /\ j < q.avail
      <3> HIDE DEF n, p, q
      <3> QED BY <1>3
    <2>2. Plus(a, j) \in Word /\ Plus(b, j) \in Word
      BY <2>1, Regions, OneTurn DEF Plus
    <2>3. Deref(w, p, j) = x(j) /\ Deref(w, q, j) = y(j)
      BY <2>1, SpanBytes
    <2> HIDE DEF p, q, n
    <2> QED BY <2>2, <2>3, ViewType
  <1> HIDE DEF p, q, n
  <1>6. \A j \in 0 .. (n - 1) : j \in D <=> settles(j)
    BY <1>5
  <1>7. i \in 0 .. n /\ (i < n <=> i \in D) /\ D \subseteq 0 .. (n - 1)
    <2>1. D \subseteq 0 .. (n - 1)
      OBVIOUS
    <2> HIDE DEF D
    <2> QED BY <1>3, <1>4, <2>1, FirstExists
  <1> HIDE DEF D
  <1>8. res' = IF i < n THEN (x(i) - y(i)) % AddrMod ELSE 0
    BY <1>1, <1>5, <1>7
  <1>9. res' \in Word
    <2>1. 0 \in Word
      BY RegionTypes DEF Word
    <2>2. CASE i < n
      <3>1. x(i) - y(i) \in Int
        BY <1>5, <1>7, <2>2, Powers DEF Byte
      <3> QED BY <1>8, <2>2, <3>1, OneTurn
    <2> QED BY <1>8, <2>1, <2>2
  <1>10. ASSUME NEW j \in 0 .. (count - 1), settles(j), \A e \in 0 .. (j - 1) : ~settles(e),
                Flat!Readable(a, j + 1), Flat!Readable(b, j + 1)
         PROVE res' = (x(j) - y(j)) % AddrMod
    <2>1. j + 1 <= p.avail /\ j + 1 <= q.avail
      <3>1. j + 1 \in Nat
        BY <1>3
      <3> QED BY <1>10, <3>1, Backing DEF p, q
    <2>2. j \in 0 .. (n - 1)
      BY <1>3, <2>1
    <2>3. \A e \in 0 .. (j - 1) : e \in 0 .. (n - 1) /\ e \notin D
      BY <1>3, <1>6, <1>10, <2>2
    <2>4. j \in D
      BY <1>6, <1>10, <2>2
    <2>5. FirstOf(j, n, D)
      BY <2>3, <2>4 DEF FirstOf
    <2>6. i = j
      BY <1>3, <1>4, <1>7, <2>5, FirstExists
    <2> QED BY <1>8, <2>2, <2>6, <1>3
  <1>11. ASSUME Flat!Readable(a, count), Flat!Readable(b, count), \A j \in 0 .. (count - 1) : ~settles(j)
         PROVE res' = 0
    <2>1. count <= p.avail /\ count <= q.avail
      BY <1>3, <1>11, Backing DEF p, q
    <2>2. n = count
      BY <1>3, <2>1
    <2>3. i \notin D
      BY <1>6, <1>7, <1>11, <2>2
    <2> QED BY <1>7, <1>8, <2>3
  <1> QED BY <1>1, <1>2, <1>9, <1>10, <1>11, FlatNames DEF Flat!CompareOp, Flat!IsFirst

\* memchr, strchr
LEMMA SearchRefines ==
  ASSUME RegionsApart, Buffers, NEW op, NEW ends \in BOOLEAN, NEW z, NEW a \in Word, NEW c \in Word,
         NEW count \in Word, Search(op, ends, z, a, c, count)
  PROVE Buffers' /\ Flat!SearchOp(a, c, count, ends)
  <1> DEFINE p == PmoSpan(a)
             n == Smaller(count, p.avail)
             decides(j) == \/ Deref(w, p, j) = c % ByteMod
                           \/ ends /\ Deref(w, p, j) = 0
             i == FirstIndex(n, decides)
             D == {j \in 0 .. (n - 1) : decides(j)}
             x(j) == View[Plus(a, j)]
             settles(j) == x(j) = c % ByteMod \/ (ends /\ x(j) = 0)
  <1>1. /\ res' = IF i < n /\ Deref(w, p, i) = c % ByteMod THEN Plus(a, i) ELSE 0
        /\ cb' = {} /\ UNCHANGED <<w, r>>
    BY DEF Search, SetRd
  <1>2. Buffers' /\ View' = View
    BY <1>1, ViewSame
  <1>3. count \in Nat /\ p.avail \in Nat /\ n \in Nat /\ n <= count /\ n <= p.avail
        /\ (n = count \/ n = p.avail)
    <2>1. count \in Nat /\ a \in Int
      BY Regions
    <2>2. p.avail \in Nat
      BY <2>1, AvailType
    <2> HIDE DEF p
    <2> QED BY <2>1, <2>2 DEF Smaller
  <1>4. FirstOf(i, n, D)
    <2>1. i = IF \E j \in 0 .. (n - 1) : decides(j)
                THEN CHOOSE j \in 0 .. (n - 1) : decides(j) /\ \A e \in 0 .. (j - 1) : ~decides(e)
                ELSE n
      BY DEF FirstIndex
    <2> HIDE DEF p, n, decides, i
    <2>2. PICK m : FirstOf(m, n, D)
      <3>1. n \in Nat /\ D \subseteq 0 .. (n - 1)
        BY <1>3
      <3> HIDE DEF D
      <3> QED BY ONLY <3>1, FirstExists
    <2>3. CASE D = {}
      BY <2>1, <2>3 DEF FirstOf
    <2>4. CASE D # {}
      <3>1. m \in 0 .. (n - 1) /\ decides(m) /\ \A e \in 0 .. (m - 1) : ~decides(e)
        BY <1>3, <2>2, <2>4 DEF FirstOf
      <3>2. i \in 0 .. (n - 1) /\ decides(i) /\ \A e \in 0 .. (i - 1) : ~decides(e)
        BY <2>1, <3>1
      <3> QED BY <2>4, <3>2 DEF FirstOf
    <2> QED BY <2>3, <2>4
  <1> HIDE DEF i
  <1>5. ASSUME NEW j \in 0 .. (n - 1) PROVE Deref(w, p, j) = x(j) /\ Plus(a, j) \in Word
    <2>1. j \in Nat /\ j < p.avail
      <3> HIDE DEF n, p
      <3> QED BY <1>3
    <2>2. Plus(a, j) \in Word
      BY <2>1, Regions, OneTurn DEF Plus
    <2> QED BY <2>1, <2>2, SpanBytes
  <1> HIDE DEF p, n
  <1>6. \A j \in 0 .. (n - 1) : j \in D <=> settles(j)
    BY <1>5
  <1>7. i \in 0 .. n /\ (i < n <=> i \in D) /\ D \subseteq 0 .. (n - 1)
    <2>1. D \subseteq 0 .. (n - 1)
      OBVIOUS
    <2> HIDE DEF D
    <2> QED BY <1>3, <1>4, <2>1, FirstExists
  <1> HIDE DEF D
  <1>8. res' = IF i < n /\ x(i) = c % ByteMod THEN Plus(a, i) ELSE 0
    BY <1>1, <1>5, <1>7
  <1>9. res' \in Word
    <2>1. 0 \in Word
      BY RegionTypes DEF Word
    <2>2. i < n => Plus(a, i) \in Word
      BY <1>5, <1>7
    <2> QED BY <1>8, <2>1, <2>2
  <1>10. ASSUME NEW j \in 0 .. (count - 1), settles(j), \A e \in 0 .. (j - 1) : ~settles(e),
                Flat!Readable(a, j + 1)
         PROVE res' = IF x(j) = c % ByteMod THEN Plus(a, j) ELSE 0
    <2>1. j + 1 <= p.avail
      <3>1. j + 1 \in Nat
        BY <1>3
      <3> QED BY <1>10, <3>1, Backing DEF p
    <2>2. j \in 0 .. (n - 1)
      BY <1>3, <2>1
    <2>3. \A e \in 0 .. (j - 1) : e \in 0 .. (n - 1) /\ e \notin D
      BY <1>3, <1>6, <1>10, <2>2
    <2>4. j \in D
      BY <1>6, <1>10, <2>2
    <2>5. FirstOf(j, n, D)
      BY <2>3, <2>4 DEF FirstOf
    <2>6. i = j
      BY <1>3, <1>4, <1>7, <2>5, FirstExists
    <2> QED BY <1>3, <1>8, <2>2, <2>6
  <1>11. ASSUME Flat!Readable(a, count), \A j \in 0 .. (count - 1) : ~settles(j)
         PROVE res' = 0
    <2>1. count <= p.avail
      BY <1>3, <1>11, Backing DEF p
    <2>2. n = count
      BY <1>3, <2>1
    <2>3. i \notin D
      BY <1>6, <1>7, <1>11, <2>2
    <2> QED BY <1>7, <1>8, <2>3
  <1> QED BY <1>1, <1>2, <1>9, <1>10, <1>11, FlatNames DEF Flat!SearchOp, Flat!IsFirst

\* strlen
LEMMA StrlenRefines ==
  ASSUME RegionsApart, Buffers, NEW z, NEW a \in Word, Strlen(z, a)
  PROVE Buffers' /\ Flat!LengthOp(a)
  <1> DEFINE p == PmoSpan(a)
             n == p.avail
             ends(j) == Deref(w, p, j) = 0
             i == FirstIndex(n, ends)
             D == {j \in 0 .. (n - 1) : ends(j)}
             x(j) == View[Plus(a, j)]
  <1>1. res' = i /\ cb' = {} /\ UNCHANGED <<w, r>>
    BY DEF Strlen, SetRd
  <1>2. Buffers' /\ View' = View
    BY <1>1, ViewSame
  <1>3. n \in Nat /\ n < AddrMod
    <2>1. a \in Int
      BY Regions
    <2>2. n \in Nat
      BY <2>1, AvailType
    <2>3. Rel(a, WBase) \in Nat /\ Rel(a, RBase) \in Nat
      BY Regions
    <2>4. n < AddrMod
      BY <2>3, Regions, RegionTypes DEF PmoSpan, PmoWSpan
    <2> QED BY <2>2, <2>4
  <1>4. FirstOf(i, n, D)
    <2>1. i = IF \E j \in 0 .. (n - 1) : ends(j)
                THEN CHOOSE j \in 0 .. (n - 1) : ends(j) /\ \A e \in 0 .. (j - 1) : ~ends(e)
                ELSE n
      BY DEF FirstIndex
    <2> HIDE DEF p, n, ends, i
    <2>2. PICK m : FirstOf(m, n, D)
      <3>1. n \in Nat /\ D \subseteq 0 .. (n - 1)
        BY <1>3
      <3> HIDE DEF D
      <3> QED BY ONLY <3>1, FirstExists
    <2>3. CASE D = {}
      BY <2>1, <2>3 DEF FirstOf
    <2>4. CASE D # {}
      <3>1. m \in 0 .. (n - 1) /\ ends(m) /\ \A e \in 0 .. (m - 1) : ~ends(e)
        BY <1>3, <2>2, <2>4 DEF FirstOf
      <3>2. i \in 0 .. (n - 1) /\ ends(i) /\ \A e \in 0 .. (i - 1) : ~ends(e)
        BY <2>1, <3>1
      <3> QED BY <2>4, <3>2 DEF FirstOf
    <2> QED BY <2>3, <2>4
  <1> HIDE DEF i
  <1>5. ASSUME NEW j \in 0 .. (n - 1) PROVE Deref(w, p, j) = x(j)
    <2>1. j \in Nat /\ j < p.avail
      <3> HIDE DEF p
      <3> QED BY <1>3
    <2> QED BY <2>1, SpanBytes
  <1> HIDE DEF p, n
  <1>6. \A j \in 0 .. (n - 1) : j \in D <=> x(j) = 0
    BY <1>5
  <1>7. i \in 0 .. n /\ D \subseteq 0 .. (n - 1)
    <2>1. D \subseteq 0 .. (n - 1)
      OBVIOUS
    <2> HIDE DEF D
    <2> QED BY <1>3, <1>4, <2>1, FirstExists
  <1> HIDE DEF D
  <1>8. res' \in Word
    BY <1>1, <1>3, <1>7, RegionTypes DEF Word
  <1>9. ASSUME NEW j \in 0 .. (AddrMod - 1), x(j) = 0, \A e \in 0 .. (j - 1) : x(e) # 0,
               Flat!Readable(a, j + 1)
        PROVE res' = j
    <2>1. j + 1 <= n
      <3>1. j + 1 \in Nat
        BY RegionTypes
      <3> QED BY <1>9, <3>1, Backing DEF p, n
    <2>2. j \in 0 .. (n - 1)
      BY <1>3, <2>1
    <2>3. \A e \in 0 .. (j - 1) : e \in 0 .. (n - 1) /\ e \notin D
      BY <1>3, <1>6, <1>9, <2>2
    <2>4. j \in D
      BY <1>6, <1>9, <2>2
    <2>5. FirstOf(j, n, D)
      BY <2>3, <2>4 DEF FirstOf
    <2> QED BY <1>1, <1>3, <1>4, <1>7, <2>5, FirstExists
  <1> QED BY <1>1, <1>2, <1>8, <1>9, FlatNames DEF Flat!LengthOp, Flat!IsFirst, Word

-----------------------------------------------------------------------------
(* The refinement.                                                          *)

\* The operands are words.
LEMMA Operands ==
  /\ Addrs \subseteq Word /\ Values \subseteq Word /\ Counts \subseteq Word /\ ZeroRd \subseteq BOOLEAN
  /\ AddrMod - 1 \in Word
  BY OperandAssumption, RegionTypes DEF Word

\* A bulk operation does what the flat memory's operation of that name does.
LEMMA MemopRefines ==
  ASSUME RegionsApart, UnwrappedCopies, Buffers, NEW z \in BOOLEAN, NEW a \in Addrs,
         NEW b \in Addrs \cup Values, NEW n \in Counts, Memop(z, a, b, n)
  PROVE Buffers' /\ Flat!Next
  <1>1. a \in Word /\ b \in Word /\ n \in Word /\ AddrMod - 1 \in Word
    BY Operands
  <1>2. CASE Memcpy(a, b, n)
    <2>1. Unwrapped(a, b, n)
      BY DEF UnwrappedCopies
    <2>2. req' = Request("memcpy", FALSE, a, b, n)
      BY <1>2 DEF Memcpy
    <2>3. Buffers' /\ Flat!CopyOp(a, b, n)
      BY <1>1, <1>2, <2>1, MemcpyRefines
    <2> QED BY <2>2, <2>3 DEF Flat!Next, Request
  <1>3. CASE Memset(a, b, n)
    <2>1. req' = Request("memset", FALSE, a, b, n)
      BY <1>3 DEF Memset
    <2>2. Buffers' /\ Flat!SetOp(a, b, n)
      BY <1>1, <1>3, MemsetRefines
    <2> QED BY <2>1, <2>2 DEF Flat!Next, Request
  <1>4. CASE Compare("memcmp", FALSE, z, a, b, n)
    <2>1. req' = Request("memcmp", z, a, b, n)
      BY <1>4 DEF Compare
    <2>2. Buffers' /\ Flat!CompareOp(a, b, n, FALSE)
      BY <1>1, <1>4, CompareRefines
    <2> QED BY <2>1, <2>2 DEF Flat!Next, Request
  <1>5. CASE Compare("strncmp", TRUE, z, a, b, n)
    <2>1. req' = Request("strncmp", z, a, b, n)
      BY <1>5 DEF Compare
    <2>2. Buffers' /\ Flat!CompareOp(a, b, n, TRUE)
      BY <1>1, <1>5, CompareRefines
    <2> QED BY <2>1, <2>2 DEF Flat!Next, Request
  <1>6. CASE Compare("strcmp", TRUE, z, a, b, AddrMod - 1)
    <2>1. req' = Request("strcmp", z, a, b, AddrMod - 1)
      BY <1>6 DEF Compare
    <2>2. Buffers' /\ Flat!CompareOp(a, b, AddrMod - 1, TRUE)
      BY <1>1, <1>6, CompareRefines
    <2> QED BY <2>1, <2>2 DEF Flat!Next, Request
  <1>7. CASE Search("memchr", FALSE, z, a, b, n)
    <2>1. req' = Request("memchr", z, a, b, n)
      BY <1>7 DEF Search
    <2>2. Buffers' /\ Flat!SearchOp(a, b, n, FALSE)
      BY <1>1, <1>7, SearchRefines
    <2> QED BY <2>1, <2>2 DEF Flat!Next, Request
  <1>8. CASE Search("strchr", TRUE, z, a, b, AddrMod - 1)
    <2>1. req' = Request("strchr", z, a, b, AddrMod - 1)
      BY <1>8 DEF Search
    <2>2. Buffers' /\ Flat!SearchOp(a, b, AddrMod - 1, TRUE)
      BY <1>1, <1>8, SearchRefines
    <2> QED BY <2>1, <2>2 DEF Flat!Next, Request
  <1>9. CASE Strlen(z, a)
    <2>1. req' = Request("strlen", z, a, 0, 0)
      BY <1>9 DEF Strlen
    <2>2. Buffers' /\ Flat!LengthOp(a)
      BY <1>1, <1>9, StrlenRefines
    <2> QED BY <2>1, <2>2 DEF Flat!Next, Request
  <1> QED BY <1>2, <1>3, <1>4, <1>5, <1>6, <1>7, <1>8, <1>9 DEF Memop

\* So does a load or a store.
LEMMA AccessRefines ==
  ASSUME RegionsApart, UnwrappedCopies, Buffers, Access
  PROVE Buffers' /\ Flat!Next
  <1>1. ASSUME NEW a \in Addrs, NEW n \in {1, 2, 4}, NEW sg \in BOOLEAN, NEW z \in BOOLEAN,
               Load(a, n, sg, z)
        PROVE Buffers' /\ Flat!Next
    <2>1. req' = [op |-> IF sg THEN "load" ELSE "loadu", z |-> z, a |-> a, b |-> 0, n |-> n]
      BY <1>1 DEF Load
    <2>2. a \in Word
      BY Operands
    <2>3. Buffers' /\ Flat!LoadOp(a, n, sg, z)
      BY <1>1, <2>2, LoadRefines
    <2>4. CASE sg
      <3>1. Flat!LoadOp(a, n, TRUE, z)
        BY <2>3, <2>4
      <3> QED BY <2>1, <2>3, <2>4, <3>1 DEF Flat!Next
    <2>5. CASE ~sg
      <3>1. Flat!LoadOp(a, n, FALSE, z)
        BY <2>3, <2>5
      <3> QED BY <2>1, <2>3, <2>5, <3>1 DEF Flat!Next
    <2> QED BY <2>4, <2>5
  <1>2. ASSUME NEW a \in Addrs, NEW n \in {1, 2, 4}, NEW v \in Values, Store(a, n, v)
        PROVE Buffers' /\ Flat!Next
    <2>1. req' = [op |-> "store", z |-> FALSE, a |-> a, b |-> v, n |-> n]
      BY <1>2 DEF Store
    <2>2. a \in Word /\ v \in Nat
      BY Operands, Regions
    <2>3. Buffers' /\ Flat!StoreOp(a, n, v)
      BY <1>2, <2>2, StoreRefines
    <2> QED BY <2>1, <2>3 DEF Flat!Next
  <1>3. ASSUME NEW z \in ZeroRd, NEW a \in Addrs, NEW b \in Addrs \cup Values, NEW n \in Counts,
               Memop(z, a, b, n)
        PROVE Buffers' /\ Flat!Next
    <2>1. z \in BOOLEAN
      BY Operands
    <2> QED BY <1>3, <2>1, MemopRefines
  <1>4. \/ \E a \in Addrs, n \in {1, 2, 4}, z \in BOOLEAN : Load(a, n, TRUE, z)
        \/ \E a \in Addrs, n \in {1, 2, 4}, z \in BOOLEAN : Load(a, n, FALSE, z)
        \/ \E a \in Addrs, n \in {1, 2, 4}, v \in Values : Store(a, n, v)
        \/ \E z \in ZeroRd, a \in Addrs, b \in Addrs \cup Values, n \in Counts : Memop(z, a, b, n)
    BY DEF Access
  <1> QED BY <1>1, <1>2, <1>3, <1>4

\* Two host buffers, the region checks, memmove and the byte-by-byte fallback of
\* purvmemop.h implement one flat array of bytes, for every size of byte, pair of
\* disjoint regions, and set of operands.
THEOREM FlatMemoryRefined ==
  ASSUME RegionsApart, UnwrappedCopies
  PROVE Spec => ImplementsFlatMemory
  <1>1. Init => Buffers /\ Flat!Init
    <2> SUFFICES ASSUME Init PROVE Buffers /\ Flat!Init
      OBVIOUS
    <2>1. Buffers
      BY DEF Init, Buffers
    <2> QED BY <2>1, ViewType, FlatNames DEF Init, Flat!Init
  <1>2. Buffers /\ [Next]_vars => Buffers' /\ [Flat!Next]_(Flat!vars)
    <2> SUFFICES ASSUME Buffers, [Next]_vars PROVE Buffers' /\ [Flat!Next]_(Flat!vars)
      OBVIOUS
    <2>1. CASE Access
      BY <2>1, AccessRefines
    <2>2. CASE Retire
      <3>1. Buffers' /\ View' = View
        BY <2>2, ViewSame DEF Retire
      <3>2. req' = NoRequest /\ res' = 0 /\ cb' = {}
        BY <2>2 DEF Retire
      <3> QED BY <3>1, <3>2 DEF Flat!Next, NoRequest, Request
    <2>3. CASE UNCHANGED vars
      <3>1. Buffers' /\ View' = View
        BY <2>3, ViewSame DEF vars
      <3> QED BY <2>3, <3>1 DEF vars, Flat!vars
    <2> QED BY <2>1, <2>2, <2>3 DEF Next
  <1> QED BY <1>1, <1>2, PTL DEF Spec, ImplementsFlatMemory, Flat!Spec
=============================================================================

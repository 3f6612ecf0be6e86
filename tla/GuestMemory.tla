---------------------------- MODULE GuestMemory ----------------------------
(***************************************************************************)
(* Guest memory as the engines implement it: two host buffers, mem_xlate   *)
(* (emu/purv.c), the load and store bodies, and the custom-0 bulk memory   *)
(* instruction of emu/purvmemop.h.  Every address is a 32-bit word and all *)
(* address arithmetic wraps.  Bytes and words are scaled down together:    *)
(* a word is four bytes.                                                   *)
(***************************************************************************)
EXTENDS Integers

CONSTANTS
  ByteMod,     \* values of a byte: 256 in the code
  AddrMod,     \* values of a word: 2^32 in the code
  WBase, WLen, \* s->writable
  RBase, RLen, \* s->readonly
  CbWord,      \* what the host callback delivers for a missed load
  Addrs,       \* the addresses the guest forms
  Values,      \* the register values it stores, sets and searches for
  Counts,      \* the lengths it passes to the bulk operations
  Ops,         \* the operations it performs
  ZeroRd       \* whether a bulk operation may name x0 as its rd

ASSUME ByteModAssumption == ByteMod \in Nat /\ ByteMod > 1
ASSUME AddrModAssumption == AddrMod = ByteMod * ByteMod * ByteMod * ByteMod
ASSUME RegionAssumption ==
  /\ WBase \in 0 .. (AddrMod - 1) /\ WLen \in 0 .. (AddrMod - 1)
  /\ RBase \in 0 .. (AddrMod - 1) /\ RLen \in 0 .. (AddrMod - 1)
ASSUME OperandAssumption ==
  /\ Addrs \subseteq 0 .. (AddrMod - 1) /\ Values \subseteq 0 .. (AddrMod - 1)
  /\ Counts \subseteq 0 .. (AddrMod - 1) /\ ZeroRd \subseteq BOOLEAN
ASSUME CbAssumption == CbWord \in 0 .. (AddrMod - 1)

VARIABLES
  w,    \* the host buffer behind the writable region
  r,    \* the host buffer behind the read-only region
  x0,   \* s->x[0]
  req, res, cb, \* the last operation, its result and its callback addresses
  touch \* the host memory the last operation dereferenced

vars == <<w, r, x0, req, res, cb, touch>>

Byte == 0 .. (ByteMod - 1)
Word == 0 .. (AddrMod - 1)
Plus(a, j) == (a + j) % AddrMod
Rel(a, base) == (a - base) % AddrMod
Power(n) == CASE n = 0 -> 1 [] n = 1 -> ByteMod [] n = 2 -> ByteMod * ByteMod
              [] n = 3 -> ByteMod * ByteMod * ByteMod
              [] n = 4 -> ByteMod * ByteMod * ByteMod * ByteMod

Miss == [region |-> "none", off |-> 0]

\* Mutated form: only the first byte is checked against the region's end.
SpanFirstByte(a, n, base, len) == Rel(a, base) < len

\* rel < len && n <= len - rel
Span(a, n, base, len) == Rel(a, base) < len /\ n <= len - Rel(a, base)

\* mem_xlate: a write tests only the writable span, a read falls through.
MemXlate(a, n, write) ==
  IF Span(a, n, WBase, WLen) THEN [region |-> "w", off |-> Rel(a, WBase)]
  ELSE IF ~write /\ Span(a, n, RBase, RLen) THEN [region |-> "r", off |-> Rel(a, RBase)]
  ELSE Miss

\* The byte at host pointer p + j; beyond its buffer it could be anything.
Deref(m, p, j) ==
  LET buf == IF p.region = "w" THEN m ELSE r
  IN IF p.off + j \in DOMAIN buf THEN buf[p.off + j] ELSE 0

\* A dereference of up to n bytes from host pointer p.
Touch(p, n, write) ==
  IF n > 0 THEN {[region |-> p.region, off |-> p.off, n |-> n, write |-> write]} ELSE {}

\* pmo_span / pmo_wspan: the pointer and the bytes left in its region.
PmoWSpan(a) ==
  IF Rel(a, WBase) < WLen
    THEN [region |-> "w", off |-> Rel(a, WBase), avail |-> WLen - Rel(a, WBase)]
    ELSE [region |-> "none", off |-> 0, avail |-> 0]
PmoSpan(a) ==
  IF Rel(a, WBase) < WLen THEN PmoWSpan(a)
  ELSE IF Rel(a, RBase) < RLen
    THEN [region |-> "r", off |-> Rel(a, RBase), avail |-> RLen - Rel(a, RBase)]
    ELSE [region |-> "none", off |-> 0, avail |-> 0]

Hit(p) == p.region # "none"
Smaller(a, b) == IF a < b THEN a ELSE b

\* sext: the low n bytes of v, sign-extended to a word.
Sext(v, n) ==
  LET low == v % Power(n)
  IN IF 2 * low >= Power(n) THEN (low + AddrMod - Power(n)) % AddrMod ELSE low

ByteSum(p, n) ==
  LET b(j) == IF j < n THEN Deref(w, p, j) * Power(j) ELSE 0
  IN b(0) + b(1) + b(2) + b(3)

\* lb, lh, lw (signed) and lbu, lhu: a load into x0 has no effect.
Load(a, n, signed, z) ==
  LET p == MemXlate(a, n, FALSE)
      v == IF Hit(p) THEN ByteSum(p, n) ELSE CbWord
  IN /\ res' = IF z THEN res ELSE IF signed THEN Sext(v, n) ELSE v % Power(n)
     /\ cb' = IF z \/ Hit(p) THEN {} ELSE {a}
     /\ touch' = IF ~z /\ Hit(p) THEN Touch(p, n, FALSE) ELSE {}
     /\ req' = [op |-> IF signed THEN "load" ELSE "loadu", z |-> z, a |-> a, b |-> 0, n |-> n]
     /\ UNCHANGED <<w, r, x0>>

\* The j-th byte of v.
StoredByte(v, j) == (v \div Power(j)) % ByteMod

\* sb, sh, sw: the low n bytes of v.
Store(a, n, v) ==
  LET p == MemXlate(a, n, TRUE)
  IN /\ w' = IF Hit(p)
               THEN [o \in DOMAIN w |-> IF o >= p.off /\ o < p.off + n
                                          THEN StoredByte(v, o - p.off) ELSE w[o]]
               ELSE w
     /\ cb' = IF Hit(p) THEN {} ELSE {a}
     /\ touch' = IF Hit(p) THEN Touch(p, n, TRUE) ELSE {}
     /\ req' = [op |-> "store", z |-> FALSE, a |-> a, b |-> v, n |-> n]
     /\ UNCHANGED <<r, x0, res>>

-----------------------------------------------------------------------------
(* purv_memop: A = x[rd], B = x[rs1], N = x[rs2].                           *)

Request(op, z, a, b, n) == [op |-> op, z |-> z, a |-> a, b |-> b, n |-> n]

\* s->x[rd] = v, with no guard for x0.
SetRd(z, v) == res' = v /\ x0' = IF z THEN v ELSE x0

\* One byte of the fallback copy: read through a region or the callback, write
\* through the writable region or report to the callback.
CopyByte(m, d, s) ==
  LET q1 == PmoSpan(s)
      q2 == PmoWSpan(d)
      v  == IF Hit(q1) THEN Deref(m, q1, 0) ELSE CbWord
  IN IF Hit(q2) THEN [m EXCEPT ![q2.off] = v % ByteMod] ELSE m

\* What the byte-by-byte fallback dereferences of [a, a+n).
BytesTouched(a, n, write) ==
  LET span(i) == IF write THEN PmoWSpan(Plus(a, i)) ELSE PmoSpan(Plus(a, i))
  IN UNION {Touch(span(i), 1, write) : i \in {j \in 0 .. (n - 1) : Hit(span(j))}}

\* Mutated form: the fallback always copies upwards.
CopyOrderUpwards(a, b, n, i) == i

\* The fallback copies downwards when the destination is above the source.
CopyOrder(a, b, n, i) == IF a > b THEN n - 1 - i ELSE i

\* The byte-by-byte copy after its first i iterations.
CopyLoop(a, b, n) ==
  LET f[i \in 0 .. n] ==
        IF i = 0 THEN w
        ELSE LET j == CopyOrder(a, b, n, i - 1)
             IN CopyByte(f[i - 1], Plus(a, j), Plus(b, j))
  IN f[n]

Memcpy(a, b, n) ==
  LET d == PmoWSpan(a)
      q == PmoSpan(b)
      fast == Hit(d) /\ Hit(q) /\ n <= d.avail /\ n <= q.avail
  IN /\ w' = IF fast   \* memmove
               THEN [o \in DOMAIN w |-> IF o >= d.off /\ o < d.off + n
                                          THEN Deref(w, q, o - d.off) ELSE w[o]]
               ELSE CopyLoop(a, b, n)
     /\ cb' = IF fast THEN {}
              ELSE {Plus(b, j) : j \in {i \in 0 .. (n - 1) : ~Hit(PmoSpan(Plus(b, i)))}}
                   \cup {Plus(a, j) : j \in {i \in 0 .. (n - 1) : ~Hit(PmoWSpan(Plus(a, i)))}}
     /\ touch' = IF fast THEN Touch(d, n, TRUE) \cup Touch(q, n, FALSE)
                 ELSE BytesTouched(a, n, TRUE) \cup BytesTouched(b, n, FALSE)
     /\ req' = Request("memcpy", FALSE, a, b, n)
     /\ UNCHANGED <<r, x0, res>>

Memset(a, c, n) ==
  LET d == PmoWSpan(a)
      fast == Hit(d) /\ n <= d.avail
      hits == {i \in 0 .. (n - 1) : Hit(PmoWSpan(Plus(a, i)))}
  IN /\ w' = IF fast
               THEN [o \in DOMAIN w |-> IF o >= d.off /\ o < d.off + n THEN c % ByteMod ELSE w[o]]
               ELSE [o \in DOMAIN w |-> IF \E i \in hits : PmoWSpan(Plus(a, i)).off = o
                                          THEN c % ByteMod ELSE w[o]]
     /\ cb' = IF fast THEN {} ELSE {Plus(a, j) : j \in (0 .. (n - 1)) \ hits}
     /\ touch' = IF fast THEN Touch(d, n, TRUE) ELSE BytesTouched(a, n, TRUE)
     /\ req' = Request("memset", FALSE, a, c, n)
     /\ UNCHANGED <<r, x0, res>>

\* The first index below n at which P holds, or n.
FirstIndex(n, P(_)) ==
  IF \E j \in 0 .. (n - 1) : P(j)
    THEN CHOOSE j \in 0 .. (n - 1) : P(j) /\ \A i \in 0 .. (j - 1) : ~P(i)
    ELSE n

\* memcmp, strcmp, strncmp: the count is clipped to what both regions hold.
Compare(op, ends, z, a, b, count) ==
  LET p == PmoSpan(a)
      q == PmoSpan(b)
      n == Smaller(Smaller(count, p.avail), q.avail)
      decides(j) == \/ Deref(w, p, j) # Deref(w, q, j)
                    \/ ends /\ Deref(w, p, j) = 0
      i == FirstIndex(n, decides)
  IN /\ SetRd(z, IF i < n THEN (Deref(w, p, i) - Deref(w, q, i)) % AddrMod ELSE 0)
     /\ cb' = {}
     /\ touch' = Touch(p, n, FALSE) \cup Touch(q, n, FALSE)
     /\ req' = Request(op, z, a, b, count)
     /\ UNCHANGED <<w, r>>

\* memchr, strchr
Search(op, ends, z, a, c, count) ==
  LET p == PmoSpan(a)
      n == Smaller(count, p.avail)
      decides(j) == \/ Deref(w, p, j) = c % ByteMod
                    \/ ends /\ Deref(w, p, j) = 0
      i == FirstIndex(n, decides)
  IN /\ SetRd(z, IF i < n /\ Deref(w, p, i) = c % ByteMod THEN Plus(a, i) ELSE 0)
     /\ cb' = {}
     /\ touch' = Touch(p, n, FALSE)
     /\ req' = Request(op, z, a, c, count)
     /\ UNCHANGED <<w, r>>

\* strlen: the terminator, or everything up to the region's end.
Strlen(z, a) ==
  LET p == PmoSpan(a)
      ends(j) == Deref(w, p, j) = 0
  IN /\ SetRd(z, FirstIndex(p.avail, ends))
     /\ cb' = {}
     /\ touch' = Touch(p, p.avail, FALSE)
     /\ req' = Request("strlen", z, a, 0, 0)
     /\ UNCHANGED <<w, r>>

\* The fuel charge of the last bulk operation is not kept: no property needs it.
Memop(z, a, b, n) ==
  \/ "memcpy" \in Ops /\ Memcpy(a, b, n)
  \/ "memset" \in Ops /\ b \in Values /\ Memset(a, b, n)
  \/ "memcmp" \in Ops /\ Compare("memcmp", FALSE, z, a, b, n)
  \/ "strncmp" \in Ops /\ Compare("strncmp", TRUE, z, a, b, n)
  \/ "strcmp" \in Ops /\ Compare("strcmp", TRUE, z, a, b, AddrMod - 1)
  \/ "memchr" \in Ops /\ b \in Values /\ Search("memchr", FALSE, z, a, b, n)
  \/ "strchr" \in Ops /\ b \in Values /\ Search("strchr", TRUE, z, a, b, AddrMod - 1)
  \/ "strlen" \in Ops /\ Strlen(z, a)

NoRequest == Request("none", FALSE, 0, 0, 0)

Init ==
  /\ w \in [0 .. (WLen - 1) -> Byte]
  /\ r \in [0 .. (RLen - 1) -> Byte]
  /\ x0 = 0 /\ req = NoRequest /\ res = 0 /\ cb = {} /\ touch = {}

\* One guest instruction that touches memory.
Access ==
  \/ \E a \in Addrs, n \in {1, 2, 4}, z \in BOOLEAN : "load" \in Ops /\ Load(a, n, TRUE, z)
  \/ \E a \in Addrs, n \in {1, 2}, z \in BOOLEAN : "load" \in Ops /\ Load(a, n, FALSE, z)
  \/ \E a \in Addrs, n \in {1, 2, 4}, v \in Values : "store" \in Ops /\ Store(a, n, v)
  \/ \E z \in ZeroRd, a \in Addrs, b \in Addrs \cup Values, n \in Counts :
       (z => a = x0) /\ Memop(z, a, b, n)

\* The result is consumed and the next instruction begins.
Retire ==
  /\ req # NoRequest
  /\ req' = NoRequest /\ res' = 0 /\ cb' = {} /\ touch' = {}
  /\ UNCHANGED <<w, r, x0>>

Next == (req = NoRequest /\ Access) \/ Retire

Spec == Init /\ [][Next]_vars

-----------------------------------------------------------------------------

\* Whatever addresses and lengths the guest forms, every host dereference
\* stays inside the buffer it points into and no write reaches the read-only
\* one: mem_xlate and the pmo spans are all that stands between the guest and
\* host memory.
HostSafe ==
  \A t \in touch :
    \/ t.region = "w" /\ t.off + t.n <= WLen
    \/ t.region = "r" /\ t.off + t.n <= RLen /\ ~t.write

\* purv.h and README: x[0] reads as zero, the engine never writes it.
X0IsZero == x0 = 0

\* The address space the guest sees: the writable region, then the read-only
\* one, then what the callback delivers.
View == [a \in Word |-> IF Hit(PmoSpan(a)) THEN Deref(w, PmoSpan(a), 0) ELSE CbWord % ByteMod]

Flat == INSTANCE FlatMemory WITH flat <- View

\* Host buffers, region checks, memmove and the byte-by-byte fallback together
\* behave as one flat array of bytes.
ImplementsFlatMemory == Flat!Spec

-----------------------------------------------------------------------------
(* What the refinement asks of the host and of the guest.                   *)

\* No address lies in both regions.
RegionsApart == \A a \in Word : ~(Rel(a, WBase) < WLen /\ Rel(a, RBase) < RLen)

\* Where a copy's destination meets its source in writable memory, neither
\* range has run across the end of the address space: the fallback chooses its
\* direction by comparing the two addresses.
Unwrapped(a, b, n) ==
  \A i, j \in 0 .. (n - 1) :
    Plus(a, j) = Plus(b, i) /\ Hit(PmoWSpan(Plus(a, j))) => a + j = b + i

UnwrappedCopies ==
  \A a \in Addrs, b \in Addrs \cup Values, n \in Counts : Unwrapped(a, b, n)
=============================================================================

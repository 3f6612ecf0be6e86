---------------------------- MODULE FlatMemory -----------------------------
(***************************************************************************)
(* What the engines promise about guest memory, with no host pointers in   *)
(* sight: one flat array of bytes over the whole address space, of which   *)
(* only the writable span ever changes.  A load or store is all or nothing *)
(* (it is backed by one region or goes to the host callback); the bulk     *)
(* instruction computes what the libc call it replaces computes.           *)
(***************************************************************************)
EXTENDS Integers

CONSTANTS
  ByteMod,   \* values of a byte: 256 in the code
  AddrMod,   \* size of the address space: 2^32 in the code
  WBase, WLen, \* the writable region
  RBase, RLen  \* the read-only region

VARIABLES
  flat,  \* the guest's memory, one byte per address
  req,   \* the operation just performed: op, z (rd is x0), a, b, n
  res,   \* what it left in its result register
  cb     \* addresses at which it asked the host callback

vars == <<flat, req, res, cb>>

Byte == 0 .. (ByteMod - 1)
Word == 0 .. (AddrMod - 1)
Plus(a, j) == (a + j) % AddrMod

\* Offset of a from a region's base, as uint32_t.
Rel(a, base) == (a - base) % AddrMod

\* [a, a+n) lies inside the region.
Inside(a, n, base, len) == Rel(a, base) < len /\ Rel(a, base) + n <= len
Writable(a, n) == Inside(a, n, WBase, WLen)
Readable(a, n) == Writable(a, n) \/ Inside(a, n, RBase, RLen)

\* The bytes of a little-endian value.
Power(n) == CASE n = 0 -> 1 [] n = 1 -> ByteMod [] n = 2 -> ByteMod * ByteMod
              [] n = 3 -> ByteMod * ByteMod * ByteMod
              [] n = 4 -> ByteMod * ByteMod * ByteMod * ByteMod
ByteOf(v, j) == (v \div Power(j)) % ByteMod

\* v, an n-byte value, as a two's complement word.
SignExtended(v, n) == IF 2 * v >= Power(n) THEN (v - Power(n)) % AddrMod ELSE v

\* A store happens whole or is handed whole to the callback.
StoreOp(a, n, v) ==
  /\ flat' = IF Writable(a, n)
               THEN [b \in Word |-> IF Rel(b, a) < n THEN ByteOf(v, Rel(b, a)) ELSE flat[b]]
               ELSE flat
  /\ cb' = IF Writable(a, n) THEN {} ELSE {a}
  /\ UNCHANGED res

\* A load delivers the value whose bytes the array holds at a.  A load into
\* x0 has no effect, not even on the callback.
LoadOp(a, n, signed, z) ==
  LET fits(v) == \A j \in 0 .. (n - 1) : ByteOf(v, j) = flat[Plus(a, j)]
  IN /\ UNCHANGED flat
     /\ IF z THEN UNCHANGED res ELSE res' \in Word
     /\ Readable(a, n) /\ ~z =>
          \E v \in 0 .. (Power(n) - 1) :
             fits(v) /\ res' = IF signed THEN SignExtended(v, n) ELSE v
     /\ cb' = IF z \/ Readable(a, n) THEN {} ELSE {a}

\* memcpy and memmove: every writable destination byte gets the old source
\* byte, however the ranges overlap; every byte that is not there is reported.
CopyOp(d, s, n) ==
  /\ flat' = [b \in Word |-> IF Rel(b, d) < n /\ Writable(b, 1)
                               THEN flat[Plus(s, Rel(b, d))] ELSE flat[b]]
  /\ cb' = {b \in Word : Rel(b, s) < n /\ ~Readable(b, 1)}
           \cup {b \in Word : Rel(b, d) < n /\ ~Writable(b, 1)}
  /\ UNCHANGED res

SetOp(d, c, n) ==
  /\ flat' = [b \in Word |-> IF Rel(b, d) < n /\ Writable(b, 1) THEN c % ByteMod ELSE flat[b]]
  /\ cb' = {b \in Word : Rel(b, d) < n /\ ~Writable(b, 1)}
  /\ UNCHANGED res

\* j is the first index below n at which P holds.
IsFirst(j, n, P(_)) == j \in 0 .. (n - 1) /\ P(j) /\ \A i \in 0 .. (j - 1) : ~P(i)

\* A comparison that is decided inside memory backed by the regions leaves the
\* difference of the deciding bytes, or 0 when n bytes agree.  `ends` says
\* whether a common terminator also decides (strcmp, strncmp).
CompareOp(a, b, n, ends) ==
  LET at(p, j) == flat[Plus(p, j)]
      decides(j) == at(a, j) # at(b, j) \/ (ends /\ at(a, j) = 0)
      backed(m) == Readable(a, m) /\ Readable(b, m)
  IN /\ UNCHANGED flat
     /\ cb' = {}
     /\ res' \in Word
     /\ \A j \in 0 .. (n - 1) :
          IsFirst(j, n, decides) /\ backed(j + 1) =>
            res' = (at(a, j) - at(b, j)) % AddrMod
     /\ backed(n) /\ (\A j \in 0 .. (n - 1) : ~decides(j)) => res' = 0

\* A search of [a, a+n) for c; `ends` says whether a terminator before c ends
\* it (strchr).  A decided search leaves the address of c, or 0.
SearchOp(a, c, n, ends) ==
  LET at(j) == flat[Plus(a, j)]
      decides(j) == at(j) = c % ByteMod \/ (ends /\ at(j) = 0)
  IN /\ UNCHANGED flat
     /\ cb' = {}
     /\ res' \in Word
     /\ \A j \in 0 .. (n - 1) :
          IsFirst(j, n, decides) /\ Readable(a, j + 1) =>
            res' = IF at(j) = c % ByteMod THEN Plus(a, j) ELSE 0
     /\ Readable(a, n) /\ (\A j \in 0 .. (n - 1) : ~decides(j)) => res' = 0

\* strlen of a string whose terminator is in its region.
LengthOp(a) ==
  LET ends(j) == flat[Plus(a, j)] = 0
  IN /\ UNCHANGED flat
     /\ cb' = {}
     /\ res' \in Word
     /\ \A j \in Word :
          IsFirst(j, AddrMod, ends) /\ Readable(a, j + 1) => res' = j

Init == flat \in [Word -> Byte] /\ res = 0 /\ cb = {}

\* What the operation named by the request does.
Next ==
  LET r == req' IN
  CASE r.op = "none"    -> res' = 0 /\ cb' = {} /\ UNCHANGED flat
    [] r.op = "store"   -> StoreOp(r.a, r.n, r.b)
    [] r.op = "load"    -> LoadOp(r.a, r.n, TRUE, r.z)
    [] r.op = "loadu"   -> LoadOp(r.a, r.n, FALSE, r.z)
    [] r.op = "memcpy"  -> CopyOp(r.a, r.b, r.n)
    [] r.op = "memset"  -> SetOp(r.a, r.b, r.n)
    [] r.op = "memcmp"  -> CompareOp(r.a, r.b, r.n, FALSE)
    [] r.op = "strncmp" -> CompareOp(r.a, r.b, r.n, TRUE)
    [] r.op = "strcmp"  -> CompareOp(r.a, r.b, AddrMod - 1, TRUE)
    [] r.op = "memchr"  -> SearchOp(r.a, r.b, r.n, FALSE)
    [] r.op = "strchr"  -> SearchOp(r.a, r.b, AddrMod - 1, TRUE)
    [] r.op = "strlen"  -> LengthOp(r.a)

Spec == Init /\ [][Next]_vars
=============================================================================

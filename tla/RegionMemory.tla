---------------------------- MODULE RegionMemory ---------------------------
(***************************************************************************)
(* mem_w, mem_r, ld_le and st_le of emu/purva/purva.c as operators on the  *)
(* writable buffer m.  A word is four bytes, little-endian.  Loads from    *)
(* the read-only region are left out: GuestMemory covers them.             *)
(***************************************************************************)
EXTENDS Words

CONSTANTS
  ByteMod,     \* values of a byte: 256 in the code
  WBase, WLen, \* s->writable: stack, then heap
  CbWord       \* what s->callback delivers for a missed load

ASSUME ByteAssumption == ByteMod \in Nat /\ ByteMod > 1
ASSUME WordAssumption == AddrMod = ByteMod * ByteMod * ByteMod * ByteMod
ASSUME WritableAssumption == WBase \in 0 .. (AddrMod - 1) /\ WLen \in 0 .. (AddrMod - 1)
ASSUME CbAssumption == CbWord \in 0 .. (AddrMod - 1)

Byte == 0 .. (ByteMod - 1)
Memory == [0 .. (WLen - 1) -> Byte]

Rel(a) == Wrap(a - WBase)

\* mem_w
Hits(a, n) == Rel(a) < WLen /\ n <= WLen - Rel(a)

Weight(j) == CASE j = 0 -> 1 [] j = 1 -> ByteMod [] j = 2 -> ByteMod * ByteMod
               [] j = 3 -> ByteMod * ByteMod * ByteMod

\* ld_le / st_le of four bytes at offset o of the buffer.
WordAt(m, o) == m[o] + m[o + 1] * Weight(1) + m[o + 2] * Weight(2) + m[o + 3] * Weight(3)
ByteOf(v, j) == (v \div Weight(j)) % ByteMod

LoadWord(m, a) == IF Hits(a, 4) THEN WordAt(m, Rel(a)) ELSE CbWord
LoadByte(m, a) == IF Hits(a, 1) THEN m[Rel(a)] ELSE CbWord % ByteMod

\* The buffer after the word v is written at offset o of the host buffer.
PutWord(m, o, v) ==
  [q \in DOMAIN m |-> IF q \in o .. (o + 3) THEN ByteOf(v, q - o) ELSE m[q]]

StoreWord(m, a, v) == IF Hits(a, 4) THEN PutWord(m, Rel(a), v) ELSE m
=============================================================================

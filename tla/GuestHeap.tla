----------------------------- MODULE GuestHeap -----------------------------
(***************************************************************************)
(* The host-side allocator behind the malloc group of hostcalls            *)
(* (emu/purva/purvarun.h; emu/sqlite/host.c holds the same code): K&R      *)
(* first fit over guest RAM.  The headers of the circular free list are    *)
(* guest words and every computation is on uint32_t, scaled down here.     *)
(* The guest is well behaved: it frees only what it holds and does not     *)
(* write to the headers.                                                   *)
(***************************************************************************)
EXTENDS Integers, FiniteSets

CONSTANTS
  AddrMod,  \* values of a uint32_t: 2^32 in the code
  HUnit,    \* HUNIT, bytes per header and allocation unit: 8 in the code
  MinCore,  \* least units morecore asks for: 4096 in the code
  BaseP,    \* guest address of the arena
  HeapTop,  \* its end
  Sizes     \* the byte counts a guest asks for

ASSUME HeapAssumption ==
  /\ HUnit \in Nat \ {0} /\ MinCore \in Nat \ {0}
  /\ AddrMod \in Nat /\ HeapTop \in Nat
  /\ BaseP \in Nat /\ BaseP % HUnit = 0 /\ BaseP + HUnit <= HeapTop /\ HeapTop < AddrMod
  /\ Sizes \subseteq 0 .. (AddrMod - 1)

VARIABLES
  hdr,      \* the headers in guest memory, [next, size]; what is not a header, or
            \* is the unused link of a live one, is guest data and reads as 0
  freep,    \* where the next search starts
  heap_brk, \* end of the memory taken so far
  call,     \* the malloc or realloc being served, or NoCall
  live      \* blocks the guest holds: address and bytes asked for

vars == <<hdr, freep, heap_brk, call, live>>

\* The unit-aligned addresses of the arena, its end included.
Cells == {a \in BaseP .. HeapTop : a % HUnit = 0}
U32(v) == v % AddrMod
Data == [next |-> 0, size |-> 0]
NoCall == [n |-> 0, nunits |-> 0, old |-> 0]

\* heap_init: the base sentinel, of size 0, alone on its circular list.
Init ==
  /\ hdr = [a \in Cells |-> IF a = BaseP THEN [next |-> BaseP, size |-> 0] ELSE Data]
  /\ freep = BaseP /\ heap_brk = BaseP + HUnit
  /\ call = NoCall /\ live = {}

\* The free list from a, as far as it is ever walked.
Steps == (HeapTop - BaseP) \div HUnit + 1
Nth(h, a, j) ==
  LET f[m \in Nat] == IF m = 0 THEN a ELSE h[f[m - 1]].next IN f[j]

\* Where the search of free stops: p is the free block below bp, or the last
\* one when bp is at an edge of the arena.
Below(h, p, bp) ==
  LET q == h[p].next IN
  \/ bp > p /\ bp < q
  \/ p >= q /\ (bp > p \/ bp < q)

\* Mutated form: neighbours are not joined.
JoinNever(a, size, b) == FALSE

\* The block of that size at a ends where the one at b starts.
Join(a, size, b) == U32(a + size * HUnit) = b

\* free of the block whose header is bp: link it in address order, joined with
\* its upper and its lower neighbour.
Freed(h, fp, bp) ==
  LET j == CHOOSE j \in 0 .. Steps :
             Below(h, Nth(h, fp, j), bp) /\ \A i \in 0 .. (j - 1) : ~Below(h, Nth(h, fp, i), bp)
      p == Nth(h, fp, j)
      q == h[p].next
      up == IF Join(bp, h[bp].size, q)
              THEN [next |-> h[q].next, size |-> U32(h[bp].size + h[q].size)]
              ELSE [next |-> q, size |-> h[bp].size]
      h1 == IF up.next = q THEN [h EXCEPT ![bp] = up] ELSE [h EXCEPT ![bp] = up, ![q] = Data]
  IN [freep |-> p,
      hdr |-> IF Join(p, h1[p].size, bp)
                THEN [h1 EXCEPT ![p] = [next |-> up.next, size |-> U32(h1[p].size + up.size)],
                                ![bp] = Data]
                ELSE [h1 EXCEPT ![p].next = bp]]

\* Mutated form: the header is not counted.
NUnitsNoHeader(n) == U32(n + HUnit - 1) \div HUnit

\* Units for n bytes and their header; the sum wraps.
NUnits(n) == U32(n + HUnit - 1) \div HUnit + 1

Free(b) ==
  LET f == Freed(hdr, freep, b.a - HUnit) IN
  /\ call = NoCall
  /\ hdr' = f.hdr /\ freep' = f.freep
  /\ live' = live \ {b}
  /\ UNCHANGED <<heap_brk, call>>

\* malloc(n); malloc(0) is NULL.
Malloc(n) ==
  /\ call = NoCall /\ n # 0
  /\ call' = [n |-> n, nunits |-> NUnits(n), old |-> 0]
  /\ UNCHANGED <<hdr, freep, heap_brk, live>>

\* realloc(b, n): it may fit in place, else a new block is needed first.
ReallocInPlace(b, n) ==
  /\ call = NoCall /\ n # 0
  /\ (hdr[b.a - HUnit].size - 1) * HUnit >= n
  /\ live' = (live \ {b}) \cup {[a |-> b.a, n |-> n]}
  /\ UNCHANGED <<hdr, freep, heap_brk, call>>

ReallocMoves(b, n) ==
  /\ call = NoCall /\ n # 0
  /\ (hdr[b.a - HUnit].size - 1) * HUnit < n
  /\ call' = [n |-> n, nunits |-> NUnits(n), old |-> b.a]
  /\ UNCHANGED <<hdr, freep, heap_brk, live>>

\* The search visits the list from freep's successor round to freep.
Fits(j) == hdr[Nth(hdr, freep, j)].size >= call.nunits
SeenAll(j) == Nth(hdr, freep, j) = freep
FirstFit == {j \in 1 .. Steps : Fits(j) /\ \A i \in 1 .. (j - 1) : ~Fits(i) /\ ~SeenAll(i)}

\* Mutated form: after a split the head is handed out in place of the tail.
TakeHead(j) ==
  LET prevp == Nth(hdr, freep, j - 1)
      p == hdr[prevp].next
      rest == hdr[p].size - call.nunits
      a == IF rest = 0 THEN p ELSE p + rest * HUnit
  IN [a |-> p, freep |-> prevp,
      hdr |-> IF rest = 0 THEN [hdr EXCEPT ![prevp].next = hdr[p].next, ![p].next = 0]
              ELSE [hdr EXCEPT ![p].size = rest, ![a].size = call.nunits]]

\* A block that fits is unlinked, or its tail is split off.
Take(j) ==
  LET prevp == Nth(hdr, freep, j - 1)
      p == hdr[prevp].next
      rest == hdr[p].size - call.nunits
      a == IF rest = 0 THEN p ELSE p + rest * HUnit
  IN [a |-> a, freep |-> prevp,
      hdr |-> IF rest = 0 THEN [hdr EXCEPT ![prevp].next = hdr[p].next, ![p].next = 0]
              ELSE [hdr EXCEPT ![p].size = rest, ![a].size = call.nunits]]

\* malloc returns; a moving realloc then frees the old block.
Found(j) ==
  LET t == Take(j)
      f == IF call.old = 0 THEN [hdr |-> t.hdr, freep |-> t.freep]
           ELSE Freed(t.hdr, t.freep, call.old - HUnit)
  IN /\ call # NoCall /\ j \in FirstFit
     /\ hdr' = f.hdr /\ freep' = f.freep
     /\ live' = {b \in live : b.a # call.old} \cup {[a |-> t.a + HUnit, n |-> call.n]}
     /\ call' = NoCall
     /\ UNCHANGED heap_brk

CoreUnits == IF call.nunits < MinCore THEN MinCore ELSE call.nunits
CoreBytes == U32(CoreUnits * HUnit)

NoRoom == heap_brk + CoreBytes > HeapTop

\* morecore: new memory is freed into the list and the search starts again.
MoreCore ==
  LET h == [hdr EXCEPT ![heap_brk].size = CoreUnits]
      f == Freed(h, freep, heap_brk)
  IN /\ call # NoCall /\ FirstFit = {} /\ ~NoRoom
     /\ hdr' = f.hdr /\ freep' = f.freep
     /\ heap_brk' = heap_brk + CoreBytes
     /\ UNCHANGED <<call, live>>

\* Mutated form: the failure of morecore is not noticed.
OutOfMemoryRetries ==
  /\ call # NoCall /\ FirstFit = {} /\ NoRoom
  /\ UNCHANGED vars

\* NULL: the old block of a realloc stays.
OutOfMemory ==
  /\ call # NoCall /\ FirstFit = {} /\ NoRoom
  /\ call' = NoCall
  /\ UNCHANGED <<hdr, freep, heap_brk, live>>

Serve == (\E j \in 1 .. Steps : Found(j)) \/ MoreCore \/ OutOfMemory

Next ==
  \/ \E n \in Sizes : Malloc(n)
  \/ \E b \in live : Free(b)      \* free(p) and realloc(p, 0)
  \/ \E b \in live, n \in Sizes : ReallocInPlace(b, n) \/ ReallocMoves(b, n)
  \/ Serve

\* A hostcall is served to its end by sequential code.
Spec == Init /\ [][Next]_vars /\ WF_vars(Serve)

-----------------------------------------------------------------------------

\* The free blocks, by walking the list from its sentinel.
FreeList == {Nth(hdr, BaseP, j) : j \in 0 .. Steps}

\* The cells of a block whose header is at h: header and payload.
Span(h) == {c \in Cells : c >= h /\ c < h + hdr[h].size * HUnit}
LiveHeaders == {b.a - HUnit : b \in live}

\* No memory is lost and none is handed out twice: between the sentinel and
\* the break every cell belongs to exactly one block, free or live, across
\* splitting, joining, growing and moving.
Partition ==
  LET blocks == LiveHeaders \cup (FreeList \ {BaseP})
  IN /\ Cardinality(LiveHeaders) = Cardinality(live)
     /\ LiveHeaders \cap FreeList = {}
     /\ \A a, b \in blocks : a # b => Span(a) \cap Span(b) = {}
     /\ UNION {Span(b) : b \in blocks} = {c \in Cells : c > BaseP /\ c < heap_brk}

\* Neighbouring free blocks have been joined, so the list is sorted and no
\* request fails for memory that is free but in pieces side by side.
Coalesced == \A a \in FreeList \ {BaseP} : U32(a + hdr[a].size * HUnit) \notin FreeList

\* A block the guest was given holds the bytes it asked for (purvarun.h:
\* malloc/free/realloc are "serviced internally").
BigEnough == \A b \in live : (hdr[b.a - HUnit].size - 1) * HUnit >= b.n

\* Every malloc and realloc returns: after growing, the search succeeds.
CallsReturn == call # NoCall ~> call = NoCall
=============================================================================

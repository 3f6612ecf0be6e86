---------------------------- MODULE GuestHeapProofs --------------------------
(***************************************************************************)
(* For every arena, unit, request and order of calls: the free list and    *)
(* the blocks the guest holds tile the memory taken so far.                *)
(***************************************************************************)
EXTENDS GuestHeap, FiniteSetTheorems, WellFoundedInduction, TLAPS

-----------------------------------------------------------------------------
(* Units and cells.                                                         *)

\* Units are at least one byte, and counting them is linear.
LEMMA Units ==
  ASSUME NEW s \in Nat, NEW t \in Nat
  PROVE /\ s * HUnit \in Nat /\ (s + t) * HUnit = s * HUnit + t * HUnit
        /\ s <= t => s * HUnit <= t * HUnit
        /\ s > 0 => s * HUnit >= HUnit
        /\ s <= s * HUnit
  BY HeapAssumption

\* Two cells are at least one unit apart.
LEMMA CellGap ==
  ASSUME NEW a \in Cells, NEW b \in Cells, a < b PROVE a + HUnit <= b
  <1>1. a \in Nat /\ b \in Nat /\ HUnit \in Nat \ {0} /\ a % HUnit = 0 /\ b % HUnit = 0
    BY HeapAssumption DEF Cells
  <1> DEFINE i == a \div HUnit
             j == b \div HUnit
  <1>2. i \in Nat /\ j \in Nat /\ a = i * HUnit /\ b = j * HUnit
    BY <1>1
  <1> HIDE DEF i, j
  <1>3. i + 1 <= j
    BY <1>1, <1>2
  <1> QED BY <1>1, <1>2, <1>3, Units

\* A whole number of units from a cell is a cell, inside the arena.
LEMMA CellAdd ==
  ASSUME NEW a \in Cells, NEW s \in Nat, a + s * HUnit <= HeapTop
  PROVE a + s * HUnit \in Cells
  <1>1. a \in Nat /\ a >= BaseP /\ BaseP \in Nat /\ HUnit \in Nat \ {0} /\ a % HUnit = 0 /\ HeapTop \in Nat
    BY HeapAssumption DEF Cells
  <1> DEFINE i == a \div HUnit
  <1>2. i \in Nat /\ a = i * HUnit
    BY <1>1
  <1> HIDE DEF i
  <1>3. a + s * HUnit = (i + s) * HUnit /\ i + s \in Nat
    BY <1>2, Units
  <1>4. (i + s) * HUnit % HUnit = 0
    <2> DEFINE m == i + s
    <2>1. m \in Nat
      BY <1>3
    <2> HIDE DEF m
    <2>2. m * HUnit % HUnit = 0
      BY <1>1, <2>1
    <2> QED BY <2>2 DEF m
  <1>5. s * HUnit \in Nat
    BY Units
  <1> QED BY <1>1, <1>3, <1>4, <1>5 DEF Cells

\* Addresses in the arena do not wrap.
LEMMA NoWrap == ASSUME NEW v \in Nat, v <= HeapTop PROVE U32(v) = v
  BY HeapAssumption DEF U32

-----------------------------------------------------------------------------
(* The heap: a free list F and live headers L.                              *)

Headers == [Cells -> [next : Nat, size : Nat]]

\* Where the block at b ends.
End(h, b) == b + h[b].size * HUnit

Blocks(F, L) == L \cup (F \ {BaseP})

\* q follows a on the circle of F: it is the next higher one, or a is the last.
Succ(F, a, q) ==
  /\ q \in F
  /\ \/ a < q /\ \A b \in F : b <= a \/ q <= b
     \/ q = BaseP /\ \A b \in F : b <= a

\* The free list is circular and sorted.
List(h, F) ==
  /\ BaseP \in F /\ F \subseteq Cells
  /\ \A a \in F : Succ(F, a, h[a].next)

\* Blocks are not empty, lie one behind the other and leave no gap.
Tiles(h, brk, B) ==
  /\ \A b \in B : b > BaseP /\ h[b].size > 0 /\ End(h, b) <= brk
  /\ \A a, b \in B : a < b => End(h, a) <= b
  /\ \A c \in Cells : BaseP < c /\ c < brk => \E b \in B : b <= c /\ c < End(h, b)

Heap(h, brk, F, L) ==
  /\ h \in Headers /\ brk \in Cells /\ brk > BaseP /\ h[BaseP].size = 0
  /\ List(h, F)
  /\ L \subseteq Cells /\ L \cap F = {}
  /\ Tiles(h, brk, Blocks(F, L))

\* No free block but those in X ends where another begins.
Apart(h, F, X) == \A a \in F \ {BaseP} : End(h, a) \in F => a \in X

\* What every call leaves behind: such a free list exists, no two of its blocks
\* touch, and the next search starts in it.
Sound(h, brk, fp, L) == \E F : Heap(h, brk, F, L) /\ Apart(h, F, {}) /\ fp \in F

\* The headers of L are as they were.
Untouched(h, g, L) == \A l \in L : g[l] = h[l]

\* The facts about cells and sizes every lemma below needs.
LEMMA HeapTypes ==
  ASSUME NEW h, NEW brk, NEW F, NEW L, Heap(h, brk, F, L)
  PROVE /\ BaseP \in Nat /\ HUnit \in Nat \ {0} /\ HeapTop \in Nat /\ AddrMod \in Nat
        /\ brk \in Nat /\ brk > BaseP /\ brk <= HeapTop /\ BaseP \in Cells
        /\ \A c \in Cells : /\ c \in Nat /\ BaseP <= c /\ c <= HeapTop
                            /\ h[c].next \in Nat /\ h[c].size \in Nat /\ End(h, c) \in Nat
                            /\ End(h, c) = c + h[c].size * HUnit
        /\ \A b \in Blocks(F, L) : b \in Cells /\ b # BaseP /\ End(h, b) >= b + HUnit
        /\ F \subseteq Cells /\ L \subseteq Cells
  <1>1. /\ BaseP \in Nat /\ HUnit \in Nat \ {0} /\ HeapTop \in Nat /\ AddrMod \in Nat
        /\ \A c \in Cells : c \in Nat /\ BaseP <= c /\ c <= HeapTop
    BY HeapAssumption DEF Cells
  <1>2. F \subseteq Cells /\ L \subseteq Cells /\ BaseP \in F /\ h \in Headers /\ brk \in Cells /\ brk > BaseP
    BY DEF Heap, List
  <1>3. ASSUME NEW c \in Cells
        PROVE h[c].next \in Nat /\ h[c].size \in Nat /\ End(h, c) \in Nat /\ End(h, c) = c + h[c].size * HUnit
    <2>1. h[c].next \in Nat /\ h[c].size \in Nat
      BY <1>2 DEF Headers
    <2>2. h[c].size * HUnit \in Nat
      BY <2>1, Units
    <2> QED BY <1>1, <2>1, <2>2 DEF End
  <1>4. ASSUME NEW b \in Blocks(F, L) PROVE b \in Cells /\ b # BaseP /\ End(h, b) >= b + HUnit
    <2>1. b \in Cells
      BY <1>2 DEF Blocks
    <2>2. b > BaseP /\ h[b].size > 0
      BY DEF Heap, Tiles
    <2>3. h[b].size * HUnit >= HUnit /\ h[b].size * HUnit \in Nat
      BY <1>3, <2>1, <2>2, Units
    <2> QED BY <1>1, <2>1, <2>2, <2>3 DEF End
  <1> QED BY <1>1, <1>2, <1>3, <1>4

-----------------------------------------------------------------------------
(* What the allocator does to a heap, one change at a time.  g is the memory *)
(* after it.                                                                *)

\* Where a block belongs in the list.
Place(F, p, bp) == p \in F /\ p < bp /\ \A b \in F : b <= p \/ bp < b

\* The tiling is about sizes only.
LEMMA TilesSame ==
  ASSUME NEW h, NEW brk, NEW F, NEW L, Heap(h, brk, F, L),
         NEW g \in Headers, \A c \in Cells : g[c].size = h[c].size
  PROVE /\ Tiles(g, brk, Blocks(F, L))
        /\ \A c \in Cells : End(g, c) = End(h, c)
        /\ g[BaseP].size = 0
  <1>1. \A c \in Cells : End(g, c) = End(h, c)
    BY DEF End
  <1>2. Blocks(F, L) \subseteq Cells /\ BaseP \in Cells
    BY HeapTypes
  <1>3. Tiles(h, brk, Blocks(F, L)) /\ h[BaseP].size = 0
    BY DEF Heap
  <1> QED BY <1>1, <1>2, <1>3 DEF Tiles

\* A live block is linked into the list at its place.
LEMMA LinkHeap ==
  ASSUME NEW h, NEW brk, NEW F, NEW L, Heap(h, brk, F, L),
         NEW bp \in L, NEW p, Place(F, p, bp),
         NEW g \in Headers, \A c \in Cells : g[c].size = h[c].size,
         g[p].next = bp, g[bp].next = h[p].next,
         \A c \in Cells \ {p, bp} : g[c].next = h[c].next
  PROVE Heap(g, brk, F \cup {bp}, L \ {bp})
  <1> DEFINE G == F \cup {bp}
  <1>1. /\ \A c \in Cells : c \in Nat /\ BaseP <= c
        /\ F \subseteq Cells /\ L \subseteq Cells /\ BaseP \in Nat
    BY HeapTypes
  <1>2. List(h, F) /\ L \cap F = {} /\ brk \in Cells /\ brk > BaseP
    BY DEF Heap
  <1>3. Blocks(G, L \ {bp}) = Blocks(F, L)
    BY <1>2 DEF Blocks, List
  <1>4. ASSUME NEW a \in G PROVE Succ(G, a, g[a].next)
    <2>1. /\ \A b \in F : b \in Nat
          /\ bp \in Nat /\ p \in F /\ p < bp /\ \A b \in F : b <= p \/ bp < b
          /\ bp \notin F /\ p \in Nat
      BY <1>1, <1>2 DEF Place
    <2>2. CASE a = p
      BY <2>1, <2>2 DEF Succ
    <2>3. CASE a = bp
      <3>1. Succ(F, p, h[p].next) /\ g[a].next = h[p].next
        BY <1>2, <2>1, <2>3 DEF List
      <3> DEFINE q == h[p].next
      <3>2. q \in F /\ q \in Nat /\ (q <= p \/ bp < q)
        BY <2>1, <3>1 DEF Succ
      <3> HIDE DEF q
      <3>3. Succ(F, p, q) /\ g[a].next = q
        BY <3>1 DEF q
      <3> QED BY <2>1, <2>3, <3>2, <3>3 DEF Succ
    <2>4. CASE a # p /\ a # bp
      <3>1. a \in F /\ Succ(F, a, h[a].next) /\ g[a].next = h[a].next
        BY <1>1, <1>2, <2>4 DEF List
      <3> DEFINE q == h[a].next
      <3>2. q \in F /\ q \in Nat /\ (a <= p \/ bp < a) /\ (q <= p \/ bp < q)
        BY <2>1, <3>1 DEF Succ
      <3> HIDE DEF q
      <3>3. Succ(F, a, q) /\ g[a].next = q
        BY <3>1 DEF q
      <3> QED BY <2>1, <2>4, <3>1, <3>2, <3>3 DEF Succ
    <2> QED BY <2>2, <2>3, <2>4
  <1>5. List(g, G)
    BY <1>1, <1>2, <1>4 DEF List
  <1>6. Tiles(g, brk, Blocks(G, L \ {bp})) /\ g[BaseP].size = 0
    BY <1>3, TilesSame
  <1> QED BY <1>1, <1>2, <1>5, <1>6 DEF Heap

\* A free block swallows its successor in the list when they are neighbours.
LEMMA MergeHeap ==
  ASSUME NEW h, NEW brk, NEW F, NEW L, Heap(h, brk, F, L),
         NEW a \in F \ {BaseP}, NEW b, b = h[a].next, End(h, a) = b,
         NEW g \in Headers, g[a].next = h[b].next, g[a].size = h[a].size + h[b].size,
         \A c \in Cells \ {a, b} : g[c].next = h[c].next /\ g[c].size = h[c].size
  PROVE /\ Heap(g, brk, F \ {b}, L)
        /\ b \in F \ {BaseP} /\ b # a /\ End(g, a) = End(h, b)
  <1> DEFINE G == F \ {b}
  <1>1. /\ \A c \in Cells : c \in Nat /\ BaseP <= c /\ h[c].size \in Nat /\ End(h, c) \in Nat
        /\ F \subseteq Cells /\ L \subseteq Cells /\ BaseP \in Nat /\ BaseP \in Cells
        /\ \A c \in Blocks(F, L) : c \in Cells /\ c # BaseP /\ End(h, c) >= c + HUnit
        /\ HUnit \in Nat \ {0}
    BY HeapTypes
  <1>2. List(h, F) /\ L \cap F = {} /\ brk \in Cells /\ brk > BaseP /\ h[BaseP].size = 0
        /\ Tiles(h, brk, Blocks(F, L))
    BY DEF Heap
  <1>3. a \in Blocks(F, L) /\ a \in Cells /\ a \in Nat
    BY <1>1 DEF Blocks
  <1>4. b \in F /\ a < b /\ b \in Cells /\ b \in Nat /\ b # BaseP /\ b \in Blocks(F, L)
    <2>1. b \in F
      BY <1>2 DEF List, Succ
    <2>2. a < b
      BY <1>1, <1>3, <2>1
    <2> QED BY <1>1, <1>3, <2>1, <2>2 DEF Blocks
  <1>5. End(g, a) = End(h, b)
    <2>1. (h[a].size + h[b].size) * HUnit = h[a].size * HUnit + h[b].size * HUnit
          /\ h[a].size * HUnit \in Nat /\ h[b].size * HUnit \in Nat
      BY <1>1, <1>3, <1>4, Units
    <2> QED BY <1>3, <1>4, <2>1 DEF End
  <1>6. \A c \in Cells \ {a, b} : End(g, c) = End(h, c)
    BY DEF End
  <1>7. Blocks(G, L) = Blocks(F, L) \ {b}
    BY <1>2, <1>4 DEF Blocks
  <1>8. ASSUME NEW e \in G PROVE Succ(G, e, g[e].next)
    <2>1. \A c \in F : c \in Nat /\ BaseP <= c
      BY <1>1
    <2>2. Succ(F, a, b) /\ Succ(F, b, h[b].next)
      BY <1>2, <1>4 DEF List
    <2>3. CASE e = a
      <3> DEFINE q == h[b].next
      <3>1. q \in F /\ q # b
        BY <1>4, <2>2 DEF Succ
      <3> HIDE DEF q
      <3>2. Succ(F, b, q) /\ g[e].next = q
        BY <2>2, <2>3 DEF q
      <3> QED BY <1>3, <1>4, <2>1, <2>2, <2>3, <3>1, <3>2 DEF Succ
    <2>4. CASE e # a
      <3>1. e \in F /\ e # b /\ Succ(F, e, h[e].next) /\ g[e].next = h[e].next
        BY <1>1, <1>2, <2>4 DEF List
      <3> DEFINE q == h[e].next
      <3>2. q \in F /\ q \in Nat /\ e \in Nat
        BY <2>1, <3>1 DEF Succ
      <3> HIDE DEF q
      <3>3. Succ(F, e, q) /\ g[e].next = q
        BY <3>1 DEF q
      <3>4. q # b
        BY <1>3, <1>4, <2>1, <2>2, <2>4, <3>1, <3>2, <3>3 DEF Succ
      <3> QED BY <3>1, <3>2, <3>3, <3>4 DEF Succ
    <2> QED BY <2>3, <2>4
  <1>9. List(g, G)
    BY <1>1, <1>2, <1>4, <1>8 DEF List
  <1>10. Tiles(g, brk, Blocks(G, L))
    <2>1. ASSUME NEW c \in Blocks(G, L) PROVE c > BaseP /\ g[c].size > 0 /\ End(g, c) <= brk
      <3>1. CASE c = a
        BY <1>1, <1>2, <1>3, <1>4, <1>5, <3>1 DEF Tiles
      <3>2. CASE c # a
        BY <1>1, <1>2, <1>6, <1>7, <3>2 DEF Tiles
      <3> QED BY <3>1, <3>2
    <2>2. ASSUME NEW c \in Blocks(G, L), NEW d \in Blocks(G, L), c < d PROVE End(g, c) <= d
      <3>1. c \in Blocks(F, L) \ {b} /\ d \in Blocks(F, L) \ {b} /\ c \in Cells /\ d \in Cells
        BY <1>1, <1>7
      <3>2. CASE c = a
        <4>1. b <= d
          BY <1>2, <1>3, <2>2, <3>1, <3>2 DEF Tiles
        <4>2. b < d
          <5>1. b # d /\ b \in Nat /\ d \in Nat
            BY <1>1, <1>4, <3>1
          <5> QED BY ONLY <4>1, <5>1
        <4>3. End(h, b) <= d
          BY <1>2, <1>4, <3>1, <4>2 DEF Tiles
        <4> QED BY <1>5, <3>2, <4>3
      <3>3. CASE c # a
        BY <1>2, <1>6, <2>2, <3>1, <3>3 DEF Tiles
      <3> QED BY <3>2, <3>3
    <2>3. ASSUME NEW c \in Cells, BaseP < c, c < brk
          PROVE \E d \in Blocks(G, L) : d <= c /\ c < End(g, d)
      <3>1. PICK d \in Blocks(F, L) : d <= c /\ c < End(h, d)
        BY <1>2, <2>3 DEF Tiles
      <3>2. CASE d \in {a, b}
        <4>1. End(h, a) <= End(h, b)
          BY <1>1, <1>4
        <4>2. a <= c /\ c < End(g, a)
          BY <1>1, <1>3, <1>4, <1>5, <3>1, <3>2, <4>1
        <4>3. a \in Blocks(G, L)
          <5>1. a # b
            BY <1>3, <1>4
          <5> QED BY <1>3, <1>7, <5>1
        <4> QED BY <4>2, <4>3
      <3>3. CASE d \notin {a, b}
        BY <1>1, <1>6, <1>7, <3>1, <3>3
      <3> QED BY <3>2, <3>3
    <2> QED BY <2>1, <2>2, <2>3 DEF Tiles
  <1>11. g[BaseP].size = 0
    BY <1>1, <1>2, <1>4
  <1>12. L \subseteq Cells /\ L \cap G = {} /\ b # a
    <2>1. b # a
      BY <1>3, <1>4
    <2> QED BY <1>1, <1>2, <2>1
  <1>13. Heap(g, brk, G, L)
    BY <1>2, <1>9, <1>10, <1>11, <1>12 DEF Heap
  <1> QED BY <1>4, <1>5, <1>12, <1>13

\* A free block is unlinked and handed out whole.
LEMMA UnlinkHeap ==
  ASSUME NEW h, NEW brk, NEW F, NEW L, Heap(h, brk, F, L),
         NEW r \in F, NEW a \in F \ {BaseP}, h[r].next = a,
         NEW g \in Headers, \A c \in Cells : g[c].size = h[c].size,
         g[r].next = h[a].next, \A c \in Cells \ {r, a} : g[c].next = h[c].next
  PROVE Heap(g, brk, F \ {a}, L \cup {a}) /\ r # a
  <1> DEFINE G == F \ {a}
  <1>1. /\ \A c \in Cells : c \in Nat /\ BaseP <= c
        /\ F \subseteq Cells /\ L \subseteq Cells /\ BaseP \in Nat /\ BaseP \in Cells
    BY HeapTypes
  <1>2. List(h, F) /\ L \cap F = {} /\ brk \in Cells /\ brk > BaseP
    BY DEF Heap
  <1>3. \A c \in F : c \in Nat /\ BaseP <= c
    BY <1>1
  <1>4. Succ(F, r, a) /\ r < a
    BY <1>2, <1>3 DEF List, Succ
  <1>5. Blocks(G, L \cup {a}) = Blocks(F, L)
    BY DEF Blocks
  <1>6. ASSUME NEW e \in G PROVE Succ(G, e, g[e].next)
    <2>1. CASE e = r
      <3> DEFINE q == h[a].next
      <3>1. Succ(F, a, q) /\ g[e].next = q
        BY <1>2, <2>1 DEF List
      <3>2. q \in F
        BY <3>1 DEF Succ
      <3> HIDE DEF q
      <3>3. q # a
        BY <1>3, <3>1, <3>2 DEF Succ
      <3> QED BY <1>3, <1>4, <2>1, <3>1, <3>2, <3>3 DEF Succ
    <2>2. CASE e # r
      <3> DEFINE q == h[e].next
      <3>1. e \in F /\ e # a /\ Succ(F, e, q) /\ g[e].next = q
        BY <1>1, <1>2, <2>2 DEF List
      <3>2. q \in F
        BY <3>1 DEF Succ
      <3> HIDE DEF q
      <3>3. q # a
        BY <1>3, <1>4, <2>2, <3>1, <3>2 DEF Succ
      <3> QED BY <3>1, <3>2, <3>3 DEF Succ
    <2> QED BY <2>1, <2>2
  <1>7. List(g, G)
    BY <1>1, <1>2, <1>6 DEF List
  <1>8. Tiles(g, brk, Blocks(G, L \cup {a})) /\ g[BaseP].size = 0
    BY <1>5, TilesSame
  <1>9. L \cup {a} \subseteq Cells /\ (L \cup {a}) \cap G = {}
    BY <1>1, <1>2
  <1>10. r # a
    BY <1>3, <1>4
  <1> QED BY <1>2, <1>7, <1>8, <1>9, <1>10 DEF Heap

\* From h to g the last m units of the free block at p become a block at a.
Split(h, g, p, rest, m, a) ==
  /\ rest \in Nat /\ rest > 0 /\ m \in Nat /\ m > 0
  /\ h[p].size = rest + m /\ a = p + rest * HUnit
  /\ g \in Headers /\ g[p].size = rest /\ g[a].size = m
  /\ \A c \in Cells \ {p, a} : g[c].size = h[c].size
  /\ \A c \in Cells : g[c].next = h[c].next

\* The tail of a free block is split off and handed out.
LEMMA SplitHeap ==
  ASSUME NEW h, NEW brk, NEW F, NEW L, Heap(h, brk, F, L),
         NEW p \in F \ {BaseP}, NEW m, NEW rest, NEW a, NEW g, Split(h, g, p, rest, m, a)
  PROVE /\ Heap(g, brk, F, L \cup {a})
        /\ a \in Cells /\ a > BaseP /\ a \notin L /\ a \notin F
  <1> DEFINE M == L \cup {a}
  <1>0. /\ rest \in Nat /\ rest > 0 /\ m \in Nat /\ m > 0
        /\ h[p].size = rest + m /\ a = p + rest * HUnit
        /\ g \in Headers /\ g[p].size = rest /\ g[a].size = m
        /\ \A c \in Cells \ {p, a} : g[c].size = h[c].size
        /\ \A c \in Cells : g[c].next = h[c].next
    BY DEF Split
  <1>1. /\ \A c \in Cells : c \in Nat /\ BaseP <= c /\ h[c].size \in Nat /\ End(h, c) \in Nat
        /\ F \subseteq Cells /\ L \subseteq Cells /\ BaseP \in Nat /\ BaseP \in Cells
        /\ \A c \in Blocks(F, L) : c \in Cells /\ c # BaseP /\ End(h, c) >= c + HUnit
        /\ HUnit \in Nat \ {0} /\ brk <= HeapTop /\ brk \in Nat /\ HeapTop \in Nat
    BY HeapTypes
  <1>2. List(h, F) /\ L \cap F = {} /\ brk \in Cells /\ brk > BaseP /\ h[BaseP].size = 0
        /\ Tiles(h, brk, Blocks(F, L))
    BY DEF Heap
  <1>3. p \in Blocks(F, L) /\ p \in Cells /\ p \in Nat /\ p > BaseP /\ End(h, p) <= brk
    BY <1>1, <1>2 DEF Blocks, Tiles
  <1>4. rest \in Nat /\ rest > 0 /\ h[p].size = rest + m
    BY <1>0
  <1>5. /\ rest * HUnit \in Nat /\ m * HUnit \in Nat /\ (rest + m) * HUnit = rest * HUnit + m * HUnit
        /\ rest * HUnit > 0 /\ m * HUnit > 0
    BY <1>0, <1>1, <1>4, Units
  <1>6. /\ a \in Nat /\ p < a /\ a < End(h, p) /\ a + m * HUnit = End(h, p) /\ a <= HeapTop
        /\ a = p + rest * HUnit
    <2>1. a = p + rest * HUnit
      BY <1>0
    <2>2. End(h, p) = p + (rest + m) * HUnit
      BY <1>4 DEF End
    <2> QED BY <1>1, <1>3, <1>5, <2>1, <2>2
  <1>7. a \in Cells
    BY <1>3, <1>4, <1>6, <1>0, CellAdd
  <1>8. a \notin Blocks(F, L) /\ a # BaseP /\ a > BaseP
    BY <1>1, <1>2, <1>3, <1>6 DEF Tiles
  <1>9. a \notin L /\ a \notin F /\ Blocks(F, M) = Blocks(F, L) \cup {a}
    BY <1>8 DEF Blocks
  <1>10. /\ End(g, p) = a /\ End(g, a) = End(h, p)
         /\ \A c \in Cells \ {p, a} : End(g, c) = End(h, c)
    <2> QED BY <1>0, <1>6 DEF End
  <1>11. List(g, F)
    BY <1>0, <1>1, <1>2 DEF List
  <1>12. Tiles(g, brk, Blocks(F, M))
    <2>1. ASSUME NEW c \in Blocks(F, M) PROVE c > BaseP /\ g[c].size > 0 /\ End(g, c) <= brk
      <3>1. CASE c = a
        BY <1>0, <1>3, <1>8, <1>10, <3>1
      <3>2. CASE c = p
        <4>1. g[p].size > 0 /\ End(g, p) <= brk
          BY <1>0, <1>1, <1>0, <1>3, <1>4, <1>6, <1>10
        <4> QED BY <1>0, <1>3, <3>2, <4>1
      <3>3. CASE c \notin {a, p}
        BY <1>0, <1>1, <1>2, <1>9, <1>10, <3>3 DEF Tiles
      <3> QED BY <1>0, <3>1, <3>2, <3>3
    <2>2. ASSUME NEW c \in Blocks(F, M), NEW d \in Blocks(F, M), c < d PROVE End(g, c) <= d
      <3>1. c \in Nat /\ d \in Nat /\ c \in Cells /\ d \in Cells
        BY <1>0, <1>1, <1>7, <1>9
      <3>2. CASE c = a
        <4>0. p < d /\ d # a
          BY <1>0, <1>3, <1>6, <2>2, <3>1, <3>2
        <4>1. d \in Blocks(F, L) /\ p < d
          BY <1>0, <1>9, <4>0
        <4>2. End(h, p) <= d
          BY <1>0, <1>2, <1>3, <4>1 DEF Tiles
        <4> QED BY <1>0, <1>10, <3>2, <4>2
      <3>3. CASE c = p /\ d # a
        <4>1. d \in Blocks(F, L) /\ End(h, p) <= d
          BY <1>0, <1>2, <1>3, <1>9, <2>2, <3>3 DEF Tiles
        <4> QED BY <1>0, <1>1, <1>3, <1>6, <1>10, <3>1, <3>3, <4>1
      <3>4. CASE c = p /\ d = a
        BY <1>0, <1>6, <1>10, <3>4
      <3>5. CASE c \notin {a, p} /\ d = a
        <4>1. c \in Blocks(F, L)
          BY <1>0, <1>9, <3>5
        <4>2. c < p
          <5> SUFFICES ASSUME p < c PROVE FALSE
            BY <1>0, <1>3, <3>1, <3>5
          <5>1. End(h, p) <= c
            BY <1>0, <1>2, <1>3, <4>1 DEF Tiles
          <5> QED BY <1>0, <1>1, <1>3, <1>6, <2>2, <3>1, <3>5, <5>1
        <4>3. End(h, c) <= p
          BY <1>0, <1>2, <1>3, <4>1, <4>2 DEF Tiles
        <4> QED BY <1>0, <1>1, <1>3, <1>6, <1>10, <3>1, <3>5, <4>3
      <3>6. CASE c \notin {a, p} /\ d # a
        BY <1>0, <1>2, <1>9, <1>10, <2>2, <3>1, <3>6 DEF Tiles
      <3> QED BY <1>0, <3>2, <3>3, <3>4, <3>5, <3>6
    <2>3. ASSUME NEW c \in Cells, BaseP < c, c < brk
          PROVE \E d \in Blocks(F, M) : d <= c /\ c < End(g, d)
      <3>1. PICK d \in Blocks(F, L) : d <= c /\ c < End(h, d)
        BY <1>0, <1>2, <2>3 DEF Tiles
      <3>2. CASE d = p /\ c < a
        BY <1>0, <1>9, <1>10, <3>1, <3>2
      <3>3. CASE d = p /\ ~(c < a)
        <4>1. a <= c /\ c < End(g, a)
          BY <1>0, <1>1, <1>6, <1>10, <3>1, <3>3
        <4> QED BY <1>0, <1>9, <4>1
      <3>4. CASE d # p
        <4>1. d \in Cells /\ d # a
          BY <1>0, <1>1, <1>8, <3>1
        <4> QED BY <1>0, <1>9, <1>10, <3>1, <3>4, <4>1
      <3> QED BY <1>0, <3>2, <3>3, <3>4
    <2> QED BY <1>0, <2>1, <2>2, <2>3 DEF Tiles
  <1>13. g[BaseP].size = 0 /\ M \subseteq Cells /\ M \cap F = {}
    <2>1. BaseP # p
      OBVIOUS
    <2> QED BY <1>0, <1>1, <1>2, <1>7, <1>8, <1>9, <2>1
  <1>14. Heap(g, brk, F, M)
    BY <1>0, <1>2, <1>11, <1>12, <1>13 DEF Heap
  <1> QED BY <1>0, <1>7, <1>8, <1>9, <1>14

\* The memory behind the break becomes a live block.
LEMMA ExtendHeap ==
  ASSUME NEW h, NEW brk, NEW F, NEW L, Heap(h, brk, F, L),
         NEW m \in Nat, m > 0, brk + m * HUnit <= HeapTop,
         NEW g \in Headers, g[brk].size = m, \A c \in Cells : g[c].next = h[c].next,
         \A c \in Cells \ {brk} : g[c].size = h[c].size
  PROVE Heap(g, brk + m * HUnit, F, L \cup {brk}) /\ brk \notin F /\ brk \notin L
  <1> DEFINE top == brk + m * HUnit
             M == L \cup {brk}
  <1>1. /\ \A c \in Cells : c \in Nat /\ BaseP <= c /\ h[c].size \in Nat /\ End(h, c) \in Nat
        /\ F \subseteq Cells /\ L \subseteq Cells /\ BaseP \in Nat /\ BaseP \in Cells
        /\ \A c \in Blocks(F, L) : c \in Cells /\ c # BaseP /\ End(h, c) >= c + HUnit
        /\ HUnit \in Nat \ {0} /\ brk \in Nat
    BY HeapTypes
  <1>2. List(h, F) /\ L \cap F = {} /\ brk \in Cells /\ brk > BaseP /\ h[BaseP].size = 0
        /\ Tiles(h, brk, Blocks(F, L))
    BY DEF Heap
  <1>3. m * HUnit \in Nat /\ m * HUnit > 0
    BY <1>1, Units
  <1>4. top \in Cells /\ top \in Nat /\ top > brk
    BY <1>1, <1>2, <1>3, CellAdd
  <1>5. End(g, brk) = top
    BY DEF End
  <1> HIDE DEF top
  <1>6. \A c \in Blocks(F, L) : c < brk /\ End(h, c) <= brk
    <2> SUFFICES ASSUME NEW c \in Blocks(F, L) PROVE c < brk /\ End(h, c) <= brk
      OBVIOUS
    <2>1. End(h, c) <= brk
      BY <1>2 DEF Tiles
    <2>2. c \in Nat /\ End(h, c) \in Nat /\ End(h, c) >= c + HUnit
      BY <1>1
    <2> QED BY <1>1, <2>1, <2>2
  <1>7. brk \notin Blocks(F, L) /\ Blocks(F, M) = Blocks(F, L) \cup {brk} /\ brk \notin F /\ brk \notin L
    <2>1. brk \notin Blocks(F, L)
      <3> SUFFICES ASSUME brk \in Blocks(F, L) PROVE FALSE
        OBVIOUS
      <3>1. brk < brk
        BY <1>6
      <3> QED BY <1>1, <3>1
    <2>2. brk # BaseP
      BY <1>1, <1>2
    <2> QED BY <2>1, <2>2 DEF Blocks
  <1>8. \A c \in Cells \ {brk} : End(g, c) = End(h, c)
    BY DEF End
  <1>9. \A c \in Blocks(F, L) : c \in Cells /\ End(g, c) = End(h, c) /\ g[c].size = h[c].size
    BY <1>1, <1>7, <1>8
  <1>10. Tiles(g, top, Blocks(F, M))
    <2>1. ASSUME NEW c \in Blocks(F, M) PROVE c > BaseP /\ g[c].size > 0 /\ End(g, c) <= top
      <3>1. CASE c = brk
        BY <1>1, <1>2, <1>4, <1>5, <3>1
      <3>2. CASE c # brk
        <4>1. c \in Blocks(F, L)
          BY <1>7, <3>2
        <4>2. c > BaseP /\ h[c].size > 0 /\ End(h, c) <= brk /\ End(h, c) \in Nat
          BY <1>1, <1>2, <4>1 DEF Tiles
        <4> QED BY <1>1, <1>4, <1>9, <4>1, <4>2
      <3> QED BY <3>1, <3>2
    <2>2. ASSUME NEW c \in Blocks(F, M), NEW d \in Blocks(F, M), c < d PROVE End(g, c) <= d
      <3>1. CASE d = brk
        <4>1. c \in Blocks(F, L)
          <5>1. c # brk
            BY <1>1, <2>2, <3>1
          <5> QED BY <1>7, <5>1
        <4>2. End(g, c) = End(h, c)
          BY <1>9, <4>1
        <4>3. End(h, c) <= brk
          BY <1>6, <4>1
        <4> QED BY <3>1, <4>2, <4>3
      <3>2. CASE d # brk
        <4>1. d \in Blocks(F, L) /\ d < brk /\ d \in Nat
          BY <1>1, <1>6, <1>7, <3>2
        <4>2. c \in Blocks(F, L)
          <5>1. c # brk
            BY <1>1, <2>2, <4>1
          <5> QED BY <1>7, <5>1
        <4>3. End(h, c) <= d
          BY <1>2, <2>2, <4>1, <4>2 DEF Tiles
        <4>4. End(g, c) = End(h, c)
          BY <1>9, <4>2
        <4> QED BY <4>3, <4>4
      <3> QED BY <3>1, <3>2
    <2>3. ASSUME NEW c \in Cells, BaseP < c, c < top
          PROVE \E d \in Blocks(F, M) : d <= c /\ c < End(g, d)
      <3>1. CASE c < brk
        <4>1. PICK d \in Blocks(F, L) : d <= c /\ c < End(h, d)
          BY <1>2, <2>3, <3>1 DEF Tiles
        <4> QED BY <1>7, <1>9, <4>1
      <3>2. CASE ~(c < brk)
        <4>1. brk <= c /\ c < End(g, brk)
          BY <1>1, <1>5, <2>3, <3>2
        <4> QED BY <1>7, <4>1
      <3> QED BY <3>1, <3>2
    <2> QED BY <2>1, <2>2, <2>3 DEF Tiles
  <1>11. List(g, F)
    BY <1>1, <1>2 DEF List
  <1>12. g[BaseP].size = 0 /\ M \subseteq Cells /\ M \cap F = {} /\ top > BaseP
    BY <1>1, <1>2, <1>4, <1>7
  <1>13. Heap(g, top, F, M)
    BY <1>4, <1>10, <1>11, <1>12 DEF Heap
  <1> QED BY <1>7, <1>13 DEF top

-----------------------------------------------------------------------------
(* The walk along the list.                                                 *)

\* A set of naturals with 0 and with the successor of each member is all of them.
LEMMA AllNaturals ==
  ASSUME NEW S, 0 \in S, \A m \in Nat : m \in S => m + 1 \in S
  PROVE Nat \subseteq S
  <1> DEFINE R == {ss \in Nat \X Nat : ss[1] < ss[2]}
             T == Nat \ S
  <1>1. IsWellFoundedOn(R, Nat)
    BY NatLessThanWellFounded, Zenon DEF OpToRel
  <1>2. SUFFICES ASSUME T # {} PROVE FALSE
    OBVIOUS
  <1>3. PICK m \in T : \A y \in T : <<y, m>> \notin R
    <2> HIDE DEF R, T
    <2>1. T \subseteq Nat
      BY DEF T
    <2> QED BY <1>1, <1>2, <2>1, WFMin
  <1>4. m \in Nat \ {0}
    OBVIOUS
  <1>5. m - 1 \in Nat /\ <<m - 1, m>> \in R /\ m - 1 + 1 = m
    BY <1>4
  <1>6. m - 1 \in S
    BY <1>3, <1>5
  <1> QED BY <1>3, <1>5, <1>6

\* A set of naturals that is not empty has a least member.
LEMMA LeastNatural ==
  ASSUME NEW S, S \subseteq Nat, S # {}
  PROVE \E m \in S : \A y \in Nat : y < m => y \notin S
  <1> DEFINE R == {ss \in Nat \X Nat : ss[1] < ss[2]}
  <1>1. IsWellFoundedOn(R, Nat)
    BY NatLessThanWellFounded, Zenon DEF OpToRel
  <1>2. PICK m \in S : \A y \in S : <<y, m>> \notin R
    <2> HIDE DEF R
    <2> QED BY <1>1, WFMin
  <1>3. \A y \in Nat : y < m => y \notin S
    BY <1>2
  <1> QED BY <1>3

\* A map of a set into itself can be followed for ever.
LEMMA FollowExists ==
  ASSUME NEW S, NEW b \in S, NEW N \in [S -> S]
  PROVE \E f \in [Nat -> S] : f[0] = b /\ \A m \in Nat : f[m + 1] = N[f[m]]
  <1> DEFINE Is(g, m) == g \in [0 .. m -> S] /\ g[0] = b /\ \A j \in 1 .. m : g[j] = N[g[j - 1]]
             E == {m \in Nat : \E g : Is(g, m)}
  <1>1. 0 \in E
    <2>1. Is([j \in 0 .. 0 |-> b], 0)
      OBVIOUS
    <2> QED BY <2>1
  <1>2. ASSUME NEW m \in Nat, m \in E PROVE m + 1 \in E
    <2>1. PICK g : Is(g, m)
      BY <1>2
    <2> DEFINE h == [j \in 0 .. m + 1 |-> IF j = m + 1 THEN N[g[m]] ELSE g[j]]
    <2>2. h \in [0 .. m + 1 -> S] /\ h[0] = b
      BY <2>1
    <2>3. ASSUME NEW j \in 1 .. m + 1 PROVE h[j] = N[h[j - 1]]
      <3>1. CASE j = m + 1
        BY <3>1
      <3>2. CASE j \in 1 .. m
        BY <2>1, <3>2
      <3> QED BY <3>1, <3>2
    <2>4. Is(h, m + 1)
      BY <2>2, <2>3
    <2>5. m + 1 \in Nat /\ \E gg : Is(gg, m + 1)
      <3> HIDE DEF h, Is
      <3> QED BY <2>4
    <2> QED BY <2>5
  <1>3. Nat \subseteq E
    <2> HIDE DEF E
    <2> QED BY <1>1, <1>2, AllNaturals
  <1> DEFINE g(m) == CHOOSE g : Is(g, m)
  <1>4. \A m \in Nat : Is(g(m), m)
    BY <1>3
  <1>5. \A m \in Nat : g(m + 1)[m] = g(m)[m]
    <2> SUFFICES ASSUME NEW m \in Nat PROVE g(m + 1)[m] = g(m)[m]
      OBVIOUS
    <2> DEFINE A == {j \in Nat : j <= m => g(m + 1)[j] = g(m)[j]}
    <2>1. Is(g(m + 1), m + 1) /\ Is(g(m), m)
      <3> HIDE DEF g, Is
      <3>1. m + 1 \in Nat
        OBVIOUS
      <3> QED BY <1>4, <3>1
    <2> HIDE DEF g
    <2>2. 0 \in A
      BY <2>1
    <2>3. ASSUME NEW j \in Nat, j \in A PROVE j + 1 \in A
      <3> SUFFICES ASSUME j + 1 <= m PROVE g(m + 1)[j + 1] = g(m)[j + 1]
        OBVIOUS
      <3>1. g(m + 1)[j] = g(m)[j] /\ j + 1 \in 1 .. m /\ j + 1 \in 1 .. m + 1 /\ j + 1 - 1 = j
        BY <2>3
      <3>2. g(m + 1)[j + 1] = N[g(m + 1)[j + 1 - 1]]
        BY <2>1, <3>1
      <3>3. g(m)[j + 1] = N[g(m)[j + 1 - 1]]
        BY <2>1, <3>1
      <3> QED BY <3>1, <3>2, <3>3
    <2>4. Nat \subseteq A
      <3> HIDE DEF A
      <3> QED BY <2>2, <2>3, AllNaturals
    <2> QED BY <2>4
  <1> HIDE DEF g
  <1> DEFINE f == [m \in Nat |-> g(m)[m]]
  <1>6. f \in [Nat -> S] /\ f[0] = b
    BY <1>4
  <1>7. ASSUME NEW m \in Nat PROVE f[m + 1] = N[f[m]]
    <2>1. m + 1 \in Nat /\ m + 1 \in 1 .. m + 1 /\ m + 1 - 1 = m
      OBVIOUS
    <2>2. g(m + 1)[m + 1] = N[g(m + 1)[m + 1 - 1]]
      BY <1>4, <2>1
    <2> QED BY <1>5, <2>1, <2>2
  <1> HIDE DEF f
  <1> QED BY <1>6, <1>7

\* The walk starts at a, goes from each block to its next one and stays in the list.
LEMMA NthFacts ==
  ASSUME NEW h, NEW F, List(h, F), NEW a \in F
  PROVE /\ Nth(h, a, 0) = a
        /\ \A j \in Nat : Nth(h, a, j) \in F /\ Nth(h, a, j + 1) = h[Nth(h, a, j)].next
  <1> DEFINE N == [c \in F |-> h[c].next]
             Is(f) == f = [m \in Nat |-> IF m = 0 THEN a ELSE h[f[m - 1]].next]
             W == CHOOSE f : Is(f)
  <1>1. N \in [F -> F]
    BY DEF List, Succ
  <1>2. \A c \in F : N[c] = h[c].next
    OBVIOUS
  <1>3. \E f : Is(f)
    <2> HIDE DEF N
    <2>1. PICK f \in [Nat -> F] : f[0] = a /\ \A m \in Nat : f[m + 1] = N[f[m]]
      BY <1>1, FollowExists
    <2>2. ASSUME NEW m \in Nat PROVE f[m] = IF m = 0 THEN a ELSE h[f[m - 1]].next
      <3>1. CASE m = 0
        BY <2>1, <3>1
      <3>2. CASE m # 0
        <4>1. m - 1 \in Nat /\ m - 1 + 1 = m
          BY <3>2
        <4>2. f[m - 1 + 1] = N[f[m - 1]] /\ f[m - 1] \in F
          BY <2>1, <4>1
        <4> QED BY <1>2, <3>2, <4>1, <4>2
      <3> QED BY <3>1, <3>2
    <2> QED BY <2>2
  <1>4. W = [m \in Nat |-> IF m = 0 THEN a ELSE h[W[m - 1]].next]
    <2>1. Is(W)
      <3> HIDE DEF Is
      <3> QED BY <1>3
    <2> HIDE DEF W
    <2> QED BY <2>1
  <1>5. \A j : Nth(h, a, j) = W[j]
    BY DEF Nth
  <1> HIDE DEF W
  <1>6. W[0] = a /\ \A j \in Nat : W[j + 1] = h[W[j]].next
    <2>1. \A m \in Nat : W[m] = IF m = 0 THEN a ELSE h[W[m - 1]].next
      BY <1>4
    <2> HIDE DEF N
    <2>2. W[0] = a
      BY <2>1
    <2>3. ASSUME NEW j \in Nat PROVE W[j + 1] = h[W[j]].next
      <3>1. j + 1 \in Nat /\ j + 1 # 0 /\ j + 1 - 1 = j
        OBVIOUS
      <3>2. W[j + 1] = h[W[j + 1 - 1]].next
        BY <2>1, <3>1
      <3> QED BY <3>1, <3>2
    <2> QED BY <2>2, <2>3
  <1> DEFINE T == {j \in Nat : W[j] \in F}
  <1>7. Nat \subseteq T
    <2>1. 0 \in T /\ \A j \in Nat : j \in T => j + 1 \in T
      BY <1>1, <1>2, <1>6
    <2> HIDE DEF T
    <2> QED BY <2>1, AllNaturals
  <1> QED BY <1>5, <1>6, <1>7

-----------------------------------------------------------------------------
(* The search of free.                                                      *)

\* Where the search goes on, the list steps up without passing bp, or goes
\* back to the sentinel from a block above bp.
LEMMA NotBelow ==
  ASSUME NEW h, NEW brk, NEW F, NEW L, Heap(h, brk, F, L),
         NEW p \in F, NEW bp \in L, ~Below(h, p, bp), NEW q, q = h[p].next
  PROVE \/ p + HUnit <= q /\ (bp < p \/ q < bp)
        \/ q = BaseP /\ bp < p
  <1>1. /\ \A c \in Cells : c \in Nat /\ BaseP <= c
        /\ F \subseteq Cells /\ L \subseteq Cells
    BY HeapTypes
  <1>2. List(h, F) /\ L \cap F = {}
    BY DEF Heap
  <1>3. Succ(F, p, q) /\ q \in F /\ p \in Cells /\ q \in Cells
    BY <1>1, <1>2 DEF List, Succ
  <1>4. p \in Nat /\ q \in Nat /\ bp \in Nat /\ bp # p /\ bp # q /\ BaseP <= p
    BY <1>1, <1>2, <1>3
  <1>5. ~(bp > p /\ bp < q) /\ ~(p >= q /\ (bp > p \/ bp < q))
    BY DEF Below
  <1>6. CASE p < q
    <2>1. p + HUnit <= q
      BY <1>3, <1>6, CellGap
    <2> QED BY <1>4, <1>5, <1>6, <2>1
  <1>7. CASE ~(p < q)
    <2>1. q = BaseP
      BY <1>3, <1>7 DEF Succ
    <2> QED BY <1>4, <1>5, <1>7, <2>1
  <1> QED BY <1>6, <1>7

\* Where it stops is the place of bp.
LEMMA BelowPlace ==
  ASSUME NEW h, NEW brk, NEW F, NEW L, Heap(h, brk, F, L),
         NEW p \in F, NEW bp \in L, Below(h, p, bp)
  PROVE /\ Place(F, p, bp)
        /\ h[p].next \in F /\ (bp < h[p].next \/ h[p].next = BaseP)
  <1> DEFINE q == h[p].next
  <1>1. /\ \A c \in Cells : c \in Nat /\ BaseP <= c
        /\ F \subseteq Cells /\ L \subseteq Cells /\ BaseP \in Nat
    BY HeapTypes
  <1>2. List(h, F) /\ L \cap F = {} /\ BaseP \in F
    BY DEF Heap, List
  <1>3. Succ(F, p, q) /\ q \in F
    BY <1>2 DEF List, Succ
  <1>4. p \in Nat /\ q \in Nat /\ bp \in Nat /\ bp # p /\ bp # q /\ BaseP <= p /\ BaseP < bp
        /\ \A c \in F : c \in Nat
    <2>1. bp # p /\ bp # q /\ bp # BaseP
      BY <1>2, <1>3
    <2>2. p \in Cells /\ q \in Cells /\ bp \in Cells /\ \A c \in F : c \in Nat
      BY <1>1, <1>3
    <2> QED BY <1>1, <2>1, <2>2
  <1>5. (bp > p /\ bp < q) \/ (p >= q /\ (bp > p \/ bp < q))
    BY DEF Below
  <1> HIDE DEF q
  <1>6. CASE p < q
    <2>1. p < bp /\ bp < q
      BY <1>4, <1>5, <1>6
    <2>2. \A b \in F : b <= p \/ q <= b
      BY <1>3, <1>4, <1>6 DEF Succ
    <2>3. \A b \in F : b <= p \/ bp < b
      BY <1>4, <2>1, <2>2
    <2> QED BY <1>3, <2>1, <2>3 DEF Place, q
  <1>7. CASE ~(p < q)
    <2>1. q = BaseP /\ \A c \in F : c <= p
      BY <1>3, <1>7 DEF Succ
    <2>2. p < bp
      BY <1>4, <1>5, <1>7, <2>1
    <2> QED BY <1>3, <2>1, <2>2 DEF Place, q
  <1> QED BY <1>6, <1>7

\* A walk of as many steps as the arena has units leaves it.
LEMMA StepsEnough == Steps \in Nat /\ Steps * HUnit > HeapTop - BaseP
  <1> DEFINE D == HeapTop - BaseP
  <1>1. D \in Nat /\ HUnit \in Nat \ {0}
    BY HeapAssumption
  <1> HIDE DEF D
  <1> DEFINE k == D \div HUnit
  <1>2. k \in Nat /\ D < k * HUnit + HUnit
    <2>1. k \in Nat
      BY <1>1
    <2>2. D < k * HUnit + HUnit
      BY <1>1
    <2> QED BY <2>1, <2>2
  <1>3. k * HUnit \in Nat
    BY <1>2, Units
  <1>4. Steps = k + 1
    BY DEF Steps, D
  <1> HIDE DEF k
  <1>5. (k + 1) * HUnit = k * HUnit + HUnit
    BY <1>1, <1>2
  <1> QED BY <1>1, <1>2, <1>3, <1>4, <1>5 DEF D

\* free stops somewhere, within the steps it is given: every block it passes
\* takes it one unit up, and it goes back to the sentinel at most once.
LEMMA SearchEnds ==
  ASSUME NEW h, NEW brk, NEW F, NEW L, Heap(h, brk, F, L), NEW fp \in F, NEW bp \in L
  PROVE \E j \in 0 .. Steps : Below(h, Nth(h, fp, j), bp)
  <1> DEFINE x(j) == Nth(h, fp, j)
             low(j) == x(j) >= fp + j * HUnit /\ (fp < bp => x(j) < bp)
             high(j) == bp < fp /\ x(j) < bp /\ x(j) + (HeapTop - BaseP + HUnit) >= fp + j * HUnit
             S == {j \in Nat : j <= Steps => low(j) \/ high(j)}
  <1>1. /\ \A c \in Cells : c \in Nat /\ BaseP <= c /\ c <= HeapTop
        /\ F \subseteq Cells /\ L \subseteq Cells
        /\ BaseP \in Nat /\ HUnit \in Nat \ {0} /\ HeapTop \in Nat
    BY HeapTypes
  <1>2. List(h, F) /\ L \cap F = {} /\ BaseP \in F
    BY DEF Heap, List
  <1>3. x(0) = fp /\ \A j \in Nat : x(j) \in F /\ x(j + 1) = h[x(j)].next
    BY <1>2, NthFacts
  <1> HIDE DEF x
  <1>4. \A c \in F : c \in Nat /\ BaseP <= c /\ c <= HeapTop /\ c # bp
    BY <1>1, <1>2
  <1>5. bp \in Nat /\ fp \in Nat /\ bp \in Cells /\ BaseP < bp /\ BaseP <= fp
    BY <1>1, <1>2, <1>4
  <1>6. SUFFICES ASSUME \A j \in 0 .. Steps : ~Below(h, x(j), bp) PROVE FALSE
    BY DEF x
  <1>7. Steps \in Nat /\ Steps * HUnit > HeapTop - BaseP /\ Steps * HUnit \in Nat
    BY StepsEnough, Units
  <1>8. 0 \in S
    <2>1. 0 * HUnit = 0
      BY <1>1
    <2>2. low(0)
      BY <1>3, <1>5, <2>1
    <2> QED BY <2>2
  <1>9. ASSUME NEW m \in Nat, m \in S PROVE m + 1 \in S
    <2> SUFFICES ASSUME m + 1 <= Steps PROVE low(m + 1) \/ high(m + 1)
      OBVIOUS
    <2>1. low(m) \/ high(m)
      BY <1>7, <1>9
    <2> DEFINE p == x(m)
               q == x(m + 1)
               t == m * HUnit
    <2>2. /\ p \in F /\ q \in F /\ q = h[p].next /\ p \in Nat /\ q \in Nat /\ p <= HeapTop
      BY <1>3, <1>4
    <2>3. ~Below(h, p, bp)
      BY <1>6, <1>7
    <2>4. (m + 1) * HUnit = t + HUnit /\ t \in Nat
      BY <1>1, Units
    <2> HIDE DEF p, q, t
    <2>5. \/ p + HUnit <= q /\ (bp < p \/ q < bp)
          \/ q = BaseP /\ bp < p
      BY <2>2, <2>3, NotBelow
    <2>6. CASE low(m)
      <3>1. p >= fp + t /\ (fp < bp => p < bp)
        BY <2>6 DEF p, t
      <3>2. CASE p + HUnit <= q /\ (bp < p \/ q < bp)
        <4>1. q >= fp + (t + HUnit) /\ (fp < bp => q < bp)
          BY <1>1, <1>5, <2>2, <2>4, <3>1, <3>2
        <4> QED BY <2>4, <4>1 DEF q
      <3>3. CASE q = BaseP /\ bp < p
        <4>1. ~(fp < bp) /\ fp # bp
          BY <1>4, <1>5, <2>2, <3>1, <3>3
        <4>2. bp < fp /\ q < bp /\ q + (HeapTop - BaseP + HUnit) >= fp + (t + HUnit)
          BY <1>1, <1>5, <2>2, <2>4, <3>1, <3>3, <4>1
        <4> QED BY <2>4, <4>2 DEF q
      <3> QED BY <2>5, <3>2, <3>3
    <2>7. CASE high(m)
      <3>1. bp < fp /\ p < bp /\ p + (HeapTop - BaseP + HUnit) >= fp + t
        BY <2>7 DEF p, t
      <3>2. p + HUnit <= q /\ q < bp
        BY <1>5, <2>2, <2>5, <3>1
      <3>3. q + (HeapTop - BaseP + HUnit) >= fp + (t + HUnit)
        BY <1>1, <1>5, <2>2, <2>4, <3>1, <3>2
      <3> QED BY <2>4, <3>1, <3>2, <3>3 DEF q
    <2> QED BY <2>1, <2>6, <2>7
  <1>10. low(Steps) \/ high(Steps)
    <2> HIDE DEF low, high
    <2>1. Nat \subseteq S
      <3> HIDE DEF S
      <3> QED BY <1>8, <1>9, AllNaturals
    <2>2. Steps \in S /\ Steps <= Steps
      BY <1>7, <2>1
    <2> QED BY <2>2
  <1> DEFINE z == x(Steps)
             d == Steps * HUnit
  <1>11. z \in F /\ z \in Nat /\ z <= HeapTop /\ z \in Cells
    BY <1>1, <1>3, <1>4, <1>7
  <1>12. z >= fp + d \/ (bp < fp /\ z < bp /\ z + (HeapTop - BaseP + HUnit) >= fp + d)
    BY <1>10
  <1>13. d \in Nat /\ d > HeapTop - BaseP
    BY <1>7
  <1> HIDE DEF z, d
  <1>14. CASE z >= fp + d
    BY <1>1, <1>5, <1>11, <1>13, <1>14
  <1>15. CASE bp < fp /\ z < bp /\ z + (HeapTop - BaseP + HUnit) >= fp + d
    <2>1. z + HUnit <= bp /\ bp + HUnit <= fp
      BY <1>1, <1>5, <1>11, <1>15, CellGap
    <2> QED BY <1>1, <1>5, <1>11, <1>13, <1>15, <2>1
  <1> QED BY <1>12, <1>14, <1>15

\* The first such place is the one free takes.
LEMMA SearchStops ==
  ASSUME NEW h, NEW brk, NEW F, NEW L, Heap(h, brk, F, L), NEW fp \in F, NEW bp \in L
  PROVE \E j \in 0 .. Steps :
          Below(h, Nth(h, fp, j), bp) /\ \A i \in 0 .. (j - 1) : ~Below(h, Nth(h, fp, i), bp)
  <1> DEFINE S == {j \in 0 .. Steps : Below(h, Nth(h, fp, j), bp)}
  <1>1. Steps \in Nat /\ S # {} /\ S \subseteq Nat
    BY SearchEnds, StepsEnough
  <1>2. PICK j \in S : \A y \in Nat : y < j => y \notin S
    <2> HIDE DEF S
    <2> QED BY <1>1, LeastNatural
  <1>3. \A i \in 0 .. (j - 1) : ~Below(h, Nth(h, fp, i), bp)
    <2> SUFFICES ASSUME NEW i \in 0 .. (j - 1) PROVE ~Below(h, Nth(h, fp, i), bp)
      OBVIOUS
    <2>1. j \in Nat /\ j <= Steps /\ i \in Nat /\ i < j /\ i \in 0 .. Steps
      BY <1>1, <1>2
    <2>2. i \notin S
      BY <1>2, <2>1
    <2> QED BY <2>1, <2>2
  <1> QED BY <1>2, <1>3

-----------------------------------------------------------------------------
(* free.                                                                    *)

\* From h to g the block at bp is linked in between p and q and joined with q
\* if they touch.
Linked(h, g, p, bp, q) ==
  /\ g \in Headers /\ g[p].next = bp /\ g[p].size = h[p].size
  /\ \A c \in Cells \ {p, bp, q} : g[c] = h[c]
  /\ \/ /\ End(h, bp) = q
        /\ g[bp].next = h[q].next /\ g[bp].size = h[bp].size + h[q].size
     \/ /\ End(h, bp) # q /\ (q # p => g[q] = h[q])
        /\ g[bp].next = q /\ g[bp].size = h[bp].size

\* A freed block is linked in at its place and joined with its upper neighbour.
LEMMA UpperJoined ==
  ASSUME NEW h, NEW brk, NEW F, NEW L, Heap(h, brk, F, L), Apart(h, F, {}),
         NEW bp \in L, NEW p \in F, Place(F, p, bp),
         NEW q \in F, q = h[p].next, bp < q \/ q = BaseP,
         NEW g, Linked(h, g, p, bp, q)
  PROVE \E G : Heap(g, brk, G, L \ {bp}) /\ Apart(g, G, {p}) /\ p \in G /\ bp \in G
  <1>0. /\ g \in Headers /\ g[p].next = bp /\ g[p].size = h[p].size
        /\ \A c \in Cells \ {p, bp, q} : g[c] = h[c]
        /\ \/ /\ End(h, bp) = q
              /\ g[bp].next = h[q].next /\ g[bp].size = h[bp].size + h[q].size
           \/ /\ End(h, bp) # q /\ (q # p => g[q] = h[q])
              /\ g[bp].next = q /\ g[bp].size = h[bp].size
    BY DEF Linked
  <1> DEFINE k == [c \in Cells |-> [next |-> IF c = p THEN bp ELSE IF c = bp THEN q ELSE h[c].next,
                                    size |-> h[c].size]]
             K == F \cup {bp}
             M == L \ {bp}
  <1>1. /\ \A c \in Cells : c \in Nat /\ BaseP <= c /\ h[c].size \in Nat /\ h[c].next \in Nat
                            /\ End(h, c) \in Nat
        /\ F \subseteq Cells /\ L \subseteq Cells /\ BaseP \in Nat /\ BaseP \in Cells
        /\ \A c \in Blocks(F, L) : c \in Cells /\ c # BaseP /\ End(h, c) >= c + HUnit
        /\ HUnit \in Nat \ {0}
    BY HeapTypes
  <1>2. List(h, F) /\ L \cap F = {} /\ Tiles(h, brk, Blocks(F, L))
    BY DEF Heap
  <1>3. p \in Cells /\ bp \in Cells /\ q \in Cells /\ bp \in Blocks(F, L) /\ bp \notin F
    BY <1>1, <1>2 DEF Blocks
  <1>4. p \in Nat /\ bp \in Nat /\ q \in Nat /\ p < bp /\ \A b \in F : b <= p \/ bp < b
    BY <1>1, <1>3 DEF Place
  <1>5. p # bp /\ q # bp
    BY <1>3
  <1>6. k \in Headers
    BY <1>1, <1>4 DEF Headers
  <1>7. /\ \A c \in Cells : k[c].size = h[c].size
        /\ k[p].next = bp /\ k[bp].next = q
        /\ \A c \in Cells \ {p, bp} : k[c].next = h[c].next
    BY <1>3, <1>5
  <1> HIDE DEF k
  <1>8. Heap(k, brk, K, M)
    BY <1>6, <1>7, LinkHeap
  <1>9. \A c \in Cells : End(k, c) = End(h, c)
    BY <1>7 DEF End
  <1>10. \A a \in F \ {BaseP, p} : End(h, a) \notin K
    <2> SUFFICES ASSUME NEW a \in F \ {BaseP, p}, End(h, a) \in K PROVE FALSE
      OBVIOUS
    <2>1. a \in Blocks(F, L) /\ a \in Cells
      BY <1>1 DEF Blocks
    <2>2. End(h, a) = bp
      BY DEF Apart
    <2>3. a \in Nat /\ End(h, a) >= a + HUnit
      BY <1>1, <2>1
    <2>4. a < bp
      BY <1>1, <2>2, <2>3
    <2>5. a < p
      BY <1>4, <2>3, <2>4
    <2>6. p # BaseP
      BY <1>1, <2>1, <2>5
    <2>7. p \in Blocks(F, L)
      BY <2>6 DEF Blocks
    <2>8. End(h, a) <= p
      BY <1>2, <2>1, <2>5, <2>7 DEF Tiles
    <2> QED BY <1>4, <2>2, <2>8
  <1>11. End(h, bp) > bp
    BY <1>1, <1>3, <1>4
  <1>12. CASE End(h, bp) # q
    <2>1. \A c \in Cells : g[c].next = k[c].next /\ g[c].size = k[c].size
      <3> SUFFICES ASSUME NEW c \in Cells PROVE g[c].next = k[c].next /\ g[c].size = k[c].size
        OBVIOUS
      <3>1. CASE c = p
        BY <1>0, <1>7, <3>1
      <3>2. CASE c = bp
        BY <1>0, <1>7, <1>12, <3>2
      <3>3. CASE c \notin {p, bp}
        <4>1. g[c] = h[c]
          BY <1>0, <1>12, <3>3
        <4> QED BY <1>7, <3>3, <4>1
      <3> QED BY <3>1, <3>2, <3>3
    <2>2. g = k
      BY <1>0, <1>6, <2>1 DEF Headers
    <2>3. End(h, bp) \notin K
      <3> SUFFICES ASSUME End(h, bp) \in K PROVE FALSE
        OBVIOUS
      <3> DEFINE e == End(h, bp)
      <3>1. e \in F /\ e > bp /\ e \in Nat /\ e # q
        BY <1>1, <1>3, <1>4, <1>11, <1>12
      <3> HIDE DEF e
      <3>2. Succ(F, p, q)
        BY <1>2 DEF List
      <3>3. p < q /\ q <= e
        BY <1>1, <1>4, <3>1, <3>2 DEF Succ
      <3>4. bp < q /\ q # BaseP
        BY <1>1, <1>3, <1>4, <3>3
      <3>5. q \in Blocks(F, L)
        BY <3>4 DEF Blocks
      <3>6. e <= q
        BY <1>2, <1>3, <3>4, <3>5 DEF Tiles, e
      <3> QED BY <1>4, <3>1, <3>3, <3>6
    <2>4. Apart(k, K, {p})
      BY <1>1, <1>3, <1>9, <1>10, <2>3 DEF Apart
    <2> QED BY <1>8, <2>2, <2>4
  <1>13. CASE End(h, bp) = q
    <2>1. bp < q /\ q # BaseP /\ q # p
      BY <1>1, <1>4, <1>11, <1>13
    <2>2. bp # BaseP /\ bp \in K \ {BaseP}
      BY <1>1, <1>3
    <2>3. k[bp].next = q /\ End(k, bp) = q
      BY <1>3, <1>7, <1>9, <1>13
    <2>4. g[bp].next = k[q].next /\ g[bp].size = k[bp].size + k[q].size
      BY <1>0, <1>3, <1>7, <1>13, <2>1
    <2>5. \A c \in Cells \ {bp, q} : g[c].next = k[c].next /\ g[c].size = k[c].size
      <3> SUFFICES ASSUME NEW c \in Cells \ {bp, q} PROVE g[c].next = k[c].next /\ g[c].size = k[c].size
        OBVIOUS
      <3>1. CASE c = p
        BY <1>0, <1>7, <3>1
      <3>2. CASE c # p
        BY <1>0, <1>7, <3>2
      <3> QED BY <3>1, <3>2
    <2>6. Heap(g, brk, K \ {q}, M) /\ End(g, bp) = End(k, q)
      <3> HIDE DEF K, M
      <3>1. g \in Headers
        BY <1>0
      <3> QED BY ONLY <1>8, <2>2, <2>3, <2>4, <2>5, <3>1, MergeHeap
    <2>7. End(h, q) \notin K
      <3>1. End(h, q) \notin F
        BY <2>1 DEF Apart
      <3>2. q \in Blocks(F, L)
        BY <2>1 DEF Blocks
      <3>3. End(h, q) > bp
        BY <1>1, <1>3, <1>4, <2>1, <3>2
      <3> QED BY <1>1, <1>3, <1>4, <3>1, <3>3
    <2>8. Apart(g, K \ {q}, {p})
      <3> SUFFICES ASSUME NEW a \in (K \ {q}) \ {BaseP}, End(g, a) \in K \ {q}, a # p PROVE FALSE
        BY DEF Apart
      <3>1. CASE a = bp
        BY <1>3, <1>9, <2>6, <2>7, <3>1
      <3>2. CASE a # bp
        <4>1. a \in Cells \ {bp, q} /\ a \in F \ {BaseP, p}
          BY <1>1, <3>2
        <4>2. End(g, a) = End(h, a)
          BY <1>7, <2>5, <4>1 DEF End
        <4> QED BY <1>10, <4>1, <4>2
      <3> QED BY <3>1, <3>2
    <2>9. p \in K \ {q} /\ bp \in K \ {q}
      BY <1>5, <2>1
    <2> QED BY <2>6, <2>8, <2>9
  <1> QED BY <1>12, <1>13

\* The block below it takes it in when they touch.
LEMMA LowerJoined ==
  ASSUME NEW h, NEW brk, NEW F, NEW L, Heap(h, brk, F, L),
         NEW p \in F, NEW bp \in F, p < bp, h[p].next = bp, Apart(h, F, {p}),
         NEW g \in Headers,
         \/ /\ End(h, p) = bp
            /\ g[p].next = h[bp].next /\ g[p].size = h[p].size + h[bp].size
            /\ \A c \in Cells \ {p, bp} : g[c] = h[c]
         \/ End(h, p) # bp /\ g = h
  PROVE \E G : Heap(g, brk, G, L) /\ Apart(g, G, {}) /\ p \in G
  <1>1. /\ \A c \in Cells : c \in Nat /\ BaseP <= c /\ End(h, c) \in Nat
        /\ F \subseteq Cells /\ L \subseteq Cells /\ BaseP \in Nat /\ BaseP \in Cells
        /\ \A c \in Blocks(F, L) : c \in Cells /\ c # BaseP /\ End(h, c) >= c + HUnit
        /\ HUnit \in Nat \ {0}
    BY HeapTypes
  <1>2. List(h, F) /\ h[BaseP].size = 0 /\ Tiles(h, brk, Blocks(F, L))
    BY DEF Heap
  <1>3. p \in Cells /\ bp \in Cells /\ p \in Nat /\ bp \in Nat /\ p # bp /\ bp # BaseP
        /\ bp \in Blocks(F, L)
    <2>1. p \in Cells /\ bp \in Cells /\ p \in Nat /\ bp \in Nat /\ BaseP <= p
      BY <1>1
    <2>2. p # bp /\ bp # BaseP
      BY <1>1, <2>1
    <2> QED BY <2>1, <2>2 DEF Blocks
  <1>4. CASE End(h, p) = bp
    <2>1. p # BaseP
      <3> SUFFICES ASSUME p = BaseP PROVE FALSE
        OBVIOUS
      <3>1. h[p].size * HUnit = 0
        BY <1>1, <1>2
      <3>2. End(h, p) = p
        BY <1>3, <3>1 DEF End
      <3> QED BY <1>3, <1>4, <3>2
    <2>2. Heap(g, brk, F \ {bp}, L) /\ End(g, p) = End(h, bp)
      BY <1>4, <2>1, MergeHeap
    <2>3. Apart(g, F \ {bp}, {})
      <3> SUFFICES ASSUME NEW a \in (F \ {bp}) \ {BaseP}, End(g, a) \in F \ {bp} PROVE FALSE
        BY DEF Apart
      <3>1. CASE a = p
        BY <1>3, <2>2, <3>1 DEF Apart
      <3>2. CASE a # p
        <4>1. g[a] = h[a]
          BY <1>1, <1>4, <3>2
        <4>2. End(g, a) = End(h, a)
          BY <4>1 DEF End
        <4> QED BY <3>2, <4>2 DEF Apart
      <3> QED BY <3>1, <3>2
    <2> QED BY <1>3, <2>2, <2>3
  <1>5. CASE End(h, p) # bp
    <2>1. Apart(h, F, {})
      <3> SUFFICES ASSUME NEW a \in F \ {BaseP}, End(h, a) \in F PROVE FALSE
        BY DEF Apart
      <3>1. a = p /\ p # BaseP
        BY DEF Apart
      <3> DEFINE e == End(h, p)
      <3>2. p \in Blocks(F, L)
        BY <3>1 DEF Blocks
      <3>3. e \in F /\ e > p /\ e \in Nat
        BY <1>1, <1>3, <3>1, <3>2
      <3>4. e <= bp
        BY <1>2, <1>3, <3>2 DEF Tiles
      <3> HIDE DEF e
      <3>5. Succ(F, p, bp)
        BY <1>2 DEF List
      <3>6. bp <= e
        BY <1>1, <1>3, <3>3, <3>5 DEF Succ
      <3>7. e = bp
        BY <1>3, <3>3, <3>4, <3>6
      <3> QED BY <1>5, <3>7 DEF e
    <2> QED BY <1>5, <2>1
  <1> QED BY <1>4, <1>5

\* Where a block ends does not wrap, so the code's test for neighbours is exact.
LEMMA JoinExact ==
  ASSUME NEW h, NEW brk, NEW F, NEW L, Heap(h, brk, F, L), NEW a \in F \cup L, NEW b
  PROVE Join(a, h[a].size, b) <=> End(h, a) = b
  <1>1. /\ \A c \in Cells : c \in Nat /\ BaseP <= c /\ c <= HeapTop /\ End(h, c) \in Nat
        /\ F \subseteq Cells /\ L \subseteq Cells /\ BaseP \in Cells
        /\ brk <= HeapTop /\ brk \in Nat /\ HeapTop \in Nat /\ HUnit \in Nat
    BY HeapTypes
  <1>2. End(h, a) <= HeapTop /\ End(h, a) \in Nat
    <2>1. CASE a = BaseP
      <3>1. h[a].size * HUnit = 0
        BY <1>1, <2>1 DEF Heap
      <3>2. End(h, a) = a
        BY <1>1, <2>1, <3>1 DEF End
      <3> QED BY <1>1, <2>1, <3>2
    <2>2. CASE a # BaseP
      <3>1. a \in Blocks(F, L) /\ a \in Cells
        BY <1>1, <2>2 DEF Blocks
      <3>2. End(h, a) <= brk
        BY <3>1 DEF Heap, Tiles
      <3> QED BY <1>1, <3>1, <3>2
    <2> QED BY <2>1, <2>2
  <1>3. U32(End(h, a)) = End(h, a)
    BY <1>2, NoWrap
  <1> QED BY <1>3 DEF Join, End

\* Nor does the size of two neighbours together.
LEMMA SumExact ==
  ASSUME NEW h, NEW brk, NEW F, NEW L, Heap(h, brk, F, L),
         NEW a \in F \cup L, a # BaseP, NEW b \in F \cup L, b # BaseP, End(h, a) = b
  PROVE U32(h[a].size + h[b].size) = h[a].size + h[b].size
  <1>1. /\ \A c \in Cells : c \in Nat /\ h[c].size \in Nat /\ End(h, c) \in Nat
                            /\ End(h, c) = c + h[c].size * HUnit
        /\ F \subseteq Cells /\ L \subseteq Cells
        /\ brk <= HeapTop /\ brk \in Nat /\ HeapTop \in Nat
    BY HeapTypes
  <1>2. a \in Cells /\ b \in Cells /\ b \in Blocks(F, L)
    BY <1>1 DEF Blocks
  <1>3. End(h, b) <= brk
    BY <1>2 DEF Heap, Tiles
  <1> DEFINE s == h[a].size
             t == h[b].size
  <1>4. s \in Nat /\ t \in Nat /\ a \in Nat /\ b \in Nat /\ End(h, b) \in Nat
        /\ b = a + s * HUnit /\ End(h, b) = b + t * HUnit
    BY <1>1, <1>2
  <1> HIDE DEF s, t
  <1>5. s <= s * HUnit /\ t <= t * HUnit /\ s * HUnit \in Nat /\ t * HUnit \in Nat
    BY <1>4, Units
  <1>6. s + t \in Nat /\ s + t <= HeapTop
    BY <1>1, <1>3, <1>4, <1>5
  <1>7. U32(s + t) = s + t
    BY <1>6, NoWrap
  <1> QED BY <1>7 DEF s, t

\* free keeps the heap and the list coalesced, and touches no live block.
LEMMA FreedHeap ==
  ASSUME NEW h, NEW brk, NEW fp, NEW L, Sound(h, brk, fp, L),
         NEW bp \in L, NEW r, r = Freed(h, fp, bp)
  PROVE /\ Sound(r.hdr, brk, r.freep, L \ {bp})
        /\ Untouched(h, r.hdr, L \ {bp})
  <1>0. PICK F : Heap(h, brk, F, L) /\ Apart(h, F, {}) /\ fp \in F
    BY DEF Sound
  <1> DEFINE j == CHOOSE j \in 0 .. Steps :
                    Below(h, Nth(h, fp, j), bp)
                    /\ \A i \in 0 .. (j - 1) : ~Below(h, Nth(h, fp, i), bp)
             p == Nth(h, fp, j)
             q == h[p].next
             up == IF Join(bp, h[bp].size, q)
                     THEN [next |-> h[q].next, size |-> U32(h[bp].size + h[q].size)]
                     ELSE [next |-> q, size |-> h[bp].size]
             h1 == IF up.next = q THEN [h EXCEPT ![bp] = up] ELSE [h EXCEPT ![bp] = up, ![q] = Data]
             k == [h1 EXCEPT ![p].next = bp]
             g == IF Join(p, h1[p].size, bp)
                    THEN [h1 EXCEPT ![p] = [next |-> up.next, size |-> U32(h1[p].size + up.size)],
                                    ![bp] = Data]
                    ELSE k
             M == L \ {bp}
  <1>1. r.hdr = g /\ r.freep = p
    BY DEF Freed
  <1>2. j \in 0 .. Steps /\ Below(h, p, bp)
    BY <1>0, SearchStops
  <1> HIDE DEF j
  <1>3. List(h, F) /\ L \cap F = {} /\ h \in Headers
    BY <1>0 DEF Heap
  <1>4. p \in F
    <2>1. j \in Nat
      BY <1>2, StepsEnough
    <2> QED BY <1>0, <1>3, <2>1, NthFacts
  <1> HIDE DEF p
  <1>5. Place(F, p, bp) /\ q \in F /\ (bp < q \/ q = BaseP)
    BY <1>0, <1>2, <1>4, BelowPlace
  <1>6. Succ(F, p, q) /\ Succ(F, q, h[q].next)
    BY <1>3, <1>4, <1>5 DEF List
  <1> HIDE DEF q
  <1>7. /\ \A c \in Cells : c \in Nat /\ BaseP <= c /\ h[c].next \in Nat /\ h[c].size \in Nat
                            /\ End(h, c) \in Nat
        /\ F \subseteq Cells /\ L \subseteq Cells /\ BaseP \in Nat /\ BaseP \in Cells
        /\ \A c \in Blocks(F, L) : c \in Cells /\ c # BaseP /\ End(h, c) >= c + HUnit
        /\ HUnit \in Nat \ {0}
    BY <1>0, HeapTypes
  <1>8. /\ p \in Cells /\ bp \in Cells /\ q \in Cells /\ p # bp /\ q # bp /\ bp # BaseP
        /\ p < bp
    <2>1. BaseP \in F
      BY <1>3 DEF List
    <2> QED BY <1>3, <1>4, <1>5, <1>7, <2>1 DEF Place
  <1>9. Join(bp, h[bp].size, q) <=> End(h, bp) = q
    BY <1>0, JoinExact
  <1>10. End(h, bp) = q => /\ q # BaseP /\ q # p /\ h[q].next # q
                           /\ U32(h[bp].size + h[q].size) = h[bp].size + h[q].size
    <2> SUFFICES ASSUME End(h, bp) = q
                 PROVE /\ q # BaseP /\ q # p /\ h[q].next # q
                       /\ U32(h[bp].size + h[q].size) = h[bp].size + h[q].size
      OBVIOUS
    <2>1. bp \in Blocks(F, L)
      BY <1>8 DEF Blocks
    <2>2. End(h, bp) >= bp + HUnit
      BY <1>7, <2>1
    <2>3. bp \in Nat /\ p \in Nat /\ q \in Nat
      BY <1>7, <1>8
    <2>4. bp < q
      BY <1>7, <2>2, <2>3
    <2>5. q # BaseP /\ q # p
      BY <1>7, <1>8, <2>3, <2>4
    <2>6. h[q].next # q
      BY <1>6, <2>3, <2>5 DEF Succ
    <2>7. U32(h[bp].size + h[q].size) = h[bp].size + h[q].size
      BY <1>5, <1>8, <2>5, <1>0, SumExact
    <2> QED BY <2>5, <2>6, <2>7
  <1>11. /\ k \in Headers /\ k[p].next = bp /\ k[p].size = h[p].size /\ h1[p] = h[p]
         /\ k[bp] = up /\ up \in [next : Nat, size : Nat] /\ h1 \in Headers
         /\ \A c \in Cells \ {p, bp, q} : k[c] = h[c] /\ h1[c] = h[c]
         /\ \A c \in Cells \ {p} : k[c] = h1[c]
         /\ k[p] = [next |-> bp, size |-> h1[p].size]
    <2>1. CASE End(h, bp) = q
      <3>1. up = [next |-> h[q].next, size |-> h[bp].size + h[q].size] /\ up \in [next : Nat, size : Nat]
        <4>1. up = [next |-> h[q].next, size |-> h[bp].size + h[q].size]
          BY <1>9, <1>10, <2>1
        <4>2. h[q].next \in Nat /\ h[bp].size \in Nat /\ h[q].size \in Nat
          BY <1>7, <1>8
        <4> HIDE DEF up
        <4> QED BY <4>1, <4>2
      <3>2. h1 = [h EXCEPT ![bp] = up, ![q] = Data]
        BY <1>10, <2>1, <3>1
      <3>3. h1 \in Headers /\ h1[p] = h[p] /\ h1[bp] = up /\ \A c \in Cells \ {p, bp, q} : h1[c] = h[c]
        <4> HIDE DEF h1, up
        <4>1. Data \in [next : Nat, size : Nat]
          BY DEF Data
        <4> QED BY <1>3, <1>8, <1>10, <2>1, <3>1, <3>2, <4>1 DEF Headers
      <3> HIDE DEF h1, up
      <3>4. k \in Headers /\ k[p] = [next |-> bp, size |-> h1[p].size] /\ \A c \in Cells \ {p} : k[c] = h1[c]
        <4>1. bp \in Nat
          BY <1>7, <1>8
        <4> QED BY <1>8, <3>3, <4>1 DEF Headers
      <3> HIDE DEF k
      <3> QED BY <1>8, <3>1, <3>3, <3>4
    <2>2. CASE End(h, bp) # q
      <3>1. up = [next |-> q, size |-> h[bp].size] /\ up \in [next : Nat, size : Nat]
        BY <1>7, <1>8, <1>9, <2>2
      <3>2. h1 = [h EXCEPT ![bp] = up]
        BY <3>1
      <3>3. h1 \in Headers /\ h1[p] = h[p] /\ h1[bp] = up /\ \A c \in Cells \ {p, bp, q} : h1[c] = h[c]
        <4> HIDE DEF h1, up
        <4> QED BY <1>3, <1>8, <3>1, <3>2 DEF Headers
      <3> HIDE DEF h1, up
      <3>4. k \in Headers /\ k[p] = [next |-> bp, size |-> h1[p].size] /\ \A c \in Cells \ {p} : k[c] = h1[c]
        <4>1. bp \in Nat
          BY <1>7, <1>8
        <4> QED BY <1>8, <3>3, <4>1 DEF Headers
      <3> HIDE DEF k
      <3> QED BY <1>8, <3>1, <3>3, <3>4
    <2> QED BY <2>1, <2>2
  <1>12. \/ /\ End(h, bp) = q
            /\ k[bp].next = h[q].next /\ k[bp].size = h[bp].size + h[q].size
         \/ /\ End(h, bp) # q /\ (q # p => k[q] = h[q])
            /\ k[bp].next = q /\ k[bp].size = h[bp].size
    <2>1. CASE End(h, bp) = q
      <3>1. up = [next |-> h[q].next, size |-> h[bp].size + h[q].size]
        BY <1>9, <1>10, <2>1
      <3> HIDE DEF k, up
      <3> QED BY <1>11, <2>1, <3>1
    <2>2. CASE End(h, bp) # q
      <3>1. up = [next |-> q, size |-> h[bp].size]
        BY <1>9, <2>2
      <3>2. h1 = [h EXCEPT ![bp] = up]
        BY <3>1
      <3> HIDE DEF k, up, h1
      <3>3. q # p => k[q] = h[q]
        <4>1. h1[q] = h[q]
          BY <1>3, <1>8, <3>2 DEF Headers
        <4> QED BY <1>8, <1>11, <4>1
      <3> QED BY <1>11, <2>2, <3>1, <3>3
    <2> QED BY <2>1, <2>2
  <1> HIDE DEF up, h1, k
  <1>13. PICK G : Heap(k, brk, G, M) /\ Apart(k, G, {p}) /\ p \in G /\ bp \in G
    <2>1. Linked(h, k, p, bp, q)
      BY <1>11, <1>12 DEF Linked
    <2>2. q = h[p].next
      BY DEF q
    <2>3. Heap(h, brk, F, L) /\ Apart(h, F, {}) /\ bp \in L
      BY <1>0
    <2>4. \E G : Heap(k, brk, G, L \ {bp}) /\ Apart(k, G, {p}) /\ p \in G /\ bp \in G
      BY ONLY <1>4, <1>5, <2>1, <2>2, <2>3, UpperJoined
    <2> QED BY <2>4
  <1>14. g \in Headers
         /\ \/ /\ End(k, p) = bp
               /\ g[p].next = k[bp].next /\ g[p].size = k[p].size + k[bp].size
               /\ \A c \in Cells \ {p, bp} : g[c] = k[c]
            \/ End(k, p) # bp /\ g = k
    <2>1. Join(p, h1[p].size, bp) <=> End(k, p) = bp
      <3> HIDE DEF M
      <3>1. Join(p, k[p].size, bp) <=> End(k, p) = bp
        BY ONLY <1>13, JoinExact
      <3> QED BY <1>11, <3>1
    <2>2. CASE End(k, p) = bp
      <3>1. p # BaseP
        <4> SUFFICES ASSUME p = BaseP PROVE FALSE
          OBVIOUS
        <4>1. k[p].size * HUnit = 0
          BY <1>7, <1>13 DEF Heap
        <4>2. End(k, p) = p
          BY <1>7, <4>1 DEF End
        <4> QED BY <1>8, <2>2, <4>2
      <3>2. U32(k[p].size + k[bp].size) = k[p].size + k[bp].size
        BY <1>8, <1>13, <2>2, <3>1, SumExact
      <3>3. g = [h1 EXCEPT ![p] = [next |-> up.next, size |-> U32(h1[p].size + up.size)],
                           ![bp] = Data]
        BY <2>1, <2>2
      <3>4. g = [h1 EXCEPT ![p] = [next |-> up.next, size |-> k[p].size + k[bp].size],
                           ![bp] = Data]
        <4>1. k[p].size = h1[p].size /\ k[bp].size = up.size
          BY <1>11
        <4> HIDE DEF g
        <4> QED BY <3>2, <3>3, <4>1
      <3> DEFINE v == [next |-> up.next, size |-> k[p].size + k[bp].size]
      <3>5. v \in [next : Nat, size : Nat]
        BY <1>7, <1>8, <1>11
      <3>6. Data \in [next : Nat, size : Nat]
        BY DEF Data
      <3>7. v.next = k[bp].next /\ v.size = k[p].size + k[bp].size
        BY <1>11
      <3> HIDE DEF v
      <3>8. g = [h1 EXCEPT ![p] = v, ![bp] = Data]
        BY <3>4 DEF v
      <3> HIDE DEF g
      <3>9. g \in Headers /\ g[p] = v /\ \A c \in Cells \ {p, bp} : g[c] = h1[c]
        BY <1>8, <1>11, <3>5, <3>6, <3>8 DEF Headers
      <3> QED BY <1>11, <2>2, <3>7, <3>9
    <2>3. CASE End(k, p) # bp
      BY <1>11, <2>1, <2>3
    <2> QED BY <2>2, <2>3
  <1> HIDE DEF g
  <1>15. \E GG : Heap(g, brk, GG, M) /\ Apart(g, GG, {}) /\ p \in GG
    <2>1. p < bp /\ k[p].next = bp
      BY <1>8, <1>11
    <2> HIDE DEF M
    <2> QED BY <1>13, <1>14, <2>1, LowerJoined
  <1>16. ASSUME NEW l \in M PROVE g[l] = h[l]
    <2>1. l \in Cells \ {p, bp, q}
      BY <1>3, <1>4, <1>5, <1>7
    <2>2. k[l] = h[l]
      BY <1>11, <2>1
    <2>3. g[l] = k[l]
      BY <1>14, <2>1
    <2> QED BY <2>2, <2>3
  <1> QED BY <1>1, <1>15, <1>16 DEF Sound, Untouched

-----------------------------------------------------------------------------
(* malloc.                                                                  *)

\* The two ways malloc writes the headers: p, behind r, is unlinked; or its last
\* m units become a block at a.
Unlinked(h, r, p) == [h EXCEPT ![r].next = h[p].next, ![p].next = 0]
Tail(h, p, m) == p + (h[p].size - m) * HUnit
Halved(h, p, m, a) == [h EXCEPT ![p].size = h[p].size - m, ![a].size = m]

\* A block that fits is unlinked and becomes live.
LEMMA TakeWhole ==
  ASSUME NEW h, NEW brk, NEW F, NEW L, Heap(h, brk, F, L), Apart(h, F, {}),
         NEW r \in F, NEW p \in F \ {BaseP}, h[r].next = p,
         NEW g, g = Unlinked(h, r, p)
  PROVE /\ \E G : Heap(g, brk, G, L \cup {p}) /\ Apart(g, G, {}) /\ r \in G
        /\ p \in Cells /\ p > BaseP /\ p \notin L /\ g[p].size = h[p].size
        /\ Untouched(h, g, L)
  <1>1. /\ \A c \in Cells : c \in Nat /\ BaseP <= c /\ h[c].next \in Nat /\ h[c].size \in Nat
        /\ F \subseteq Cells /\ L \subseteq Cells /\ BaseP \in Nat
    BY HeapTypes
  <1>2. h \in Headers /\ L \cap F = {}
    BY DEF Heap
  <1>3. r \in Cells /\ p \in Cells /\ p # BaseP /\ p \notin L /\ r \notin L
    BY <1>1, <1>2
  <1>4. p > BaseP /\ p \in Nat /\ r \in Nat
    BY <1>1, <1>3
  <1>5. r # p
    <2>1. Succ(F, r, p)
      BY DEF Heap, List
    <2> QED BY <1>3, <1>4, <2>1 DEF Succ
  <1>6. /\ g \in Headers /\ \A c \in Cells : g[c].size = h[c].size
        /\ \A c \in Cells \ {r, p} : g[c] = h[c]
        /\ g[r].next = h[p].next
    <2>1. h[p].next \in Nat
      BY <1>1, <1>3
    <2> QED BY <1>2, <1>3, <1>5, <2>1 DEF Headers, Unlinked
  <1>7. Heap(g, brk, F \ {p}, L \cup {p})
    <2>1. /\ r \in F /\ p \in F \ {BaseP} /\ h[r].next = p
          /\ \A c \in Cells \ {r, p} : g[c].next = h[c].next
      BY <1>6
    <2>2. Heap(h, brk, F, L)
      OBVIOUS
    <2> QED BY ONLY <1>6, <2>1, <2>2, UnlinkHeap
  <1>8. Apart(g, F \ {p}, {})
    <2>1. \A c \in F : End(g, c) = End(h, c)
      BY <1>1, <1>6 DEF End
    <2> QED BY <2>1 DEF Apart
  <1>9. \A l \in L : g[l] = h[l]
    BY <1>1, <1>3, <1>6
  <1>10. r \in F \ {p}
    BY <1>5
  <1> QED BY <1>3, <1>4, <1>6, <1>7, <1>8, <1>9, <1>10 DEF Untouched

\* The tail of a larger one is split off and becomes live.
LEMMA TakeTail ==
  ASSUME NEW h, NEW brk, NEW F, NEW L, Heap(h, brk, F, L), Apart(h, F, {}),
         NEW p \in F \ {BaseP}, NEW m \in Nat, m > 0, m < h[p].size,
         NEW a, a = Tail(h, p, m),
         NEW g, g = Halved(h, p, m, a)
  PROVE /\ Heap(g, brk, F, L \cup {a}) /\ Apart(g, F, {})
        /\ a \in Cells /\ a > BaseP /\ a \notin L /\ g[a].size = m
        /\ Untouched(h, g, L)
  <1> DEFINE rest == h[p].size - m
  <1>1. /\ \A c \in Cells : c \in Nat /\ h[c].next \in Nat /\ h[c].size \in Nat
        /\ F \subseteq Cells /\ L \subseteq Cells
        /\ brk <= HeapTop /\ brk \in Nat /\ HeapTop \in Nat /\ HUnit \in Nat \ {0}
    BY HeapTypes
  <1>2. h \in Headers /\ L \cap F = {}
    BY DEF Heap
  <1>3. p \in Cells /\ p \in Nat /\ p \notin L
    BY <1>1, <1>2
  <1>4. h[p].size \in Nat
    BY <1>1, <1>3
  <1>5. rest \in Nat /\ rest > 0 /\ rest <= h[p].size /\ h[p].size = rest + m
    BY <1>4
  <1>6. a = p + rest * HUnit /\ g = [h EXCEPT ![p].size = rest, ![a].size = m]
    BY DEF Halved, Tail
  <1> HIDE DEF rest
  <1>7. a \in Cells /\ a # p
    <2>1. rest * HUnit \in Nat /\ rest * HUnit > 0
      BY <1>1, <1>5, Units
    <2>2. rest * HUnit <= h[p].size * HUnit /\ h[p].size * HUnit \in Nat
      BY <1>4, <1>5, Units
    <2>3. p \in Blocks(F, L)
      BY DEF Blocks
    <2>4. End(h, p) <= brk
      BY <2>3 DEF Heap, Tiles
    <2>5. p + rest * HUnit <= HeapTop
      BY <1>1, <1>3, <2>1, <2>2, <2>4 DEF End
    <2>6. p + rest * HUnit \in Cells
      BY <1>3, <1>5, <2>5, CellAdd
    <2> QED BY <1>3, <1>6, <2>1, <2>6
  <1>8. /\ g \in Headers /\ \A c \in Cells : g[c].next = h[c].next
        /\ \A c \in Cells \ {p, a} : g[c] = h[c]
        /\ g[p].size = rest /\ g[a].size = m
    BY <1>2, <1>3, <1>5, <1>6, <1>7 DEF Headers
  <1>9. Heap(g, brk, F, L \cup {a}) /\ a > BaseP /\ a \notin L /\ a \notin F
    <2>1. \A c \in Cells \ {p, a} : g[c].size = h[c].size
      BY <1>8
    <2>2. Split(h, g, p, rest, m, a)
      BY <1>5, <1>6, <1>8, <2>1 DEF Split
    <2>3. Heap(h, brk, F, L) /\ p \in F \ {BaseP}
      OBVIOUS
    <2> QED BY ONLY <2>2, <2>3, SplitHeap
  <1>10. Apart(g, F, {})
    <2> SUFFICES ASSUME NEW c \in F \ {BaseP}, End(g, c) \in F PROVE FALSE
      BY DEF Apart
    <2>1. CASE c = p
      BY <1>6, <1>8, <1>9, <2>1 DEF End
    <2>2. CASE c # p
      <3>1. g[c] = h[c]
        BY <1>1, <1>8, <1>9, <2>2
      <3>2. End(g, c) = End(h, c)
        BY <3>1 DEF End
      <3> QED BY <3>2 DEF Apart
    <2> QED BY <2>1, <2>2
  <1>11. \A l \in L : g[l] = h[l]
    BY <1>1, <1>3, <1>8, <1>9
  <1> QED BY <1>7, <1>8, <1>9, <1>10, <1>11 DEF Untouched

\* morecore puts the memory behind the break into the list.
LEMMA GrownHeap ==
  ASSUME NEW h, NEW brk, NEW fp, NEW L, Sound(h, brk, fp, L),
         NEW m \in Nat, m > 0, NEW top, top = brk + m * HUnit, top <= HeapTop,
         NEW g, g = [h EXCEPT ![brk].size = m], NEW r, r = Freed(g, fp, brk)
  PROVE /\ Sound(r.hdr, top, r.freep, L)
        /\ Untouched(h, r.hdr, L)
  <1>0. PICK F : Heap(h, brk, F, L) /\ Apart(h, F, {}) /\ fp \in F
    BY DEF Sound
  <1>1. h \in Headers /\ brk \in Cells /\ F \subseteq Cells /\ L \subseteq Cells
    BY <1>0 DEF Heap, List
  <1>2. /\ g \in Headers /\ g[brk].size = m /\ \A c \in Cells : g[c].next = h[c].next
        /\ \A c \in Cells \ {brk} : g[c].size = h[c].size /\ g[c] = h[c]
    BY <1>1 DEF Headers
  <1>3. Heap(g, top, F, L \cup {brk}) /\ brk \notin F /\ brk \notin L
    <2>1. m \in Nat /\ m > 0 /\ top = brk + m * HUnit /\ top <= HeapTop
      OBVIOUS
    <2> QED BY ONLY <1>0, <1>2, <2>1, ExtendHeap
  <1>4. Apart(g, F, {})
    <2>1. \A c \in F : End(g, c) = End(h, c)
      BY <1>1, <1>2, <1>3 DEF End
    <2> QED BY <1>0, <2>1 DEF Apart
  <1> DEFINE M == L \cup {brk}
  <1>5. Sound(g, top, fp, M) /\ brk \in M
    BY <1>0, <1>3, <1>4 DEF Sound
  <1>6. M \ {brk} = L
    BY <1>3
  <1> HIDE DEF M
  <1>7. /\ Sound(r.hdr, top, r.freep, M \ {brk})
        /\ Untouched(g, r.hdr, M \ {brk})
    <2>1. r = Freed(g, fp, brk)
      OBVIOUS
    <2> QED BY ONLY <1>5, <2>1, FreedHeap
  <1>8. \A l \in L : g[l] = h[l]
    BY <1>1, <1>2, <1>3
  <1> QED BY <1>6, <1>7, <1>8 DEF Untouched

-----------------------------------------------------------------------------
(* Requests.                                                                *)

\* No request is so large that rounding it up to units wraps.
RoomyWords ==
  /\ \A n \in Sizes : n + 2 * HUnit <= AddrMod
  /\ MinCore * HUnit < AddrMod

\* The units asked for hold the bytes and the header.
LEMMA UnitsEnough ==
  ASSUME RoomyWords, NEW n \in Sizes
  PROVE /\ n \in Nat /\ NUnits(n) \in Nat /\ NUnits(n) > 0
        /\ (NUnits(n) - 1) * HUnit >= n /\ NUnits(n) * HUnit < AddrMod
  <1>1. n \in Nat /\ HUnit \in Nat \ {0} /\ AddrMod \in Nat /\ n + 2 * HUnit <= AddrMod
    BY HeapAssumption DEF RoomyWords
  <1> DEFINE d == n + HUnit - 1
             k == d \div HUnit
  <1>2. d \in Nat /\ d < AddrMod /\ d + HUnit < AddrMod
    BY <1>1
  <1>3. U32(d) = d
    BY <1>1, <1>2 DEF U32
  <1>4. NUnits(n) = k + 1
    BY <1>3 DEF NUnits
  <1> HIDE DEF d
  <1>5. k \in Nat
    BY <1>1, <1>2
  <1>6. d < k * HUnit + HUnit
    BY <1>1, <1>2
  <1>7. k * HUnit <= d
    BY <1>1, <1>2
  <1> HIDE DEF k
  <1>8. k * HUnit \in Nat /\ (k + 1) * HUnit = k * HUnit + HUnit
    BY <1>1, <1>5, Units
  <1>9. (k + 1) - 1 = k
    BY <1>5
  <1>10. k * HUnit >= n
    BY <1>1, <1>6, <1>8 DEF d
  <1>11. (k + 1) * HUnit < AddrMod
    BY <1>1, <1>2, <1>7, <1>8
  <1> QED BY <1>1, <1>4, <1>5, <1>9, <1>10, <1>11

\* Nor does the size of what morecore asks for wrap.
LEMMA CoreExact ==
  ASSUME RoomyWords, call.nunits \in Nat, call.nunits > 0, call.nunits * HUnit < AddrMod
  PROVE CoreUnits \in Nat /\ CoreUnits > 0 /\ CoreBytes = CoreUnits * HUnit
  <1>1. MinCore \in Nat \ {0} /\ HUnit \in Nat \ {0} /\ AddrMod \in Nat /\ MinCore * HUnit < AddrMod
    BY HeapAssumption DEF RoomyWords
  <1>2. CoreUnits \in Nat /\ CoreUnits > 0 /\ CoreUnits * HUnit < AddrMod
    BY <1>1 DEF CoreUnits
  <1>3. CoreUnits * HUnit \in Nat
    BY <1>2, Units
  <1> DEFINE v == CoreUnits * HUnit
  <1>4. v % AddrMod = v
    <2>1. v \in Nat /\ v < AddrMod
      BY <1>2, <1>3
    <2> HIDE DEF v
    <2> QED BY <1>1, <2>1
  <1> QED BY <1>2, <1>4 DEF CoreBytes, U32

\* The block the search found leaves the list.
LEMMA TakeKeeps ==
  ASSUME NEW L, Sound(hdr, heap_brk, freep, L),
         call.nunits \in Nat, call.nunits > 0,
         NEW j \in FirstFit, j \in 1 .. Steps, NEW t, t = Take(j)
  PROVE /\ Sound(t.hdr, heap_brk, t.freep, L \cup {t.a})
        /\ t.a \in Cells /\ t.a > BaseP /\ t.a \notin L /\ t.hdr[t.a].size = call.nunits
        /\ Untouched(hdr, t.hdr, L)
  <1>1. PICK F : Heap(hdr, heap_brk, F, L) /\ Apart(hdr, F, {}) /\ freep \in F
    BY DEF Sound
  <1> DEFINE r == Nth(hdr, freep, j - 1)
             p == hdr[r].next
             m == call.nunits
             a == Tail(hdr, p, m)
             g == Halved(hdr, p, m, a)
             k == Unlinked(hdr, r, p)
  <1>2. r \in F /\ p \in F /\ p = Nth(hdr, freep, j)
    <2>1. j - 1 \in Nat /\ j - 1 + 1 = j /\ j \in Nat
      BY StepsEnough
    <2>2. List(hdr, F)
      BY <1>1 DEF Heap
    <2>3. r \in F /\ Nth(hdr, freep, j - 1 + 1) = p
      <3> DEFINE i == j - 1
      <3>1. freep \in F /\ i \in Nat
        BY <1>1, <2>1
      <3> HIDE DEF i
      <3>2. Nth(hdr, freep, i) \in F /\ Nth(hdr, freep, i + 1) = hdr[Nth(hdr, freep, i)].next
        BY ONLY <2>2, <3>1, NthFacts
      <3> QED BY ONLY <3>2 DEF i
    <2>4. Nth(hdr, freep, j) = p /\ Nth(hdr, freep, j) \in F
      BY <1>1, <2>1, <2>2, <2>3, NthFacts
    <2> QED BY <2>3, <2>4
  <1>3. hdr[p].size >= m
    BY <1>2 DEF FirstFit, Fits
  <1>4. hdr[p].size \in Nat /\ m \in Nat /\ m > 0
    <2>1. p \in Cells
      BY <1>1, <1>2 DEF Heap, List
    <2> QED BY <1>1, <2>1, HeapTypes
  <1>5. p # BaseP
    BY <1>1, <1>3, <1>4 DEF Heap
  <1>6. t = IF hdr[p].size - m = 0 THEN [a |-> p, freep |-> r, hdr |-> k]
            ELSE [a |-> a, freep |-> r, hdr |-> g]
    BY DEF Take, Unlinked, Halved, Tail
  <1>7. /\ \E G : Heap(k, heap_brk, G, L \cup {p}) /\ Apart(k, G, {}) /\ r \in G
        /\ p \in Cells /\ p > BaseP /\ p \notin L /\ k[p].size = hdr[p].size
        /\ Untouched(hdr, k, L)
    <2>1. hdr[r].next = p
      OBVIOUS
    <2> HIDE DEF r, p
    <2>2. k = Unlinked(hdr, r, p)
      OBVIOUS
    <2> HIDE DEF k
    <2>3. Heap(hdr, heap_brk, F, L) /\ Apart(hdr, F, {}) /\ r \in F /\ p \in F \ {BaseP}
      BY <1>1, <1>2, <1>5
    <2> QED BY ONLY <2>1, <2>2, <2>3, TakeWhole
  <1>8. hdr[p].size - m # 0 =>
          /\ Heap(g, heap_brk, F, L \cup {a}) /\ Apart(g, F, {})
          /\ a \in Cells /\ a > BaseP /\ a \notin L /\ g[a].size = m
          /\ Untouched(hdr, g, L)
    <2> HIDE DEF r, p, m
    <2>1. a = Tail(hdr, p, m)
      OBVIOUS
    <2> HIDE DEF a
    <2>2. g = Halved(hdr, p, m, a)
      OBVIOUS
    <2> HIDE DEF g
    <2>3. Heap(hdr, heap_brk, F, L) /\ Apart(hdr, F, {}) /\ p \in F \ {BaseP} /\ m \in Nat /\ m > 0
      BY <1>1, <1>2, <1>4, <1>5
    <2> SUFFICES ASSUME hdr[p].size - m # 0
                 PROVE /\ Heap(g, heap_brk, F, L \cup {a}) /\ Apart(g, F, {})
                       /\ a \in Cells /\ a > BaseP /\ a \notin L /\ g[a].size = m
                       /\ Untouched(hdr, g, L)
      OBVIOUS
    <2>4. m < hdr[p].size
      BY <1>3, <1>4
    <2> QED BY ONLY <2>1, <2>2, <2>3, <2>4, TakeTail
  <1> HIDE DEF r, p, m, a, g, k
  <1>9. CASE hdr[p].size - m = 0
    <2>1. t = [a |-> p, freep |-> r, hdr |-> k] /\ hdr[p].size = m
      BY <1>4, <1>6, <1>9
    <2>2. t.a = p /\ t.freep = r /\ t.hdr = k
      BY <2>1
    <2>3. k[p].size = call.nunits
      BY <1>7, <2>1 DEF m
    <2> QED BY <1>7, <2>2, <2>3 DEF Sound
  <1>10. CASE hdr[p].size - m # 0
    <2>1. t.a = a /\ t.freep = r /\ t.hdr = g
      BY <1>6, <1>10
    <2>2. g[a].size = call.nunits
      BY <1>8, <1>10 DEF m
    <2> QED BY <1>2, <1>8, <1>10, <2>1, <2>2 DEF Sound
  <1> QED BY <1>9, <1>10

-----------------------------------------------------------------------------
(* The inductive invariant.                                                 *)

\* The blocks the guest holds are different and each holds what it asked for.
Held ==
  /\ IsFiniteSet(live)
  /\ \A b \in live : b.a \in Nat /\ (hdr[b.a - HUnit].size - 1) * HUnit >= b.n
  /\ \A b, c \in live : b.a = c.a => b = c

\* The call being served asks for enough units, and the block it moves is held.
Request ==
  call # NoCall =>
    /\ call.nunits \in Nat /\ call.nunits > 0 /\ (call.nunits - 1) * HUnit >= call.n
    /\ call.nunits * HUnit < AddrMod
    /\ call.old = 0 \/ \E b \in live : b.a = call.old

Inv == Sound(hdr, heap_brk, freep, LiveHeaders) /\ Held /\ Request

\* A held block has its own header, below it.
LEMMA LiveFacts ==
  ASSUME Inv
  PROVE /\ LiveHeaders \subseteq Cells /\ HUnit \in Nat \ {0}
        /\ \A c \in Cells : c \in Nat
        /\ \A b \in live : /\ b.a - HUnit \in LiveHeaders /\ b.a \in Nat /\ b.a # 0
                           /\ LiveHeaders \ {b.a - HUnit} = {c.a - HUnit : c \in live \ {b}}
  <1>1. LiveHeaders \subseteq Cells
    BY DEF Inv, Sound, Heap
  <1>2. HUnit \in Nat \ {0} /\ \A c \in Cells : c \in Nat
    BY HeapAssumption DEF Cells
  <1>3. ASSUME NEW b \in live PROVE b.a - HUnit \in LiveHeaders /\ b.a \in Nat /\ b.a # 0
    <2>1. b.a - HUnit \in LiveHeaders
      BY DEF LiveHeaders
    <2>2. b.a \in Nat /\ b.a - HUnit \in Nat
      BY <1>1, <1>2, <2>1 DEF Inv, Held
    <2> QED BY <1>2, <2>1, <2>2
  <1>4. ASSUME NEW b \in live
        PROVE LiveHeaders \ {b.a - HUnit} = {c.a - HUnit : c \in live \ {b}}
    <2>1. \A c \in live : c.a - HUnit = b.a - HUnit => c = b
      <3> SUFFICES ASSUME NEW c \in live, c.a - HUnit = b.a - HUnit PROVE c = b
        OBVIOUS
      <3>1. c.a = b.a
        BY <1>2, <1>3
      <3> QED BY <3>1 DEF Inv, Held
    <2> QED BY <2>1 DEF LiveHeaders
  <1> QED BY <1>1, <1>2, <1>3, <1>4

\* At the start only the sentinel is there.
LEMMA InvInit == Init => Inv
  <1> SUFFICES ASSUME Init PROVE Inv
    OBVIOUS
  <1>1. /\ BaseP \in Nat /\ HUnit \in Nat \ {0} /\ BaseP % HUnit = 0 /\ BaseP + HUnit <= HeapTop
        /\ HeapTop \in Nat
    BY HeapAssumption
  <1>2. BaseP \in Cells
    BY <1>1 DEF Cells
  <1>3. heap_brk = BaseP + HUnit /\ heap_brk \in Cells /\ heap_brk > BaseP
    <2>1. 1 * HUnit = HUnit
      BY <1>1
    <2>2. BaseP + 1 * HUnit \in Cells
      BY <1>1, <1>2, <2>1, CellAdd
    <2> QED BY <1>1, <2>1, <2>2 DEF Init
  <1>4. hdr \in Headers /\ hdr[BaseP].size = 0 /\ hdr[BaseP].next = BaseP
    BY <1>1, <1>2 DEF Init, Headers, Data
  <1>5. List(hdr, {BaseP})
    BY <1>1, <1>2, <1>4 DEF List, Succ
  <1>6. LiveHeaders = {} /\ live = {} /\ freep = BaseP /\ call = NoCall
    BY DEF Init, LiveHeaders
  <1>7. Tiles(hdr, heap_brk, Blocks({BaseP}, {}))
    <2>1. Blocks({BaseP}, {}) = {}
      BY DEF Blocks
    <2>2. \A c \in Cells : ~(BaseP < c /\ c < heap_brk)
      <3> SUFFICES ASSUME NEW c \in Cells, BaseP < c, c < BaseP + HUnit PROVE FALSE
        BY <1>3
      <3>1. BaseP + HUnit <= c
        BY <1>2, CellGap
      <3>2. c \in Nat
        BY <1>1 DEF Cells
      <3> QED BY <1>1, <3>1, <3>2
    <2> QED BY <2>1, <2>2 DEF Tiles
  <1>8. Heap(hdr, heap_brk, {BaseP}, {})
    BY <1>3, <1>4, <1>5, <1>7 DEF Heap
  <1>9. Apart(hdr, {BaseP}, {})
    BY DEF Apart
  <1>10. Sound(hdr, heap_brk, freep, LiveHeaders)
    BY <1>6, <1>8, <1>9 DEF Sound
  <1>11. Held /\ Request
    BY <1>6, FS_EmptySet DEF Held, Request
  <1> QED BY <1>10, <1>11 DEF Inv

\* free keeps it.
LEMMA FreeKeeps ==
  ASSUME Inv, NEW b \in live, Free(b) PROVE Inv'
  <1> DEFINE f == Freed(hdr, freep, b.a - HUnit)
  <1>1. /\ hdr' = f.hdr /\ freep' = f.freep /\ live' = live \ {b}
        /\ heap_brk' = heap_brk /\ call' = NoCall
    BY DEF Free
  <1>2. /\ Sound(f.hdr, heap_brk, f.freep, LiveHeaders \ {b.a - HUnit})
        /\ Untouched(hdr, f.hdr, LiveHeaders \ {b.a - HUnit})
    <2> DEFINE bp == b.a - HUnit
    <2>1. Sound(hdr, heap_brk, freep, LiveHeaders) /\ bp \in LiveHeaders /\ f = Freed(hdr, freep, bp)
      BY LiveFacts DEF Inv
    <2> HIDE DEF f, bp
    <2>2. /\ Sound(f.hdr, heap_brk, f.freep, LiveHeaders \ {bp})
          /\ Untouched(hdr, f.hdr, LiveHeaders \ {bp})
      BY ONLY <2>1, FreedHeap
    <2> QED BY <2>2 DEF bp
  <1> HIDE DEF f
  <1>3. LiveHeaders' = LiveHeaders \ {b.a - HUnit}
    BY <1>1, LiveFacts DEF LiveHeaders
  <1>4. Held'
    <2>1. IsFiniteSet(live')
      BY <1>1, FS_RemoveElement DEF Inv, Held
    <2>2. \A c \in live' : hdr'[c.a - HUnit] = hdr[c.a - HUnit]
      <3> SUFFICES ASSUME NEW c \in live' PROVE hdr'[c.a - HUnit] = hdr[c.a - HUnit]
        OBVIOUS
      <3>1. c.a - HUnit \in LiveHeaders'
        BY DEF LiveHeaders
      <3> QED BY <1>1, <1>2, <1>3, <3>1 DEF Untouched
    <2> QED BY <1>1, <2>1, <2>2 DEF Inv, Held
  <1> QED BY <1>1, <1>2, <1>3, <1>4 DEF Inv, Request

\* malloc and a moving realloc only note the request.
LEMMA RequestKeeps ==
  ASSUME RoomyWords, Inv, NEW n \in Sizes,
         Malloc(n) \/ \E b \in live : ReallocMoves(b, n)
  PROVE Inv'
  <1>1. /\ UNCHANGED <<hdr, freep, heap_brk, live>>
        /\ call'.n = n /\ call'.nunits = NUnits(n)
        /\ call'.old = 0 \/ \E b \in live : b.a = call'.old
    BY DEF Malloc, ReallocMoves
  <1>2. /\ n \in Nat /\ NUnits(n) \in Nat /\ NUnits(n) > 0
        /\ (NUnits(n) - 1) * HUnit >= n /\ NUnits(n) * HUnit < AddrMod
    BY UnitsEnough
  <1>3. Request'
    <2>1. (\E b \in live : b.a = call'.old) => \E b \in live' : b.a = call'.old
      BY <1>1
    <2> QED BY <1>1, <1>2, <2>1 DEF Request
  <1>4. Held'
    BY <1>1 DEF Inv, Held
  <1>5. LiveHeaders' = LiveHeaders
    BY <1>1 DEF LiveHeaders
  <1> QED BY <1>1, <1>3, <1>4, <1>5 DEF Inv

\* realloc in place changes only what the guest holds.
LEMMA InPlaceKeeps ==
  ASSUME Inv, NEW b \in live, NEW n \in Sizes, ReallocInPlace(b, n) PROVE Inv'
  <1> DEFINE e == [a |-> b.a, n |-> n]
  <1>1. /\ UNCHANGED <<hdr, freep, heap_brk, call>> /\ call = NoCall
        /\ (hdr[b.a - HUnit].size - 1) * HUnit >= n
        /\ live' = (live \ {b}) \cup {e}
    BY DEF ReallocInPlace
  <1>2. e.a = b.a /\ e.n = n
    OBVIOUS
  <1> HIDE DEF e
  <1>3. LiveHeaders' = LiveHeaders
    BY <1>1, <1>2 DEF LiveHeaders
  <1>4. Held'
    <2>1. IsFiniteSet(live')
      BY <1>1, FS_RemoveElement, FS_AddElement DEF Inv, Held
    <2>2. ASSUME NEW c \in live' PROVE c.a \in Nat /\ (hdr[c.a - HUnit].size - 1) * HUnit >= c.n
      <3>1. CASE c = e
        BY <1>1, <1>2, <3>1 DEF Inv, Held
      <3>2. CASE c # e
        BY <1>1, <3>2 DEF Inv, Held
      <3> QED BY <3>1, <3>2
    <2>3. \A c, d \in live' : c.a = d.a => c = d
      BY <1>1, <1>2 DEF Inv, Held
    <2> QED BY <1>1, <2>1, <2>2, <2>3 DEF Held
  <1> QED BY <1>1, <1>3, <1>4 DEF Inv, Request

\* malloc returns the block it found; a moving realloc then frees the old one.
LEMMA FoundKeeps ==
  ASSUME Inv, NEW j \in 1 .. Steps, Found(j) PROVE Inv'
  <1> DEFINE t == Take(j)
             e == [a |-> t.a + HUnit, n |-> call.n]
             L == LiveHeaders \cup {t.a}
             H == LiveHeaders'
  <1>1. /\ call # NoCall /\ j \in FirstFit /\ call' = NoCall /\ heap_brk' = heap_brk
        /\ live' = {b \in live : b.a # call.old} \cup {e}
    BY DEF Found
  <1>2. /\ call.nunits \in Nat /\ call.nunits > 0 /\ (call.nunits - 1) * HUnit >= call.n
        /\ call.old = 0 \/ \E b \in live : b.a = call.old
    BY <1>1 DEF Inv, Request
  <1>3. /\ Sound(t.hdr, heap_brk, t.freep, L)
        /\ t.a \in Cells /\ t.a \notin LiveHeaders /\ t.hdr[t.a].size = call.nunits
        /\ Untouched(hdr, t.hdr, LiveHeaders)
    <2>1. Sound(hdr, heap_brk, freep, LiveHeaders) /\ t = Take(j)
      BY DEF Inv
    <2> HIDE DEF t
    <2> QED BY <1>1, <1>2, <2>1, TakeKeeps
  <1>4. hdr' = IF call.old = 0 THEN t.hdr ELSE Freed(t.hdr, t.freep, call.old - HUnit).hdr
    BY DEF Found
  <1>5. freep' = IF call.old = 0 THEN t.freep ELSE Freed(t.hdr, t.freep, call.old - HUnit).freep
    BY DEF Found
  <1> HIDE DEF t
  <1>6. t.a \in Nat /\ HUnit \in Nat \ {0} /\ e.a \in Nat /\ e.a - HUnit = t.a /\ e.n = call.n
    BY <1>3, LiveFacts
  <1> HIDE DEF e
  <1>7. /\ Sound(hdr', heap_brk, freep', H)
        /\ \A l \in H : hdr'[l] = t.hdr[l]
    <2>1. CASE call.old = 0
      <3>1. live' = live \cup {e}
        BY <1>1, <2>1, LiveFacts
      <3>2. H = L
        BY <1>6, <3>1 DEF LiveHeaders
      <3> QED BY <1>3, <1>4, <1>5, <2>1, <3>2
    <2>2. CASE call.old # 0
      <3>1. PICK b \in live : b.a = call.old
        BY <1>2, <2>2
      <3> DEFINE bp == b.a - HUnit
                 f == Freed(t.hdr, t.freep, bp)
      <3>2. hdr' = f.hdr /\ freep' = f.freep
        BY <1>4, <1>5, <2>2, <3>1
      <3>3. bp \in L /\ bp # t.a
        BY <1>3, LiveFacts
      <3>4. live' = (live \ {b}) \cup {e}
        BY <1>1, <3>1 DEF Inv, Held
      <3>5. H = L \ {bp}
        <4>1. LiveHeaders \ {bp} = {c.a - HUnit : c \in live \ {b}}
          BY LiveFacts
        <4>2. H = {c.a - HUnit : c \in live \ {b}} \cup {t.a}
          BY <1>6, <3>4 DEF LiveHeaders
        <4> HIDE DEF H, bp
        <4> QED BY <3>3, <4>1, <4>2
      <3>6. f = Freed(t.hdr, t.freep, bp)
        OBVIOUS
      <3> HIDE DEF f, bp, L, H
      <3>7. Sound(f.hdr, heap_brk, f.freep, L \ {bp}) /\ Untouched(t.hdr, f.hdr, L \ {bp})
        BY ONLY <1>3, <3>3, <3>6, FreedHeap
      <3> QED BY <3>2, <3>5, <3>7 DEF Untouched
    <2> QED BY <2>1, <2>2
  <1>8. \A c \in live' : c.a - HUnit \in H
    BY DEF LiveHeaders
  <1>9. Held'
    <2>1. IsFiniteSet(live')
      <3>1. {b \in live : b.a # call.old} \in SUBSET live
        OBVIOUS
      <3>2. IsFiniteSet({b \in live : b.a # call.old})
        BY <3>1, FS_Subset DEF Inv, Held
      <3> QED BY <1>1, <3>2, FS_AddElement
    <2>2. ASSUME NEW c \in live' PROVE c.a \in Nat /\ (hdr'[c.a - HUnit].size - 1) * HUnit >= c.n
      <3>1. hdr'[c.a - HUnit] = t.hdr[c.a - HUnit]
        BY <1>7, <1>8
      <3>2. CASE c = e
        BY <1>2, <1>3, <1>6, <3>1, <3>2
      <3>3. CASE c # e
        <4>1. c \in live
          BY <1>1, <3>3
        <4>2. t.hdr[c.a - HUnit] = hdr[c.a - HUnit]
          BY <1>3, <4>1 DEF LiveHeaders, Untouched
        <4> QED BY <3>1, <4>1, <4>2 DEF Inv, Held
      <3> QED BY <3>2, <3>3
    <2>3. ASSUME NEW c \in live', NEW d \in live', c.a = d.a PROVE c = d
      <3>1. \A b \in live : b.a # e.a
        <4> SUFFICES ASSUME NEW b \in live, b.a = e.a PROVE FALSE
          OBVIOUS
        <4>1. b.a - HUnit = t.a
          BY <1>6
        <4> QED BY <1>3, <4>1, LiveFacts
      <3> QED BY <1>1, <2>3, <3>1 DEF Inv, Held
    <2> QED BY <2>1, <2>2, <2>3 DEF Held
  <1> QED BY <1>1, <1>7, <1>9 DEF Inv, Request

\* morecore keeps it.
LEMMA GrowKeeps ==
  ASSUME RoomyWords, Inv, MoreCore PROVE Inv'
  <1> DEFINE g == [hdr EXCEPT ![heap_brk].size = CoreUnits]
             f == Freed(g, freep, heap_brk)
             top == heap_brk + CoreUnits * HUnit
             m == CoreUnits
  <1>1. /\ call # NoCall /\ ~NoRoom /\ hdr' = f.hdr /\ freep' = f.freep
        /\ heap_brk' = heap_brk + CoreBytes /\ UNCHANGED <<call, live>>
    BY DEF MoreCore
  <1>2. m \in Nat /\ m > 0 /\ CoreBytes = m * HUnit
    BY <1>1, CoreExact DEF Inv, Request
  <1>3. heap_brk' = top /\ top <= HeapTop
    <2>1. heap_brk \in Cells
      BY DEF Inv, Sound, Heap
    <2>2. heap_brk \in Nat /\ HeapTop \in Nat /\ m * HUnit \in Nat
      BY <1>2, <2>1, HeapAssumption, Units DEF Cells
    <2> QED BY <1>1, <1>2, <2>2 DEF NoRoom
  <1>4. LiveHeaders' = LiveHeaders
    BY <1>1 DEF LiveHeaders
  <1>5. /\ Sound(f.hdr, top, f.freep, LiveHeaders)
        /\ Untouched(hdr, f.hdr, LiveHeaders)
    <2>1. Sound(hdr, heap_brk, freep, LiveHeaders)
      BY DEF Inv
    <2>2. g = [hdr EXCEPT ![heap_brk].size = m] /\ f = Freed(g, freep, heap_brk)
          /\ top = heap_brk + m * HUnit
      OBVIOUS
    <2> HIDE DEF g, f, top, m
    <2> QED BY ONLY <1>2, <1>3, <2>1, <2>2, GrownHeap
  <1> HIDE DEF f, top
  <1>6. Held'
    <2>1. \A c \in live : hdr'[c.a - HUnit] = hdr[c.a - HUnit]
      BY <1>1, <1>5 DEF LiveHeaders, Untouched
    <2> QED BY <1>1, <2>1 DEF Inv, Held
  <1>7. Request'
    BY <1>1 DEF Inv, Request
  <1> QED BY <1>1, <1>3, <1>4, <1>5, <1>6, <1>7 DEF Inv

\* Every step keeps it.
LEMMA InvNext == ASSUME RoomyWords, Inv, [Next]_vars PROVE Inv'
  <1>1. ASSUME NEW n \in Sizes, Malloc(n) PROVE Inv'
    BY <1>1, RequestKeeps
  <1>2. ASSUME NEW b \in live, Free(b) PROVE Inv'
    BY <1>2, FreeKeeps
  <1>3. ASSUME NEW b \in live, NEW n \in Sizes, ReallocInPlace(b, n) PROVE Inv'
    BY <1>3, InPlaceKeeps
  <1>4. ASSUME NEW b \in live, NEW n \in Sizes, ReallocMoves(b, n) PROVE Inv'
    BY <1>4, RequestKeeps
  <1>5. ASSUME NEW j \in 1 .. Steps, Found(j) PROVE Inv'
    BY <1>5, FoundKeeps
  <1>6. CASE MoreCore
    BY <1>6, GrowKeeps
  <1>7. CASE OutOfMemory
    BY <1>7 DEF OutOfMemory, Inv, Held, Request, LiveHeaders
  <1>8. CASE UNCHANGED vars
    BY <1>8 DEF vars, Inv, Held, Request, LiveHeaders
  <1> QED BY <1>1, <1>2, <1>3, <1>4, <1>5, <1>6, <1>7, <1>8 DEF Next, Serve

-----------------------------------------------------------------------------
(* The theorems.                                                            *)

\* The walk from the sentinel meets every free block before it comes round.
LEMMA WalkCovers ==
  ASSUME NEW h, NEW brk, NEW F, NEW L, Heap(h, brk, F, L)
  PROVE {Nth(h, BaseP, j) : j \in 0 .. Steps} = F
  <1> DEFINE x(j) == Nth(h, BaseP, j)
  <1>1. /\ \A c \in F : c \in Nat /\ c \in Cells /\ BaseP <= c /\ c <= HeapTop
        /\ BaseP \in Nat /\ HUnit \in Nat \ {0} /\ HeapTop \in Nat
    BY HeapTypes
  <1>2. List(h, F) /\ BaseP \in F
    BY DEF Heap, List
  <1>3. x(0) = BaseP /\ \A j \in Nat : x(j) \in F /\ x(j + 1) = h[x(j)].next
    BY ONLY <1>2, NthFacts
  <1> HIDE DEF x
  <1>4. Steps \in Nat /\ Steps * HUnit > HeapTop - BaseP /\ Steps * HUnit \in Nat
    BY StepsEnough, Units
  <1>5. ASSUME NEW b \in F PROVE \E j \in 0 .. Steps : x(j) = b
    <2> SUFFICES ASSUME \A j \in 0 .. Steps : x(j) # b PROVE FALSE
      OBVIOUS
    <2> DEFINE S == {j \in Nat : j <= Steps => x(j) < b /\ x(j) >= BaseP + j * HUnit}
    <2>1. 0 \in S
      <3>1. 0 * HUnit = 0 /\ x(0) # b
        BY <1>1, <1>4
      <3>2. b \in Nat /\ BaseP \in Nat /\ BaseP <= b
        BY <1>1
      <3>3. x(0) < b /\ x(0) >= BaseP + 0 * HUnit
        BY ONLY <1>3, <3>1, <3>2
      <3> QED BY ONLY <3>3
    <2>2. ASSUME NEW m \in Nat, m \in S PROVE m + 1 \in S
      <3> SUFFICES ASSUME m + 1 <= Steps
                   PROVE x(m + 1) < b /\ x(m + 1) >= BaseP + (m + 1) * HUnit
        OBVIOUS
      <3> DEFINE p == x(m)
                 q == x(m + 1)
                 t == m * HUnit
      <3>1. p < b /\ p >= BaseP + t
        BY <1>4, <2>2
      <3>2. p \in F /\ q \in F /\ q = h[p].next
        BY <1>3
      <3>3. q # b
        BY <1>4
      <3>4. t \in Nat /\ (m + 1) * HUnit = t + HUnit
        BY <1>1, Units
      <3> HIDE DEF p, q, t
      <3>5. Succ(F, p, q)
        BY <1>2, <3>2 DEF List
      <3>6. p < q /\ q <= b
        BY <1>1, <3>1, <3>2, <3>5 DEF Succ
      <3>7. p + HUnit <= q
        BY <1>1, <3>2, <3>6, CellGap
      <3>8. q < b /\ q >= BaseP + (t + HUnit)
        BY <1>1, <3>1, <3>2, <3>3, <3>4, <3>6, <3>7
      <3> QED BY <3>4, <3>8 DEF q
    <2>3. Nat \subseteq S
      <3> HIDE DEF S
      <3> QED BY <2>1, <2>2, AllNaturals
    <2>4. x(Steps) >= BaseP + Steps * HUnit /\ x(Steps) \in F
      BY <1>3, <1>4, <2>3
    <2> QED BY <1>1, <1>4, <2>4
  <1>6. \A j \in 0 .. Steps : x(j) \in F
    BY <1>3, <1>4
  <1> QED BY <1>5, <1>6 DEF x

\* The heap of the invariant is the one the properties speak of.
LEMMA InvHeap ==
  ASSUME Inv
  PROVE Heap(hdr, heap_brk, FreeList, LiveHeaders) /\ Apart(hdr, FreeList, {})
  <1>1. PICK F : Heap(hdr, heap_brk, F, LiveHeaders) /\ Apart(hdr, F, {})
    BY DEF Inv, Sound
  <1>2. FreeList = F
    BY <1>1, WalkCovers DEF FreeList
  <1> QED BY <1>1, <1>2

\* There are as many headers as blocks held.
LEMMA LiveCount == ASSUME Inv PROVE Cardinality(LiveHeaders) = Cardinality(live)
  <1> DEFINE f == [b \in live |-> b.a - HUnit]
  <1>1. IsFiniteSet(live)
    BY DEF Inv, Held
  <1>2. \A b, c \in live : b.a - HUnit = c.a - HUnit => b = c
    <2> SUFFICES ASSUME NEW b \in live, NEW c \in live, b.a - HUnit = c.a - HUnit PROVE b = c
      OBVIOUS
    <2>1. b.a \in Nat /\ c.a \in Nat /\ HUnit \in Nat
      BY LiveFacts
    <2>2. b.a = c.a
      BY <2>1
    <2> QED BY <2>2 DEF Inv, Held
  <1>3. f \in Bijection(live, LiveHeaders)
    <2>1. f \in [live -> LiveHeaders]
      BY DEF LiveHeaders
    <2>2. \A b, c \in live : f[b] = f[c] => b = c
      BY <1>2
    <2>3. \A l \in LiveHeaders : \E b \in live : f[b] = l
      BY DEF LiveHeaders
    <2> HIDE DEF f
    <2> QED BY <2>1, <2>2, <2>3 DEF Bijection, Injection, Surjection, IsInjective
  <1>4. ExistsBijection(live, LiveHeaders)
    <2> HIDE DEF f
    <2> QED BY <1>3 DEF ExistsBijection
  <1> QED BY <1>1, <1>4, FS_Bijection

\* The invariant says what the guest and the list are promised.
LEMMA InvPartition == ASSUME Inv PROVE Partition
  <1> DEFINE blocks == LiveHeaders \cup (FreeList \ {BaseP})
  <1>1. Heap(hdr, heap_brk, FreeList, LiveHeaders)
    BY InvHeap
  <1>2. blocks = Blocks(FreeList, LiveHeaders)
    BY DEF Blocks
  <1>3. /\ \A c \in Cells : c \in Nat /\ End(hdr, c) \in Nat /\ End(hdr, c) = c + hdr[c].size * HUnit
        /\ \A b \in blocks : b \in Cells
        /\ BaseP \in Nat /\ heap_brk \in Nat
    BY <1>1, <1>2, HeapTypes
  <1>4. LiveHeaders \cap FreeList = {} /\ Tiles(hdr, heap_brk, blocks)
    BY <1>1, <1>2 DEF Heap
  <1> HIDE DEF blocks
  <1>5. \A b \in blocks : Span(b) = {c \in Cells : c >= b /\ c < End(hdr, b)}
    BY DEF Span, End
  <1>6. ASSUME NEW a \in blocks, NEW b \in blocks, a # b PROVE Span(a) \cap Span(b) = {}
    <2> SUFFICES ASSUME NEW c \in Span(a) \cap Span(b) PROVE FALSE
      OBVIOUS
    <2>1. a <= c /\ c < End(hdr, a) /\ b <= c /\ c < End(hdr, b) /\ c \in Cells
      BY <1>5
    <2>2. a \in Nat /\ b \in Nat /\ c \in Nat /\ End(hdr, a) \in Nat /\ End(hdr, b) \in Nat
      BY <1>3, <2>1
    <2>3. End(hdr, a) <= b \/ End(hdr, b) <= a
      <3>1. a < b \/ b < a
        BY <1>6, <2>2
      <3> QED BY <1>4, <3>1 DEF Tiles
    <2> QED BY <2>1, <2>2, <2>3
  <1>7. UNION {Span(b) : b \in blocks} = {c \in Cells : c > BaseP /\ c < heap_brk}
    <2>1. ASSUME NEW b \in blocks, NEW c \in Span(b) PROVE c \in Cells /\ c > BaseP /\ c < heap_brk
      <3>1. c \in Cells /\ b <= c /\ c < End(hdr, b)
        BY <1>5
      <3>2. b > BaseP /\ End(hdr, b) <= heap_brk
        BY <1>4 DEF Tiles
      <3>3. b \in Nat /\ c \in Nat /\ End(hdr, b) \in Nat
        BY <1>3, <3>1
      <3> QED BY <1>3, <3>1, <3>2, <3>3
    <2>2. ASSUME NEW c \in Cells, c > BaseP, c < heap_brk PROVE \E b \in blocks : c \in Span(b)
      <3>1. PICK b \in blocks : b <= c /\ c < End(hdr, b)
        BY <1>3, <1>4, <2>2 DEF Tiles
      <3>2. c \in Span(b)
        BY <1>3, <1>5, <3>1
      <3> QED BY <3>2
    <2> QED BY <2>1, <2>2
  <1> QED BY <1>4, <1>6, <1>7, LiveCount DEF Partition, blocks

\* No memory is lost and none is handed out twice, whatever is asked for and
\* freed, in whatever order (purvarun.h, heap_malloc, heap_free, heap_realloc).
THEOREM HeapPartition == RoomyWords => (Spec => []Partition)
  <1> SUFFICES ASSUME RoomyWords PROVE Spec => []Partition
    OBVIOUS
  <1>1. Init => Inv
    BY InvInit
  <1>2. Inv /\ [Next]_vars => Inv'
    BY InvNext
  <1>3. Inv => Partition
    BY InvPartition
  <1> QED BY <1>1, <1>2, <1>3, PTL DEF Spec

\* No two free blocks lie side by side.
THEOREM HeapCoalesced == RoomyWords => (Spec => []Coalesced)
  <1> SUFFICES ASSUME RoomyWords PROVE Spec => []Coalesced
    OBVIOUS
  <1>1. Init => Inv
    BY InvInit
  <1>2. Inv /\ [Next]_vars => Inv'
    BY InvNext
  <1>3. Inv => Coalesced
    <2> SUFFICES ASSUME Inv, NEW a \in FreeList \ {BaseP} PROVE U32(a + hdr[a].size * HUnit) \notin FreeList
      BY DEF Coalesced
    <2>1. Heap(hdr, heap_brk, FreeList, LiveHeaders) /\ Apart(hdr, FreeList, {})
      BY InvHeap
    <2>2. End(hdr, a) \notin FreeList
      BY <2>1 DEF Apart
    <2>3. ~Join(a, hdr[a].size, U32(a + hdr[a].size * HUnit)) \/ End(hdr, a) = U32(a + hdr[a].size * HUnit)
      BY <2>1, JoinExact
    <2> QED BY <2>2, <2>3 DEF Join
  <1> QED BY <1>1, <1>2, <1>3, PTL DEF Spec

\* A block holds the bytes it was asked for, also after it was split off, grown
\* in place or moved.
THEOREM HeapBigEnough == RoomyWords => (Spec => []BigEnough)
  <1> SUFFICES ASSUME RoomyWords PROVE Spec => []BigEnough
    OBVIOUS
  <1>1. Init => Inv
    BY InvInit
  <1>2. Inv /\ [Next]_vars => Inv'
    BY InvNext
  <1>3. Inv => BigEnough
    BY DEF Inv, Held, BigEnough
  <1> QED BY <1>1, <1>2, <1>3, PTL DEF Spec
=============================================================================

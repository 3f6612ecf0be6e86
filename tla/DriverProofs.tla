---------------------------- MODULE DriverProofs ----------------------------
(***************************************************************************)
(* For every image, slice, cap and guest: the exit status of a conformance *)
(* run says what the guest stored to tohost, and the memory brk hands out  *)
(* overlaps nothing the loader placed.                                     *)
(***************************************************************************)
EXTENDS Driver, TLAPS

-----------------------------------------------------------------------------
(* Words, pages and the end of the heap.                                    *)

\* A multiple of Page below another lies a whole page below it.
LEMMA PagesApart ==
  ASSUME NEW a \in Nat, NEW b \in Nat, a % Page = 0, b % Page = 0, a < b
  PROVE a + Page <= b
  <1> DEFINE q(n) == n \div Page
  <1>1. Page \in Nat \ {0}
    BY SpaceAssumption
  <1>2. /\ q(a) \in Int /\ q(b) \in Int /\ a = Page * q(a) /\ b = Page * q(b)
    BY <1>1, SMT
  <1> HIDE DEF q
  <1>3. q(a) + 1 <= q(b)
    <2> SUFFICES ASSUME q(b) <= q(a) PROVE FALSE
      BY <1>2
    <2>1. Page * q(b) <= Page * q(a)
      BY <1>1, <1>2
    <2> QED BY <1>2, <2>1
  <1>4. Page * (q(a) + 1) <= Page * q(b)
    BY <1>1, <1>2, <1>3
  <1>5. Page * (q(a) + 1) = Page * q(a) + Page
    BY <1>1, <1>2
  <1> QED BY <1>1, <1>2, <1>4, <1>5

\* The sum of two multiples of Page is one.
LEMMA PagesAdd ==
  ASSUME NEW a \in Nat, NEW b \in Nat, a % Page = 0, b % Page = 0
  PROVE (a + b) % Page = 0
  <1>1. Page \in Nat \ {0}
    BY SpaceAssumption
  <1>2. \A n \in Nat : n % Page = 0 => \E z \in Int : n = Page * z
    <2> SUFFICES ASSUME NEW n \in Nat, n % Page = 0 PROVE \E z \in Int : n = Page * z
      OBVIOUS
    <2>1. n \div Page \in Int /\ n = Page * (n \div Page)
      BY <1>1
    <2> QED BY <2>1
  <1>3. PICK x \in Int, y \in Int : a = Page * x /\ b = Page * y
    BY <1>2
  <1>4. a + b = Page * (x + y)
    BY <1>1, <1>3
  <1>5. \A z \in Int : (Page * z) % Page = 0
    BY <1>1
  <1> QED BY <1>3, <1>4, <1>5

\* A word is itself in 32 bits, and the end of the address space is 0.
LEMMA U32Word ==
  /\ \A v \in Nat : v < AddrMod => U32(v) = v
  /\ U32(AddrMod) = 0
  BY SpaceAssumption DEF U32

\* A page boundary is a number.
LEMMA PageUpNat == ASSUME NEW d \in Nat PROVE PageUp(d) \in Nat
  <1>1. Page \in Nat \ {0} /\ AddrMod \in Nat \ {0}
    BY SpaceAssumption
  <1>2. U32(d + Page - 1) \in Nat
    BY <1>1 DEF U32
  <1>3. U32(d + Page - 1) \div Page \in Nat
    <2> DEFINE u == U32(d + Page - 1)
    <2> HIDE DEF u
    <2>1. u \in Nat => u \div Page \in Nat
      BY <1>1
    <2> QED BY <1>2, <2>1 DEF u
  <1> QED BY <1>1, <1>3 DEF PageUp

\* Data that ends inside a heap that ends inside the address space rounds up
\* without wrapping.
LEMMA PageUpAbove ==
  ASSUME NEW h \in Rams, Half + h < AddrMod,
         NEW d \in Nat, d <= Half + h
  PROVE PageUp(d) \in Nat /\ d <= PageUp(d)
  <1>1. Page \in Nat \ {0} /\ h \in Nat /\ Half \in Nat /\ AddrMod \in Nat
    BY SpaceAssumption, RamAssumption
  <1>2. (Half + h) % Page = 0
    BY <1>1, PagesAdd, SpaceAssumption, RamAssumption
  <1>3. Half + h + Page <= AddrMod
    <2>1. Half + h \in Nat /\ AddrMod % Page = 0
      BY <1>1, SpaceAssumption
    <2> QED BY <1>1, <1>2, <2>1, PagesApart
  <1>4. U32(d + Page - 1) = d + Page - 1
    BY <1>1, <1>3, U32Word
  <1> DEFINE q == (d + Page - 1) \div Page
  <1>5. q \in Nat /\ d + Page - 1 < Page * q + Page
    BY <1>1
  <1>6. PageUp(d) = q * Page
    BY <1>4 DEF PageUp
  <1>7. q * Page = Page * q /\ q * Page \in Nat
    BY <1>1, <1>5
  <1> HIDE DEF q
  <1> QED BY <1>1, <1>5, <1>6, <1>7

-----------------------------------------------------------------------------
(* What the loader has placed.                                              *)

\* What a segment of the image is.
SegmentType(s) ==
  /\ s.load \in BOOLEAN /\ s.vaddr \in Nat /\ s.memsz \in Nat /\ s.filesz \in Nat
  /\ s.filesz <= s.memsz

\* The segments looked at so far fit their buffers, and the data among them end
\* at data_end or below it, in 32 bits.
PlacedInv ==
  \A k \in DOMAIN image : LET s == image[k] IN
    k < seg /\ s.load /\ s.memsz # 0 =>
      /\ ~TooBig(s)
      /\ s.vaddr >= Half => U32(s.vaddr + s.memsz) <= data_end

\* A filled heap cell belongs to a loaded data segment that fits.
FilledInv ==
  \A c \in filled : c[1] = "heap" =>
    \E k \in DOMAIN image : LET s == image[k] IN
      /\ k < seg /\ s.load /\ s.memsz # 0 /\ s.vaddr >= Half
      /\ s.vaddr - Half <= c[2] /\ c[2] < s.vaddr - Half + s.filesz

LoadInv ==
  /\ image \in Images /\ heap_len \in Rams /\ seg \in Nat \ {0}
  /\ data_end \in Nat /\ Half <= data_end /\ data_end <= Half + heap_len
  /\ PlacedInv /\ FilledInv
  /\ loading = "done" => seg > Len(image)

\* The break is where the data ended, or where a brk below the heap's end put
\* it; a refused run never set it.
BreakInv ==
  /\ phase = "load" => g_brk = 0
  /\ phase # "load" => \/ g_brk \in {0, PageUp(data_end)}
                       \/ g_brk \in Nat /\ g_brk < HeapTop

\* The assumptions on the file, for the image at hand.
LEMMA ImageTypes ==
  ASSUME image \in Images
  PROVE DOMAIN image = 1 .. Len(image) /\ Len(image) \in Nat /\ \A k \in DOMAIN image : SegmentType(image[k])
  <1> DEFINE S == [load : BOOLEAN, vaddr : 0 .. (AddrMod - 1), filesz : Nat, memsz : 0 .. (AddrMod - 1)]
  <1>1. /\ image \in Seq(S)
        /\ \A k \in DOMAIN image : image[k].filesz <= image[k].memsz
    BY ImageAssumption
  <1>2. DOMAIN image = 1 .. Len(image) /\ Len(image) \in Nat
    BY <1>1
  <1>3. ASSUME NEW k \in DOMAIN image PROVE SegmentType(image[k])
    <2>1. image[k] \in S
      <3> HIDE DEF S
      <3> QED BY <1>1, <1>2
    <2> QED BY <1>1, <2>1, SpaceAssumption DEF SegmentType
  <1> QED BY <1>2, <1>3

\* A data segment that fits the heap ends below its end, also in 32 bits.
LEMMA DataEndBound ==
  ASSUME NEW s, SegmentType(s), heap_len \in Rams, s.vaddr >= Half, ~TooBig(s)
  PROVE U32(s.vaddr + s.memsz) \in Nat /\ U32(s.vaddr + s.memsz) <= Half + heap_len
  <1>1. /\ s.vaddr + s.memsz \in Nat /\ s.vaddr + s.memsz <= Half + heap_len /\ Half + heap_len <= AddrMod
        /\ Half \in Nat /\ AddrMod \in Nat /\ heap_len \in Nat
    BY SpaceAssumption, RamAssumption DEF SegmentType, TooBig
  <1>2. CASE s.vaddr + s.memsz < AddrMod
    BY <1>1, <1>2, U32Word
  <1>3. CASE s.vaddr + s.memsz = AddrMod
    BY <1>1, <1>3, U32Word
  <1> QED BY <1>1, <1>2, <1>3

\* One iteration over the program headers keeps what the loader promises.
LEMMA SegmentStep == LoadInv /\ Segment => LoadInv'
  <1> SUFFICES ASSUME LoadInv, Segment PROVE LoadInv'
    OBVIOUS
  <1> DEFINE s == image[seg]
             skip == ~s.load \/ s.memsz = 0
  <1>1. /\ image' = image /\ heap_len' = heap_len /\ loading = "segments" /\ seg <= Len(image)
        /\ \/ loading' = "failed" /\ UNCHANGED <<seg, data_end, filled>>
           \/ /\ seg' = seg + 1 /\ loading' = loading
              /\ data_end' = IF skip THEN data_end ELSE DataEnd(s)
              /\ skip \/ ~TooBig(s)
              /\ filled' = IF skip THEN filled ELSE
                   filled \cup {<<Buffer(s), s.vaddr - BufferBase(s) + j>> : j \in 0 .. (s.filesz - 1)}
    BY DEF Segment
  <1>2. CASE loading' = "failed" /\ UNCHANGED <<seg, data_end, filled>>
    BY <1>1, <1>2 DEF LoadInv, PlacedInv, FilledInv, TooBig
  <1>3. ASSUME seg' = seg + 1, loading' = loading,
               data_end' = IF skip THEN data_end ELSE DataEnd(s),
               skip \/ ~TooBig(s),
               filled' = IF skip THEN filled ELSE
                 filled \cup {<<Buffer(s), s.vaddr - BufferBase(s) + j>> : j \in 0 .. (s.filesz - 1)}
        PROVE LoadInv'
    <2>1. /\ DOMAIN image = 1 .. Len(image) /\ Len(image) \in Nat /\ \A k \in DOMAIN image : SegmentType(image[k])
          /\ seg \in Nat \ {0} /\ data_end \in Nat /\ Half <= data_end /\ data_end <= Half + heap_len
          /\ heap_len \in Rams /\ heap_len \in Nat /\ Half \in Nat
      BY ImageTypes, RamAssumption, SpaceAssumption DEF LoadInv
    <2>2. seg \in DOMAIN image /\ SegmentType(s)
      BY <1>1, <2>1
    <2>3. /\ data_end' \in Nat /\ data_end <= data_end' /\ data_end' <= Half + heap_len
          /\ ~skip /\ s.vaddr >= Half => U32(s.vaddr + s.memsz) <= data_end'
      <3>1. CASE skip
        BY <1>3, <2>1, <3>1
      <3>2. CASE ~skip /\ s.vaddr < Half
        <4>1. ~(s.vaddr >= Half)
          BY <2>1, <2>2, <3>2 DEF SegmentType
        <4>2. data_end' = data_end
          BY <1>3, <3>2, <4>1 DEF DataEnd
        <4>3. data_end' \in Nat /\ data_end <= data_end' /\ data_end' <= Half + heap_len
          BY <2>1, <4>2
        <4> QED BY <4>1, <4>3
      <3>3. CASE ~skip /\ s.vaddr >= Half
        <4>1. U32(s.vaddr + s.memsz) \in Nat /\ U32(s.vaddr + s.memsz) <= Half + heap_len
          BY <1>3, <2>1, <2>2, <3>3, DataEndBound
        <4>2. data_end' = IF U32(s.vaddr + s.memsz) > data_end THEN U32(s.vaddr + s.memsz) ELSE data_end
          BY <1>3, <3>3 DEF DataEnd
        <4> DEFINE e == U32(s.vaddr + s.memsz)
        <4>3. /\ data_end' \in Nat /\ data_end <= data_end' /\ data_end' <= Half + heap_len
              /\ e <= data_end'
          <5>1. e \in Nat /\ e <= Half + heap_len /\ data_end' = IF e > data_end THEN e ELSE data_end
            BY <4>1, <4>2
          <5> HIDE DEF e
          <5> QED BY <2>1, <5>1
        <4> QED BY <4>3
      <3>4. s.vaddr < Half \/ s.vaddr >= Half
        BY <2>1, <2>2 DEF SegmentType
      <3> QED BY <3>1, <3>2, <3>3, <3>4
    <2>4. PlacedInv'
      <3> SUFFICES ASSUME NEW k \in DOMAIN image, k < seg + 1, image[k].load, image[k].memsz # 0
                   PROVE /\ ~TooBig(image[k])
                         /\ image[k].vaddr >= Half => U32(image[k].vaddr + image[k].memsz) <= data_end'
        BY <1>1, <1>3 DEF PlacedInv, TooBig
      <3>1. CASE k = seg
        BY <1>3, <2>3, <3>1
      <3>2. CASE k < seg
        <4>1. /\ ~TooBig(image[k])
              /\ image[k].vaddr >= Half => U32(image[k].vaddr + image[k].memsz) <= data_end
          BY <3>2 DEF LoadInv, PlacedInv
        <4>2. image[k].vaddr >= Half => U32(image[k].vaddr + image[k].memsz) \in Nat
          BY <2>1, <4>1, DataEndBound
        <4> QED BY <2>1, <2>3, <4>1, <4>2
      <3>3. k \in Nat
        BY <2>1
      <3> QED BY <2>1, <3>1, <3>2, <3>3
    <2>5. FilledInv'
      <3> SUFFICES ASSUME NEW c \in filled', c[1] = "heap"
                   PROVE \E k \in DOMAIN image :
                           /\ k < seg + 1 /\ image[k].load /\ image[k].memsz # 0 /\ image[k].vaddr >= Half
                           /\ image[k].vaddr - Half <= c[2] /\ c[2] < image[k].vaddr - Half + image[k].filesz
        BY <1>1, <1>3 DEF FilledInv
      <3>1. CASE c \in filled
        <4>1. PICK k \in DOMAIN image :
                /\ k < seg /\ image[k].load /\ image[k].memsz # 0 /\ image[k].vaddr >= Half
                /\ image[k].vaddr - Half <= c[2] /\ c[2] < image[k].vaddr - Half + image[k].filesz
          BY <3>1 DEF LoadInv, FilledInv
        <4>2. k < seg + 1
          BY <2>1, <4>1
        <4> QED BY <4>1, <4>2
      <3>2. CASE c \notin filled
        <4>1. ~skip
          BY <1>3, <3>2
        <4>2. PICK j \in 0 .. (s.filesz - 1) : c = <<Buffer(s), s.vaddr - BufferBase(s) + j>>
          BY <1>3, <3>2, <4>1
        <4>3. s.vaddr >= Half /\ BufferBase(s) = Half
          BY <2>1, <2>2, <4>2 DEF Buffer, BufferBase, SegmentType
        <4>4. s.vaddr - Half <= c[2] /\ c[2] < s.vaddr - Half + s.filesz
          BY <2>1, <2>2, <4>2, <4>3 DEF SegmentType
        <4>5. seg < seg + 1
          BY <2>1
        <4> QED BY <2>2, <4>1, <4>3, <4>4, <4>5
      <3> QED BY <3>1, <3>2
    <2> QED BY <1>1, <1>3, <2>1, <2>3, <2>4, <2>5 DEF LoadInv
  <1> QED BY <1>1, <1>2, <1>3

\* The driver's steps before, during and after the loader's.
LEMMA LoadStep == LoadInv /\ [Next]_vars => LoadInv'
  <1> SUFFICES ASSUME LoadInv, [Next]_vars PROVE LoadInv'
    OBVIOUS
  <1>1. ASSUME UNCHANGED <<image, heap_len, seg, data_end, filled>>,
               loading' = "done" => seg > Len(image)
        PROVE LoadInv'
    BY <1>1 DEF LoadInv, PlacedInv, FilledInv, TooBig
  <1>2. CASE Loading
    <2>1. CASE Segment
      BY <2>1, SegmentStep
    <2>2. CASE LoadDone
      BY <1>1, <2>2 DEF LoadDone
    <2>3. ASSUME NEW ok \in BOOLEAN, Alloc(ok) PROVE LoadInv'
      BY <1>1, <2>3 DEF Alloc
    <2>4. ASSUME NEW ok \in BOOLEAN, Header(ok) PROVE LoadInv'
      BY <1>1, <2>4 DEF Header
    <2> QED BY <1>2, <2>1, <2>2, <2>3, <2>4 DEF Loading, Load
  <1>3. CASE UNCHANGED loadVars
    BY <1>1, <1>3 DEF loadVars, LoadInv
  <1>4. Next => Loading \/ UNCHANGED loadVars
    BY DEF Next, Guest, host, Refused, Loaded, Plain, Jump, StoreTohost, OnOob, OnIllegal, OnEbreak, EcallExit,
           EcallBrk, EcallOther, StartSlice, LoopDone, SliceReturns, CheckHalt, CheckTohost, CheckShort, CheckNext, Exit
  <1> QED BY <1>2, <1>3, <1>4 DEF vars

\* The break moves when the image is loaded and when brk asks for more below the
\* end of the heap; the loader's variables are settled by then.
LEMMA BreakStep == BreakInv /\ [Next]_vars => BreakInv'
  <1> SUFFICES ASSUME BreakInv, [Next]_vars PROVE BreakInv'
    OBVIOUS
  <1>1. ASSUME phase' = "load" <=> phase = "load", g_brk' = g_brk, UNCHANGED loadVars PROVE BreakInv'
    BY <1>1 DEF BreakInv, PageUp, HeapTop, U32, loadVars
  <1>2. CASE Loading
    BY <1>2 DEF Loading, BreakInv
  <1>3. CASE Refused
    BY <1>3 DEF Refused, BreakInv
  <1>4. CASE Loaded
    BY <1>4 DEF Loaded, BreakInv, host, loadVars, PageUp, U32
  <1>5. ASSUME NEW a \in Breaks, EcallBrk(a) PROVE BreakInv'
    <2>1. /\ UNCHANGED loadVars /\ phase # "load" /\ phase' # "load"
          /\ \/ g_brk' = g_brk
             \/ g_brk' = a /\ a < HeapTop
      BY <1>5 DEF EcallBrk, Goes, EcallReturns, Counted, Stopped, host
    <2>2. a \in Nat
      BY GuestAssumption, SpaceAssumption
    <2> QED BY <2>1, <2>2 DEF BreakInv, PageUp, HeapTop, U32, loadVars
  <1>6. CASE Guest
    <2>1. \/ \E a \in Breaks : EcallBrk(a)
          \/ phase # "load" /\ phase' # "load" /\ g_brk' = g_brk /\ UNCHANGED loadVars
      BY <1>6 DEF Guest, Plain, Jump, StoreTohost, OnOob, OnIllegal, OnEbreak, EcallExit, EcallOther, Goes,
                  EcallReturns, Counted, Stopped, host
    <2> QED BY <1>1, <1>5, <2>1
  <1>7. CASE StartSlice \/ LoopDone \/ SliceReturns \/ CheckHalt \/ CheckTohost \/ CheckShort \/ CheckNext \/ Exit
    BY <1>1, <1>7 DEF StartSlice, LoopDone, SliceReturns, CheckHalt, CheckTohost, CheckShort, CheckNext, Exit, host
  <1>8. CASE UNCHANGED vars
    BY <1>1, <1>8 DEF vars
  <1> QED BY <1>2, <1>3, <1>4, <1>6, <1>7, <1>8 DEF Next

\* The loader's promise and the place of the break, for ever.
LEMMA LoadAlways == Spec => [](LoadInv /\ BreakInv)
  <1>1. Init => LoadInv /\ BreakInv
    <2> SUFFICES ASSUME Init PROVE LoadInv /\ BreakInv
      OBVIOUS
    <2>1. /\ image \in Images /\ heap_len \in Rams /\ seg = 1 /\ data_end = Half /\ filled = {}
          /\ loading = "alloc" /\ phase = "load" /\ g_brk = 0
      BY DEF Init, LoadInit
    <2>2. DOMAIN image = 1 .. Len(image) /\ Half \in Nat /\ heap_len \in Nat
      BY <2>1, ImageTypes, SpaceAssumption, RamAssumption
    <2> QED BY <2>1, <2>2 DEF LoadInv, PlacedInv, FilledInv, BreakInv
  <1> QED BY <1>1, LoadStep, BreakStep, PTL DEF Spec

\* on_ecall, brk: what the guest gets is inside the heap, above every loaded
\* segment with its zero-filled part, and holds no byte of the file, whatever the
\* image and the heap size.  When the heap ends with the address space its end is
\* 0 in 32 bits: brk then grants nothing, so the wrapped ends of segments are
\* never compared with a break that moved.
THEOREM BreakIsClear == Spec => []BreakClear
  <1>1. LoadInv /\ BreakInv => BreakClear
    <2> SUFFICES ASSUME LoadInv, BreakInv, NEW a \in 0 .. (AddrMod - 1),
                        phase # "load", loading = "done", PageUp(data_end) <= a, a < g_brk
                 PROVE /\ a >= Half /\ a < Half + heap_len
                       /\ <<"heap", a - Half>> \notin filled
                       /\ \A k \in DOMAIN image :
                            image[k].load => ~(image[k].vaddr <= a /\ a < image[k].vaddr + image[k].memsz)
      BY DEF BreakClear
    <2>1. /\ AddrMod \in Nat /\ Half \in Nat /\ heap_len \in Nat /\ Half + heap_len <= AddrMod /\ CodeLen <= Half
          /\ CodeLen \in Nat /\ data_end \in Nat /\ Half <= data_end /\ data_end <= Half + heap_len /\ a \in Nat
      BY SpaceAssumption, RamAssumption DEF LoadInv
    <2>2. g_brk \in Nat /\ g_brk < HeapTop
      <3>1. PageUp(data_end) \in Nat
        BY <2>1, PageUpNat
      <3>2. g_brk # PageUp(data_end) /\ g_brk # 0
        BY <2>1, <3>1
      <3> QED BY <3>2 DEF BreakInv
    <2>3. Half + heap_len < AddrMod /\ HeapTop = Half + heap_len
      <3>1. CASE Half + heap_len = AddrMod
        BY <2>1, <2>2, <3>1, U32Word DEF HeapTop
      <3> QED BY <2>1, <3>1, U32Word DEF HeapTop
    <2>4. PageUp(data_end) \in Nat /\ data_end <= PageUp(data_end)
      BY <2>1, <2>3, PageUpAbove DEF LoadInv
    <2>5. data_end <= a /\ a < Half + heap_len
      BY <2>1, <2>2, <2>3, <2>4
    <2>6. \A k \in DOMAIN image : SegmentType(image[k]) /\ k < seg
      BY ImageTypes DEF LoadInv
    <2>7. ASSUME NEW k \in DOMAIN image, image[k].load, image[k].memsz # 0
          PROVE image[k].vaddr + image[k].memsz <= a
      <3>1. /\ ~TooBig(image[k])
            /\ image[k].vaddr >= Half => U32(image[k].vaddr + image[k].memsz) <= data_end
        BY <2>6, <2>7 DEF LoadInv, PlacedInv
      <3>2. image[k].vaddr \in Nat /\ image[k].memsz \in Nat
        BY <2>6 DEF SegmentType
      <3>3. CASE image[k].vaddr < Half
        BY <2>1, <2>5, <3>1, <3>2, <3>3 DEF TooBig
      <3>4. CASE image[k].vaddr >= Half
        <4>1. image[k].vaddr + image[k].memsz \in Nat /\ image[k].vaddr + image[k].memsz < AddrMod
          BY <2>1, <2>3, <3>1, <3>2, <3>4 DEF TooBig
        <4>2. U32(image[k].vaddr + image[k].memsz) = image[k].vaddr + image[k].memsz
          BY <4>1, U32Word
        <4> QED BY <2>1, <2>5, <3>1, <3>4, <4>1, <4>2
      <3> QED BY <2>1, <3>2, <3>3, <3>4
    <2>8. <<"heap", a - Half>> \notin filled
      <3> SUFFICES ASSUME <<"heap", a - Half>> \in filled PROVE FALSE
        OBVIOUS
      <3>1. PICK k \in DOMAIN image :
              /\ image[k].load /\ image[k].memsz # 0
              /\ a - Half < image[k].vaddr - Half + image[k].filesz
        BY DEF LoadInv, FilledInv
      <3>2. image[k].vaddr + image[k].memsz <= a
        BY <2>7, <3>1
      <3> QED BY <2>1, <2>6, <3>1, <3>2 DEF SegmentType
    <2>9. ASSUME NEW k \in DOMAIN image, image[k].load
          PROVE ~(image[k].vaddr <= a /\ a < image[k].vaddr + image[k].memsz)
      <3>1. image[k].vaddr \in Nat /\ image[k].memsz \in Nat
        BY <2>6 DEF SegmentType
      <3>2. CASE image[k].memsz = 0
        BY <2>1, <3>1, <3>2
      <3>3. CASE image[k].memsz # 0
        <4>1. image[k].vaddr + image[k].memsz <= a
          BY <2>7, <2>9, <3>3
        <4> QED BY <2>1, <3>1, <4>1
      <3> QED BY <3>2, <3>3
    <2> QED BY <2>1, <2>5, <2>8, <2>9
  <1> QED BY <1>1, LoadAlways, PTL

-----------------------------------------------------------------------------
(* The verdict.                                                             *)

\* The globals of a conformance run.  g_exit is 0 only from the poll, which
\* ends the run loop at once: nothing of the guest runs between the poll and
\* the exit, so the fault and the word the poll saw are those at the exit.
VerdictInv ==
  mode = "test" =>
    /\ g_exit \in {0, 1}
    /\ g_faulted => g_halt /\ g_exit = 1
    /\ g_exit = 0 => tohost = 1 /\ phase \in {"end", "exited"}
    /\ phase \in {"load", "top"} => tohost = 0
    /\ phase = "end" => g_halt \/ tohost = 0
    /\ said # "" => tohost = 0 /\ phase \in {"end", "exited"}
    /\ phase = "exited" => \/ status = 2 /\ tohost = 0
                           \/ status = ExitStatus /\ (g_halt \/ tohost = 0)

\* No guest instruction of a conformance run disturbs it: an exit call is
\* ignored outside --user, and a store to tohost happens inside a slice.
LEMMA GuestVerdict == VerdictInv /\ Guest => VerdictInv'
  <1> SUFFICES ASSUME VerdictInv, Guest, mode = "test" PROVE VerdictInv'
    BY DEF Guest, VerdictInv, Plain, Jump, StoreTohost, OnOob, OnIllegal, OnEbreak, EcallExit, EcallBrk, EcallOther, host
  <1> USE DEF VerdictInv, host, Goes, Counted, Stopped, EcallReturns, g_user_mode
  <1>1. ASSUME Plain PROVE VerdictInv'
    BY <1>1 DEF Plain
  <1>2. ASSUME OnOob PROVE VerdictInv'
    BY <1>2 DEF OnOob
  <1>3. ASSUME OnIllegal PROVE VerdictInv'
    BY <1>3 DEF OnIllegal
  <1>4. ASSUME OnEbreak PROVE VerdictInv'
    BY <1>4 DEF OnEbreak
  <1>5. ASSUME EcallOther PROVE VerdictInv'
    BY <1>5 DEF EcallOther
  <1>6. ASSUME NEW where \in {"outside", "magic"}, Jump(where) PROVE VerdictInv'
    BY <1>6 DEF Jump
  <1>7. ASSUME NEW v \in HostWords, StoreTohost(v) PROVE VerdictInv'
    BY <1>7 DEF StoreTohost
  <1>8. ASSUME NEW code \in ExitCodes, EcallExit(code) PROVE VerdictInv'
    BY <1>8 DEF EcallExit
  <1>9. ASSUME NEW a \in Breaks, EcallBrk(a) PROVE VerdictInv'
    BY <1>9 DEF EcallBrk
  <1> QED BY <1>1, <1>2, <1>3, <1>4, <1>5, <1>6, <1>7, <1>8, <1>9 DEF Guest

\* Every step of the host keeps it.
LEMMA VerdictStep == VerdictInv /\ [Next]_vars => VerdictInv'
  <1> SUFFICES ASSUME VerdictInv, [Next]_vars PROVE VerdictInv'
    OBVIOUS
  <1> USE DEF VerdictInv, host, TohostSet, g_have_tohost, invoke
  <1>1. CASE Loading
    BY <1>1 DEF Loading
  <1>2. CASE Refused
    BY <1>2 DEF Refused
  <1>3. CASE Loaded
    BY <1>3 DEF Loaded
  <1>4. CASE Guest
    BY <1>4, GuestVerdict
  <1>5. CASE StartSlice
    BY <1>5 DEF StartSlice
  <1>6. CASE LoopDone
    BY <1>6 DEF LoopDone
  <1>7. CASE SliceReturns
    BY <1>7 DEF SliceReturns
  <1>8. CASE CheckHalt
    BY <1>8 DEF CheckHalt
  <1>9. CASE CheckTohost
    BY <1>9 DEF CheckTohost
  <1>10. CASE CheckShort
    BY <1>10 DEF CheckShort
  <1>11. CASE CheckNext
    BY <1>11 DEF CheckNext
  <1>12. CASE Exit
    BY <1>12 DEF Exit, ExitStatus, g_user_mode
  <1>13. CASE UNCHANGED vars
    BY <1>13 DEF vars, ExitStatus, g_user_mode
  <1> QED BY <1>1, <1>2, <1>3, <1>4, <1>5, <1>6, <1>7, <1>8, <1>9, <1>10, <1>11, <1>12, <1>13 DEF Next

\* The globals of a conformance run keep their relation for ever.
LEMMA VerdictAlways == Spec => []VerdictInv
  <1>1. Init => VerdictInv
    <2> SUFFICES ASSUME Init PROVE VerdictInv
      OBVIOUS
    <2>1. phase = "load" /\ tohost = 0 /\ said = "" /\ g_exit = 1 /\ ~g_faulted
      BY DEF Init
    <2>2. 1 # 0
      OBVIOUS
    <2> QED BY <2>1, <2>2, Zenon DEF VerdictInv
  <1> QED BY <1>1, VerdictStep, PTL DEF Spec

\* main.c: status 0 is a PASS.  A conformance run exits with 0 only if the guest
\* stored 1 to tohost and made no bad access, for every slice length and cap.
THEOREM PassIsPass == Spec => []PassMeansPass
  <1>1. VerdictInv => PassMeansPass
    <2> SUFFICES ASSUME VerdictInv, phase = "exited", mode = "test", status = 0
                 PROVE tohost = 1 /\ ~g_faulted
      BY DEF PassMeansPass
    <2>1. 0 # 2 /\ 0 # 1
      OBVIOUS
    <2>2. status = ExitStatus /\ g_halt
      BY <2>1, Zenon DEF VerdictInv, ExitStatus, invoke
    <2>3. g_exit = 0
      BY <2>2 DEF ExitStatus, invoke
    <2> QED BY <2>1, <2>3, Zenon DEF VerdictInv
  <1> QED BY <1>1, VerdictAlways, PTL

\* main.c, the poll of tohost: a guest that stored to tohost gets the verdict of
\* that store, although it ran on to the end of its slice.
THEOREM StoreGetsVerdict == Spec => []TohostVerdict
  <1>1. VerdictInv => TohostVerdict
    <2> SUFFICES ASSUME VerdictInv, phase = "exited", mode = "test", tohost # 0
                 PROVE said = "" /\ (status = 2 => sigfile = "nosymbols")
      BY DEF TohostVerdict
    <2>1. said = "" /\ status = ExitStatus /\ g_halt /\ g_exit \in {0, 1}
      BY Zenon DEF VerdictInv
    <2>2. ASSUME sigfile # "nosymbols" PROVE ExitStatus \in {0, 1}
      BY <2>1, <2>2 DEF ExitStatus, invoke, g_user_mode
    <2>3. 2 \notin {0, 1}
      OBVIOUS
    <2> QED BY <2>1, <2>2, <2>3, Zenon
  <1> QED BY <1>1, VerdictAlways, PTL
=============================================================================

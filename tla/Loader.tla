------------------------------- MODULE Loader -------------------------------
(***************************************************************************)
(* emu/purvhost.h: allocating the host buffers and placing an ELF image in *)
(* them.  A segment below Half goes to the code buffer, one above to the   *)
(* heap; addresses are 32-bit words, scaled to AddrMod, and the two        *)
(* too-big tests are the 64-bit sums of the code.  Contents are abstract:  *)
(* filled is the set of buffer cells that hold bytes of the file, all      *)
(* other cells are the zeros of calloc.                                    *)
(***************************************************************************)
EXTENDS Integers, Sequences

CONSTANTS
  AddrMod,   \* size of the address space: 2^32
  Half,      \* RISCV_HALF
  Page,      \* 4096
  CodeLen,   \* bytes of the code buffer
  Rams,      \* heap sizes --ram gives
  Images     \* program headers: sequences of [load, vaddr, filesz, memsz]

ASSUME SpaceAssumption ==
  /\ AddrMod \in Nat /\ Half \in Nat /\ Page \in Nat \ {0}
  /\ Half < AddrMod /\ AddrMod % Page = 0 /\ Half % Page = 0
  /\ CodeLen \in 0 .. Half

\* A heap is a whole number of pages and ends inside the address space.
ASSUME RamAssumption == \A n \in Rams : n \in 0 .. (AddrMod - Half) /\ n % Page = 0

\* A linker writes no segment whose file part is longer than the segment.
ASSUME ImageAssumption ==
  \A img \in Images :
     /\ img \in Seq([load : BOOLEAN, vaddr : 0 .. (AddrMod - 1), filesz : Nat, memsz : 0 .. (AddrMod - 1)])
     /\ \A k \in DOMAIN img : img[k].filesz <= img[k].memsz

VARIABLES
  image, heap_len,   \* the file and the size of the heap
  loading,           \* alloc, header, segments, done, failed
  seg,               \* index of the program header looked at
  data_end,          \* host.data_end
  filled             \* cells <<buffer, offset>> that hold bytes of the file

loadVars == <<image, heap_len, loading, seg, data_end, filled>>

U32(v) == v % AddrMod

LoadInit ==
  /\ image \in Images /\ heap_len \in Rams
  /\ loading = "alloc" /\ seg = 1
  /\ data_end = Half /\ filled = {}

\* purvhost_alloc: -1 when a buffer is not to be had.
Alloc(ok) ==
  /\ loading = "alloc"
  /\ loading' = IF ok THEN "header" ELSE "failed"
  /\ UNCHANGED <<image, heap_len, seg, data_end, filled>>

\* purvhost_slurp and the checks of the header: readable, ELF, 32 bits, RISC-V.
Header(ok) ==
  /\ loading = "header"
  /\ loading' = IF ok THEN "segments" ELSE "failed"
  /\ UNCHANGED <<image, heap_len, seg, data_end, filled>>

Buffer(s) == IF s.vaddr < Half THEN "code" ELSE "heap"
BufferBase(s) == IF s.vaddr < Half THEN 0 ELSE Half

\* The segment does not fit its buffer: sums of 64 bits.
TooBig(s) ==
  IF s.vaddr < Half THEN s.vaddr + s.memsz > CodeLen
  ELSE s.vaddr + s.memsz > Half + heap_len

\* Mutated form: the end of the last data segment, not of the highest.
DataEndLast(s) == IF s.vaddr < Half THEN data_end ELSE U32(s.vaddr + s.memsz)

\* data_end after a segment: the highest end so far, in 32 bits.
DataEnd(s) ==
  LET end == U32(s.vaddr + s.memsz)
  IN IF s.vaddr >= Half /\ end > data_end THEN end ELSE data_end

\* One iteration of the loop over the program headers.
Segment ==
  /\ loading = "segments" /\ seg <= Len(image)
  /\ LET s == image[seg]
         skip == ~s.load \/ s.memsz = 0
     IN IF ~skip /\ TooBig(s)
          THEN loading' = "failed" /\ UNCHANGED <<seg, data_end, filled>>
          ELSE /\ seg' = seg + 1
               /\ data_end' = IF skip THEN data_end ELSE DataEnd(s)
               /\ filled' = IF skip THEN filled ELSE
                    filled \cup {<<Buffer(s), s.vaddr - BufferBase(s) + j>> : j \in 0 .. (s.filesz - 1)}
               /\ UNCHANGED loading
  /\ UNCHANGED <<image, heap_len>>

LoadDone ==
  /\ loading = "segments" /\ seg > Len(image)
  /\ loading' = "done"
  /\ UNCHANGED <<image, heap_len, seg, data_end, filled>>

Load == (\E ok \in BOOLEAN : Alloc(ok) \/ Header(ok)) \/ Segment \/ LoadDone
=============================================================================

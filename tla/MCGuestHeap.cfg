\* Eleven units of memory, grown three or five at a time: splits, exact fits,
\* joins on both sides, moves, and requests that no longer fit.
SPECIFICATION Spec
CONSTANTS
  AddrMod = 64
  HUnit = 2
  MinCore = 3
  BaseP = 32
  HeapTop = 56
  Sizes = {0, 1, 7}
INVARIANTS Partition Coalesced BigEnough
PROPERTY CallsReturn

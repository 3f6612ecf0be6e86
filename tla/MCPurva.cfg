\* Words of four two-bit bytes; a stack of 8 bytes, so that a second frame
\* leaves the buffer; offsets inside and outside every field.
SPECIFICATION FairSpec
CONSTANTS
  ByteMod = 4
  AddrMod = 256
  WBase = 120
  WLen = 16
  CbWord = 6
  RankReg <- Ranks
  FrameMax = 16
  LiRange = 16
  LoRange = 8
  IdxRange = 8
  PairRange = 8
  SrcRange = 8
  DstRange = 16
  Programs <- MCPrograms
  ExtTargets = {0, 2}
  Start <- Registers
  PtrCells <- Cells
  Budgets = {1, 3}
  MaxUnit = 4
  HostReg = 5
  HostWords = {128}
  WordBits = 8
INVARIANTS TargetsKept FrameInBuffer
PROPERTIES ImplementsSource CallReturns
CHECK_DEADLOCK FALSE

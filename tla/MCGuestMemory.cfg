\* Three-valued bytes; addresses at and around both regions' ends, the seam at
\* 0 and the far end of the address space.
SPECIFICATION Spec
CONSTANTS
  ByteMod = 3
  AddrMod = 81
  WBase = 41
  WLen = 4
  RBase = 0
  RLen = 1
  CbWord = 50
  Addrs = {0, 1, 41, 42, 43, 44, 80}
  Values = {0, 5}
  Counts = {0, 2, 3, 5}
  Ops = {"load", "store", "memcpy", "memset", "memcmp", "memchr", "strlen", "strcmp", "strchr", "strncmp"}
  ZeroRd = {FALSE}
INVARIANT HostSafe
PROPERTY ImplementsFlatMemory

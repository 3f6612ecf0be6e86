\* The bulk instruction with rd = x0.
SPECIFICATION Spec
CONSTANTS
  ByteMod = 3
  AddrMod = 81
  WBase = 41
  WLen = 3
  RBase = 0
  RLen = 1
  CbWord = 1
  Addrs = {0, 1, 40, 41, 42, 43, 44, 80}
  Values = {0, 5}
  Counts = {0, 1, 2, 4}
  Ops = {"memcpy", "memset", "memcmp", "memchr", "strlen", "strcmp", "strchr", "strncmp"}
  ZeroRd = {TRUE}
INVARIANT X0IsZero

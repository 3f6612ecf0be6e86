\* Every mode and image; slices that end before, at and after the cap.
SPECIFICATION Spec
CONSTANTS
  AddrMod = 32
  Half = 16
  Page = 2
  CodeLen = 4
  Rams = {8, 16}
  Images <- MCImages
  Slice = 3
  MaxInsns = 7
  Modes = {"test", "bare", "user", "invoke", "userinvoke"}
  Sigs = {"none", "good", "unwritable", "nosymbols"}
  ExitCodes = {0, 7}
  HostWords = {1, 3}
  Breaks = {1, 17, 20, 23, 24, 31}
INVARIANTS PassMeansPass TohostVerdict BreakClear
PROPERTY Terminates
CHECK_DEADLOCK FALSE

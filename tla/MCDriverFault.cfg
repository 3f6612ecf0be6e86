\* A guest that faults and then exits.
SPECIFICATION Spec
CONSTANTS
  AddrMod = 32
  Half = 16
  Page = 2
  CodeLen = 4
  Rams = {8}
  Images <- OneImage
  Slice = 3
  MaxInsns = 7
  Modes = {"user"}
  Sigs = {"none"}
  ExitCodes = {0, 7}
  HostWords = {1, 3}
  Breaks = {17, 23}
INVARIANT FaultFails
CHECK_DEADLOCK FALSE

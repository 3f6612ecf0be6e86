\* A ring of two frames, so that it wraps; two breakpoints and room for both.
SPECIFICATION Spec
CONSTANTS
  AddrMod = 8
  LastReg = 1
  Images <- Both
  HistFrames = 2
  MaxBp = 2
  PollEvery = 2
  BpAddrs = {0, 2}
  PokeWords = {2}
  MaxIn = 2
  MaxFaults = 1
  HostReg = 1
  HostWords = {0}
  ExitCodes = {0}
INVARIANTS BreakpointStops NobodyStuck
PROPERTIES ImplementsUndo InterruptStops ReverseEnds
CHECK_DEADLOCK FALSE

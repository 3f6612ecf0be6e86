\* A handler is shown the pc at which the run started.
SPECIFICATION Spec
CONSTANTS
  AddrMod = 8
  LastReg = 1
  Images <- MCImages
  MaxBudget = 3
  BlockMax = 3
  Entries = {}
  HostRegs = {1}
  HostWords = {}
  StopChoices = {TRUE, FALSE}
  EvalStops = {}
  Lens = {6}
  Kinds = {"alu", "ecall"}
INVARIANT TrapPcValid

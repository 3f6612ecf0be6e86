\* Runs of up to four instructions: jumps traced and re-walked, an evaluator
\* that gives up, handlers that let the guest go on.
SPECIFICATION FairSpec
CONSTANTS
  AddrMod = 8
  LastReg = 1
  Images <- MCImages
  MaxBudget = 4
  BlockMax = 3
  Entries = {}
  HostRegs = {1}
  HostWords = {4}
  StopChoices = {FALSE}
  EvalStops = {1, 2}
  Lens = {4, 6}
  Kinds = {"alu", "mem", "auipc", "branch", "jal", "jalr", "ecall"}
INVARIANTS TypeOK FetchInBounds
PROPERTIES ImplementsRuns CallReturns

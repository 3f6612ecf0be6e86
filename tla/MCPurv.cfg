\* Code of 1 to 8 bytes: windows of one and two instructions, the tail, a
\* straddling 32-bit instruction, budgets that end inside a window.
SPECIFICATION FairSpec
CONSTANTS
  AddrMod = 16
  LastReg = 1
  Images <- MCImages
  MaxBudget = 3
  Entries = {0}
  HostRegs = {1}
  HostWords = {3}
  Lens = {1, 2, 3, 6, 8}
  Kinds = {"alu", "auipc", "branch", "jal", "jalr", "ecall"}
INVARIANTS TypeOK FetchInBounds WindowInv
PROPERTIES ImplementsContract CallReturns

\* Two instances, nested once.
SPECIFICATION FairSpec
CONSTANTS
  Inst = {r1, r2}
  None = None
  Fuels = {0, 2, 3}
  Costs = {1, 3}
  Straight = 4
  ExitCodes = {0, 7}
  WriteLens = {0, 3}
  Chunk = 2
  MaxDepth = 2
INVARIANTS OvershootBounded OwnProgram DoneIsExit WrittenInOrder
PROPERTIES FuelResumes EndedStays RunReturns

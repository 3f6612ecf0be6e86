SPECIFICATION DSpec
CONSTANTS
  XLen = 4
  MaxLoops = 2
  LowHalves <- MCLowHalves
  HighHalves <- MCHighHalves
  ProbeLows <- MCProbeLows
  ProbeHighs <- MCProbeHighs
INVARIANTS
  PurgAgrees
  IllegalOnce
  ValuesAgree
  PurvsAgrees
  TranscodeAgrees

SPECIFICATION RulesSpec
CONSTANTS
  EraLength = 2
  Window = 2
  TargetTime = 1
  MedianWindow = 3
  Templates = {worker}
  Gaps <- GapsBothWays
  MaxDifficulty = 9
  MaxHeight = 4
  Spends <- MCSpends
  Keys <- MCKeys
  Readings <- MCReadings
  MaxLeaves = 9
  TheNode = node
  Commands = {cli}
  Peer = peer
  HalvingEvery = 2
  TopHeight = 4
  MaxRecords = 5
  MaxReceived = 1
  MaxLaunches = 3
  Garbage = garbage
  MaxGarbage = 2
  MaxMade = 4
  MaxCuts = 4
  Desks = {d1, d2}
  Addresses = {a1, a2}
  Labels = {l1, l2}
  NoLabel = none
  NonceRange = 8
  MaxCalls = 4
  MaxStops = 1
INVARIANTS RulesTypeOK LocksDecide ProofsAreSound FilesSurvive RecordsSurvive StoresAreSafe
PROPERTIES SearchKeepsFloor MedianAdvances CheckpointsKept
CHECK_DEADLOCK FALSE

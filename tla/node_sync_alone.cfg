SPECIFICATION NetworkSpec
CONSTANTS
  Block <- UpTo3
  Genesis <- MCGenesis
  None = None
  Index <- Index3
  Prev <- Prev3
  Own <- Own3
  Suspect = {}
  PeerChains <- TwoBranchesAndJump
  Miners = {}
  Handlers = {}
  Syncers = {s1}
  CheckpointInterval = 2
  BatchLimit = 2
  MaxCrashes = 1
  Nodes = {1, 2, 3}
  Cuts = {4}
  Main = main
  Helpers = {extra}
  Workers = {w1}
  Listed <- MCListed
  Up = {3}
  Failing = {1}
  Chosen <- MCChosen
  MaxAside = 1
INVARIANTS CheckpointsHold GossipTypeOK BootstrapSpreads OrderlySavesStay
PROPERTIES ReorgGrows EveryRoundEnds
CHECK_DEADLOCK FALSE

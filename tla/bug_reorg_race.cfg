SPECIFICATION Spec
CONSTANTS
  Block <- UpTo3
  Genesis <- MCGenesis
  None = None
  Index <- Index3
  Prev <- Prev3
  Own <- Own3
  Suspect = {}
  PeerChains <- SteadyPeer
  Miners = {m1}
  Handlers = {}
  Syncers = {s1}
  CheckpointInterval = 2
  BatchLimit = 2
  MaxCrashes = 0
PROPERTIES ReorgGrows
CHECK_DEADLOCK FALSE

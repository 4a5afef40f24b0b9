SPECIFICATION Spec
CONSTANTS
  Block <- UpTo3
  Genesis <- MCGenesis
  None = None
  Index <- Index3
  Prev <- Prev3
  Own <- Own3
  Suspect = {}
  PeerChains = {}
  Miners = {}
  Handlers = {h1}
  Syncers = {}
  CheckpointInterval = 2
  BatchLimit = 2
  MaxCrashes = 1
PROPERTIES RestartRestores
CHECK_DEADLOCK FALSE

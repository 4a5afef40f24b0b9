SPECIFICATION FairSpec
CONSTANTS
  Block <- UpTo3
  Genesis <- MCGenesis
  None = None
  Index <- Index3
  Prev <- Prev3
  Own <- Own3
  Suspect = {}
  PeerChains = {}
  Miners = {m1, m2}
  Handlers = {h1}
  Syncers = {}
  CheckpointInterval = 2
  BatchLimit = 2
  MaxCrashes = 1
INVARIANTS TypeOK OneMiner Linked DiskFollowsChain
PROPERTIES ImplementsHashChain OvertakenSearchIsTold ThreadsGoOn
CHECK_DEADLOCK FALSE

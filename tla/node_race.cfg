SPECIFICATION SidesSpec
CONSTANTS
  Block <- UpTo3
  Genesis <- MCGenesis
  None = None
  Index <- Index3
  Prev <- Prev3
  Own <- Own3
  Suspect <- MCSuspect
  PeerChains <- AllKinds
  Miners = {m1}
  Handlers = {}
  Syncers = {s1}
  CheckpointInterval = 10
  BatchLimit = 2
  MaxCrashes = 0
  Remotes = {r1, r2}
  Misdating = {r2}
  Home = home
  LastHeight = 2
  MaxLost = 1
INVARIANTS BlocksStay RemoteTypeOK MinersAreServed
PROPERTIES SyncsEnd ChainAdvances
CHECK_DEADLOCK FALSE

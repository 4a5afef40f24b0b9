SPECIFICATION PayMiner
CONSTANTS
  Miner = "alice"
  Peer = "bob"
  Reserve = "reserve"
  Others = {"carol"}
  PeerBodies = {}
  EraLength = 2
  LastEra = 3
  EraReward <- Rewards
  MaxSupply = 1150
  ReserveDust = 5
  ReserveDivisor = 5
  FeePercent <- TenPercent
  Maturity = 1
  BlockTxs = 2
  MaxHeight = 4
  MaxRestarts = 0
  Senders = {s1, s2}
  Requests <- TwoOfBob
  Relayed <- OneRelayed
  TTL = 1
  MaxNow = 1
INVARIANTS PendingIsWaiting EmissionIsSound OutputsAreBookedOnce
PROPERTIES TakenOldestFirst
CHECK_DEADLOCK FALSE

SPECIFICATION PaySpec
CONSTANTS
  Miner = "alice"
  Peer = "bob"
  Reserve = "reserve"
  Others = {"carol"}
  PeerBodies <- PeerOffers
  EraLength = 2
  LastEra = 3
  EraReward <- Rewards
  MaxSupply = 1150
  ReserveDust = 5
  ReserveDivisor = 5
  FeePercent <- RisingPercent
  Maturity = 2
  BlockTxs = 2
  MaxHeight = 4
  MaxRestarts = 0
  Senders = {}
  Requests = {}
  Relayed = {}
  TTL = 1
  MaxNow = 1
INVARIANTS SupplyCapped
CHECK_DEADLOCK FALSE

SPECIFICATION PaySpec
CONSTANTS
  Miner = "alice"
  Peer = "bob"
  Reserve = "reserve"
  Others = {"carol"}
  PeerBodies <- PeerOffers
  EraLength = 2
  LastEra = 3
  EraReward <- Rewards
  MaxSupply = 9000
  ReserveDust = 5
  ReserveDivisor = 5
  FeePercent <- RisingPercent
  Maturity = 2
  BlockTxs = 2
  MaxHeight = 3
  MaxRestarts = 1
  Senders = {s1}
  Requests <- BobAndCarol
  Relayed <- OneRelayed
  TTL = 1
  MaxNow = 2
INVARIANTS PayTypeOK BooksAgree
CHECK_DEADLOCK FALSE

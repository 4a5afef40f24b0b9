SPECIFICATION PaySpec
CONSTANTS
  Miner = "alice"
  Peer = "bob"
  Reserve = "reserve"
  Others = {"carol"}
  PeerBodies = {}
  EraLength = 2
  LastEra = 3
  EraReward <- Rewards
  MaxSupply = 9000
  ReserveDust = 5
  ReserveDivisor = 5
  FeePercent <- TenPercent
  Maturity = 1
  BlockTxs = 2
  MaxHeight = 3
  MaxRestarts = 0
  Senders = {s1}
  Requests <- TwoOfBob
  Relayed = {}
  TTL = 1
  MaxNow = 1
INVARIANTS NoOverdraft
CHECK_DEADLOCK FALSE

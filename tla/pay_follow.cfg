SPECIFICATION PayFollower
CONSTANTS
  Miner = "alice"
  Peer = "bob"
  Reserve = "reserve"
  Others = {"carol"}
  PeerBodies = {}
  EraLength = 1
  LastEra = 3
  EraReward <- ThinRewards
  MaxSupply = 9000
  ReserveDust = 5
  ReserveDivisor = 5
  FeePercent <- TenPercent
  Maturity = 1
  BlockTxs = 2
  MaxHeight = 4
  MaxRestarts = 0
  Senders = {s1}
  Requests <- ThreeOfBob
  Relayed = {}
  TTL = 1
  MaxNow = 1
INVARIANTS NoOverdraft
CHECK_DEADLOCK FALSE

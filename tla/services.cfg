SPECIFICATION ServicesSpec
CONSTANTS
  Pushers = {p1}
  Streams = {s1}
  Pages = {g1}
  MaxEvents = 2
  Stamp = 99
  MaxPush = 3
  MaxRestarts = 1
  Worker = {w1, w2}
  first = first
  second = second
  Txid <- MCTxid
  Signer = {ana, rui}
  Scrap = {scrap}
  Threshold <- MCThreshold
  Clock = 9
  None = None
  MaxRequests = 4
INVARIANTS ServicesTypeOK NoLostWakeup StreamsAreServed BroadcastIsApproved CalmIsSafe
PROPERTIES ClientsHear

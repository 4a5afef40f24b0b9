--------------------------- MODULE Payments_proofs ---------------------------
(***************************************************************************)
(* Proofs about a node that mines alone: its emission, and what becomes of *)
(* the payments in mempool.dat; and about a node that only follows a peer: *)
(* its senders' balances.                                                  *)
(***************************************************************************)
EXTENDS Ledger_proofs

MinerNext == Send \/ RelayTx \/ MineWithMempool \/ RebuildLedger

LEMMA MinerIsPayStep ==
  ASSUME [MinerNext]_allVars
  PROVE  [PayNext]_allVars
  BY DEF MinerNext, PayNext

------------------------------------------------------------------------------
(* The miner is the only writer                                            *)

Subsidised(txs) == txs[1].vout[1].amount

MinerLocks ==
  /\ lock \in {"startup", "free", "miner"} /\ npc = "idle" /\ restarts = 0
  /\ mpc \in {"idle", "assemble", "commit", "book"}
  /\ lock = "miner" <=> mpc = "book"
  /\ lock = "startup" => /\ mpc = "idle" /\ cursor \in {1, 2}
                         /\ chain = <<GenesisBlock>>
                         /\ ledger = ReplayTo(chain, cursor - 1)
  /\ lock # "startup" => cursor = 0

MinerDraft ==
  /\ nextIndex \in Nat
  /\ mpc \in {"assemble", "commit"} => nextIndex = Len(chain) /\ Len(chain) <= MaxHeight
  /\ mpc = "book" => nextIndex = Len(chain) - 1 /\ chain[Len(chain)] = draft.txs
  /\ mpc \in {"commit", "book"} =>
       draft.txs \in Block /\ draft.subsidy \in Int /\ Subsidised(draft.txs) = draft.subsidy

MinerLedger ==
  /\ chain \in Seq(Block) /\ Len(chain) \in 1 .. MaxHeight + 1
  /\ GoodLedger(ledger)

MinerInv == MinerLocks /\ MinerDraft /\ MinerLedger /\ PayInv

LEMMA MinerInit ==
  ASSUME PayInit
  PROVE  MinerInv
  <1>1. /\ chain \in Seq(Block) /\ Len(chain) \in 1 .. MaxHeight + 1
        /\ ReplayTo(chain, 0) = EmptyLedger
    BY GenesisType, ReplaySteps, ParameterAssumption DEF PayInit, Init, ParameterAssumption
  <1> QED BY <1>1, EmptyLedgerType, PayInvInit
          DEF PayInit, Init, MinerInv, MinerLocks, MinerDraft, MinerLedger

(* Startup books the one block there is; then only the miner writes.       *)
MinerStep ==
  \/ ReadHeight \/ Assemble(Assembled) \/ Discard \/ Commit \/ BookOwn
  \/ RebuildNext \/ RebuildDone \/ UNCHANGED vars

LEMMA MinerSteps ==
  ASSUME [MinerNext]_allVars
  PROVE  MinerStep
  BY DEF MinerNext, Send, ReadBalance, Audit, AppendTx, RelayTx, MineWithMempool,
         AssembleFromMempool, BookAndClear, RebuildLedger, allVars, MinerStep

(* Startup has one block to book.                                          *)
LEMMA StartupBooks ==
  ASSUME MinerLocks, RebuildNext
  PROVE  lock = "startup" /\ cursor = 1 /\ chain = <<GenesisBlock>> /\ Len(chain) = 1
  <1>1. cursor \in 1 .. Len(chain)
    BY DEF RebuildNext
  <1>2. cursor # 0
    BY <1>1
  <1>3. lock = "startup" /\ cursor \in {1, 2} /\ chain = <<GenesisBlock>>
    BY <1>2 DEF MinerLocks
  <1>4. Len(chain) = 1
    BY <1>3
  <1> QED BY <1>1, <1>3, <1>4

LEMMA MinerInvStep ==
  ASSUME MinerInv, [MinerNext]_allVars
  PROVE  MinerInv'
  <1>0. /\ chain \in Seq(Block) /\ Len(chain) \in 1 .. MaxHeight + 1 /\ MaxHeight \in Nat
        /\ GoodLedger(ledger) /\ PayInv
    BY ParameterAssumption DEF MinerInv, MinerLedger, ParameterAssumption
  <1>1. PayInv'
    BY <1>0, MinerIsPayStep, PayInvStep
  <1> SUFFICES (MinerLocks /\ MinerDraft /\ MinerLedger)'
    BY <1>1 DEF MinerInv
  <1>2. CASE ReadHeight
    BY <1>2 DEF ReadHeight, network, MinerInv, MinerLocks, MinerDraft, MinerLedger
  <1>3. CASE Assemble(Assembled)
    <2>1. nextIndex \in 0 .. MaxHeight + 1 /\ nextIndex \in Nat
      BY <1>0, <1>3 DEF Assemble, MinerInv, MinerDraft
    <2>2. Assembled \in Body
      BY <1>0, AssembledIsPrefix DEF PayInv
    <2>3. Subsidy(nextIndex, ledger, Len(chain)) \in Int
      BY <1>0, <2>1, RewardType
    <2> DEFINE subsidy == Subsidy(nextIndex, ledger, Len(chain))
    <2>4. LET b == BlockOf(nextIndex, Miner, subsidy, Assembled)
          IN  b \in Block /\ b[1].vout[1].amount = subsidy
      <3>1. subsidy \in Int /\ Miner \in Address
        BY <2>3 DEF Address
      <3> HIDE DEF subsidy
      <3> QED BY <2>1, <2>2, <3>1, BlockType
    <2>5. /\ draft'.txs \in Block /\ draft'.subsidy \in Int
          /\ Subsidised(draft'.txs) = draft'.subsidy
      BY <1>3, <2>3, <2>4 DEF Assemble, Subsidised
    <2> QED BY <1>3, <2>5 DEF Assemble, network, MinerInv, MinerLocks, MinerDraft, MinerLedger
  <1>4. CASE Discard
    BY <1>4 DEF Discard, EndMining, network, MinerInv, MinerLocks, MinerDraft, MinerLedger
  <1>5. CASE Commit
    <2>1. draft.txs \in Block /\ Len(chain) <= MaxHeight
      BY <1>5 DEF Commit, MinerInv, MinerDraft
    <2>2. /\ chain' \in Seq(Block) /\ Len(chain') = Len(chain) + 1
          /\ chain'[Len(chain')] = draft.txs
      BY <1>0, <1>5, <2>1 DEF Commit
    <2> QED BY <1>0, <1>5, <2>1, <2>2
            DEF Commit, network, MinerInv, MinerLocks, MinerDraft, MinerLedger
  <1>6. CASE BookOwn
    <2>1. draft.txs \in Body /\ nextIndex \in Nat /\ draft.subsidy \in Int
      BY <1>6 DEF BookOwn, MinerInv, MinerDraft, Block, Body
    <2> DEFINE m == [ledger EXCEPT !.supply = @ + draft.subsidy]
    <2>2. GoodLedger(m)
      BY <1>0, <2>1 DEF GoodLedger
    <2>3. ledger' = Book(m, draft.txs, nextIndex)
      BY <1>6 DEF BookOwn
    <2> HIDE DEF m
    <2>4. GoodLedger(ledger')
      BY <2>1, <2>2, <2>3, BookType
    <2> QED BY <1>0, <1>6, <2>4 DEF BookOwn, EndMining, network, MinerInv, MinerLocks, MinerDraft,
                                    MinerLedger
  <1>7. CASE RebuildNext
    <2>1. lock = "startup" /\ cursor = 1 /\ chain = <<GenesisBlock>> /\ Len(chain) = 1
      BY <1>7, StartupBooks DEF MinerInv
    <2>2. ledger' = ReplayTo(chain, 1) /\ cursor' = 2 /\ GoodLedger(ledger')
      <3>1. ReplayTo(chain, 0 + 1) = RebuildBlock(ReplayTo(chain, 0), 0 + 1, chain)
        BY ReplaySteps
      <3>2. GoodLedger(ReplayTo(chain, 1))
        BY <1>0, <2>1, ReplayType
      <3> QED BY <1>7, <2>1, <3>1, <3>2 DEF RebuildNext, MinerInv, MinerLocks
    <2> QED BY <1>0, <1>7, <2>1, <2>2 DEF RebuildNext, miner, network, MinerInv, MinerLocks,
                                          MinerDraft, MinerLedger
  <1>8. CASE RebuildDone
    <2>1. lock = "startup"
      BY <1>0, <1>8 DEF RebuildDone, MinerInv, MinerLocks
    <2> QED BY <1>0, <1>8, <2>1 DEF RebuildDone, miner, MinerInv, MinerLocks, MinerDraft,
                                    MinerLedger
  <1>9. CASE UNCHANGED vars
    BY <1>9 DEF vars, miner, network, MinerInv, MinerLocks, MinerDraft, MinerLedger
  <1> QED BY <1>2, <1>3, <1>4, <1>5, <1>6, <1>7, <1>8, <1>9, MinerSteps DEF MinerStep

LEMMA MinerInvariance == PayMiner => []MinerInv
  <1>1. PayMiner => PayInit /\ [][MinerNext]_allVars
    BY DEF PayMiner, MinerNext
  <1>2. PayInit => MinerInv
    BY MinerInit
  <1>3. MinerInv /\ [MinerNext]_allVars => MinerInv'
    BY MinerInvStep
  <1> QED BY <1>1, <1>2, <1>3, PTL

------------------------------------------------------------------------------
(* The emission                                                            *)

PaidStep(n, txs, p, q) == n + txs[1].vout[1].amount

PaidFold == INSTANCE Inductions WITH Op <- PaidStep, Holds <- IsInt

LEMMA PaidFoldGrounded == PaidFold!Grounded
  BY NatHasLeast DEF PaidFold!Grounded

PaidOut(c) == FoldLeft(LAMBDA n, txs : n + txs[1].vout[1].amount, 0, c)

LEMMA PaidOutSteps ==
  /\ PaidOut(<<GenesisBlock>>) = EraReward[0]
  /\ \A c \in Seq(Block) : \A b \in Block : PaidOut(Append(c, b)) = PaidOut(c) + Subsidised(b)
  <1>1. ASSUME NEW c PROVE PaidOut(c) = PaidFold!Fold(0, c, 0, 0)
    BY DEF PaidOut, PaidFold!Fold, FoldLeft, MapThenFoldSet,
           PaidFold!MapThenFoldSet, Max, PaidFold!Greatest, PaidStep
  <1>2. ASSUME NEW c \in Seq(Block), NEW b \in Block
        PROVE  PaidOut(Append(c, b)) = PaidOut(c) + Subsidised(b)
    <2>1. PaidFold!Fold(0, Append(c, b), 0, 0) = PaidStep(PaidFold!Fold(0, c, 0, 0), b, 0, 0)
      BY PaidFold!FoldAppend, PaidFoldGrounded
    <2> QED BY <1>1, <2>1 DEF PaidStep, Subsidised
  <1>3. PaidOut(<< >>) = 0
    BY <1>1, PaidFold!FoldEmpty
  <1>4. << >> \in Seq(Block) /\ Append(<< >>, GenesisBlock) = <<GenesisBlock>>
    OBVIOUS
  <1>5. PaidOut(<<GenesisBlock>>) = 0 + EraReward[0]
    BY <1>2, <1>3, <1>4, GenesisType DEF Subsidised
  <1>6. EraReward[0] \in Nat
    BY ParameterAssumption DEF ParameterAssumption
  <1> QED BY <1>2, <1>5, <1>6

(* A reward computed below the cap leaves the supply at or below it, and   *)
(* is nothing only at the cap: the reserve, when its turn has come, never  *)
(* pays a fraction of the smallest amount.                                 *)
ReservePays ==
  \/ ReserveDivisor <= ReserveDust + 1
  \/ \A h \in 0 .. MaxHeight : h \div EraLength < LastEra

LEMMA DivPositive ==
  ASSUME NEW a \in Nat, NEW d \in Nat \ {0}, d <= a
  PROVE  a \div d >= 1
  OBVIOUS

LEMMA CappedSubsidy ==
  ASSUME ReservePays, NEW l, GoodLedger(l), l.supply <= MaxSupply,
         NEW h \in 0 .. MaxHeight, NEW size
  PROVE  /\ l.supply + Subsidy(h, l, size) <= MaxSupply
         /\ Subsidy(h, l, size) >= 0 /\ Subsidy(h, l, size) \in Int
         /\ Subsidy(h, l, size) = 0 => l.supply = MaxSupply
  <1> DEFINE era == h \div EraLength
             reserve == GetBalance(l.utxo, Reserve, size)
             paid == GetBlockReward(h, l, size)
  <1>1. h \in Nat /\ era \in Nat /\ l.supply \in Int /\ MaxSupply \in Nat /\ LastEra \in Nat
        /\ ReserveDust \in Nat /\ ReserveDivisor \in Nat \ {0}
    <2>1. h \in Nat
      BY ParameterAssumption DEF ParameterAssumption
    <2> QED BY <2>1, DivNat, ParameterAssumption DEF ParameterAssumption, GoodLedger
  <1>2. reserve \in Nat
    BY BalanceType DEF GoodLedger
  <1>3. paid \in Nat
    BY <1>1, RewardType
  <1>4. paid = 0 => l.supply = MaxSupply
    <2> SUFFICES ASSUME l.supply < MaxSupply PROVE paid >= 1
      BY <1>1, <1>3
    <2>1. CASE era >= LastEra
      <3>1. ReserveDivisor <= ReserveDust + 1
        BY <1>1, <2>1 DEF ReservePays
      <3>2. reserve > ReserveDust => reserve \div ReserveDivisor >= 1
        BY <1>1, <1>2, <3>1, DivPositive
      <3>3. paid = IF reserve > ReserveDust THEN reserve \div ReserveDivisor ELSE 1
        BY <2>1 DEF GetBlockReward
      <3> HIDE DEF paid, reserve
      <3> QED BY <3>2, <3>3
    <2>2. CASE era < LastEra
      <3>1. EraReward[era] \in Nat
        BY <1>1, <2>2, ParameterAssumption DEF ParameterAssumption
      <3>2. ~(MaxSupply - l.supply <= 0 \/ era >= LastEra)
        BY <1>1, <2>2
      <3> HIDE DEF era
      <3>3. paid >= 1
        BY <1>1, <3>1, <3>2 DEF GetBlockReward, era
      <3> QED BY <3>3
    <2> HIDE DEF era
    <2> QED BY <1>1, <2>1, <2>2
  <1>5. Subsidy(h, l, size) = IF l.supply + paid > MaxSupply THEN MaxSupply - l.supply ELSE paid
    BY DEF Subsidy, Capped
  <1> HIDE DEF paid
  <1> QED BY <1>1, <1>3, <1>4, <1>5

UnpaidIn(c) == \E i \in DOMAIN c : Subsidised(c[i]) = 0

EmissionInv ==
  /\ ledger.supply \in 0 .. MaxSupply
  /\ mpc \in {"commit", "book"} =>
       /\ draft.subsidy \in 0 .. MaxSupply - ledger.supply
       /\ draft.subsidy = 0 => ledger.supply = MaxSupply
  /\ lock = "free" => ledger.supply = PaidOut(chain)
  /\ lock = "miner" => ledger.supply + draft.subsidy = PaidOut(chain)
  /\ lock = "startup" => ledger.supply = IF cursor = 1 THEN 0 ELSE EraReward[0]
  /\ UnpaidIn(chain) => ledger.supply = MaxSupply

LEMMA EmissionInit ==
  ASSUME PayInit
  PROVE  EmissionInv
  <1>1. chain = <<GenesisBlock>> /\ ledger = EmptyLedger /\ lock = "startup" /\ mpc = "idle"
        /\ cursor = 1
    BY DEF PayInit, Init
  <1>2. Subsidised(GenesisBlock) # 0 /\ MaxSupply \in Nat
    BY GenesisType, ParameterAssumption DEF Subsidised, ParameterAssumption
  <1>3. ~UnpaidIn(chain)
    BY <1>1, <1>2 DEF UnpaidIn
  <1> QED BY <1>1, <1>2, <1>3, EmptyLedgerType DEF EmissionInv

LEMMA EmissionStep ==
  ASSUME ReservePays, MinerInv, EmissionInv, [MinerNext]_allVars
  PROVE  EmissionInv'
  <1>0. /\ chain \in Seq(Block) /\ Len(chain) \in 1 .. MaxHeight + 1
        /\ MaxHeight \in Nat /\ MaxSupply \in Nat /\ GoodLedger(ledger) /\ ledger.supply \in Int
    BY ParameterAssumption DEF MinerInv, MinerLedger, ParameterAssumption, GoodLedger
  <1>1. CASE ReadHeight
    BY <1>1 DEF ReadHeight, network, EmissionInv
  <1>2. CASE Assemble(Assembled)
    <2>1. nextIndex \in 0 .. MaxHeight /\ lock # "miner" /\ lock' = lock /\ chain' = chain
          /\ ledger' = ledger /\ cursor' = cursor
      BY <1>0, <1>2 DEF Assemble, MinerInv, MinerDraft, MinerLocks
    <2> DEFINE subsidy == Subsidy(nextIndex, ledger, Len(chain))
    <2>2. draft'.subsidy = subsidy /\ mpc' = "commit"
      BY <1>2 DEF Assemble
    <2>3. /\ ledger.supply + subsidy <= MaxSupply /\ subsidy >= 0 /\ subsidy \in Int
          /\ subsidy = 0 => ledger.supply = MaxSupply
      BY <1>0, <2>1, CappedSubsidy DEF EmissionInv
    <2> HIDE DEF subsidy
    <2> QED BY <1>0, <2>1, <2>2, <2>3 DEF EmissionInv
  <1>3. CASE Discard
    <2>1. lock # "miner"
      BY <1>3 DEF Discard, MinerInv, MinerLocks
    <2> QED BY <1>3, <2>1 DEF Discard, EndMining, network, EmissionInv
  <1>4. CASE Commit
    <2>1. draft.txs \in Block /\ Subsidised(draft.txs) = draft.subsidy /\ draft.subsidy \in Int
      BY <1>4 DEF Commit, MinerInv, MinerDraft
    <2>2. chain' = Append(chain, draft.txs) /\ draft' = draft /\ ledger' = ledger
          /\ lock = "free" /\ lock' = "miner" /\ mpc' = "book" /\ mpc = "commit"
      BY <1>4 DEF Commit
    <2>3. PaidOut(chain') = PaidOut(chain) + draft.subsidy
      BY <1>0, <2>1, <2>2, PaidOutSteps
    <2>4. UnpaidIn(chain') => UnpaidIn(chain) \/ draft.subsidy = 0
      <3>1. \A i \in DOMAIN chain' : (i \in DOMAIN chain /\ chain'[i] = chain[i])
                                     \/ chain'[i] = draft.txs
        BY <1>0, <2>1, <2>2
      <3> QED BY <2>1, <3>1 DEF UnpaidIn
    <2> QED BY <2>2, <2>3, <2>4 DEF EmissionInv
  <1>5. CASE BookOwn
    <2>1. draft.txs \in Body /\ nextIndex \in Nat /\ draft.subsidy \in Int /\ lock = "miner"
      BY <1>5 DEF BookOwn, MinerInv, MinerDraft, MinerLocks, Block, Body
    <2> DEFINE m == [ledger EXCEPT !.supply = @ + draft.subsidy]
    <2>2. GoodLedger(m) /\ m.supply = ledger.supply + draft.subsidy
      BY <1>0, <2>1, SMTT(20) DEF GoodLedger
    <2>3. ledger' = Book(m, draft.txs, nextIndex)
      BY <1>5 DEF BookOwn
    <2> HIDE DEF m
    <2>4. ledger'.supply = ledger.supply + draft.subsidy
      BY <2>1, <2>2, <2>3, BookType
    <2>5. chain' = chain /\ lock' = "free" /\ mpc' = "idle" /\ mpc = "book"
      BY <1>5 DEF BookOwn, EndMining
    <2> QED BY <1>0, <2>1, <2>4, <2>5 DEF EmissionInv
  <1>6. CASE RebuildNext
    <2>1. lock = "startup" /\ cursor = 1 /\ chain = <<GenesisBlock>> /\ Len(chain) = 1
      BY <1>6, StartupBooks DEF MinerInv
    <2>2. ledger.supply = 0 /\ ledger = EmptyLedger /\ mpc = "idle"
      BY <2>1, ReplaySteps DEF MinerInv, MinerLocks, EmissionInv
    <2>3. Subsidy(0, ledger, 1) = EraReward[0]
      <3>1. EraReward[0] \in 1 .. MaxSupply /\ LastEra \in Nat \ {0} /\ EraLength \in Nat \ {0}
        BY ParameterAssumption DEF ParameterAssumption
      <3>2. 0 \div EraLength = 0
        BY <3>1
      <3>3. GetBlockReward(0, ledger, 1) = EraReward[0]
        BY <1>0, <2>2, <3>1, <3>2 DEF GetBlockReward
      <3> QED BY <1>0, <2>2, <3>1, <3>3 DEF Subsidy, Capped
    <2>4. EraReward[0] \in 1 .. MaxSupply
      BY ParameterAssumption DEF ParameterAssumption
    <2> DEFINE m == [ledger EXCEPT !.supply = @ + EraReward[0]]
    <2>5. GoodLedger(m) /\ m.supply = EraReward[0]
      BY <1>0, <2>2, <2>4 DEF GoodLedger
    <2>6. ledger' = Book(m, chain[1], 0)
      <3>1. FloorAtZero(Subsidy(1 - 1, ledger, Len(chain))) = EraReward[0]
        BY <2>1, <2>3, <2>4 DEF FloorAtZero
      <3> QED BY <1>6, <2>1, <3>1 DEF RebuildNext, RebuildBlock
    <2> HIDE DEF m
    <2>7. ledger'.supply = EraReward[0]
      <3>1. chain[1] \in Body
        BY <1>0, <2>1 DEF Block, Body
      <3> QED BY <2>5, <2>6, <3>1, BookType
    <2>8. chain' = chain /\ lock' = lock /\ mpc' = mpc /\ cursor' = 2
      BY <1>6, <2>1 DEF RebuildNext, miner
    <2>9. ~UnpaidIn(chain)
      <3>1. Subsidised(GenesisBlock) # 0
        BY <2>4, GenesisType DEF Subsidised
      <3> QED BY <2>1, <3>1 DEF UnpaidIn
    <2> QED BY <1>0, <2>1, <2>2, <2>4, <2>7, <2>8, <2>9 DEF EmissionInv, UnpaidIn
  <1>7. CASE RebuildDone
    <2>1. lock = "startup" /\ cursor = 2 /\ chain = <<GenesisBlock>> /\ mpc = "idle"
      <3>1. cursor > Len(chain)
        BY <1>7 DEF RebuildDone
      <3>2. cursor # 0 /\ cursor # 1
        BY <1>0, <3>1
      <3> QED BY <3>2 DEF MinerInv, MinerLocks
    <2>2. ledger.supply = EraReward[0]
      BY <2>1 DEF EmissionInv
    <2> QED BY <1>7, <2>1, <2>2, PaidOutSteps DEF RebuildDone, miner, EmissionInv, UnpaidIn
  <1>8. CASE UNCHANGED vars
    BY <1>8 DEF vars, miner, network, EmissionInv, UnpaidIn
  <1> QED BY <1>1, <1>2, <1>3, <1>4, <1>5, <1>6, <1>7, <1>8, MinerSteps DEF MinerStep

(* A node that mines alone keeps the cap, has paid out in the coinbases of *)
(* its chain exactly what it counts as its supply, and leaves a block      *)
(* without a subsidy only when the cap is reached.                         *)
THEOREM MinerEmissionIsSound ==
  ASSUME ReservePays
  PROVE  PayMiner => []EmissionIsSound
  <1>1. PayMiner => PayInit /\ [][MinerNext]_allVars
    BY DEF PayMiner, MinerNext
  <1>2. PayInit => EmissionInv
    BY EmissionInit
  <1>3. MinerInv /\ EmissionInv /\ [MinerNext]_allVars => EmissionInv'
    BY EmissionStep
  <1>4. EmissionInv => EmissionIsSound
    <2> SUFFICES ASSUME EmissionInv PROVE EmissionIsSound
      OBVIOUS
    <2>1. MaxSupply \in Nat
      BY ParameterAssumption DEF ParameterAssumption
    <2>2. SupplyCapped
      BY <2>1 DEF EmissionInv, SupplyCapped
    <2>3. SupplyIsPaid
      BY DEF EmissionInv, SupplyIsPaid, PaidOut
    <2>4. UnpaidOnlyAtCap
      BY DEF EmissionInv, UnpaidOnlyAtCap, UnpaidIn, Subsidised
    <2> QED BY <2>2, <2>3, <2>4 DEF EmissionIsSound
  <1> QED BY <1>1, <1>2, <1>3, <1>4, MinerInvariance, PTL

------------------------------------------------------------------------------
(* What waits, and what a block took                                       *)

TransferId(r) == <<r.from, r.to, r.amount, r.time>>

(* The ids of the requests and of what is relayed are hashes over what     *)
(* makes them different.                                                   *)
DistinctIds ==
  /\ \A tx, ty \in Relayed : tx.id = ty.id => tx = ty
  /\ \A tx \in Relayed : \A r \in Requests : tx.id # TransferId(r)

AskedIds(as) ==
  {TransferId(r) : r \in as \cap Requests} \cup {tx.id : tx \in as \cap Relayed}

IdIn(id, c) == \E i \in DOMAIN c : \E j \in DOMAIN c[i] : c[i][j].id = id

(* A block is its coinbase and the oldest of what waits.                   *)
TookOldest(txs, h) ==
  /\ txs[1].id = <<"coinbase", h>>
  /\ Len(txs) - 1 <= Len(mempool)
  /\ \A j \in 1 .. Len(txs) - 1 : txs[j + 1] = mempool[j].tx

ServedOnce ==
  \A s \in Senders : spc[s] # "idle" =>
    /\ request[s] \in asked \cap Requests
    /\ ~IdIn(TransferId(request[s]), chain)
    /\ \A i \in DOMAIN mempool : mempool[i].tx.id # TransferId(request[s])
    /\ \A t \in Senders \ {s} : spc[t] # "idle" => request[t] # request[s]

WaitsOnce ==
  /\ \A i \in DOMAIN mempool : mempool[i].tx.id \in AskedIds(asked)
  /\ \A i, j \in DOMAIN mempool : mempool[i].tx.id = mempool[j].tx.id => i = j
  /\ lock # "miner" => \A i \in DOMAIN mempool : ~IdIn(mempool[i].tx.id, chain)

BookedOnce ==
  \A i \in DOMAIN chain : \A j \in DOMAIN chain[i] :
    /\ \/ chain[i][j].id = <<"coinbase", i - 1>> /\ j = 1
       \/ chain[i][j].id \in AskedIds(asked)
    /\ \A k \in DOMAIN chain : \A m \in DOMAIN chain[k] :
         chain[i][j].id = chain[k][m].id => i = k /\ j = m

TookInv == mpc \in {"commit", "book"} => TookOldest(draft.txs, nextIndex)

OnceInv == ServedOnce /\ WaitsOnce /\ BookedOnce

LEMMA TookInvStep ==
  ASSUME MinerInv, TookInv, [MinerNext]_allVars
  PROVE  TookInv'
  <1>0. mempool \in Seq(Entry)
    BY DEF MinerInv, PayInv
  <1>1. ASSUME NEW tx \in Transfer, mempool' = Append(mempool, Saved(tx)), UNCHANGED vars
        PROVE  TookInv'
    <2> SUFFICES ASSUME mpc \in {"commit", "book"} PROVE TookOldest(draft.txs, nextIndex)'
      BY <1>1 DEF TookInv, vars, miner
    <2>1. Len(draft.txs) \in Nat
      BY DEF MinerInv, MinerDraft, Block
    <2>2. /\ Len(mempool) \in Nat /\ Len(mempool') = Len(mempool) + 1
          /\ \A i \in 1 .. Len(mempool) : mempool'[i] = mempool[i]
      BY <1>0, <1>1
    <2> QED BY <1>1, <2>1, <2>2 DEF TookInv, TookOldest, vars, miner
  <1>2. CASE Send
    <2>1. PICK s \in Senders : ReadBalance(s) \/ Audit(s) \/ AppendTx(s)
      BY <1>2 DEF Send
    <2>2. CASE ReadBalance(s) \/ Audit(s)
      BY <2>2 DEF ReadBalance, Audit, vars, miner, TookInv, TookOldest
    <2>3. CASE AppendTx(s)
      <3>1. spc[s] # "idle" /\ mempool' = Append(mempool, Saved(TransferOf(request[s], needed[s])))
            /\ UNCHANGED vars
        BY <2>3 DEF AppendTx
      <3>2. TransferOf(request[s], needed[s]) \in Transfer
        BY <3>1, TransferOfType DEF MinerInv, PayInv
      <3> QED BY <1>1, <3>1, <3>2
    <2> QED BY <2>1, <2>2, <2>3
  <1>3. CASE RelayTx
    <2>1. PICK tx \in Relayed : mempool' = Append(mempool, Saved(tx)) /\ UNCHANGED vars
      BY <1>3 DEF RelayTx
    <2> QED BY <1>1, <2>1, PaymentsAssumption DEF PaymentsAssumption
  <1>4. CASE AssembleFromMempool
    <2>1. /\ Assemble(Assembled) /\ mempool' = mempool
          /\ nextIndex' = nextIndex /\ mpc' = "commit"
      BY <1>0, <1>4, PurgeKeepsAll DEF AssembleFromMempool, Assemble
    <2> DEFINE subsidy == Subsidy(nextIndex, ledger, Len(chain))
               b == BlockOf(nextIndex, Miner, subsidy, Assembled)
    <2>2. /\ nextIndex \in 0 .. MaxHeight + 1 /\ subsidy \in Int /\ Miner \in Address
          /\ Assembled \in Body
      BY <1>0, <2>1, RewardType, AssembledIsPrefix, ParameterAssumption
      DEF Assemble, MinerInv, MinerDraft, MinerLedger, Address, ParameterAssumption
    <2>3. draft'.txs = b
      BY <2>1 DEF Assemble
    <2>4. /\ b[1].id = <<"coinbase", nextIndex>> /\ Len(b) = Len(Assembled) + 1
          /\ \A i \in 1 .. Len(Assembled) : b[i + 1] = Assembled[i]
      <3> HIDE DEF subsidy
      <3> QED BY <2>2, BlockType
    <2> HIDE DEF b
    <2>5. /\ Len(Assembled) <= Len(mempool) /\ Len(Assembled) \in Nat
          /\ \A i \in 1 .. Len(Assembled) : Assembled[i] = mempool[i].tx
      BY <1>0, AssembledIsPrefix, ParameterAssumption DEF ParameterAssumption, Body
    <2>6. draft'.txs[1].id = <<"coinbase", nextIndex'>> /\ Len(draft'.txs) - 1 <= Len(mempool')
      BY <2>1, <2>3, <2>4, <2>5
    <2>7. \A i \in 1 .. Len(draft'.txs) - 1 : draft'.txs[i + 1] = mempool'[i].tx
      BY <2>1, <2>3, <2>4, <2>5
    <2> QED BY <2>6, <2>7 DEF TookInv, TookOldest
  <1>5. CASE BookAndClear
    BY <1>5 DEF BookAndClear, BookOwn, EndMining, TookInv
  <1>6. CASE (ReadHeight \/ Discard \/ Commit) /\ UNCHANGED <<mempool, Rest>>
    BY <1>6 DEF ReadHeight, Discard, EndMining, Commit, TookInv, TookOldest
  <1>7. CASE RebuildLedger \/ UNCHANGED allVars
    BY <1>7 DEF RebuildLedger, RebuildNext, RebuildDone, allVars, vars, miner, TookInv, TookOldest
  <1> QED BY <1>2, <1>3, <1>4, <1>5, <1>6, <1>7 DEF MinerNext, MineWithMempool

LEMMA TookInvariance == PayMiner => []TookInv
  <1>1. PayMiner => PayInit /\ [][MinerNext]_allVars
    BY DEF PayMiner, MinerNext
  <1>2. PayInit => TookInv
    BY DEF PayInit, Init, TookInv
  <1>3. MinerInv /\ TookInv /\ [MinerNext]_allVars => TookInv'
    BY TookInvStep
  <1> QED BY <1>1, <1>2, <1>3, MinerInvariance, PTL

(* On a node that mines alone, what waits stays or goes into a block, and  *)
(* what the purge after a block takes with it lies behind all that the     *)
(* block took: the oldest goes first.                                      *)
THEOREM OldestIsTakenFirst == PayMiner => TakenOldestFirst
  <1>1. MinerInv /\ TookInv /\ [MinerNext]_allVars =>
          \A i \in DOMAIN mempool :
            LET e == mempool[i] IN
              \/ \E j \in DOMAIN mempool' : mempool'[j] = e
              \/ InChain(e.tx, chain')
              \/ mpc = "book" /\ i >= Len(draft.txs)
    <2> SUFFICES ASSUME MinerInv, TookInv, [MinerNext]_allVars, NEW i \in DOMAIN mempool
                 PROVE  \/ \E j \in DOMAIN mempool' : mempool'[j] = mempool[i]
                        \/ InChain(mempool[i].tx, chain')
                        \/ mpc = "book" /\ i >= Len(draft.txs)
      OBVIOUS
    <2>0. mempool \in Seq(Entry) /\ DOMAIN mempool = 1 .. Len(mempool)
      BY DEF MinerInv, PayInv
    <2>1. CASE BookAndClear
      <3> SUFFICES ASSUME i < Len(draft.txs) PROVE InChain(mempool[i].tx, chain')
        <4>1. mpc = "book" /\ Len(draft.txs) \in Nat
          BY <2>1 DEF BookAndClear, BookOwn, MinerInv, MinerDraft, Block
        <4> QED BY <2>0, <4>1
      <3>1. /\ chain' = chain /\ chain[Len(chain)] = draft.txs /\ TookOldest(draft.txs, nextIndex)
            /\ draft.txs \in Block
        BY <2>1 DEF BookAndClear, BookOwn, MinerInv, MinerDraft, TookInv
      <3>2. Len(chain) \in DOMAIN chain
        BY DEF MinerInv, MinerLedger
      <3>3. i + 1 \in DOMAIN draft.txs /\ draft.txs[i + 1] = mempool[i].tx
        BY <2>0, <3>1 DEF TookOldest, Block
      <3> QED BY <3>1, <3>2, <3>3 DEF InChain
    <2>2. CASE mempool' = mempool
      BY <2>2
    <2>3. ASSUME NEW tx, mempool' = Append(mempool, Saved(tx)), tx \in Transfer
          PROVE  i \in DOMAIN mempool' /\ mempool'[i] = mempool[i]
      <3>1. Saved(tx) \in Entry
        BY <2>3, PaymentsAssumption DEF MinerInv, PayInv, Saved, Entry, PaymentsAssumption
      <3> QED BY <2>0, <2>3, <3>1
    <2>4. CASE RelayTx
      <3>1. PICK tx \in Relayed : mempool' = Append(mempool, Saved(tx))
        BY <2>4 DEF RelayTx
      <3> QED BY <2>3, <3>1, PaymentsAssumption DEF PaymentsAssumption
    <2>5. CASE Send
      <3>1. PICK s \in Senders : ReadBalance(s) \/ Audit(s) \/ AppendTx(s)
        BY <2>5 DEF Send
      <3>2. CASE AppendTx(s)
        <4>1. TransferOf(request[s], needed[s]) \in Transfer
          BY <3>2, TransferOfType DEF AppendTx, MinerInv, PayInv
        <4> QED BY <2>3, <3>2, <4>1 DEF AppendTx
      <3> QED BY <2>2, <3>1, <3>2 DEF ReadBalance, Audit
    <2>6. CASE AssembleFromMempool
      BY <2>0, <2>2, <2>6, PurgeKeepsAll DEF AssembleFromMempool
    <2>7. CASE \/ (ReadHeight \/ Discard \/ Commit) /\ UNCHANGED <<mempool, Rest>>
               \/ RebuildLedger \/ UNCHANGED allVars
      BY <2>2, <2>7 DEF RebuildLedger, allVars
    <2> QED BY <2>1, <2>4, <2>5, <2>6, <2>7 DEF MinerNext, MineWithMempool
  <1>2. MinerInv /\ TookInv /\ [MinerNext]_allVars =>
          [\A i \in DOMAIN mempool :
             LET e == mempool[i] IN
               \/ \E j \in DOMAIN mempool' : mempool'[j] = e
               \/ InChain(e.tx, chain')
               \/ mpc = "book" /\ i >= Len(draft.txs)]_allVars
    BY <1>1
  <1>3. PayMiner => [][MinerNext]_allVars
    BY DEF PayMiner, MinerNext
  <1> QED BY <1>2, <1>3, MinerInvariance, TookInvariance, PTL DEF TakenOldestFirst

LEMMA TransferIdsDiffer ==
  /\ \A id \in TransferIds : \A h : id # <<"coinbase", h>>
  /\ \A r, q \in Requests : TransferId(r) = TransferId(q) => r = q
  /\ \A r \in Requests : \A tx \in Relayed : r # tx
  /\ \A as : AskedIds(as) \subseteq TransferIds
  <1>0. Requests \subseteq [from : Address, to : Address, amount : Nat, time : Nat]
        /\ Relayed \subseteq Transfer
    BY PaymentsAssumption DEF PaymentsAssumption
  <1>1. \A id \in TransferIds : \A h : id # <<"coinbase", h>>
    <2> SUFFICES ASSUME NEW a \in Address, NEW b \in Address, NEW m \in Nat, NEW t \in Nat, NEW h,
                        <<a, b, m, t>> = <<"coinbase", h>>
                 PROVE  FALSE
      BY DEF TransferIds
    <2>1. Len(<<a, b, m, t>>) = 4 /\ Len(<<"coinbase", h>>) = 2
      OBVIOUS
    <2> QED BY <2>1
  <1>2. \A r, q \in Requests : TransferId(r) = TransferId(q) => r = q
    BY <1>0 DEF TransferId
  <1>3. \A r \in Requests : \A tx \in Relayed : r # tx
    <2> SUFFICES ASSUME NEW r \in [from : Address, to : Address, amount : Nat, time : Nat],
                        r \in Transfer
                 PROVE  FALSE
      BY <1>0
    <2>1. "from" \in DOMAIN r
      OBVIOUS
    <2>2. "from" \notin DOMAIN r
      BY DEF Transfer
    <2> QED BY <2>1, <2>2
  <1>4. \A as : AskedIds(as) \subseteq TransferIds
    <2>1. \A r \in Requests : TransferId(r) \in TransferIds
      BY <1>0 DEF TransferId, TransferIds
    <2>2. \A tx \in Relayed : tx.id \in TransferIds
      BY <1>0 DEF Transfer
    <2> QED BY <2>1, <2>2 DEF AskedIds
  <1> QED BY <1>1, <1>2, <1>3, <1>4

(* What is new has an id of its own.                                       *)
LEMMA NewIds ==
  ASSUME DistinctIds
  PROVE  /\ \A r \in Requests \ asked :
              /\ TransferId(r) \notin AskedIds(asked)
              /\ AskedIds(asked \cup {r}) = AskedIds(asked) \cup {TransferId(r)}
         /\ \A tx \in Relayed \ asked :
              /\ tx.id \notin AskedIds(asked)
              /\ AskedIds(asked \cup {tx}) = AskedIds(asked) \cup {tx.id}
  <1>1. ASSUME NEW r \in Requests \ asked
        PROVE  /\ TransferId(r) \notin AskedIds(asked)
               /\ AskedIds(asked \cup {r}) = AskedIds(asked) \cup {TransferId(r)}
    BY <1>1, TransferIdsDiffer DEF AskedIds, DistinctIds
  <1>2. ASSUME NEW tx \in Relayed \ asked
        PROVE  /\ tx.id \notin AskedIds(asked)
               /\ AskedIds(asked \cup {tx}) = AskedIds(asked) \cup {tx.id}
    BY <1>2, TransferIdsDiffer DEF AskedIds, DistinctIds
  <1> QED BY <1>1, <1>2

LEMMA UnaskedIsNotBooked ==
  ASSUME BookedOnce, NEW id \in TransferIds, id \notin AskedIds(asked)
  PROVE  ~IdIn(id, chain)
  <1> SUFFICES ASSUME NEW i \in DOMAIN chain, NEW j \in DOMAIN chain[i], chain[i][j].id = id
               PROVE  FALSE
    BY DEF IdIn
  <1>1. chain[i][j].id = <<"coinbase", i - 1>> \/ chain[i][j].id \in AskedIds(asked)
    BY DEF BookedOnce
  <1>2. id # <<"coinbase", i - 1>>
    BY TransferIdsDiffer
  <1> QED BY <1>1, <1>2

LEMMA OnceInit ==
  ASSUME PayInit
  PROVE  OnceInv
  <1>1. chain = <<GenesisBlock>> /\ mempool = << >> /\ mpc = "idle"
        /\ \A s \in Senders : spc[s] = "idle"
    BY DEF PayInit, Init
  <1>2. /\ DOMAIN chain = {1} /\ DOMAIN chain[1] = {1} /\ chain[1][1].id = <<"coinbase", 0>>
    BY <1>1, GenesisType DEF GenesisBlock
  <1>3. BookedOnce
    BY <1>2 DEF BookedOnce
  <1> QED BY <1>1, <1>3 DEF OnceInv, ServedOnce, WaitsOnce

LEMMA OnceCommit ==
  ASSUME MinerInv, TookInv, OnceInv, Commit, UNCHANGED <<mempool, Rest>>
  PROVE  OnceInv'
  <1> DEFINE txs == draft.txs
             n   == Len(chain) + 1
  <1>0. /\ chain \in Seq(Block) /\ Len(chain) \in 1 .. MaxHeight + 1 /\ mempool \in Seq(Entry)
        /\ MaxHeight \in Nat
    BY ParameterAssumption DEF MinerInv, MinerLedger, ParameterAssumption, PayInv
  <1>1. /\ txs \in Block /\ mpc = "commit" /\ mpc' = "book" /\ lock = "free" /\ lock' = "miner"
        /\ nextIndex = Len(chain) /\ nextIndex' = nextIndex /\ draft' = draft
        /\ chain' = Append(chain, txs) /\ mempool' = mempool /\ asked' = asked
        /\ spc' = spc /\ request' = request
    BY DEF Commit, MinerInv, MinerDraft, Rest, sending
  <1>2. /\ txs[1].id = <<"coinbase", Len(chain)>> /\ Len(txs) - 1 <= Len(mempool)
        /\ \A j \in 1 .. Len(txs) - 1 : txs[j + 1] = mempool[j].tx
    BY <1>1 DEF TookInv, TookOldest
  <1> HIDE DEF txs
  <1>3. /\ DOMAIN txs = 1 .. Len(txs) /\ Len(txs) \in Nat /\ Len(txs) > 0
        /\ DOMAIN mempool = 1 .. Len(mempool) /\ Len(mempool) \in Nat
    BY <1>0, <1>1 DEF Block
  <1>4. \A j \in DOMAIN txs : j # 1 => /\ j - 1 \in DOMAIN mempool
                                       /\ txs[j].id = mempool[j - 1].tx.id
    <2> SUFFICES ASSUME NEW j \in DOMAIN txs, j # 1
                 PROVE  j - 1 \in DOMAIN mempool /\ txs[j].id = mempool[j - 1].tx.id
      OBVIOUS
    <2>1. j - 1 \in 1 .. Len(txs) - 1 /\ j - 1 + 1 = j
      BY <1>3
    <2> QED BY <1>2, <1>3, <2>1
  <1>5. \A i \in DOMAIN mempool : /\ mempool[i].tx.id \in AskedIds(asked)
                                  /\ mempool[i].tx.id \in TransferIds
                                  /\ ~IdIn(mempool[i].tx.id, chain)
                                  /\ \A k \in DOMAIN mempool :
                                       mempool[i].tx.id = mempool[k].tx.id => i = k
    BY <1>1, TransferIdsDiffer DEF OnceInv, WaitsOnce
  <1>6. /\ DOMAIN chain' = 1 .. n /\ chain'[n] = txs /\ DOMAIN chain = 1 .. n - 1
        /\ \A i \in 1 .. n - 1 : chain'[i] = chain[i]
    BY <1>0, <1>1
  <1>7. \A i \in DOMAIN chain : \A j \in DOMAIN chain[i] :
          \A m \in DOMAIN txs : chain[i][j].id # txs[m].id
    <2> SUFFICES ASSUME NEW i \in DOMAIN chain, NEW j \in DOMAIN chain[i], NEW m \in DOMAIN txs
                 PROVE  chain[i][j].id # txs[m].id
      OBVIOUS
    <2>1. CASE m = 1
      <3>1. chain[i][j].id = <<"coinbase", i - 1>> \/ chain[i][j].id \in TransferIds
        BY TransferIdsDiffer DEF OnceInv, BookedOnce
      <3>2. i - 1 # Len(chain)
        BY <1>0, <1>6
      <3>3. <<"coinbase", i - 1>> # <<"coinbase", Len(chain)>>
        BY <3>2
      <3> QED BY <1>2, <2>1, <3>1, <3>3, TransferIdsDiffer
    <2>2. CASE m # 1
      BY <1>4, <1>5, <2>2 DEF IdIn
    <2> QED BY <2>1, <2>2
  <1>8. \A j, m \in DOMAIN txs : txs[j].id = txs[m].id => j = m
    <2> SUFFICES ASSUME NEW j \in DOMAIN txs, NEW m \in DOMAIN txs, txs[j].id = txs[m].id
                 PROVE  j = m
      OBVIOUS
    <2>1. CASE j # 1 /\ m # 1
      <3>1. j - 1 = m - 1
        BY <1>4, <1>5, <2>1
      <3> QED BY <1>3, <3>1
    <2>2. CASE j = 1 \/ m = 1
      <3>1. \A k \in DOMAIN txs : k # 1 => txs[k].id # txs[1].id
        <4> SUFFICES ASSUME NEW k \in DOMAIN txs, k # 1 PROVE txs[k].id # txs[1].id
          OBVIOUS
        <4>1. txs[k].id \in TransferIds
          BY <1>4, <1>5
        <4> QED BY <1>2, <4>1, TransferIdsDiffer
      <3> QED BY <2>2, <3>1
    <2> QED BY <2>1, <2>2
  <1>9. BookedOnce'
    <2>1. ASSUME NEW i \in DOMAIN chain', NEW j \in DOMAIN chain'[i]
          PROVE  \/ chain'[i][j].id = <<"coinbase", i - 1>> /\ j = 1
                 \/ chain'[i][j].id \in AskedIds(asked)
      <3>1. CASE i \in DOMAIN chain
        BY <1>6, <3>1 DEF OnceInv, BookedOnce
      <3>2. CASE i = n
        <4>1. n - 1 = Len(chain)
          BY <1>0
        <4> QED BY <1>2, <1>4, <1>5, <1>6, <3>2, <4>1
      <3> QED BY <1>0, <1>6, <3>1, <3>2
    <2>2. ASSUME NEW i \in DOMAIN chain', NEW j \in DOMAIN chain'[i],
                 NEW k \in DOMAIN chain', NEW m \in DOMAIN chain'[k],
                 chain'[i][j].id = chain'[k][m].id
          PROVE  i = k /\ j = m
      <3>1. (i \in DOMAIN chain \/ i = n) /\ (k \in DOMAIN chain \/ k = n)
        BY <1>0, <1>6
      <3>2. CASE i \in DOMAIN chain /\ k \in DOMAIN chain
        BY <1>6, <2>2, <3>2 DEF OnceInv, BookedOnce
      <3>3. CASE i = n /\ k = n
        BY <1>6, <1>8, <2>2, <3>3
      <3>4. CASE i = n /\ k \in DOMAIN chain
        BY <1>6, <1>7, <2>2, <3>4
      <3>5. CASE i \in DOMAIN chain /\ k = n
        BY <1>6, <1>7, <2>2, <3>5
      <3> QED BY <3>1, <3>2, <3>3, <3>4, <3>5
    <2>3. asked' = asked
      BY <1>1
    <2> QED BY <2>1, <2>2, <2>3 DEF BookedOnce
  <1>10. ServedOnce'
    <2> SUFFICES ASSUME NEW s \in Senders, spc[s] # "idle",
                        IdIn(TransferId(request[s]), chain')
                 PROVE  FALSE
      BY <1>1 DEF OnceInv, ServedOnce
    <2>0. PICK i \in DOMAIN chain' : \E j \in DOMAIN chain'[i] :
            chain'[i][j].id = TransferId(request[s])
      BY DEF IdIn
    <2>1. PICK j \in DOMAIN chain'[i] : chain'[i][j].id = TransferId(request[s])
      BY <2>0
    <2>2. i = n
      <3>1. i \notin DOMAIN chain
        BY <1>6, <2>1 DEF OnceInv, ServedOnce, IdIn
      <3> QED BY <1>0, <1>6, <3>1
    <2>3. TransferId(request[s]) \in AskedIds(asked)
      BY DEF OnceInv, ServedOnce, AskedIds
    <2>4. j = 1
      <3>1. j \in DOMAIN txs /\ txs[j].id = TransferId(request[s])
        BY <1>6, <2>1, <2>2
      <3>2. \A k \in DOMAIN mempool : mempool[k].tx.id # TransferId(request[s])
        BY DEF OnceInv, ServedOnce
      <3> QED BY <1>4, <3>1, <3>2
    <2>5. TransferId(request[s]) = <<"coinbase", Len(chain)>>
      BY <1>2, <1>6, <2>1, <2>2, <2>4
    <2>6. TransferId(request[s]) \in TransferIds
      BY <2>3, TransferIdsDiffer
    <2> QED BY <2>5, <2>6, TransferIdsDiffer
  <1>11. WaitsOnce'
    BY <1>1 DEF OnceInv, WaitsOnce
  <1> QED BY <1>1, <1>9, <1>10, <1>11 DEF OnceInv

LEMMA OnceAppend ==
  ASSUME MinerInv, OnceInv, NEW tx \in Transfer, mempool' = Append(mempool, Saved(tx)),
         tx.id \in AskedIds(asked'), AskedIds(asked) \subseteq AskedIds(asked'),
         ~IdIn(tx.id, chain), \A i \in DOMAIN mempool : mempool[i].tx.id # tx.id,
         UNCHANGED vars
  PROVE  WaitsOnce' /\ BookedOnce'
  <1>1. mempool \in Seq(Entry) /\ Saved(tx).tx = tx
    BY DEF MinerInv, PayInv, Saved
  <1>2. /\ DOMAIN mempool' = 1 .. Len(mempool) + 1 /\ mempool'[Len(mempool) + 1].tx = tx
        /\ DOMAIN mempool = 1 .. Len(mempool) /\ Len(mempool) \in Nat
        /\ Len(mempool') = Len(mempool) + 1
        /\ \A i \in 1 .. Len(mempool) : mempool'[i] = mempool[i]
    BY <1>1
  <1>3. \A i \in DOMAIN mempool' : i \in DOMAIN mempool \/ i = Len(mempool) + 1
    BY <1>2
  <1>4. chain' = chain /\ lock' = lock /\ mpc' = mpc /\ draft' = draft /\ nextIndex' = nextIndex
    BY DEF vars, miner
  <1>5. WaitsOnce'
    <2>1. \A i \in DOMAIN mempool' : mempool'[i].tx.id \in AskedIds(asked')
      BY <1>2, <1>3 DEF OnceInv, WaitsOnce
    <2>2. \A i, j \in DOMAIN mempool' : mempool'[i].tx.id = mempool'[j].tx.id => i = j
      BY <1>2, <1>3 DEF OnceInv, WaitsOnce
    <2>3. lock' # "miner" => \A i \in DOMAIN mempool' : ~IdIn(mempool'[i].tx.id, chain')
      BY <1>2, <1>3, <1>4 DEF OnceInv, WaitsOnce
    <2> QED BY <2>1, <2>2, <2>3 DEF WaitsOnce
  <1>6. BookedOnce'
    BY <1>4 DEF OnceInv, BookedOnce
  <1> QED BY <1>5, <1>6

LEMMA OnceInvStep ==
  ASSUME DistinctIds, MinerInv, TookInv, OnceInv, [MinerNext]_allVars
  PROVE  OnceInv'
  <1>1. ASSUME NEW s \in Senders, ReadBalance(s) PROVE OnceInv'
    <2>1. PICK r \in Requests \ asked :
            /\ asked' = asked \cup {r} /\ request' = [request EXCEPT ![s] = r]
      BY <1>1 DEF ReadBalance
    <2>2. /\ TransferId(r) \notin AskedIds(asked) /\ AskedIds(asked) \subseteq AskedIds(asked')
          /\ TransferId(r) \in TransferIds
      BY <2>1, NewIds, PaymentsAssumption DEF PaymentsAssumption, TransferId, TransferIds
    <2>3. ~IdIn(TransferId(r), chain)
      BY <2>2, UnaskedIsNotBooked DEF OnceInv
    <2>4. \A i \in DOMAIN mempool : mempool[i].tx.id # TransferId(r)
      BY <2>2 DEF OnceInv, WaitsOnce
    <2>5. /\ spc' = [spc EXCEPT ![s] = "audit"] /\ mempool' = mempool /\ chain' = chain
          /\ lock' = lock
          /\ spc \in [Senders -> {"idle", "audit", "append"}]
          /\ request \in [Senders -> Requests \cup {NoRequest}]
      BY <1>1 DEF ReadBalance, vars, MinerInv, PayInv
    <2>6. ServedOnce'
      <3>1. \A t \in Senders : t # s => spc'[t] = spc[t] /\ request'[t] = request[t]
        BY <2>1, <2>5
      <3>2. spc'[s] = "audit" /\ request'[s] = r
        BY <2>1, <2>5
      <3>3. \A t \in Senders : t # s /\ spc[t] # "idle" => request[t] # r
        BY <2>1 DEF OnceInv, ServedOnce
      <3>4. ASSUME NEW t \in Senders, spc'[t] # "idle"
            PROVE  /\ request'[t] \in asked' \cap Requests
                   /\ ~IdIn(TransferId(request'[t]), chain')
                   /\ \A i \in DOMAIN mempool' : mempool'[i].tx.id # TransferId(request'[t])
                   /\ \A u \in Senders \ {t} : spc'[u] # "idle" => request'[u] # request'[t]
        <4>1. CASE t = s
          BY <2>1, <2>3, <2>4, <2>5, <3>1, <3>2, <3>3, <4>1
        <4>2. CASE t # s
          <5>1. spc[t] # "idle" /\ request'[t] = request[t]
            BY <3>1, <3>4, <4>2
          <5>2. \A u \in Senders \ {t} : spc'[u] # "idle" => request'[u] # request'[t]
            BY <3>1, <3>2, <3>3, <4>2, <5>1 DEF OnceInv, ServedOnce
          <5> QED BY <2>1, <2>5, <5>1, <5>2 DEF OnceInv, ServedOnce
        <4> QED BY <4>1, <4>2
      <3> QED BY <3>4 DEF ServedOnce
    <2> QED BY <2>2, <2>5, <2>6 DEF OnceInv, WaitsOnce, BookedOnce
  <1>2. ASSUME NEW s \in Senders, Audit(s) PROVE OnceInv'
    <2>1. /\ \A t \in Senders : spc'[t] # "idle" => spc[t] # "idle"
          /\ request' = request /\ mempool' = mempool /\ asked' = asked /\ UNCHANGED vars
      BY <1>2 DEF Audit, MinerInv, PayInv
    <2> QED BY <2>1 DEF vars, OnceInv, ServedOnce, WaitsOnce, BookedOnce
  <1>3. ASSUME NEW s \in Senders, AppendTx(s) PROVE OnceInv'
    <2> DEFINE tx == TransferOf(request[s], needed[s])
    <2>1. /\ spc[s] # "idle" /\ mempool' = Append(mempool, Saved(tx))
          /\ spc' = [spc EXCEPT ![s] = "idle"] /\ request' = request /\ asked' = asked
          /\ UNCHANGED vars
      BY <1>3 DEF AppendTx
    <2>2. request[s] \in Requests /\ request[s] \in asked /\ tx.id = TransferId(request[s])
      BY <2>1 DEF OnceInv, ServedOnce, TransferOf, TransferId
    <2>3. tx \in Transfer
      BY <2>2, TransferOfType DEF MinerInv, PayInv
    <2>4. /\ tx.id \in AskedIds(asked) /\ ~IdIn(tx.id, chain)
          /\ \A i \in DOMAIN mempool : mempool[i].tx.id # tx.id
      BY <2>1, <2>2 DEF OnceInv, ServedOnce, AskedIds
    <2> HIDE DEF tx
    <2>5. WaitsOnce' /\ BookedOnce'
      BY <2>1, <2>3, <2>4, OnceAppend
    <2>6. ServedOnce'
      <3>1. /\ spc \in [Senders -> {"idle", "audit", "append"}] /\ mempool \in Seq(Entry)
            /\ Saved(tx).tx = tx
        BY DEF MinerInv, PayInv, Saved
      <3>2. \A t \in Senders : spc'[t] # "idle" => t # s /\ spc[t] # "idle"
        BY <2>1, <3>1
      <3>3. \A i \in DOMAIN mempool' : \/ i \in DOMAIN mempool /\ mempool'[i] = mempool[i]
                                       \/ mempool'[i].tx = tx
        BY <2>1, <3>1
      <3>4. \A t \in Senders : t # s /\ spc[t] # "idle" => TransferId(request[t]) # tx.id
        <4> SUFFICES ASSUME NEW t \in Senders, t # s, spc[t] # "idle"
                     PROVE  TransferId(request[t]) # tx.id
          OBVIOUS
        <4>1. request[t] \in Requests /\ request[t] # request[s]
          BY <2>1 DEF OnceInv, ServedOnce
        <4> QED BY <2>2, <4>1, TransferIdsDiffer
      <3> QED BY <2>1, <3>2, <3>3, <3>4 DEF OnceInv, ServedOnce, vars
    <2> QED BY <2>5, <2>6 DEF OnceInv
  <1>4. CASE RelayTx
    <2>1. PICK tx \in Relayed \ asked :
            asked' = asked \cup {tx} /\ mempool' = Append(mempool, Saved(tx))
      BY <1>4 DEF RelayTx
    <2>2. /\ tx.id \notin AskedIds(asked) /\ AskedIds(asked') = AskedIds(asked) \cup {tx.id}
          /\ tx \in Transfer /\ tx.id \in TransferIds
      BY <2>1, NewIds, PaymentsAssumption DEF PaymentsAssumption, Transfer
    <2>3. ~IdIn(tx.id, chain) /\ \A i \in DOMAIN mempool : mempool[i].tx.id # tx.id
      BY <2>2, UnaskedIsNotBooked DEF OnceInv, WaitsOnce
    <2>4. UNCHANGED vars /\ spc' = spc /\ request' = request
      BY <1>4 DEF RelayTx, sending
    <2>5. WaitsOnce' /\ BookedOnce'
      BY <2>1, <2>2, <2>3, <2>4, OnceAppend
    <2>6. ServedOnce'
      <3>1. mempool \in Seq(Entry) /\ Saved(tx).tx = tx
        BY DEF MinerInv, PayInv, Saved
      <3>2. \A i \in DOMAIN mempool' : \/ i \in DOMAIN mempool /\ mempool'[i] = mempool[i]
                                       \/ mempool'[i].tx = tx
        BY <2>1, <3>1
      <3>3. \A t \in Senders : spc[t] # "idle" => TransferId(request[t]) # tx.id
        BY <2>2 DEF OnceInv, ServedOnce, AskedIds
      <3> QED BY <2>1, <2>4, <3>2, <3>3 DEF OnceInv, ServedOnce, vars
    <2> QED BY <2>5, <2>6 DEF OnceInv
  <1>5. CASE AssembleFromMempool
    <2>1. mempool' = mempool /\ chain' = chain /\ lock' = lock /\ UNCHANGED Rest
      BY <1>5, PurgeKeepsAll DEF AssembleFromMempool, Assemble, MinerInv, PayInv
    <2> QED BY <2>1 DEF Rest, sending, OnceInv, ServedOnce, WaitsOnce, BookedOnce
  <1>6. CASE BookAndClear
    <2>1. /\ mempool' = << >> /\ chain' = chain
          /\ spc' = spc /\ request' = request /\ asked' = asked
      BY <1>6 DEF BookAndClear, BookOwn, Rest, sending
    <2> QED BY <2>1 DEF OnceInv, ServedOnce, WaitsOnce, BookedOnce
  <1>7. CASE ReadHeight /\ UNCHANGED <<mempool, Rest>>
    BY <1>7 DEF ReadHeight, Rest, sending, OnceInv, ServedOnce, WaitsOnce, BookedOnce
  <1>8. CASE Discard /\ UNCHANGED <<mempool, Rest>>
    BY <1>8 DEF Discard, Rest, sending, OnceInv, ServedOnce, WaitsOnce, BookedOnce
  <1>9. CASE Commit /\ UNCHANGED <<mempool, Rest>>
    BY <1>9, OnceCommit
  <1>10. CASE RebuildLedger
    <2>1. /\ chain' = chain /\ mempool' = mempool /\ asked' = asked /\ UNCHANGED sending
          /\ lock # "miner"
      BY <1>10, StartupBooks DEF RebuildLedger, RebuildNext, RebuildDone, Rest, MinerInv, MinerLocks,
                   MinerLedger
    <2> QED BY <2>1 DEF sending, OnceInv, ServedOnce, WaitsOnce, BookedOnce
  <1>11. CASE UNCHANGED allVars
    BY <1>11 DEF allVars, vars, sending, OnceInv, ServedOnce, WaitsOnce, BookedOnce
  <1> QED BY <1>1, <1>2, <1>3, <1>4, <1>5, <1>6, <1>7, <1>8, <1>9, <1>10, <1>11
          DEF MinerNext, Send, MineWithMempool

LEMMA OnceInvariance ==
  ASSUME DistinctIds
  PROVE  PayMiner => []OnceInv
  <1>1. PayMiner => PayInit /\ [][MinerNext]_allVars
    BY DEF PayMiner, MinerNext
  <1>2. PayInit => OnceInv
    BY OnceInit
  <1>3. MinerInv /\ TookInv /\ OnceInv /\ [MinerNext]_allVars => OnceInv'
    BY OnceInvStep
  <1> QED BY <1>1, <1>2, <1>3, MinerInvariance, TookInvariance, PTL

(* On a node that mines alone nothing that waits in mempool.dat is in the  *)
(* chain: no payment is booked a second time from the file.                *)
THEOREM WaitingIsNotBooked ==
  ASSUME DistinctIds
  PROVE  PayMiner => []PendingIsWaiting
  <1>1. OnceInv => PendingIsWaiting
    BY DEF OnceInv, WaitsOnce, PendingIsWaiting, InChain, IdIn
  <1> QED BY <1>1, OnceInvariance, PTL

------------------------------------------------------------------------------
(* What is booked                                                          *)

Value(utxo) == SumOf(utxo, DOMAIN utxo)

LEMMA PutValue ==
  ASSUME NEW utxo, GoodCoins(utxo), NEW key, key \notin DOMAIN utxo, NEW coin \in CoinType
  PROVE  Value(Put(utxo, key, coin)) = Value(utxo) + coin.amount
  <1> DEFINE u == Put(utxo, key, coin)
             D == DOMAIN utxo
  <1>1. /\ DOMAIN u = D \cup {key} /\ u[key] = coin /\ (D \cup {key}) \ {key} = D
        /\ \A k \in D : u[k] = utxo[k]
    BY DEF Put
  <1>2. GoodCoins(u) /\ IsFiniteSet(D) /\ IsFiniteSet(D \cup {key})
    BY PutGood, FS_AddElement DEF GoodCoins
  <1> HIDE DEF u
  <1>3. \A k \in D \cup {key} : u[k].amount \in Int
    BY <1>1, <1>2 DEF GoodCoins, CoinType
  <1>4. SumOf(u, D \cup {key}) = u[key].amount + SumOf(u, (D \cup {key}) \ {key})
    BY <1>2, <1>3, SumOfCoins
  <1>5. SumOf(u, D) = SumOf(utxo, D)
    <2>1. Sums!Founded(D)
      BY <1>2, FiniteIsFounded DEF Sums!Founded
    <2>2. Sums!Total(0, u, D, 0, 0) = Sums!Total(0, utxo, D, 0, 0)
      BY <1>1, <2>1, Sums!TotalSame
    <2> QED BY <2>2, SumIsTotal
  <1>6. SumOf(utxo, D) \in Int /\ coin.amount \in Int
    BY <1>1, <1>2, <1>3, SumOfCoins DEF GoodCoins, CoinType
  <1> QED BY <1>1, <1>4, <1>5, <1>6 DEF Value, u

KeysOf(ids) == {<<id, i, b>> : id \in ids, i \in Nat, b \in BOOLEAN}

LEMMA OutputPaid ==
  ASSUME NEW l, GoodLedger(l), NEW tx \in Tx, NEW i \in DOMAIN tx.vout, NEW h \in Int,
         \A b \in BOOLEAN : <<tx.id, i, b>> \notin DOMAIN l.utxo
  PROVE  /\ Value(UpdateOutput(l, tx, i, h).utxo) = Value(l.utxo) + tx.vout[i].amount
         /\ DOMAIN UpdateOutput(l, tx, i, h).utxo
              \subseteq DOMAIN l.utxo \cup {<<tx.id, i, b>> : b \in BOOLEAN}
  <1> DEFINE out == tx.vout[i]
             key == <<tx.id, i, out.amount < 0>>
             u   == Put(l.utxo, key, Coin(tx, i, h))
  <1>1. out.address \in Address /\ out.amount \in Int
    <2>1. out \in Output
      BY DEF Tx
    <2> QED BY <2>1 DEF Output
  <1>2. Coin(tx, i, h) \in CoinType /\ Coin(tx, i, h).amount = out.amount
    BY <1>1 DEF Coin, CoinType, Tx
  <1>3. key \notin DOMAIN l.utxo
    <2>1. (out.amount < 0) \in BOOLEAN
      OBVIOUS
    <2> QED BY <2>1
  <1>4. Value(u) = Value(l.utxo) + out.amount
    BY <1>2, <1>3, PutValue DEF GoodLedger
  <1>5. DOMAIN u \subseteq DOMAIN l.utxo \cup {<<tx.id, i, b>> : b \in BOOLEAN}
    <2>1. DOMAIN u = DOMAIN l.utxo \cup {key}
      BY DEF Put
    <2>2. (out.amount < 0) \in BOOLEAN
      OBVIOUS
    <2> QED BY <2>1, <2>2
  <1>6. Value(l.utxo) \in Int
    BY SumOfCoins DEF Value, GoodLedger, GoodCoins, CoinType
  <1>7. CASE out.amount = 0
    <2>1. UpdateOutput(l, tx, i, h) = l
      BY <1>7 DEF UpdateOutput
    <2>2. Value(l.utxo) + tx.vout[i].amount = Value(l.utxo)
      BY <1>6, <1>7
    <2> QED BY <2>1, <2>2
  <1>8. CASE out.amount # 0
    <2>1. UpdateOutput(l, tx, i, h).utxo = u
      <3> DEFINE n == l.balances[out.address] + out.amount
      <3>1. \/ UpdateOutput(l, tx, i, h) = Enter(l, tx, i, h, key, FloorAtZero(n))
            \/ UpdateOutput(l, tx, i, h) = Enter(l, tx, i, h, key, n)
        BY <1>1, <1>3, <1>8 DEF UpdateOutput
      <3> HIDE DEF n, key
      <3> QED BY <3>1 DEF Enter
    <2> QED BY <1>4, <1>5, <2>1
  <1> QED BY <1>7, <1>8

OutsPaid(acc, n, u) ==
  /\ GoodLedger(acc)
  /\ Value(acc.utxo) = Value(u.l.utxo) + SumOf(u.tx.vout, 1 .. n)
  /\ DOMAIN acc.utxo \subseteq DOMAIN u.l.utxo \cup {<<u.tx.id, j, b>> : j \in 1 .. n, b \in BOOLEAN}

PaidOuts == INSTANCE Inductions WITH Op <- OutStep, Holds <- OutsPaid

LEMMA PaidOutsGrounded == PaidOuts!Grounded
  BY NatHasLeast DEF PaidOuts!Grounded

LEMMA UpdatePaid ==
  ASSUME NEW l, GoodLedger(l), NEW tx \in Tx, NEW h \in Int,
         \A k \in KeysOf({tx.id}) : k \notin DOMAIN l.utxo
  PROVE  /\ Value(Update(l, tx, h).utxo) = Value(l.utxo) + SumOf(tx.vout, DOMAIN tx.vout)
         /\ DOMAIN Update(l, tx, h).utxo \subseteq DOMAIN l.utxo \cup KeysOf({tx.id})
  <1> DEFINE s == [i \in DOMAIN tx.vout |-> i]
             u == [l |-> l, tx |-> tx]
  <1>0. Value(l.utxo) \in Int
    BY SumOfCoins DEF Value, GoodLedger, GoodCoins, CoinType
  <1>1. /\ s \in Seq(DOMAIN tx.vout) /\ Len(s) = Len(tx.vout) /\ Len(s) \in Nat
        /\ \A i \in 1 .. Len(s) : s[i] = i /\ i \in DOMAIN tx.vout
        /\ DOMAIN tx.vout = 1 .. Len(s)
    BY DEF Tx
  <1>a. \A i \in DOMAIN tx.vout : tx.vout[i].amount \in Int
    <2>1. \A i \in DOMAIN tx.vout : tx.vout[i] \in Output
      BY DEF Tx
    <2> QED BY <2>1 DEF Output
  <1>2. \A n \in 0 .. Len(s) : IsFiniteSet(1 .. n) /\ \A i \in 1 .. n : tx.vout[i].amount \in Int
    <2> HIDE DEF s
    <2> SUFFICES ASSUME NEW n \in 0 .. Len(s)
                 PROVE  IsFiniteSet(1 .. n) /\ \A i \in 1 .. n : tx.vout[i].amount \in Int
      OBVIOUS
    <2>1. n \in Int /\ 1 \in Int /\ \A i \in 1 .. n : i \in DOMAIN tx.vout
      BY <1>1
    <2> QED BY <1>a, <2>1, FS_Interval
  <1> HIDE DEF s
  <1>3. OutsPaid(l, 0, u)
    <2>1. SumOf(tx.vout, {}) = 0
      BY SumIsTotal, Sums!TotalEmpty
    <2>2. 1 .. 0 = {}
      OBVIOUS
    <2> QED BY <1>0, <2>1, <2>2 DEF OutsPaid
  <1>4. ASSUME NEW i \in 1 .. Len(s), NEW acc, OutsPaid(acc, i - 1, u)
        PROVE  OutsPaid(OutStep(acc, s[i], tx, h), i, u)
    <2>1. /\ GoodLedger(acc) /\ Value(acc.utxo) = Value(l.utxo) + SumOf(tx.vout, 1 .. i - 1)
          /\ DOMAIN acc.utxo \subseteq DOMAIN l.utxo \cup
               {<<tx.id, j, b>> : j \in 1 .. i - 1, b \in BOOLEAN}
      BY <1>4 DEF OutsPaid
    <2>2. \A b \in BOOLEAN : <<tx.id, i, b>> \notin DOMAIN acc.utxo
      <3> SUFFICES ASSUME NEW b \in BOOLEAN, <<tx.id, i, b>> \in DOMAIN acc.utxo PROVE FALSE
        OBVIOUS
      <3>1. <<tx.id, i, b>> \in KeysOf({tx.id})
        BY DEF KeysOf
      <3>2. PICK j \in 1 .. i - 1, c \in BOOLEAN : <<tx.id, i, b>> = <<tx.id, j, c>>
        BY <2>1, <3>1
      <3> QED BY <3>2
    <2>3. /\ Value(UpdateOutput(acc, tx, i, h).utxo) = Value(acc.utxo) + tx.vout[i].amount
          /\ DOMAIN UpdateOutput(acc, tx, i, h).utxo
               \subseteq DOMAIN acc.utxo \cup {<<tx.id, i, b>> : b \in BOOLEAN}
          /\ GoodLedger(UpdateOutput(acc, tx, i, h))
      <3>1. i \in DOMAIN tx.vout
        BY <1>1
      <3>2. GoodLedger(UpdateOutput(acc, tx, i, h))
        BY <2>1, <3>1, UpdateOutputType
      <3>3. /\ Value(UpdateOutput(acc, tx, i, h).utxo) = Value(acc.utxo) + tx.vout[i].amount
            /\ DOMAIN UpdateOutput(acc, tx, i, h).utxo
                 \subseteq DOMAIN acc.utxo \cup {<<tx.id, i, b>> : b \in BOOLEAN}
        BY <2>1, <2>2, <3>1, OutputPaid
      <3> QED BY <3>2, <3>3
    <2>4. SumOf(tx.vout, 1 .. i) = tx.vout[i].amount + SumOf(tx.vout, 1 .. i - 1)
      <3>1. i \in Nat \ {0} /\ i \in 0 .. Len(s)
        BY <1>1
      <3>3. (1 .. i) \ {i} = 1 .. i - 1 /\ i \in 1 .. i
        BY <3>1
      <3>4. IsFiniteSet(1 .. i) /\ \A j \in 1 .. i : tx.vout[j].amount \in Int
        BY <1>2, <3>1
      <3>2. SumOf(tx.vout, 1 .. i) = tx.vout[i].amount + SumOf(tx.vout, (1 .. i) \ {i})
        BY <3>3, <3>4, SumOfCoins
      <3> QED BY <3>2, <3>3
    <2>5. SumOf(tx.vout, 1 .. i - 1) \in Int /\ tx.vout[i].amount \in Int
      <3>1. i - 1 \in 0 .. Len(s) /\ i \in DOMAIN tx.vout
        BY <1>1
      <3> QED BY <1>a, <1>2, <3>1, SumOfCoins
    <2>6. DOMAIN UpdateOutput(acc, tx, i, h).utxo \subseteq DOMAIN l.utxo \cup
               {<<tx.id, j, b>> : j \in 1 .. i, b \in BOOLEAN}
      BY <2>1, <2>3
    <2> QED BY <1>0, <1>1, <2>1, <2>3, <2>4, <2>5, <2>6 DEF OutsPaid, OutStep
  <1>5. OutsPaid(PaidOuts!Fold(l, s, tx, h), Len(s), u)
    <2> HIDE DEF u
    <2> QED BY <1>1, <1>3, <1>4, PaidOuts!FoldInduction, PaidOutsGrounded
  <1>6. Update(l, tx, h) = PaidOuts!Fold(l, s, tx, h)
    BY DEF Update, FoldLeftDomain, PaidOuts!Fold, FoldLeft, MapThenFoldSet,
           PaidOuts!MapThenFoldSet, Max, PaidOuts!Greatest, OutStep, s
  <1> QED BY <1>1, <1>5, <1>6 DEF OutsPaid, KeysOf

BodyStep(n, tx, p, q) == n + SumOf(tx.vout, DOMAIN tx.vout)
ChainStep(n, txs, p, q) == n + Paid(txs)

PaidBody  == INSTANCE Inductions WITH Op <- BodyStep, Holds <- IsInt
PaidChain == INSTANCE Inductions WITH Op <- ChainStep, Holds <- IsInt

LEMMA PaidBodyGrounded == PaidBody!Grounded
  BY NatHasLeast DEF PaidBody!Grounded

LEMMA PaidChainGrounded == PaidChain!Grounded
  BY NatHasLeast DEF PaidChain!Grounded

PaidIn(c) == FoldLeft(LAMBDA n, txs : n + Paid(txs), 0, c)

LEMMA TxPaysInt ==
  ASSUME NEW tx \in Tx
  PROVE  SumOf(tx.vout, DOMAIN tx.vout) \in Int
  <1>1. DOMAIN tx.vout = 1 .. Len(tx.vout) /\ Len(tx.vout) \in Nat
        /\ \A i \in DOMAIN tx.vout : tx.vout[i] \in Output
    BY DEF Tx
  <1>2. IsFiniteSet(DOMAIN tx.vout)
    BY <1>1, FS_Interval
  <1>3. \A i \in DOMAIN tx.vout : tx.vout[i].amount \in Int
    BY <1>1 DEF Output
  <1> QED BY <1>2, <1>3, SumOfCoins

LEMMA PaidSteps ==
  ASSUME NEW s \in Body
  PROVE  /\ Paid(<< >>) = 0 /\ Paid(s) \in Int
         /\ \A n \in 1 .. Len(s) :
              /\ Paid(SubSeq(s, 1, n - 1)) \in Int
              /\ Paid(SubSeq(s, 1, n))
                   = Paid(SubSeq(s, 1, n - 1)) + SumOf(s[n].vout, DOMAIN s[n].vout)
  <1>1. ASSUME NEW t PROVE Paid(t) = PaidBody!Fold(0, t, 0, 0)
    BY DEF Paid, SumOf, PaidBody!Fold, FoldLeft, MapThenFoldSet,
           PaidBody!MapThenFoldSet, Max, PaidBody!Greatest, BodyStep
  <1>2. Paid(<< >>) = 0
    BY <1>1, PaidBody!FoldEmpty
  <1>3. ASSUME NEW t \in Seq(Tx) PROVE Paid(t) \in Int
    <2>1. \A i \in 1 .. Len(t) : t[i] \in Tx
      OBVIOUS
    <2>2. IsInt(0, 0, 0)
      BY DEF IsInt
    <2>3. \A i \in 1 .. Len(t) : \A acc :
            IsInt(acc, i - 1, 0) => IsInt(BodyStep(acc, t[i], 0, 0), i, 0)
      BY <2>1, TxPaysInt DEF IsInt, BodyStep
    <2>4. IsInt(PaidBody!Fold(0, t, 0, 0), Len(t), 0)
      BY <2>2, <2>3, PaidBody!FoldInduction, PaidBodyGrounded
    <2> QED BY <1>1, <2>4 DEF IsInt
  <1>4. ASSUME NEW n \in 1 .. Len(s)
        PROVE  /\ Paid(SubSeq(s, 1, n - 1)) \in Int
               /\ Paid(SubSeq(s, 1, n))
                    = Paid(SubSeq(s, 1, n - 1)) + SumOf(s[n].vout, DOMAIN s[n].vout)
    <2> DEFINE t == SubSeq(s, 1, n)
               r == SubSeq(s, 1, n - 1)
    <2>1. /\ t \in Seq(Tx) /\ r \in Seq(Tx) /\ Len(t) = Len(r) + 1 /\ t[Len(t)] = s[n]
          /\ \A i \in 1 .. Len(r) : t[i] = r[i]
      BY DEF Body
    <2> HIDE DEF t, r
    <2>2. PaidBody!Fold(0, t, 0, 0) = BodyStep(PaidBody!Fold(0, r, 0, 0), t[Len(t)], 0, 0)
      BY <2>1, PaidBody!FoldLast, PaidBodyGrounded
    <2>3. Paid(r) \in Int /\ Paid(t) = Paid(r) + SumOf(s[n].vout, DOMAIN s[n].vout)
      BY <1>1, <1>3, <2>1, <2>2 DEF BodyStep
    <2> QED BY <2>3 DEF t, r
  <1> QED BY <1>2, <1>3, <1>4 DEF Body

IdsTo(txs, n) == {txs[k].id : k \in 1 .. n}

TxsPaid(acc, n, u) ==
  /\ GoodLedger(acc)
  /\ Value(acc.utxo) = Value(u.l.utxo) + Paid(SubSeq(u.txs, 1, n))
  /\ DOMAIN acc.utxo \subseteq DOMAIN u.l.utxo \cup KeysOf(IdsTo(u.txs, n))

PaidTxs == INSTANCE Inductions WITH Op <- TxStep, Holds <- TxsPaid

LEMMA PaidTxsGrounded == PaidTxs!Grounded
  BY NatHasLeast DEF PaidTxs!Grounded

(* A block whose ids differ, and differ from all that is booked, adds to   *)
(* the coins and debits exactly what it pays.                              *)
LEMMA BookPaid ==
  ASSUME NEW l, GoodLedger(l), NEW txs \in Body, NEW h \in Int,
         \A k \in KeysOf(IdsTo(txs, Len(txs))) : k \notin DOMAIN l.utxo,
         \A i, j \in DOMAIN txs : txs[i].id = txs[j].id => i = j
  PROVE  /\ Value(Book(l, txs, h).utxo) = Value(l.utxo) + Paid(txs)
         /\ DOMAIN Book(l, txs, h).utxo \subseteq DOMAIN l.utxo \cup KeysOf(IdsTo(txs, Len(txs)))
  <1> DEFINE u == [l |-> l, txs |-> txs]
  <1>0. Value(l.utxo) \in Int
    BY SumOfCoins DEF Value, GoodLedger, GoodCoins, CoinType
  <1>1. /\ txs \in Seq(Tx) /\ Len(txs) \in Nat /\ DOMAIN txs = 1 .. Len(txs)
        /\ \A i \in 1 .. Len(txs) : txs[i] \in Tx
        /\ SubSeq(txs, 1, 0) = << >> /\ SubSeq(txs, 1, Len(txs)) = txs
    BY DEF Body
  <1>2. TxsPaid(l, 0, u)
    <2>1. Value(l.utxo) = Value(l.utxo) + Paid(SubSeq(txs, 1, 0))
      <3>1. Paid(<< >>) = 0
        BY PaidSteps
      <3>2. Paid(SubSeq(txs, 1, 0)) = 0
        BY <1>1, <3>1
      <3> QED BY <1>0, <3>2
    <2> QED BY <2>1 DEF TxsPaid
  <1>3. ASSUME NEW i \in 1 .. Len(txs), NEW acc, TxsPaid(acc, i - 1, u)
        PROVE  TxsPaid(TxStep(acc, txs[i], h, 0), i, u)
    <2>1. /\ GoodLedger(acc) /\ Value(acc.utxo) = Value(l.utxo) + Paid(SubSeq(txs, 1, i - 1))
          /\ DOMAIN acc.utxo \subseteq DOMAIN l.utxo \cup KeysOf(IdsTo(txs, i - 1))
      BY <1>3 DEF TxsPaid
    <2>2. \A k \in KeysOf({txs[i].id}) : k \notin DOMAIN acc.utxo
      <3> SUFFICES ASSUME NEW k \in KeysOf({txs[i].id}), k \in DOMAIN acc.utxo PROVE FALSE
        OBVIOUS
      <3>1. PICK p \in Nat, b \in BOOLEAN : k = <<txs[i].id, p, b>>
        BY DEF KeysOf
      <3>2. k \in KeysOf(IdsTo(txs, Len(txs)))
        BY <1>1, <3>1 DEF KeysOf, IdsTo
      <3>3. k \in KeysOf(IdsTo(txs, i - 1))
        BY <2>1, <3>2
      <3>4. PICK id \in IdsTo(txs, i - 1), q \in Nat, c \in BOOLEAN : k = <<id, q, c>>
        BY <3>3 DEF KeysOf
      <3>5. PICK j \in 1 .. i - 1 : id = txs[j].id
        BY DEF IdsTo
      <3>6. txs[i].id = txs[j].id
        BY <3>1, <3>4, <3>5
      <3> QED BY <1>1, <3>6
    <2>3. txs[i] \in Tx
      BY <1>1
    <2>4. /\ Value(Update(acc, txs[i], h).utxo)
               = Value(acc.utxo) + SumOf(txs[i].vout, DOMAIN txs[i].vout)
          /\ DOMAIN Update(acc, txs[i], h).utxo \subseteq DOMAIN acc.utxo \cup KeysOf({txs[i].id})
      BY <2>1, <2>2, <2>3, UpdatePaid
    <2>5. GoodLedger(Update(acc, txs[i], h))
      BY <2>1, <2>3, UpdateType
    <2>6. /\ Paid(SubSeq(txs, 1, i - 1)) \in Int /\ SumOf(txs[i].vout, DOMAIN txs[i].vout) \in Int
          /\ Paid(SubSeq(txs, 1, i))
               = Paid(SubSeq(txs, 1, i - 1)) + SumOf(txs[i].vout, DOMAIN txs[i].vout)
      BY <2>3, PaidSteps, TxPaysInt
    <2>7. DOMAIN Update(acc, txs[i], h).utxo \subseteq DOMAIN l.utxo \cup KeysOf(IdsTo(txs, i))
      <3>1. IdsTo(txs, i - 1) \subseteq IdsTo(txs, i) /\ {txs[i].id} \subseteq IdsTo(txs, i)
        BY <1>1 DEF IdsTo
      <3>2. /\ KeysOf(IdsTo(txs, i - 1)) \subseteq KeysOf(IdsTo(txs, i))
            /\ KeysOf({txs[i].id}) \subseteq KeysOf(IdsTo(txs, i))
        BY <3>1 DEF KeysOf
      <3> QED BY <2>1, <2>4, <3>2
    <2>8. Value(Update(acc, txs[i], h).utxo) = Value(l.utxo) + Paid(SubSeq(txs, 1, i))
      BY <1>0, <2>1, <2>4, <2>6
    <2> QED BY <2>5, <2>7, <2>8 DEF TxsPaid, TxStep
  <1>4. TxsPaid(PaidTxs!Fold(l, txs, h, 0), Len(txs), u)
    <2> HIDE DEF u
    <2> QED BY <1>1, <1>2, <1>3, PaidTxs!FoldInduction, PaidTxsGrounded
  <1>5. Book(l, txs, h) = PaidTxs!Fold(l, txs, h, 0)
    BY DEF Book, PaidTxs!Fold, FoldLeft, MapThenFoldSet,
           PaidTxs!MapThenFoldSet, Max, PaidTxs!Greatest, TxStep
  <1> QED BY <1>1, <1>4, <1>5 DEF TxsPaid

LEMMA PaidInSteps ==
  ASSUME NEW c \in Seq(Block)
  PROVE  /\ PaidIn(<< >>) = 0
         /\ \A n \in 0 .. Len(c) : PaidIn(SubSeq(c, 1, n)) \in Int
         /\ \A n \in 1 .. Len(c) :
              PaidIn(SubSeq(c, 1, n)) = PaidIn(SubSeq(c, 1, n - 1)) + Paid(c[n])
  <1>1. ASSUME NEW t PROVE PaidIn(t) = PaidChain!Fold(0, t, 0, 0)
    BY DEF PaidIn, PaidChain!Fold, FoldLeft, MapThenFoldSet,
           PaidChain!MapThenFoldSet, Max, PaidChain!Greatest, ChainStep
  <1>2. PaidIn(<< >>) = 0
    BY <1>1, PaidChain!FoldEmpty
  <1>3. ASSUME NEW t \in Seq(Block) PROVE PaidIn(t) \in Int
    <2>1. \A i \in 1 .. Len(t) : t[i] \in Body
      BY DEF Block, Body
    <2>2. IsInt(0, 0, 0)
      BY DEF IsInt
    <2>3. \A i \in 1 .. Len(t) : \A acc :
            IsInt(acc, i - 1, 0) => IsInt(ChainStep(acc, t[i], 0, 0), i, 0)
      BY <2>1, PaidSteps DEF IsInt, ChainStep
    <2>4. IsInt(PaidChain!Fold(0, t, 0, 0), Len(t), 0)
      BY <2>2, <2>3, PaidChain!FoldInduction, PaidChainGrounded
    <2> QED BY <1>1, <2>4 DEF IsInt
  <1>4. ASSUME NEW n \in 1 .. Len(c)
        PROVE  PaidIn(SubSeq(c, 1, n)) = PaidIn(SubSeq(c, 1, n - 1)) + Paid(c[n])
    <2> DEFINE t == SubSeq(c, 1, n)
               r == SubSeq(c, 1, n - 1)
    <2>1. /\ t \in Seq(Block) /\ r \in Seq(Block) /\ Len(t) = Len(r) + 1 /\ t[Len(t)] = c[n]
          /\ \A i \in 1 .. Len(r) : t[i] = r[i]
      <3>1. t \in Seq(Block) /\ Len(t) = n /\ t[n] = c[n] /\ \A i \in 1 .. n : t[i] = c[i]
        OBVIOUS
      <3>2. r \in Seq(Block) /\ Len(r) = n - 1 /\ \A i \in 1 .. n - 1 : r[i] = c[i]
        OBVIOUS
      <3> HIDE DEF t, r
      <3> QED BY <3>1, <3>2
    <2> HIDE DEF t, r
    <2>2. PaidChain!Fold(0, t, 0, 0) = ChainStep(PaidChain!Fold(0, r, 0, 0), t[Len(t)], 0, 0)
      BY <2>1, PaidChain!FoldLast, PaidChainGrounded
    <2>3. PaidIn(t) = PaidIn(r) + Paid(c[n])
      BY <1>1, <2>1, <2>2 DEF ChainStep
    <2> QED BY <2>3 DEF t, r
  <1>5. ASSUME NEW n \in 0 .. Len(c) PROVE SubSeq(c, 1, n) \in Seq(Block)
    OBVIOUS
  <1> QED BY <1>2, <1>3, <1>4, <1>5

BlockKeys(txs) == KeysOf(IdsTo(txs, Len(txs)))

(* The ledger holds the outputs of the first n blocks, each once.          *)
HoldsTo(utxo, n) ==
  /\ Value(utxo) = PaidIn(SubSeq(chain, 1, n))
  /\ \A k \in DOMAIN utxo : \E i \in 1 .. n : k \in BlockKeys(chain[i])

LEMMA BookNextBlock ==
  ASSUME BookedOnce, chain \in Seq(Block), NEW n \in 1 .. Len(chain), NEW l, GoodLedger(l),
         HoldsTo(l.utxo, n - 1), NEW h \in Int
  PROVE  HoldsTo(Book(l, chain[n], h).utxo, n)
  <1> DEFINE txs == chain[n]
             b   == Book(l, txs, h)
  <1>1. txs \in Body /\ n \in DOMAIN chain /\ txs \in Block
    BY DEF Block, Body
  <1>2. \A i, j \in DOMAIN txs : txs[i].id = txs[j].id => i = j
    BY <1>1 DEF BookedOnce
  <1>3. \A k \in BlockKeys(txs) : k \notin DOMAIN l.utxo
    <2> SUFFICES ASSUME NEW k \in BlockKeys(txs), k \in DOMAIN l.utxo PROVE FALSE
      OBVIOUS
    <2>1. PICK i \in 1 .. n - 1 : k \in BlockKeys(chain[i])
      BY DEF HoldsTo
    <2>2. PICK id \in IdsTo(txs, Len(txs)), p \in Nat, c \in BOOLEAN : k = <<id, p, c>>
      BY DEF BlockKeys, KeysOf
    <2>3. PICK jd \in IdsTo(chain[i], Len(chain[i])), q \in Nat, d \in BOOLEAN : k = <<jd, q, d>>
      BY <2>1 DEF BlockKeys, KeysOf
    <2>4. PICK j \in 1 .. Len(txs) : id = txs[j].id
      BY DEF IdsTo
    <2>5. PICK m \in 1 .. Len(chain[i]) : jd = chain[i][m].id
      BY DEF IdsTo
    <2>6. chain[n][j].id = chain[i][m].id
      <3>1. <<id, p, c>> = <<jd, q, d>>
        BY <2>2, <2>3
      <3>2. id = jd
        BY <3>1
      <3> QED BY <2>4, <2>5, <3>2
    <2>7. i \in DOMAIN chain /\ i # n /\ j \in DOMAIN chain[n] /\ m \in DOMAIN chain[i]
      <3>1. i \in DOMAIN chain /\ i # n
        BY <2>1
      <3>2. chain[i] \in Block
        BY <3>1
      <3> QED BY <1>1, <2>4, <2>5, <3>1, <3>2 DEF Block
    <2> QED BY <1>1, <2>6, <2>7 DEF BookedOnce
  <1>4. /\ Value(b.utxo) = Value(l.utxo) + Paid(txs)
        /\ DOMAIN b.utxo \subseteq DOMAIN l.utxo \cup BlockKeys(txs)
    <2> HIDE DEF txs
    <2> QED BY <1>1, <1>2, <1>3, BookPaid DEF BlockKeys
  <1>5. PaidIn(SubSeq(chain, 1, n)) = PaidIn(SubSeq(chain, 1, n - 1)) + Paid(txs)
    BY PaidInSteps
  <1>6. \A i \in 1 .. n - 1 : i \in 1 .. n
    OBVIOUS
  <1>7. n \in 1 .. n
    OBVIOUS
  <1> HIDE DEF b
  <1> QED BY <1>4, <1>5, <1>6, <1>7 DEF HoldsTo, b

CoinsInv == HoldsTo(ledger.utxo, Booked)

LEMMA CoinsInit ==
  ASSUME PayInit
  PROVE  CoinsInv
  <1>1. Booked = 0 /\ ledger.utxo = << >> /\ chain = <<GenesisBlock>>
    BY DEF PayInit, Init, Booked, EmptyLedger
  <1>2. chain \in Seq(Block) /\ SubSeq(chain, 1, 0) = << >> /\ DOMAIN << >> = {}
    BY <1>1, GenesisType
  <1>3. Value(<< >>) = 0
    BY <1>2, SumIsTotal, Sums!TotalEmpty DEF Value
  <1> QED BY <1>1, <1>2, <1>3, PaidInSteps DEF CoinsInv, HoldsTo

LEMMA CoinsInvStep ==
  ASSUME MinerInv, BookedOnce, CoinsInv, [MinerNext]_allVars
  PROVE  CoinsInv'
  <1>0. /\ chain \in Seq(Block) /\ Len(chain) \in Nat \ {0} /\ GoodLedger(ledger)
        /\ MinerLocks /\ MinerDraft
    BY ParameterAssumption DEF MinerInv, MinerLedger, ParameterAssumption
  <1>1. CASE ReadHeight \/ Assemble(Assembled) \/ Discard
    <2>1. Booked' = Booked /\ chain' = chain /\ ledger' = ledger
      BY <1>1 DEF ReadHeight, Assemble, Discard, Booked
    <2> QED BY <2>1 DEF CoinsInv, HoldsTo
  <1>2. CASE Commit
    <2>1. draft.txs \in Block
      BY <1>0, <1>2 DEF Commit, MinerDraft
    <2>2. chain' = Append(chain, draft.txs) /\ ledger' = ledger
      BY <1>2 DEF Commit
    <2>3. Booked = Len(chain) /\ Booked' = Len(chain)
      BY <1>0, <1>2, <2>1, <2>2 DEF Commit, Booked, MinerLocks
    <2>4. /\ SubSeq(chain', 1, Len(chain)) = SubSeq(chain, 1, Len(chain))
          /\ \A i \in 1 .. Len(chain) : chain'[i] = chain[i]
      BY <1>0, <2>1, <2>2
    <2> QED BY <2>2, <2>3, <2>4 DEF CoinsInv, HoldsTo
  <1>3. CASE BookOwn
    <2>1. /\ nextIndex = Len(chain) - 1 /\ chain[Len(chain)] = draft.txs /\ draft.subsidy \in Int
          /\ Booked = Len(chain) - 1 /\ Booked' = Len(chain) /\ chain' = chain
      BY <1>0, <1>3 DEF BookOwn, MinerDraft, MinerLocks, Booked
    <2> DEFINE m == [ledger EXCEPT !.supply = @ + draft.subsidy]
    <2>2. GoodLedger(m) /\ m.utxo = ledger.utxo
      BY <1>0, <2>1 DEF GoodLedger
    <2>3. ledger' = Book(m, chain[Len(chain)], Len(chain) - 1)
      BY <1>3, <2>1 DEF BookOwn
    <2> HIDE DEF m
    <2>4. HoldsTo(ledger'.utxo, Len(chain))
      <3>1. Len(chain) \in 1 .. Len(chain) /\ Len(chain) - 1 \in Int
        BY <1>0
      <3>2. HoldsTo(m.utxo, Len(chain) - 1)
        BY <2>1, <2>2 DEF CoinsInv
      <3> QED BY <1>0, <2>2, <2>3, <3>1, <3>2, BookNextBlock
    <2> QED BY <2>1, <2>4 DEF CoinsInv, HoldsTo
  <1>4. CASE RebuildNext
    <2>1. cursor = 1 /\ Len(chain) = 1 /\ Booked = 0 /\ Booked' = 1 /\ chain' = chain
      BY <1>0, <1>4, StartupBooks DEF RebuildNext, Booked
    <2> DEFINE reward == FloorAtZero(Subsidy(0, ledger, Len(chain)))
               m == [ledger EXCEPT !.supply = @ + reward]
    <2>2. GoodLedger(m) /\ m.utxo = ledger.utxo
      <3>1. reward \in Int
        BY <1>0, RewardType DEF FloorAtZero
      <3> HIDE DEF reward
      <3> QED BY <1>0, <3>1 DEF GoodLedger
    <2>3. ledger' = Book(m, chain[1], 0)
      BY <1>4, <2>1 DEF RebuildNext, RebuildBlock
    <2> HIDE DEF m
    <2>4. HoldsTo(ledger'.utxo, 1)
      <3>1. 1 \in 1 .. Len(chain) /\ HoldsTo(m.utxo, 1 - 1)
        BY <2>1, <2>2 DEF CoinsInv
      <3> QED BY <1>0, <2>2, <2>3, <3>1, BookNextBlock
    <2> QED BY <2>1, <2>4 DEF CoinsInv, HoldsTo
  <1>5. CASE RebuildDone
    <2>1. Booked = Len(chain) /\ Booked' = Len(chain) /\ chain' = chain /\ ledger' = ledger
      <3>1. cursor > Len(chain) /\ cursor # 0
        BY <1>0, <1>5 DEF RebuildDone, MinerLocks
      <3>2. cursor \in {1, 2} /\ chain = <<GenesisBlock>>
        BY <1>0, <3>1 DEF MinerLocks
      <3>3. Len(chain) = 1
        BY <3>2
      <3> QED BY <1>5, <3>1, <3>2, <3>3 DEF RebuildDone, Booked
    <2> QED BY <2>1 DEF CoinsInv, HoldsTo
  <1>6. CASE UNCHANGED vars
    BY <1>6 DEF vars, CoinsInv, HoldsTo, Booked
  <1> QED BY <1>1, <1>2, <1>3, <1>4, <1>5, <1>6, MinerSteps DEF MinerStep

(* A node that mines alone books every output of its chain once: its coins *)
(* and debits add up to what the blocks pay.                               *)
THEOREM MinerBooksOnce ==
  ASSUME DistinctIds
  PROVE  PayMiner => []OutputsAreBookedOnce
  <1>1. PayMiner => PayInit /\ [][MinerNext]_allVars
    BY DEF PayMiner, MinerNext
  <1>2. PayInit => CoinsInv
    BY CoinsInit
  <1>3. MinerInv /\ OnceInv /\ CoinsInv /\ [MinerNext]_allVars => CoinsInv'
    BY CoinsInvStep DEF OnceInv
  <1>4. MinerInv /\ CoinsInv => OutputsAreBookedOnce
    <2> SUFFICES ASSUME MinerInv, CoinsInv, lock = "free"
                 PROVE  Value(ledger.utxo) = PaidIn(chain)
      BY DEF OutputsAreBookedOnce, Value, PaidIn
    <2>1. Booked = Len(chain)
      BY DEF MinerInv, MinerLocks, Booked
    <2>2. SubSeq(chain, 1, Len(chain)) = chain
      BY DEF MinerInv, MinerLedger
    <2> QED BY <2>1, <2>2 DEF CoinsInv, HoldsTo
  <1> QED BY <1>1, <1>2, <1>3, <1>4, MinerInvariance, OnceInvariance, PTL
------------------------------------------------------------------------------
(* Sums over parts of a ledger                                             *)

Amounts(utxo, S) == IsFiniteSet(S) /\ \A k \in S : utxo[k].amount \in Int

SameSum(n, u, w) ==
  \A T : /\ Amounts(u, T) /\ Cardinality(T) = n
         /\ \A k \in T : u[k].amount = w[k].amount
         => SumOf(u, T) = SumOf(w, T)

SplitSum(n, u, S) ==
  \A D : Amounts(u, S \cup D) /\ S \cap D = {} /\ IsFiniteSet(D) /\ Cardinality(D) = n =>
    /\ SumOf(u, S \cup D) = SumOf(u, S) + SumOf(u, D)
    /\ (\A k \in D : u[k].amount >= 0) => SumOf(u, D) >= 0
    /\ (\A k \in D : u[k].amount <= 0) => SumOf(u, D) <= 0

SameSums  == INSTANCE Inductions WITH Op <- AddAmount, Holds <- SameSum
SplitSums == INSTANCE Inductions WITH Op <- AddAmount, Holds <- SplitSum

LEMMA SameSumsGrounded == SameSums!Grounded
  BY NatHasLeast DEF SameSums!Grounded

LEMMA SplitSumsGrounded == SplitSums!Grounded
  BY NatHasLeast DEF SplitSums!Grounded

LEMMA SumOfNone ==
  ASSUME NEW utxo
  PROVE  SumOf(utxo, {}) = 0
  BY SumIsTotal, Sums!TotalEmpty

(* A sum depends on the amounts alone.                                     *)
LEMMA SumOfSame ==
  ASSUME NEW u, NEW w, NEW S, Amounts(u, S), \A k \in S : u[k].amount = w[k].amount
  PROVE  SumOf(u, S) = SumOf(w, S)
  <1>1. SameSum(0, u, w)
    <2> SUFFICES ASSUME NEW T, IsFiniteSet(T), Cardinality(T) = 0
                 PROVE  SumOf(u, T) = SumOf(w, T)
      BY DEF SameSum, Amounts
    <2>1. T = {}
      BY FS_EmptySet
    <2> QED BY <2>1, SumOfNone
  <1>2. ASSUME NEW n \in Nat, SameSum(n, u, w) PROVE SameSum(n + 1, u, w)
    <2> SUFFICES ASSUME NEW T, Amounts(u, T), Cardinality(T) = n + 1,
                        \A k \in T : u[k].amount = w[k].amount
                 PROVE  SumOf(u, T) = SumOf(w, T)
      BY DEF SameSum
    <2>1. T # {}
      BY FS_EmptySet
    <2>2. PICK k \in T : TRUE
      BY <2>1
    <2>3. IsFiniteSet(T \ {k}) /\ Cardinality(T \ {k}) = n
      <3>1. IsFiniteSet(T) /\ k \in T
        BY <2>2 DEF Amounts
      <3>2. IsFiniteSet(T \ {k}) /\ Cardinality(T \ {k}) = Cardinality(T) - 1
        BY <3>1, FS_RemoveElement
      <3> QED BY <3>2
    <2>4. SumOf(u, T \ {k}) = SumOf(w, T \ {k})
      BY <1>2, <2>3 DEF SameSum, Amounts
    <2>5. /\ SumOf(u, T) = u[k].amount + SumOf(u, T \ {k})
          /\ SumOf(w, T) = w[k].amount + SumOf(w, T \ {k})
      BY SumOfCoins DEF Amounts
    <2> QED BY <2>4, <2>5
  <1>3. \A n \in Nat : SameSum(n, u, w)
    BY <1>1, <1>2, SameSums!Induction, SameSumsGrounded
  <1>4. Cardinality(S) \in Nat
    BY FS_CardinalityType DEF Amounts
  <1> QED BY <1>3, <1>4 DEF SameSum

(* The sum of a set is that of a part of it and that of the rest, which    *)
(* has a sign when its amounts have one.                                   *)
LEMMA SumOfParts ==
  ASSUME NEW u, NEW S, NEW T, S \subseteq T, Amounts(u, T)
  PROVE  /\ SumOf(u, S) \in Int /\ SumOf(u, T) \in Int
         /\ SumOf(u, T) = SumOf(u, S) + SumOf(u, T \ S) /\ SumOf(u, T \ S) \in Int
         /\ (\A k \in T \ S : u[k].amount >= 0) => SumOf(u, S) <= SumOf(u, T)
         /\ (\A k \in T \ S : u[k].amount <= 0) => SumOf(u, T) <= SumOf(u, S)
  <1>0. Amounts(u, S) /\ Amounts(u, T \ S)
    BY FS_Subset DEF Amounts
  <1>1. SumOf(u, S) \in Int /\ SumOf(u, T) \in Int /\ SumOf(u, T \ S) \in Int
    BY <1>0, SumOfCoins DEF Amounts
  <1>2. SplitSum(0, u, S)
    <2> SUFFICES ASSUME NEW D, IsFiniteSet(D), Cardinality(D) = 0
                 PROVE  /\ SumOf(u, S \cup D) = SumOf(u, S) + SumOf(u, D)
                        /\ SumOf(u, D) = 0
      BY DEF SplitSum, Amounts
    <2>1. D = {} /\ S \cup D = S
      BY FS_EmptySet
    <2> QED BY <1>1, <2>1, SumOfNone
  <1>3. ASSUME NEW n \in Nat, SplitSum(n, u, S) PROVE SplitSum(n + 1, u, S)
    <2> SUFFICES ASSUME NEW D, Amounts(u, S \cup D), S \cap D = {}, IsFiniteSet(D),
                        Cardinality(D) = n + 1
                 PROVE  /\ SumOf(u, S \cup D) = SumOf(u, S) + SumOf(u, D)
                        /\ (\A k \in D : u[k].amount >= 0) => SumOf(u, D) >= 0
                        /\ (\A k \in D : u[k].amount <= 0) => SumOf(u, D) <= 0
      BY DEF SplitSum
    <2>1. D # {}
      BY FS_EmptySet
    <2>2. PICK k \in D : TRUE
      BY <2>1
    <2> DEFINE E == D \ {k}
    <2>3. /\ IsFiniteSet(E) /\ Cardinality(E) = n /\ S \cap E = {}
          /\ (S \cup D) \ {k} = S \cup E /\ Amounts(u, S \cup E) /\ Amounts(u, E) /\ Amounts(u, D)
      <3>1. IsFiniteSet(E) /\ Cardinality(E) = Cardinality(D) - 1
        BY <2>2, FS_RemoveElement
      <3>2. S \cap E = {} /\ (S \cup D) \ {k} = S \cup E
        BY <2>2
      <3>3. IsFiniteSet(S \cup D) /\ S \cup E \subseteq S \cup D /\ E \subseteq S \cup D
        BY DEF Amounts
      <3>4. IsFiniteSet(S \cup E)
        BY <3>3, FS_Subset
      <3>5. Amounts(u, S \cup E) /\ Amounts(u, E) /\ Amounts(u, D)
        BY <3>1, <3>3, <3>4 DEF Amounts
      <3> QED BY <3>1, <3>2, <3>5
    <2>4. /\ SumOf(u, S \cup E) = SumOf(u, S) + SumOf(u, E)
          /\ (\A j \in E : u[j].amount >= 0) => SumOf(u, E) >= 0
          /\ (\A j \in E : u[j].amount <= 0) => SumOf(u, E) <= 0
      BY <1>3, <2>3 DEF SplitSum
    <2>5. /\ SumOf(u, S \cup D) = u[k].amount + SumOf(u, (S \cup D) \ {k})
          /\ SumOf(u, D) = u[k].amount + SumOf(u, E)
          /\ u[k].amount \in Int /\ SumOf(u, E) \in Int
      BY <2>2, <2>3, SumOfCoins DEF Amounts
    <2>6. \A j \in E : j \in D
      OBVIOUS
    <2> HIDE DEF E
    <2>7. SumOf(u, S \cup D) = SumOf(u, S) + SumOf(u, D)
      <3>1. (S \cup D) \ {k} = S \cup E
        BY <2>3
      <3>2. SumOf(u, S \cup D) = u[k].amount + SumOf(u, S \cup E)
        BY <2>5, <3>1
      <3>3. SumOf(u, S) \in Int
        BY <1>1
      <3> QED BY <2>4, <2>5, <3>2, <3>3
    <2>8. (\A j \in D : u[j].amount >= 0) => SumOf(u, D) >= 0
      BY <2>2, <2>4, <2>5, <2>6
    <2>9. (\A j \in D : u[j].amount <= 0) => SumOf(u, D) <= 0
      BY <2>2, <2>4, <2>5, <2>6
    <2> QED BY <2>7, <2>8, <2>9
  <1>4. \A n \in Nat : SplitSum(n, u, S)
    BY <1>2, <1>3, SplitSums!Induction, SplitSumsGrounded
  <1>5. /\ S \cup (T \ S) = T /\ S \cap (T \ S) = {} /\ IsFiniteSet(T \ S)
        /\ Cardinality(T \ S) \in Nat
    BY <1>0, FS_CardinalityType DEF Amounts
  <1>6. /\ SumOf(u, T) = SumOf(u, S) + SumOf(u, T \ S)
        /\ (\A k \in T \ S : u[k].amount >= 0) => SumOf(u, T \ S) >= 0
        /\ (\A k \in T \ S : u[k].amount <= 0) => SumOf(u, T \ S) <= 0
    BY <1>4, <1>5 DEF SplitSum
  <1> QED BY <1>1, <1>6

------------------------------------------------------------------------------
(* What an address has left when all that waits is booked                  *)

DebitKey(tx) == <<tx.id, 2, TRUE>>
DebitKeys(m) == {DebitKey(m[i].tx) : i \in DOMAIN m}
DebitIn(m, k) == m[CHOOSE i \in DOMAIN m : DebitKey(m[i].tx) = k].tx.vout[2]

(* The coins and debits with those of the file that are not booked yet.    *)
Committed(u, m) ==
  [k \in DOMAIN u \cup DebitKeys(m) |-> IF k \in DOMAIN u THEN u[k] ELSE DebitIn(m, k)]

Free(u, m, a) == SumOf(Committed(u, m), Held(Committed(u, m), a))

(* The file: transfers whose ids differ, each with its debit.              *)
GoodFile(m) ==
  /\ m \in Seq(Entry)
  /\ \A i \in DOMAIN m : /\ Len(m[i].tx.vout) = 2 /\ m[i].tx.vout[1].amount >= 0
                         /\ m[i].tx.vout[2].amount <= 0
  /\ \A i, j \in DOMAIN m : m[i].tx.id = m[j].tx.id => i = j

(* All debits are debits of the file.                                      *)
SoundCoins(u, m) ==
  /\ GoodCoins(u)
  /\ \A k \in DOMAIN u : /\ u[k].coinbase => u[k].amount > 0
                         /\ u[k].amount < 0 => k \in DebitKeys(m)
  /\ \A i \in DOMAIN m : DebitKey(m[i].tx) \in DOMAIN u =>
       /\ u[DebitKey(m[i].tx)].address = m[i].tx.vout[2].address
       /\ u[DebitKey(m[i].tx)].amount = m[i].tx.vout[2].amount
  /\ \A id : <<id, 2, TRUE>> \in DOMAIN u => <<id, 2, TRUE>> \in DebitKeys(m)

Legit(tx, m) ==
  \A i \in DOMAIN tx.vout : tx.vout[i].amount < 0 => i = 2 /\ \E j \in DOMAIN m : tx = m[j].tx

LEMMA DebitFacts ==
  ASSUME NEW m, GoodFile(m), NEW i \in DOMAIN m
  PROVE  /\ m[i].tx \in Transfer /\ 2 \in DOMAIN m[i].tx.vout
         /\ m[i].tx.vout[2] \in Output
         /\ m[i].tx.vout[2].address \in Address /\ m[i].tx.vout[2].amount \in Int
         /\ m[i].tx.vout[2].amount <= 0
         /\ DebitIn(m, DebitKey(m[i].tx)) = m[i].tx.vout[2]
  <1>1. m[i] \in Entry
    BY DEF GoodFile
  <1>2. m[i].tx \in Transfer
    BY <1>1 DEF Entry
  <1>3. m[i].tx.vout \in Seq(Output) /\ Len(m[i].tx.vout) = 2 /\ m[i].tx.vout[2].amount <= 0
    BY <1>2 DEF GoodFile, Transfer, Output
  <1>4. 2 \in DOMAIN m[i].tx.vout /\ m[i].tx.vout[2] \in Output
    BY <1>3
  <1>5. DebitIn(m, DebitKey(m[i].tx)) = m[i].tx.vout[2]
    <2> DEFINE c == CHOOSE j \in DOMAIN m : DebitKey(m[j].tx) = DebitKey(m[i].tx)
    <2>1. c \in DOMAIN m /\ DebitKey(m[c].tx) = DebitKey(m[i].tx)
      OBVIOUS
    <2>2. m[c].tx.id = m[i].tx.id
      BY <2>1 DEF DebitKey
    <2>3. c = i
      BY <2>1, <2>2 DEF GoodFile
    <2> QED BY <2>3 DEF DebitIn
  <1> QED BY <1>2, <1>3, <1>4, <1>5 DEF Output

LEMMA CommittedFacts ==
  ASSUME NEW m, GoodFile(m), NEW u, SoundCoins(u, m)
  PROVE  /\ DOMAIN Committed(u, m) = DOMAIN u \cup DebitKeys(m)
         /\ \A k \in DOMAIN u : Committed(u, m)[k] = u[k]
         /\ \A i \in DOMAIN m :
              /\ Committed(u, m)[DebitKey(m[i].tx)].address = m[i].tx.vout[2].address
              /\ Committed(u, m)[DebitKey(m[i].tx)].amount = m[i].tx.vout[2].amount
         /\ Amounts(Committed(u, m), DOMAIN Committed(u, m))
         /\ \A S : S \subseteq DOMAIN Committed(u, m) => Amounts(Committed(u, m), S)
         /\ \A a : Held(Committed(u, m), a) \subseteq DOMAIN Committed(u, m)
         /\ \A k \in DebitKeys(m) : Committed(u, m)[k].amount <= 0
  <1> DEFINE C == Committed(u, m)
  <1>1. DOMAIN C = DOMAIN u \cup DebitKeys(m) /\ \A k \in DOMAIN u : C[k] = u[k]
    BY DEF Committed
  <1>2. ASSUME NEW i \in DOMAIN m
        PROVE  /\ C[DebitKey(m[i].tx)].address = m[i].tx.vout[2].address
               /\ C[DebitKey(m[i].tx)].amount = m[i].tx.vout[2].amount
    <2> DEFINE k == DebitKey(m[i].tx)
    <2>1. CASE k \in DOMAIN u
      <3>1. C[k] = u[k]
        BY <1>1, <2>1
      <3> QED BY <2>1, <3>1 DEF SoundCoins
    <2>2. CASE k \notin DOMAIN u
      <3>1. k \in DebitKeys(m)
        BY DEF DebitKeys
      <3>2. C[k] = m[i].tx.vout[2]
        BY <2>2, <3>1, DebitFacts DEF Committed
      <3> QED BY <3>2
    <2> QED BY <2>1, <2>2
  <1>3. IsFiniteSet(DOMAIN C)
    <2>1. IsFiniteSet(DOMAIN m)
      <3>1. DOMAIN m = 1 .. Len(m) /\ Len(m) \in Int
        BY DEF GoodFile
      <3> QED BY <3>1, FS_Interval
    <2>2. IsFiniteSet(DebitKeys(m))
      <3> DEFINE f == [i \in DOMAIN m |-> DebitKey(m[i].tx)]
      <3>1. f \in Surjection(DOMAIN m, DebitKeys(m))
        BY DEF Surjection, DebitKeys
      <3> QED BY <2>1, <3>1, FS_Surjection
    <2>3. IsFiniteSet(DOMAIN u)
      BY DEF SoundCoins, GoodCoins
    <2>4. IsFiniteSet(DOMAIN u \cup DebitKeys(m))
      BY <2>2, <2>3, FS_Union
    <2> QED BY <1>1, <2>4
  <1>4. \A k \in DOMAIN u : C[k].amount \in Int
    BY <1>1 DEF SoundCoins, GoodCoins, CoinType
  <1>5. \A k \in DebitKeys(m) : C[k].amount \in Int /\ C[k].amount <= 0
    BY <1>2, DebitFacts DEF DebitKeys
  <1>6. \A S : S \subseteq DOMAIN C => Amounts(C, S)
    BY <1>1, <1>3, <1>4, <1>5, FS_Subset DEF Amounts
  <1>7. \A a : Held(C, a) \subseteq DOMAIN C
    BY DEF Held
  <1> HIDE DEF C
  <1> QED BY <1>1, <1>2, <1>5, <1>6, <1>7 DEF C

LEMMA SameHeld ==
  ASSUME NEW u, NEW w, NEW a, DOMAIN u = DOMAIN w, Amounts(u, DOMAIN u),
         \A k \in DOMAIN u : u[k].address = w[k].address /\ u[k].amount = w[k].amount
  PROVE  SumOf(u, Held(u, a)) = SumOf(w, Held(w, a))
  <1>1. Held(u, a) = Held(w, a) /\ Held(u, a) \subseteq DOMAIN u
    BY DEF Held
  <1>2. Amounts(u, Held(u, a)) /\ \A k \in Held(u, a) : u[k].amount = w[k].amount
    BY <1>1, FS_Subset DEF Amounts
  <1> QED BY <1>1, <1>2, SumOfSame

(* Booking an output takes nothing from what any address has left.         *)
LEMMA OutputGrows ==
  ASSUME NEW m, GoodFile(m), NEW l, GoodLedger(l), SoundCoins(l.utxo, m),
         NEW tx \in Tx, Legit(tx, m), NEW i \in DOMAIN tx.vout, NEW h \in Int
  PROVE  /\ SoundCoins(UpdateOutput(l, tx, i, h).utxo, m)
         /\ \A a : /\ Free(l.utxo, m, a) \in Int
                   /\ Free(UpdateOutput(l, tx, i, h).utxo, m, a) \in Int
                   /\ Free(UpdateOutput(l, tx, i, h).utxo, m, a) >= Free(l.utxo, m, a)
  <1> DEFINE out  == tx.vout[i]
             key  == <<tx.id, i, out.amount < 0>>
             coin == Coin(tx, i, h)
             u    == l.utxo
             w    == Put(u, key, coin)
             new  == UpdateOutput(l, tx, i, h)
             C    == Committed(u, m)
             D    == Committed(w, m)
  <1>1. out.address \in Address /\ out.amount \in Int
    <2>1. out \in Output
      BY DEF Tx
    <2> QED BY <2>1 DEF Output
  <1>2. /\ coin \in CoinType /\ coin.address = out.address /\ coin.amount = out.amount
        /\ coin.coinbase => out.amount > 0
    BY <1>1 DEF Coin, CoinType, Tx
  <1>3. GoodCoins(w)
    BY <1>2, PutGood DEF GoodLedger
  <1>4. /\ DOMAIN w = DOMAIN u \cup {key} /\ w[key] = coin
        /\ \A k \in DOMAIN u : k # key => w[k] = u[k]
    BY DEF Put
  <1>5. \/ new = l
        \/ out.amount > 0 /\ key \notin DOMAIN u /\ new.utxo = w
        \/ out.amount < 0 /\ new.utxo = w
    BY <1>1 DEF UpdateOutput, Enter
  <1>6. ASSUME NEW a PROVE Free(u, m, a) \in Int
    BY CommittedFacts, SumOfCoins DEF Free, Amounts
  <1>7. CASE new = l
    BY <1>6, <1>7
  <1>8. CASE out.amount > 0 /\ key \notin DOMAIN u /\ new.utxo = w
    <2>1. (out.amount < 0) = FALSE
      BY <1>1, <1>8
    <2>2. key = <<tx.id, i, FALSE>>
      BY <2>1
    <2>3. \A id : key # <<id, 2, TRUE>>
      BY <2>2
    <2>4. key \notin DebitKeys(m)
      BY <2>3 DEF DebitKeys, DebitKey
    <2> HIDE DEF key, coin, w, out, u
    <2>5. SoundCoins(w, m)
      <3>1. \A k \in DOMAIN w : /\ w[k].coinbase => w[k].amount > 0
                                /\ w[k].amount < 0 => k \in DebitKeys(m)
        BY <1>1, <1>2, <1>4, <1>8 DEF SoundCoins, u
      <3>2. \A j \in DOMAIN m : DebitKey(m[j].tx) \in DOMAIN w =>
              /\ w[DebitKey(m[j].tx)].address = m[j].tx.vout[2].address
              /\ w[DebitKey(m[j].tx)].amount = m[j].tx.vout[2].amount
        <4> SUFFICES ASSUME NEW j \in DOMAIN m, DebitKey(m[j].tx) \in DOMAIN w
                     PROVE  /\ w[DebitKey(m[j].tx)].address = m[j].tx.vout[2].address
                            /\ w[DebitKey(m[j].tx)].amount = m[j].tx.vout[2].amount
          OBVIOUS
        <4>1. DebitKey(m[j].tx) # key
          BY <2>3 DEF DebitKey
        <4>2. DebitKey(m[j].tx) \in DOMAIN u /\ w[DebitKey(m[j].tx)] = u[DebitKey(m[j].tx)]
          BY <1>4, <4>1
        <4> QED BY <4>2 DEF SoundCoins, u
      <3>3. \A id : <<id, 2, TRUE>> \in DOMAIN w => <<id, 2, TRUE>> \in DebitKeys(m)
        BY <1>4, <2>3 DEF SoundCoins, u
      <3> QED BY <1>3, <3>1, <3>2, <3>3 DEF SoundCoins
    <2>6. /\ DOMAIN C = DOMAIN u \cup DebitKeys(m) /\ DOMAIN D = DOMAIN w \cup DebitKeys(m)
          /\ Amounts(C, DOMAIN C) /\ Amounts(D, DOMAIN D)
          /\ \A k \in DOMAIN u : C[k] = u[k]
          /\ \A k \in DOMAIN w : D[k] = w[k]
      BY <2>5, CommittedFacts DEF u
    <2>7. key \notin DOMAIN C /\ D[key] = coin /\ DOMAIN D = DOMAIN C \cup {key}
      BY <1>4, <1>8, <2>4, <2>6
    <2>8. \A k \in DOMAIN C : D[k] = C[k]
      BY <1>4, <1>8, <2>4, <2>6 DEF Committed
    <2> HIDE DEF C, D
    <2>9. ASSUME NEW a
          PROVE  SumOf(D, Held(D, a)) \in Int /\ SumOf(D, Held(D, a)) >= SumOf(C, Held(C, a))
      <3>1. Held(C, a) \subseteq Held(D, a) /\ Held(D, a) \subseteq DOMAIN D
            /\ Held(D, a) \ Held(C, a) \subseteq {key}
        BY <2>7, <2>8 DEF Held
      <3>2. Amounts(D, Held(D, a)) /\ Amounts(C, Held(C, a))
        <4>1. Held(C, a) \subseteq DOMAIN C
          BY DEF Held
        <4> QED BY <2>6, <3>1, <4>1, FS_Subset DEF Amounts
      <3>3. SumOf(C, Held(C, a)) = SumOf(D, Held(C, a))
        <4>1. \A k \in Held(C, a) : C[k].amount = D[k].amount
          BY <2>8 DEF Held
        <4> QED BY <3>2, <4>1, SumOfSame
      <3>4. \A k \in Held(D, a) \ Held(C, a) : D[k].amount >= 0
        BY <1>1, <1>2, <1>8, <2>7, <3>1
      <3> QED BY <3>1, <3>2, <3>3, <3>4, SumOfParts
    <2> QED BY <1>6, <1>8, <2>5, <2>9 DEF Free, C, D, u
  <1>9. CASE out.amount < 0 /\ new.utxo = w
    <2>1. (out.amount < 0) = TRUE
      BY <1>1, <1>9
    <2>2. PICK j \in DOMAIN m : i = 2 /\ tx = m[j].tx
      BY <1>9 DEF Legit
    <2>3. key = DebitKey(m[j].tx) /\ out = m[j].tx.vout[2]
      BY <2>1, <2>2 DEF DebitKey
    <2>4. key \in DebitKeys(m)
      BY <2>3 DEF DebitKeys
    <2>5. \A k \in DOMAIN u : k = key => u[k].address = out.address /\ u[k].amount = out.amount
      BY <2>3 DEF SoundCoins
    <2> HIDE DEF key, coin, w, out, u
    <2>6. SoundCoins(w, m)
      <3>1. \A k \in DOMAIN w : /\ w[k].coinbase => w[k].amount > 0
                                /\ w[k].amount < 0 => k \in DebitKeys(m)
        BY <1>1, <1>2, <1>4, <1>9, <2>4 DEF SoundCoins, u
      <3>2. \A p \in DOMAIN m : DebitKey(m[p].tx) \in DOMAIN w =>
              /\ w[DebitKey(m[p].tx)].address = m[p].tx.vout[2].address
              /\ w[DebitKey(m[p].tx)].amount = m[p].tx.vout[2].amount
        <4> SUFFICES ASSUME NEW p \in DOMAIN m, DebitKey(m[p].tx) \in DOMAIN w
                     PROVE  /\ w[DebitKey(m[p].tx)].address = m[p].tx.vout[2].address
                            /\ w[DebitKey(m[p].tx)].amount = m[p].tx.vout[2].amount
          OBVIOUS
        <4>1. CASE DebitKey(m[p].tx) # key
          <5>1. DebitKey(m[p].tx) \in DOMAIN u /\ w[DebitKey(m[p].tx)] = u[DebitKey(m[p].tx)]
            BY <1>4, <4>1
          <5> QED BY <5>1 DEF SoundCoins, u
        <4>2. CASE DebitKey(m[p].tx) = key
          <5>1. m[p].tx.id = m[j].tx.id
            BY <2>3, <4>2 DEF DebitKey
          <5>2. p = j
            BY <5>1 DEF GoodFile
          <5> QED BY <1>2, <1>4, <2>3, <4>2, <5>2
        <4> QED BY <4>1, <4>2
      <3>3. \A id : <<id, 2, TRUE>> \in DOMAIN w => <<id, 2, TRUE>> \in DebitKeys(m)
        BY <1>4, <2>4 DEF SoundCoins, u
      <3> QED BY <1>3, <3>1, <3>2, <3>3 DEF SoundCoins
    <2>7. /\ DOMAIN C = DOMAIN u \cup DebitKeys(m) /\ DOMAIN D = DOMAIN w \cup DebitKeys(m)
          /\ Amounts(C, DOMAIN C)
          /\ \A k \in DOMAIN u : C[k] = u[k]
          /\ \A k \in DOMAIN w : D[k] = w[k]
          /\ C[key].address = out.address /\ C[key].amount = out.amount
      <3>1. SoundCoins(u, m)
        BY DEF u
      <3>2. /\ DOMAIN D = DOMAIN w \cup DebitKeys(m) /\ \A k \in DOMAIN w : D[k] = w[k]
        BY <2>6, CommittedFacts
      <3>3. /\ DOMAIN C = DOMAIN u \cup DebitKeys(m) /\ Amounts(C, DOMAIN C)
            /\ \A k \in DOMAIN u : C[k] = u[k]
        BY <3>1, CommittedFacts
      <3>4. /\ C[DebitKey(m[j].tx)].address = m[j].tx.vout[2].address
            /\ C[DebitKey(m[j].tx)].amount = m[j].tx.vout[2].amount
        <4>1. \A q \in DOMAIN m :
                /\ Committed(u, m)[DebitKey(m[q].tx)].address = m[q].tx.vout[2].address
                /\ Committed(u, m)[DebitKey(m[q].tx)].amount = m[q].tx.vout[2].amount
          BY <3>1, CommittedFacts
        <4> QED BY <4>1
      <3> HIDE DEF C, D
      <3> QED BY <2>3, <3>2, <3>3, <3>4
    <2>8. DOMAIN C = DOMAIN D
      BY <1>4, <2>4, <2>7
    <2>9. \A k \in DOMAIN C : C[k].address = D[k].address /\ C[k].amount = D[k].amount
      <3> SUFFICES ASSUME NEW k \in DOMAIN C
                   PROVE  C[k].address = D[k].address /\ C[k].amount = D[k].amount
        OBVIOUS
      <3>1. CASE k = key
        BY <1>2, <1>4, <2>7, <3>1
      <3>2. CASE k # key /\ k \in DOMAIN u
        BY <1>4, <2>7, <3>2
      <3>3. CASE k # key /\ k \notin DOMAIN u
        BY <1>4, <2>7, <3>3 DEF Committed
      <3> QED BY <3>1, <3>2, <3>3
    <2> HIDE DEF C, D
    <2>10. \A a : SumOf(C, Held(C, a)) = SumOf(D, Held(D, a))
      BY <2>7, <2>8, <2>9, SameHeld
    <2> QED BY <1>6, <1>9, <2>6, <2>10 DEF Free, C, D, u
  <1> QED BY <1>5, <1>7, <1>8, <1>9

GrownFrom(acc, n, u) ==
  /\ GoodLedger(acc) /\ SoundCoins(acc.utxo, u.m)
  /\ \A a : /\ Free(u.l.utxo, u.m, a) \in Int /\ Free(acc.utxo, u.m, a) \in Int
            /\ Free(acc.utxo, u.m, a) >= Free(u.l.utxo, u.m, a)

GrowOuts == INSTANCE Inductions WITH Op <- OutStep, Holds <- GrownFrom
GrowTxs  == INSTANCE Inductions WITH Op <- TxStep, Holds <- GrownFrom

LEMMA GrowOutsGrounded == GrowOuts!Grounded
  BY NatHasLeast DEF GrowOuts!Grounded

LEMMA GrowTxsGrounded == GrowTxs!Grounded
  BY NatHasLeast DEF GrowTxs!Grounded

LEMMA FreeType ==
  ASSUME NEW m, GoodFile(m), NEW u, SoundCoins(u, m), NEW a
  PROVE  Free(u, m, a) \in Int
  BY CommittedFacts, SumOfCoins DEF Free, Amounts

LEMMA UpdateGrows ==
  ASSUME NEW m, GoodFile(m), NEW l, GoodLedger(l), SoundCoins(l.utxo, m),
         NEW tx \in Tx, Legit(tx, m), NEW h \in Int
  PROVE  GrownFrom(Update(l, tx, h), 0, [l |-> l, m |-> m])
  <1> DEFINE s == [i \in DOMAIN tx.vout |-> i]
             u == [l |-> l, m |-> m]
  <1>1. /\ s \in Seq(DOMAIN tx.vout) /\ Len(s) = Len(tx.vout)
        /\ \A i \in 1 .. Len(s) : s[i] \in DOMAIN tx.vout
    BY DEF Tx
  <1>2. GrownFrom(l, 0, u)
    BY FreeType DEF GrownFrom
  <1>3. ASSUME NEW i \in 1 .. Len(s), NEW acc, GrownFrom(acc, i - 1, u)
        PROVE  GrownFrom(OutStep(acc, s[i], tx, h), i, u)
    <2>1. /\ GoodLedger(acc) /\ SoundCoins(acc.utxo, m)
          /\ \A a : /\ Free(l.utxo, m, a) \in Int /\ Free(acc.utxo, m, a) \in Int
                    /\ Free(acc.utxo, m, a) >= Free(l.utxo, m, a)
      BY <1>3 DEF GrownFrom
    <2> DEFINE b == UpdateOutput(acc, tx, s[i], h)
    <2>2. /\ GoodLedger(b) /\ SoundCoins(b.utxo, m)
          /\ \A a : Free(b.utxo, m, a) \in Int /\ Free(b.utxo, m, a) >= Free(acc.utxo, m, a)
      BY <1>1, <2>1, OutputGrows, UpdateOutputType
    <2> HIDE DEF b
    <2>3. \A a : Free(b.utxo, m, a) >= Free(l.utxo, m, a)
      BY <2>1, <2>2
    <2>4. GrownFrom(b, i, u)
      BY <2>1, <2>2, <2>3 DEF GrownFrom
    <2> QED BY <2>4 DEF OutStep, b
  <1> HIDE DEF s
  <1>4. GrownFrom(GrowOuts!Fold(l, s, tx, h), Len(s), u)
    <2> HIDE DEF u
    <2> QED BY <1>1, <1>2, <1>3, GrowOuts!FoldInduction, GrowOutsGrounded
  <1>5. Update(l, tx, h) = GrowOuts!Fold(l, s, tx, h)
    BY DEF Update, FoldLeftDomain, GrowOuts!Fold, FoldLeft, MapThenFoldSet,
           GrowOuts!MapThenFoldSet, Max, GrowOuts!Greatest, OutStep, s
  <1> QED BY <1>4, <1>5 DEF GrownFrom

LEMMA BookGrows ==
  ASSUME NEW m, GoodFile(m), NEW l, GoodLedger(l), SoundCoins(l.utxo, m),
         NEW txs \in Body, \A i \in DOMAIN txs : Legit(txs[i], m), NEW h \in Int
  PROVE  GrownFrom(Book(l, txs, h), 0, [l |-> l, m |-> m])
  <1> DEFINE u == [l |-> l, m |-> m]
  <1>1. txs \in Seq(Tx) /\ \A i \in 1 .. Len(txs) : txs[i] \in Tx /\ Legit(txs[i], m)
    BY DEF Body
  <1>2. GrownFrom(l, 0, u)
    BY FreeType DEF GrownFrom
  <1>3. ASSUME NEW i \in 1 .. Len(txs), NEW acc, GrownFrom(acc, i - 1, u)
        PROVE  GrownFrom(TxStep(acc, txs[i], h, 0), i, u)
    <2>1. /\ GoodLedger(acc) /\ SoundCoins(acc.utxo, m)
          /\ \A a : /\ Free(l.utxo, m, a) \in Int /\ Free(acc.utxo, m, a) \in Int
                    /\ Free(acc.utxo, m, a) >= Free(l.utxo, m, a)
      BY <1>3 DEF GrownFrom
    <2> DEFINE b == Update(acc, txs[i], h)
    <2>2. GrownFrom(b, 0, [l |-> acc, m |-> m])
      BY <1>1, <2>1, UpdateGrows
    <2> HIDE DEF b
    <2>3. /\ GoodLedger(b) /\ SoundCoins(b.utxo, m)
          /\ \A a : Free(b.utxo, m, a) \in Int /\ Free(b.utxo, m, a) >= Free(acc.utxo, m, a)
      BY <2>2 DEF GrownFrom
    <2>4. \A a : Free(b.utxo, m, a) >= Free(l.utxo, m, a)
      BY <2>1, <2>3
    <2>5. GrownFrom(b, i, u)
      BY <2>1, <2>3, <2>4 DEF GrownFrom
    <2> QED BY <2>5 DEF TxStep, b
  <1>4. GrownFrom(GrowTxs!Fold(l, txs, h, 0), Len(txs), u)
    <2> HIDE DEF u
    <2> QED BY <1>1, <1>2, <1>3, GrowTxs!FoldInduction, GrowTxsGrounded
  <1>5. Book(l, txs, h) = GrowTxs!Fold(l, txs, h, 0)
    BY DEF Book, GrowTxs!Fold, FoldLeft, MapThenFoldSet,
           GrowTxs!MapThenFoldSet, Max, GrowTxs!Greatest, TxStep
  <1> QED BY <1>4, <1>5 DEF GrownFrom

------------------------------------------------------------------------------
(* What the audit compares                                                 *)

(* An address has no less than the balance the audit reads: coins too      *)
(* young to count are coins all the same.                                  *)
LEMMA BalanceIsCovered ==
  ASSUME NEW m, NEW u, SoundCoins(u, m), NEW a, NEW h
  PROVE  \/ GetBalance(u, a, h) = 0
         \/ GetBalance(u, a, h) <= SumOf(u, Held(u, a))
  <1> DEFINE S == {k \in Held(u, a) : u[k].coinbase => h - u[k].height >= Maturity}
  <1>1. S \subseteq Held(u, a) /\ Held(u, a) \subseteq DOMAIN u
    BY DEF Held
  <1>2. Amounts(u, Held(u, a))
    BY <1>1, FS_Subset DEF Amounts, SoundCoins, GoodCoins, CoinType
  <1>3. \A k \in Held(u, a) \ S : u[k].amount >= 0
    <2> SUFFICES ASSUME NEW k \in Held(u, a) \ S PROVE u[k].amount >= 0
      OBVIOUS
    <2>1. u[k].coinbase \in BOOLEAN /\ u[k].amount \in Int /\ k \in DOMAIN u
      BY <1>1 DEF SoundCoins, GoodCoins, CoinType
    <2>2. u[k].coinbase
      OBVIOUS
    <2> QED BY <2>1, <2>2 DEF SoundCoins
  <1> HIDE DEF S
  <1>4. SumOf(u, S) <= SumOf(u, Held(u, a)) /\ SumOf(u, S) \in Int
    BY <1>1, <1>2, <1>3, SumOfParts
  <1> QED BY <1>4 DEF GetBalance, FloorAtZero, S

AuditStep(sum, e, a, q) ==
  sum + IF Len(e.tx.vout) >= 2 /\ e.tx.vout[2].address = a
        THEN (IF e.tx.vout[2].amount < 0 THEN -e.tx.vout[2].amount ELSE e.tx.vout[2].amount)
        ELSE 0

(* The keys of a in the ledger and among the first n of the file.          *)
KeysTo(u, m, a, n) ==
  Held(u, a) \cup {DebitKey(m[i].tx) : i \in {j \in 1 .. n : m[j].tx.vout[2].address = a}}

AuditedTo(acc, n, p) ==
  /\ acc \in Nat
  /\ SumOf(Committed(p.u, p.m), KeysTo(p.u, p.m, p.a, n)) >= SumOf(p.u, Held(p.u, p.a)) - acc

Audits == INSTANCE Inductions WITH Op <- AuditStep, Holds <- AuditedTo

LEMMA AuditsGrounded == Audits!Grounded
  BY NatHasLeast DEF Audits!Grounded

(* The debits that wait, booked or not, are all an address has less than   *)
(* its coins and debits add up to.                                         *)
LEMMA AuditCovers ==
  ASSUME GoodFile(mempool), NEW u, SoundCoins(u, mempool), NEW a
  PROVE  /\ PendingSpent(mempool, a) \in Nat /\ SumOf(u, Held(u, a)) \in Int
         /\ Free(u, mempool, a) >= SumOf(u, Held(u, a)) - PendingSpent(mempool, a)
         /\ Free(u, mempool, a) <= SumOf(u, Held(u, a))
  <1> DEFINE m == mempool
             p == [u |-> u, m |-> m, a |-> a]
             C == Committed(u, m)
  <1>0. /\ m \in Seq(Entry) /\ DOMAIN m = 1 .. Len(m) /\ Len(m) \in Nat
    BY DEF GoodFile
  <1>1. /\ DOMAIN C = DOMAIN u \cup DebitKeys(m) /\ \A k \in DOMAIN u : C[k] = u[k]
        /\ \A S : S \subseteq DOMAIN C => Amounts(C, S)
        /\ \A i \in DOMAIN m : /\ C[DebitKey(m[i].tx)].address = m[i].tx.vout[2].address
                               /\ C[DebitKey(m[i].tx)].amount = m[i].tx.vout[2].amount
        /\ \A k \in DebitKeys(m) : C[k].amount <= 0
    BY CommittedFacts
  <1> HIDE DEF C
  <1>2. Held(u, a) \subseteq DOMAIN u /\ \A n \in 0 .. Len(m) : KeysTo(u, m, a, n) \subseteq DOMAIN C
    BY <1>0, <1>1 DEF Held, KeysTo, DebitKeys
  <1>3. SumOf(C, Held(u, a)) = SumOf(u, Held(u, a)) /\ SumOf(u, Held(u, a)) \in Int
    <2>1. Amounts(C, Held(u, a)) /\ \A k \in Held(u, a) : C[k].amount = u[k].amount
      BY <1>1, <1>2
    <2> QED BY <2>1, SumOfSame, SumOfCoins DEF Amounts
  <1>4. AuditedTo(0, 0, p)
    <2>1. KeysTo(u, m, a, 0) = Held(u, a)
      BY DEF KeysTo
    <2> QED BY <1>3, <2>1 DEF AuditedTo, C
  <1>5. ASSUME NEW i \in 1 .. Len(m), NEW acc, AuditedTo(acc, i - 1, p)
        PROVE  AuditedTo(AuditStep(acc, m[i], a, 0), i, p)
    <2> DEFINE S == KeysTo(u, m, a, i - 1)
               T == KeysTo(u, m, a, i)
               k == DebitKey(m[i].tx)
               d == m[i].tx.vout[2]
    <2>1. acc \in Nat /\ SumOf(C, S) >= SumOf(u, Held(u, a)) - acc
      BY <1>5 DEF AuditedTo, C
    <2>2. i - 1 \in 0 .. Len(m) /\ i \in 0 .. Len(m) /\ i \in DOMAIN m
      BY <1>0
    <2>3. d.amount \in Int /\ d.amount <= 0 /\ Len(m[i].tx.vout) = 2
      BY <2>2, DebitFacts DEF GoodFile
    <2>4. Amounts(C, T) /\ SumOf(C, S) \in Int
      BY <1>1, <1>2, <2>2, SumOfCoins DEF Amounts
    <2>5. S \subseteq T
      BY <2>2 DEF KeysTo
    <2>6. CASE d.address # a
      <3>1. T = S
        BY <2>2, <2>6 DEF KeysTo
      <3>2. AuditStep(acc, m[i], a, 0) = acc
        BY <2>1, <2>6 DEF AuditStep
      <3> QED BY <2>1, <3>1, <3>2 DEF AuditedTo, C
    <2>7. CASE d.address = a
      <3>1. AuditStep(acc, m[i], a, 0) = acc + (-d.amount)
        <4> HIDE DEF d
        <4>1. AuditStep(acc, m[i], a, 0) = acc + (IF d.amount < 0 THEN -d.amount ELSE d.amount)
          BY <2>3, <2>7 DEF AuditStep, d
        <4> QED BY <2>1, <2>3, <4>1
      <3>2. T \ S \subseteq {k}
        BY <2>2 DEF KeysTo
      <3>3. SumOf(C, T) = SumOf(C, S) + SumOf(C, T \ S)
        BY <2>4, <2>5, SumOfParts
      <3>4. SumOf(C, T \ S) >= d.amount
        <4>1. CASE T \ S = {}
          BY <2>3, <4>1, SumOfNone
        <4>2. CASE T \ S = {k}
          <5>1. Amounts(C, {k}) /\ {k} \ {k} = {}
            BY <2>4, <4>2, FS_Subset DEF Amounts
          <5>2. SumOf(C, {k}) = C[k].amount + SumOf(C, {})
            BY <5>1, SumOfCoins DEF Amounts
          <5>3. C[k].amount = d.amount
            BY <1>1, <2>2
          <5>4. SumOf(C, {}) = 0
            BY SumOfNone
          <5>5. SumOf(C, T \ S) = SumOf(C, {k})
            BY <4>2
          <5> HIDE DEF k, d, S, T
          <5> QED BY <2>3, <5>2, <5>3, <5>4, <5>5
        <4> QED BY <3>2, <4>1, <4>2
      <3>5. SumOf(C, T \ S) \in Int
        BY <2>4, <2>5, SumOfParts
      <3> HIDE DEF S, T, d
      <3>6. SumOf(C, T) >= SumOf(u, Held(u, a)) - (acc + (-d.amount)) /\ acc + (-d.amount) \in Nat
        BY <1>3, <2>1, <2>3, <2>4, <3>3, <3>4, <3>5, SMTT(20)
      <3> QED BY <3>1, <3>6 DEF AuditedTo, C, T
    <2> QED BY <2>6, <2>7
  <1>6. AuditedTo(Audits!Fold(0, m, a, 0), Len(m), p)
    <2> HIDE DEF p
    <2> QED BY <1>0, <1>4, <1>5, Audits!FoldInduction, AuditsGrounded
  <1>7. PendingSpent(mempool, a) = Audits!Fold(0, m, a, 0)
    BY DEF PendingSpent, Audits!Fold, FoldLeft, MapThenFoldSet,
           Audits!MapThenFoldSet, Max, Audits!Greatest, AuditStep
  <1>8. KeysTo(u, m, a, Len(m)) = Held(C, a)
    BY <1>0, <1>1 DEF KeysTo, Held, DebitKeys
  <1>9. Free(u, m, a) <= SumOf(u, Held(u, a))
    <2>1. Held(u, a) \subseteq Held(C, a) /\ Held(C, a) \subseteq DOMAIN C
          /\ Held(C, a) \ Held(u, a) \subseteq DebitKeys(m)
      BY <1>1 DEF Held
    <2>2. Amounts(C, Held(C, a))
      BY <1>1, <2>1
    <2>3. SumOf(C, Held(C, a)) <= SumOf(C, Held(u, a))
      BY <1>1, <2>1, <2>2, SumOfParts
    <2> QED BY <1>3, <2>3 DEF Free, C
  <1> QED BY <1>3, <1>6, <1>7, <1>8, <1>9 DEF AuditedTo, Free, C

------------------------------------------------------------------------------
(* A payment that is appended to the file                                  *)

LEMMA FileGrows ==
  ASSUME NEW m, GoodFile(m), NEW e, GoodFile(Append(m, e)), NEW u, SoundCoins(u, m),
         DebitKey(e.tx) \notin DOMAIN u, e \in Entry
  PROVE  /\ SoundCoins(u, Append(m, e))
         /\ \A a : Free(u, Append(m, e), a)
                     = Free(u, m, a) + IF e.tx.vout[2].address = a THEN e.tx.vout[2].amount ELSE 0
  <1> DEFINE mm  == Append(m, e)
             n   == Len(m) + 1
             key == DebitKey(e.tx)
             C   == Committed(u, m)
             D   == Committed(u, mm)
  <1>0. /\ m \in Seq(Entry) /\ Len(m) \in Nat /\ DOMAIN m = 1 .. Len(m)
        /\ DOMAIN mm = 1 .. n /\ n \in DOMAIN mm /\ mm[n] = e
        /\ \A i \in DOMAIN m : i \in DOMAIN mm /\ mm[i] = m[i] /\ i # n
        /\ \A i \in DOMAIN mm : i = n \/ i \in DOMAIN m
    BY DEF GoodFile
  <1> HIDE DEF mm, n
  <1>1. DebitKeys(mm) = DebitKeys(m) \cup {key} /\ key \notin DebitKeys(m)
    <2>1. ASSUME NEW i \in DOMAIN m PROVE DebitKey(m[i].tx) # key
      <3> SUFFICES ASSUME DebitKey(m[i].tx) = key PROVE FALSE
        OBVIOUS
      <3>1. m[i].tx.id = e.tx.id
        BY DEF DebitKey
      <3>2. mm[i].tx.id = mm[n].tx.id
        BY <1>0, <3>1
      <3>3. i = n
        BY <1>0, <3>2 DEF GoodFile, mm
      <3> QED BY <1>0, <3>3
    <2> HIDE DEF key
    <2>2. DebitKeys(m) \cup {key} \subseteq DebitKeys(mm)
      BY <1>0 DEF DebitKeys, key
    <2>3. DebitKeys(mm) \subseteq DebitKeys(m) \cup {key}
      BY <1>0 DEF DebitKeys, key
    <2> QED BY <2>1, <2>2, <2>3 DEF DebitKeys
  <1>2. SoundCoins(u, mm)
    <2>1. \A k \in DOMAIN u : u[k].amount < 0 => k \in DebitKeys(mm)
      BY <1>1 DEF SoundCoins
    <2>2. \A id : <<id, 2, TRUE>> \in DOMAIN u => <<id, 2, TRUE>> \in DebitKeys(mm)
      BY <1>1 DEF SoundCoins
    <2>3. ASSUME NEW i \in DOMAIN mm, DebitKey(mm[i].tx) \in DOMAIN u
          PROVE  /\ u[DebitKey(mm[i].tx)].address = mm[i].tx.vout[2].address
                 /\ u[DebitKey(mm[i].tx)].amount = mm[i].tx.vout[2].amount
      <3>1. i # n
        BY <1>0, <2>3
      <3>2. i \in DOMAIN m /\ mm[i] = m[i]
        BY <1>0, <3>1
      <3>3. DebitKey(m[i].tx) \in DOMAIN u
        BY <2>3, <3>2
      <3> QED BY <3>2, <3>3 DEF SoundCoins
    <2> QED BY <2>1, <2>2, <2>3 DEF SoundCoins
  <1>3. /\ DOMAIN C = DOMAIN u \cup DebitKeys(m) /\ \A k \in DOMAIN u : C[k] = u[k]
        /\ Amounts(C, DOMAIN C)
        /\ \A i \in DOMAIN m : /\ C[DebitKey(m[i].tx)].address = m[i].tx.vout[2].address
                               /\ C[DebitKey(m[i].tx)].amount = m[i].tx.vout[2].amount
    BY CommittedFacts
  <1>4. /\ DOMAIN D = DOMAIN u \cup DebitKeys(mm) /\ \A k \in DOMAIN u : D[k] = u[k]
        /\ Amounts(D, DOMAIN D)
        /\ \A i \in DOMAIN mm : /\ D[DebitKey(mm[i].tx)].address = mm[i].tx.vout[2].address
                                /\ D[DebitKey(mm[i].tx)].amount = mm[i].tx.vout[2].amount
    <2>1. GoodFile(mm)
      BY DEF mm
    <2> QED BY <1>2, <2>1, CommittedFacts
  <1> HIDE DEF C, D
  <1>5. /\ DOMAIN D = DOMAIN C \cup {key} /\ key \notin DOMAIN C
        /\ D[key].address = e.tx.vout[2].address /\ D[key].amount = e.tx.vout[2].amount
    BY <1>0, <1>1, <1>3, <1>4
  <1>6. ASSUME NEW k \in DOMAIN C
        PROVE  C[k].address = D[k].address /\ C[k].amount = D[k].amount
    <2>1. CASE k \in DOMAIN u
      BY <1>3, <1>4, <2>1
    <2>2. CASE k \in DebitKeys(m)
      <3>1. PICK i \in DOMAIN m : k = DebitKey(m[i].tx)
        BY <2>2 DEF DebitKeys
      <3>2. i \in DOMAIN mm /\ mm[i] = m[i]
        BY <1>0
      <3>3. C[k].address = m[i].tx.vout[2].address /\ C[k].amount = m[i].tx.vout[2].amount
        BY <1>3, <3>1
      <3>4. D[k].address = m[i].tx.vout[2].address /\ D[k].amount = m[i].tx.vout[2].amount
        BY <1>4, <3>1, <3>2
      <3> QED BY <3>3, <3>4
    <2> QED BY <1>3, <2>1, <2>2
  <1>7. ASSUME NEW a
        PROVE  SumOf(D, Held(D, a))
                 = SumOf(C, Held(C, a)) + IF e.tx.vout[2].address = a THEN e.tx.vout[2].amount ELSE 0
    <2> HIDE DEF key
    <2>1. Held(C, a) \subseteq DOMAIN C /\ Held(D, a) \subseteq DOMAIN D
      BY DEF Held
    <2>2. Amounts(C, Held(C, a)) /\ Amounts(D, Held(D, a)) /\ Amounts(D, Held(C, a))
      <3>1. Held(C, a) \subseteq DOMAIN D
        BY <1>5, <2>1
      <3> QED BY <1>3, <1>4, <2>1, <3>1, FS_Subset DEF Amounts
    <2>3. SumOf(D, Held(C, a)) = SumOf(C, Held(C, a)) /\ SumOf(C, Held(C, a)) \in Int
      <3>1. \A k \in Held(C, a) : C[k].amount = D[k].amount
        BY <1>6, <2>1
      <3> QED BY <2>2, <3>1, SumOfSame, SumOfCoins DEF Amounts
    <2>4. CASE e.tx.vout[2].address = a
      <3>1. Held(D, a) = Held(C, a) \cup {key} /\ key \notin Held(C, a)
        BY <1>5, <1>6, <2>4 DEF Held
      <3>2. Held(D, a) \ {key} = Held(C, a) /\ key \in Held(D, a)
        BY <3>1
      <3>3. SumOf(D, Held(D, a)) = D[key].amount + SumOf(D, Held(D, a) \ {key})
            /\ D[key].amount \in Int
        BY <2>2, <3>2, SumOfCoins DEF Amounts
      <3>4. SumOf(D, Held(D, a)) = D[key].amount + SumOf(C, Held(C, a))
        BY <2>3, <3>2, <3>3
      <3>5. e.tx.vout[2].amount \in Int /\ D[key].amount = e.tx.vout[2].amount
        BY <1>5, <3>3
      <3> QED BY <2>3, <2>4, <3>4, <3>5
    <2>5. CASE e.tx.vout[2].address # a
      <3>1. Held(D, a) = Held(C, a)
        BY <1>5, <1>6, <2>5 DEF Held
      <3> QED BY <2>3, <2>5, <3>1
    <2> QED BY <2>4, <2>5
  <1> QED BY <1>2, <1>7 DEF Free, C, D, mm

------------------------------------------------------------------------------
(* A node that follows its peers and serves one send at a time             *)

LEMMA SubsidyFits ==
  ASSUME NEW l, GoodLedger(l), l.supply <= MaxSupply, NEW h \in Nat, NEW size
  PROVE  /\ Subsidy(h, l, size) \in Int /\ Subsidy(h, l, size) >= 0
         /\ l.supply + Subsidy(h, l, size) <= MaxSupply
  <1> DEFINE paid == GetBlockReward(h, l, size)
  <1>1. paid \in Nat /\ l.supply \in Int /\ MaxSupply \in Nat
    BY RewardType, ParameterAssumption DEF ParameterAssumption, GoodLedger
  <1>2. Subsidy(h, l, size) = IF l.supply + paid > MaxSupply THEN MaxSupply - l.supply ELSE paid
    BY DEF Subsidy, Capped
  <1> HIDE DEF paid
  <1> QED BY <1>1, <1>2

LEMMA BlockLegit ==
  ASSUME NEW m, NEW h \in 0 .. MaxHeight + 1, NEW to \in Address, NEW subsidy \in Nat,
         NEW txs \in Body, \A i \in DOMAIN txs : Legit(txs[i], m)
  PROVE  LET b == BlockOf(h, to, subsidy, txs)
         IN  b \in Block /\ \A i \in DOMAIN b : Legit(b[i], m)
  <1> DEFINE fees  == FeesOf(txs, h)
             paid  == <<[address |-> to, amount |-> subsidy]>>
             extra == IF fees > 0 THEN <<[address |-> Reserve, amount |-> fees]>> ELSE << >>
             first == Coinbase(h, to, subsidy, fees)
             b     == BlockOf(h, to, subsidy, txs)
  <1>1. fees \in Int /\ h \in Int /\ MaxHeight \in Nat
    BY FeesType, ParameterAssumption DEF ParameterAssumption
  <1>2. first.vout = paid \o extra
    BY DEF Coinbase
  <1>3. b = <<first>> \o txs /\ b \in Block
    <2>1. b \in Block
      BY BlockType
    <2> QED BY <2>1 DEF BlockOf
  <1> HIDE DEF fees, b
  <1>4. \A i \in DOMAIN (paid \o extra) : (paid \o extra)[i].amount >= 0
    <2>1. CASE fees > 0
      <3>1. extra = <<[address |-> Reserve, amount |-> fees]>>
        BY <2>1
      <3>2. /\ DOMAIN (paid \o extra) = {1, 2} /\ (paid \o extra)[1].amount = subsidy
            /\ (paid \o extra)[2].amount = fees
        BY <3>1
      <3> QED BY <1>1, <2>1, <3>2
    <2>2. CASE ~(fees > 0)
      <3>1. extra = << >>
        BY <2>2
      <3>2. DOMAIN (paid \o extra) = {1} /\ (paid \o extra)[1].amount = subsidy
        BY <3>1
      <3> QED BY <3>2
    <2> QED BY <2>1, <2>2
  <1>5. Legit(first, m)
    <2> HIDE DEF paid, extra, first
    <2>1. \A i \in DOMAIN first.vout : first.vout[i].amount >= 0 /\ first.vout[i].amount \in Int
      <3>1. \A i \in DOMAIN first.vout : first.vout[i].amount >= 0
        BY <1>2, <1>4
      <3>2. first \in Tx
        BY <1>1, CoinbaseType DEF first
      <3>3. \A i \in DOMAIN first.vout : first.vout[i] \in Output
        BY <3>2 DEF Tx
      <3>4. \A i \in DOMAIN first.vout : first.vout[i].amount \in Int
        BY <3>3 DEF Output
      <3> QED BY <3>1, <3>4
    <2> QED BY <2>1 DEF Legit
  <1>6. \A i \in DOMAIN b : b[i] = first \/ \E j \in DOMAIN txs : b[i] = txs[j]
    <2>1. txs \in Seq(Tx)
      BY DEF Body
    <2> HIDE DEF first
    <2> QED BY <1>3, <2>1
  <1> QED BY <1>3, <1>5, <1>6 DEF b

FollowerNext == Send \/ PeerBlock \/ RebuildLedger

(* The thread that serves a send knows its request, and what it read is    *)
(* still there: nobody else appends to the file.                           *)
ServesOne ==
  \A s \in Senders :
    /\ spc[s] # "idle" =>
         /\ request[s] \in asked
         /\ \A i \in DOMAIN mempool : mempool[i].tx.id # TransferId(request[s])
    /\ spc[s] = "audit" =>
         \/ realBalance[s] = 0
         \/ Free(ledger.utxo, mempool, request[s].from)
              >= realBalance[s] - PendingSpent(mempool, request[s].from)
    /\ spc[s] = "append" => Free(ledger.utxo, mempool, request[s].from) >= needed[s]

(* No address has spent, booked or waiting, more than it has.              *)
NobodyOwes ==
  /\ SoundCoins(ledger.utxo, mempool)
  /\ \A a : Free(ledger.utxo, mempool, a) >= 0

FileIsAsked ==
  /\ GoodFile(mempool) /\ asked \subseteq Requests
  /\ \A i \in DOMAIN mempool : \E r \in asked : mempool[i].tx.id = TransferId(r)

ChainIsLegit ==
  /\ chain \in Seq(Block) /\ Len(chain) \in 1 .. MaxHeight + 1
  /\ \A i \in DOMAIN chain : \A j \in DOMAIN chain[i] : Legit(chain[i][j], mempool)

FollowInv ==
  /\ PayInv /\ ServesOne /\ NobodyOwes /\ FileIsAsked /\ ChainIsLegit
  /\ GoodLedger(ledger) /\ ledger.supply \in 0 .. MaxSupply

LEMMA FollowInit ==
  ASSUME PayInit
  PROVE  FollowInv
  <1>1. /\ mempool = << >> /\ ledger = EmptyLedger /\ asked = {} /\ chain = <<GenesisBlock>>
        /\ \A s \in Senders : spc[s] = "idle"
    BY DEF PayInit, Init
  <1>2. ledger.utxo = << >> /\ DOMAIN << >> = {} /\ ledger.supply \in 0 .. MaxSupply
    BY <1>1, ParameterAssumption DEF EmptyLedger, ParameterAssumption
  <1>3. GoodFile(mempool) /\ FileIsAsked
    BY <1>1 DEF GoodFile, FileIsAsked
  <1>4. SoundCoins(ledger.utxo, mempool)
    BY <1>1, <1>2, EmptyLedgerType DEF SoundCoins, GoodLedger
  <1>5. ASSUME NEW a PROVE Free(ledger.utxo, mempool, a) = 0
    <2>1. DOMAIN Committed(ledger.utxo, mempool) = {}
      <3>1. DebitKeys(mempool) = {}
        BY <1>1, <1>2 DEF DebitKeys
      <3> QED BY <1>2, <3>1 DEF Committed
    <2>2. Held(Committed(ledger.utxo, mempool), a) = {}
      BY <2>1 DEF Held
    <2> QED BY <2>2, SumOfNone DEF Free
  <1>6. NobodyOwes
    BY <1>4, <1>5 DEF NobodyOwes
  <1>7. ChainIsLegit
    <2>1. /\ chain \in Seq(Block) /\ Len(chain) = 1 /\ MaxHeight \in Nat /\ chain[1] = GenesisBlock
          /\ DOMAIN chain = {1}
      BY <1>1, GenesisType, ParameterAssumption DEF ParameterAssumption
    <2>2. \A j \in DOMAIN GenesisBlock : Legit(GenesisBlock[j], mempool)
      <3>1. EraReward[0] \in Nat
        BY ParameterAssumption DEF ParameterAssumption
      <3> QED BY <3>1 DEF GenesisBlock, Legit
    <2> QED BY <2>1, <2>2 DEF ChainIsLegit
  <1>8. ServesOne
    BY <1>1 DEF ServesOne
  <1> QED BY <1>1, <1>2, <1>3, <1>6, <1>7, <1>8, EmptyLedgerType, PayInvInit DEF FollowInv

(* A block booked takes nothing from anyone.                               *)
LEMMA FollowBooks ==
  ASSUME FollowInv, PayInv', NEW txs \in Body, \A i \in DOMAIN txs : Legit(txs[i], mempool),
         NEW reward \in Int, reward >= 0, ledger.supply + reward <= MaxSupply, NEW h \in Int,
         ledger' = Book([ledger EXCEPT !.supply = @ + reward], txs, h),
         UNCHANGED <<chain, mempool, spc, request, needed, realBalance, asked>>
  PROVE  FollowInv'
  <1> DEFINE m == [ledger EXCEPT !.supply = @ + reward]
  <1>1. GoodLedger(m) /\ m.utxo = ledger.utxo /\ m.supply = ledger.supply + reward
    BY DEF FollowInv, GoodLedger
  <1> HIDE DEF m
  <1>2. /\ GoodFile(mempool) /\ SoundCoins(m.utxo, mempool) /\ ledger.supply \in Int
        /\ ledger.supply >= 0 /\ MaxSupply \in Nat
    BY <1>1, ParameterAssumption DEF FollowInv, NobodyOwes, FileIsAsked, ParameterAssumption
  <1>3. GrownFrom(ledger', 0, [l |-> m, m |-> mempool])
    BY <1>1, <1>2, BookGrows DEF m
  <1>4. /\ GoodLedger(ledger') /\ SoundCoins(ledger'.utxo, mempool)
        /\ \A a : /\ Free(ledger.utxo, mempool, a) \in Int /\ Free(ledger'.utxo, mempool, a) \in Int
                  /\ Free(ledger'.utxo, mempool, a) >= Free(ledger.utxo, mempool, a)
    BY <1>1, <1>3 DEF GrownFrom
  <1>5. ledger'.supply = ledger.supply + reward
    BY <1>1, BookType DEF m
  <1>6. ledger'.supply \in 0 .. MaxSupply
    BY <1>2, <1>5
  <1>7. NobodyOwes'
    <2>1. \A a : Free(ledger'.utxo, mempool, a) >= 0
      BY <1>4 DEF FollowInv, NobodyOwes
    <2> QED BY <1>4, <2>1 DEF NobodyOwes
  <1>8. ServesOne'
    <2> SUFFICES ASSUME NEW s \in Senders
                 PROVE  /\ spc[s] # "idle" =>
                             /\ request[s] \in asked
                             /\ \A i \in DOMAIN mempool : mempool[i].tx.id # TransferId(request[s])
                        /\ spc[s] = "audit" =>
                             \/ realBalance[s] = 0
                             \/ Free(ledger'.utxo, mempool, request[s].from)
                                  >= realBalance[s] - PendingSpent(mempool, request[s].from)
                        /\ spc[s] = "append" =>
                             Free(ledger'.utxo, mempool, request[s].from) >= needed[s]
      BY DEF ServesOne
    <2>1. /\ PendingSpent(mempool, request[s].from) \in Int
          /\ needed[s] \in Int /\ realBalance[s] \in Int
      <3>1. PendingSpent(mempool, request[s].from) \in Nat
        BY <1>1, <1>2, AuditCovers
      <3> QED BY <3>1 DEF FollowInv, PayInv
    <2> QED BY <1>4, <2>1 DEF FollowInv, ServesOne
  <1> QED BY <1>4, <1>6, <1>7, <1>8 DEF FollowInv, FileIsAsked, ChainIsLegit

(* A step of the ledger that books nothing leaves what is owed alone.      *)
LEMMA FollowKeeps ==
  ASSUME FollowInv, PayInv', ChainIsLegit',
         UNCHANGED <<ledger, mempool, spc, request, needed, realBalance, asked>>
  PROVE  FollowInv'
  <1>1. ServesOne' /\ NobodyOwes' /\ FileIsAsked'
    BY DEF FollowInv, ServesOne, NobodyOwes, FileIsAsked
  <1> QED BY <1>1 DEF FollowInv

OneSender == \A s, t \in Senders : s = t

LEMMA FollowReads ==
  ASSUME OneSender, FollowInv, PayInv', NEW s \in Senders, ReadBalance(s)
  PROVE  FollowInv'
  <1>1. PICK r \in Requests \ asked :
          /\ asked' = asked \cup {r}
          /\ request' = [request EXCEPT ![s] = r]
          /\ needed' = [needed EXCEPT ![s] =
                          r.amount + (r.amount * FeePercent[Len(chain)]) \div 100]
          /\ realBalance' = [realBalance EXCEPT ![s] = GetBalance(ledger.utxo, r.from, Len(chain))]
    BY DEF ReadBalance
  <1>2. /\ UNCHANGED <<vars, mempool, now>> /\ spc' = [spc EXCEPT ![s] = "audit"]
        /\ ledger' = ledger /\ chain' = chain
    BY DEF ReadBalance, vars
  <1>3. request'[s] = r /\ spc'[s] = "audit"
        /\ realBalance'[s] = GetBalance(ledger.utxo, r.from, Len(chain))
    BY <1>1, <1>2 DEF FollowInv, PayInv
  <1>4. GoodFile(mempool) /\ SoundCoins(ledger.utxo, mempool) /\ asked \subseteq Requests
    BY DEF FollowInv, FileIsAsked, NobodyOwes
  <1>5. \A i \in DOMAIN mempool : mempool[i].tx.id # TransferId(r)
    <2> SUFFICES ASSUME NEW i \in DOMAIN mempool, mempool[i].tx.id = TransferId(r) PROVE FALSE
      OBVIOUS
    <2>1. PICK q \in asked : mempool[i].tx.id = TransferId(q)
      BY DEF FollowInv, FileIsAsked
    <2>2. q = r
      BY <1>4, <2>1, TransferIdsDiffer
    <2> QED BY <2>1, <2>2
  <1>6. \/ realBalance'[s] = 0
        \/ Free(ledger.utxo, mempool, r.from) >= realBalance'[s] - PendingSpent(mempool, r.from)
    <2> DEFINE had == SumOf(ledger.utxo, Held(ledger.utxo, r.from))
               got == GetBalance(ledger.utxo, r.from, Len(chain))
    <2>1. got = 0 \/ got <= had
      BY <1>4, BalanceIsCovered
    <2>2. /\ PendingSpent(mempool, r.from) \in Nat /\ had \in Int
          /\ Free(ledger.utxo, mempool, r.from) >= had - PendingSpent(mempool, r.from)
      BY <1>4, AuditCovers
    <2>3. got \in Int /\ Free(ledger.utxo, mempool, r.from) \in Int
      <3>1. got \in Nat
        BY <1>4, BalanceType DEF SoundCoins
      <3>2. Free(ledger.utxo, mempool, r.from) \in Int
        BY <1>4, FreeType
      <3> QED BY <3>1, <3>2
    <2> HIDE DEF had, got
    <2>4. got = 0 \/ Free(ledger.utxo, mempool, r.from) >= got - PendingSpent(mempool, r.from)
      BY <2>1, <2>2, <2>3
    <2> QED BY <1>3, <2>4 DEF got
  <1>7. ServesOne'
    <2> SUFFICES ASSUME NEW t \in Senders
                 PROVE  /\ spc'[t] # "idle" =>
                             /\ request'[t] \in asked'
                             /\ \A i \in DOMAIN mempool : mempool[i].tx.id # TransferId(request'[t])
                        /\ spc'[t] = "audit" =>
                             \/ realBalance'[t] = 0
                             \/ Free(ledger.utxo, mempool, request'[t].from)
                                  >= realBalance'[t] - PendingSpent(mempool, request'[t].from)
                        /\ spc'[t] = "append" =>
                             Free(ledger.utxo, mempool, request'[t].from) >= needed'[t]
      BY <1>2 DEF ServesOne
    <2>1. t = s
      BY DEF OneSender
    <2> QED BY <1>1, <1>3, <1>5, <1>6, <2>1
  <1>8. NobodyOwes' /\ ChainIsLegit'
    BY <1>2 DEF FollowInv, NobodyOwes, ChainIsLegit
  <1>9. FileIsAsked'
    BY <1>1, <1>2, <1>4 DEF FollowInv, FileIsAsked
  <1> QED BY <1>2, <1>7, <1>8, <1>9 DEF FollowInv

LEMMA FollowAudits ==
  ASSUME OneSender, FollowInv, PayInv', NEW s \in Senders, Audit(s)
  PROVE  FollowInv'
  <1>1. /\ UNCHANGED <<vars, mempool, request, needed, realBalance, asked, now>>
        /\ ledger' = ledger /\ chain' = chain /\ spc[s] = "audit"
    BY DEF Audit, vars
  <1>2. spc'[s] = IF realBalance[s] >= PendingSpent(mempool, request[s].from) + needed[s]
                  THEN "append" ELSE "idle"
    BY DEF Audit, FollowInv, PayInv
  <1>3. ASSUME realBalance[s] >= PendingSpent(mempool, request[s].from) + needed[s]
        PROVE  Free(ledger.utxo, mempool, request[s].from) >= needed[s]
    <2> DEFINE a == request[s].from
               f == Free(ledger.utxo, mempool, a)
               p == PendingSpent(mempool, a)
    <2>1. p \in Nat /\ f \in Int
      BY AuditCovers, FreeType DEF FollowInv, FileIsAsked, NobodyOwes
    <2>2. realBalance[s] \in Nat /\ needed[s] \in Nat
      BY DEF FollowInv, PayInv
    <2>3. f >= 0 /\ (realBalance[s] = 0 \/ f >= realBalance[s] - p)
      BY <1>1 DEF FollowInv, NobodyOwes, ServesOne
    <2>4. realBalance[s] >= p + needed[s]
      BY <1>3
    <2> HIDE DEF f, p
    <2>5. f >= needed[s]
      BY <2>1, <2>2, <2>3, <2>4
    <2> QED BY <2>5 DEF f
  <1>4. ServesOne'
    <2> SUFFICES ASSUME NEW t \in Senders
                 PROVE  /\ spc'[t] # "idle" =>
                             /\ request[t] \in asked
                             /\ \A i \in DOMAIN mempool : mempool[i].tx.id # TransferId(request[t])
                        /\ spc'[t] # "audit"
                        /\ spc'[t] = "append" =>
                             Free(ledger.utxo, mempool, request[t].from) >= needed[t]
      BY <1>1 DEF ServesOne
    <2>1. t = s
      BY DEF OneSender
    <2>2. /\ request[s] \in asked
          /\ \A i \in DOMAIN mempool : mempool[i].tx.id # TransferId(request[s])
      BY <1>1 DEF FollowInv, ServesOne
    <2> QED BY <1>2, <1>3, <2>1, <2>2
  <1>5. NobodyOwes' /\ ChainIsLegit' /\ FileIsAsked'
    BY <1>1 DEF FollowInv, NobodyOwes, ChainIsLegit, FileIsAsked
  <1> QED BY <1>1, <1>4, <1>5 DEF FollowInv

LEMMA FollowAppends ==
  ASSUME OneSender, FollowInv, PayInv', NEW s \in Senders, AppendTx(s)
  PROVE  FollowInv'
  <1> DEFINE tx == TransferOf(request[s], needed[s])
             e  == Saved(tx)
  <1>1. /\ UNCHANGED <<vars, request, needed, realBalance, asked, now>>
        /\ ledger' = ledger /\ chain' = chain
        /\ spc[s] = "append" /\ spc' = [spc EXCEPT ![s] = "idle"]
        /\ mempool' = Append(mempool, e)
    BY DEF AppendTx, vars
  <1>2. /\ request[s] \in asked /\ request[s] \in Requests /\ needed[s] \in Nat
        /\ \A i \in DOMAIN mempool : mempool[i].tx.id # TransferId(request[s])
        /\ Free(ledger.utxo, mempool, request[s].from) >= needed[s]
        /\ GoodFile(mempool) /\ SoundCoins(ledger.utxo, mempool)
    BY <1>1 DEF FollowInv, PayInv, ServesOne, FileIsAsked, NobodyOwes
  <1>3. /\ tx \in Transfer /\ e \in Entry /\ e.tx = tx
        /\ Append(mempool, e) \in Seq(Entry)
    <2>1. tx \in Transfer
      BY <1>2, TransferOfType
    <2>2. e \in Entry /\ e.tx = tx
      <3>1. now \in Nat
        BY PaymentsAssumption DEF FollowInv, PayInv, PaymentsAssumption
      <3> HIDE DEF tx
      <3> QED BY <2>1, <3>1 DEF Saved, Entry
    <2> HIDE DEF e
    <2> QED BY <1>2, <2>1, <2>2 DEF GoodFile
  <1>4. /\ tx.id = TransferId(request[s]) /\ Len(tx.vout) = 2
        /\ tx.vout[1].amount >= 0 /\ tx.vout[2].amount = -needed[s] /\ tx.vout[2].amount <= 0
        /\ tx.vout[2].address = request[s].from
    <2>1. request[s].amount \in Nat
      BY <1>2, PaymentsAssumption DEF PaymentsAssumption
    <2> QED BY <1>2, <2>1 DEF TransferOf, TransferId
  <1> HIDE DEF e, tx
  <1> DEFINE m == Append(mempool, e)
             n == Len(mempool) + 1
  <1>5. /\ mempool \in Seq(Entry) /\ DOMAIN m = 1 .. n /\ n \in DOMAIN m /\ m[n] = e
        /\ \A i \in DOMAIN mempool : i \in DOMAIN m /\ m[i] = mempool[i]
        /\ \A i \in DOMAIN m : i = n \/ i \in DOMAIN mempool
    BY <1>2, <1>3 DEF GoodFile
  <1>6. m \in Seq(Entry)
    BY <1>3
  <1> HIDE DEF m, n
  <1>7. GoodFile(m)
    <2>1. \A i \in DOMAIN m : /\ Len(m[i].tx.vout) = 2 /\ m[i].tx.vout[1].amount >= 0
                              /\ m[i].tx.vout[2].amount <= 0
      BY <1>2, <1>3, <1>4, <1>5 DEF GoodFile
    <2>2. \A i, j \in DOMAIN m : m[i].tx.id = m[j].tx.id => i = j
      BY <1>2, <1>3, <1>4, <1>5 DEF GoodFile
    <2> QED BY <1>6, <2>1, <2>2 DEF GoodFile
  <1>8. DebitKey(e.tx) \notin DOMAIN ledger.utxo
    <2> SUFFICES ASSUME DebitKey(e.tx) \in DOMAIN ledger.utxo PROVE FALSE
      OBVIOUS
    <2>1. DebitKey(e.tx) \in DebitKeys(mempool)
      BY <1>2 DEF SoundCoins, DebitKey
    <2>2. PICK i \in DOMAIN mempool : DebitKey(e.tx) = DebitKey(mempool[i].tx)
      BY <2>1 DEF DebitKeys
    <2>3. e.tx.id = mempool[i].tx.id
      BY <2>2 DEF DebitKey
    <2> QED BY <1>2, <1>3, <1>4, <2>3
  <1>9. /\ SoundCoins(ledger.utxo, m)
        /\ \A a : Free(ledger.utxo, m, a)
                    = Free(ledger.utxo, mempool, a)
                      + IF e.tx.vout[2].address = a THEN e.tx.vout[2].amount ELSE 0
    BY <1>2, <1>3, <1>7, <1>8, FileGrows DEF m
  <1>10. ASSUME NEW a PROVE Free(ledger.utxo, m, a) >= 0
    <2>1. Free(ledger.utxo, mempool, a) \in Int /\ Free(ledger.utxo, mempool, a) >= 0
      BY <1>2, FreeType DEF FollowInv, NobodyOwes
    <2>2. CASE request[s].from = a
      <3>1. Free(ledger.utxo, m, a) = Free(ledger.utxo, mempool, a) + (-needed[s])
        BY <1>3, <1>4, <1>9, <2>2
      <3>2. Free(ledger.utxo, mempool, a) >= needed[s]
        BY <1>2, <2>2
      <3> QED BY <1>2, <2>1, <3>1, <3>2
    <2>3. CASE request[s].from # a
      <3>1. Free(ledger.utxo, m, a) = Free(ledger.utxo, mempool, a) + 0
        BY <1>3, <1>4, <1>9, <2>3
      <3> QED BY <2>1, <3>1
    <2> QED BY <2>2, <2>3
  <1>11. mempool' = m
    BY <1>1 DEF m
  <1>12. ServesOne'
    <2>1. ASSUME NEW t \in Senders PROVE spc'[t] = "idle"
      <3>1. t = s
        BY DEF OneSender
      <3> QED BY <1>1, <3>1 DEF FollowInv, PayInv
    <2> QED BY <2>1 DEF ServesOne
  <1>13. NobodyOwes'
    BY <1>1, <1>9, <1>10, <1>11 DEF NobodyOwes
  <1>14. FileIsAsked'
    <2>1. ASSUME NEW i \in DOMAIN m PROVE \E r \in asked : m[i].tx.id = TransferId(r)
      BY <1>2, <1>3, <1>4, <1>5 DEF FollowInv, FileIsAsked
    <2> QED BY <1>1, <1>7, <1>11, <2>1 DEF FollowInv, FileIsAsked
  <1>15. ChainIsLegit'
    <2>1. ASSUME NEW i \in DOMAIN chain, NEW j \in DOMAIN chain[i] PROVE Legit(chain[i][j], m)
      <3>1. Legit(chain[i][j], mempool)
        BY DEF FollowInv, ChainIsLegit
      <3> QED BY <1>5, <3>1 DEF Legit
    <2> QED BY <1>1, <1>11, <2>1 DEF FollowInv, ChainIsLegit
  <1> QED BY <1>1, <1>12, <1>13, <1>14, <1>15 DEF FollowInv

LEMMA FollowChain ==
  ASSUME FollowInv, PushPeerBlock(<< >>) \/ \E i \in DOMAIN mempool : PushPeerBlock(<<mempool[i].tx>>),
         UNCHANGED mempool
  PROVE  ChainIsLegit'
  <1>1. PICK txs : /\ PushPeerBlock(txs)
                   /\ txs \in Body /\ \A i \in DOMAIN txs : Legit(txs[i], mempool)
    <2>1. ASSUME PushPeerBlock(<< >>)
          PROVE  \E txs : /\ PushPeerBlock(txs)
                          /\ txs \in Body /\ \A k \in DOMAIN txs : Legit(txs[k], mempool)
      <3>1. << >> \in Seq(Tx) /\ Len(<< >>) = 0
        OBVIOUS
      <3>2. << >> \in Body
        BY <3>1 DEF Body
      <3>3. DOMAIN << >> = {}
        OBVIOUS
      <3>4. \A k \in DOMAIN << >> : Legit(<< >>[k], mempool)
        BY <3>3
      <3> QED BY <2>1, <3>2, <3>4
    <2>2. ASSUME NEW i \in DOMAIN mempool, PushPeerBlock(<<mempool[i].tx>>)
          PROVE  \E txs : /\ PushPeerBlock(txs)
                          /\ txs \in Body /\ \A k \in DOMAIN txs : Legit(txs[k], mempool)
      <3> DEFINE t == mempool[i].tx
      <3>1. t \in Tx
        BY EntryFacts, TransferIsTx DEF FollowInv, PayInv
      <3>2. \A k \in DOMAIN t.vout : t.vout[k].amount < 0 => k = 2
        <4> SUFFICES ASSUME NEW k \in DOMAIN t.vout, t.vout[k].amount < 0 PROVE k = 2
          OBVIOUS
        <4>1. Len(t.vout) = 2 /\ t.vout[1].amount >= 0 /\ t.vout \in Seq(Output)
          BY <3>1 DEF FollowInv, FileIsAsked, GoodFile, Tx
        <4>2. t.vout[1] \in Output
          BY <4>1
        <4>3. t.vout[1].amount \in Int
          BY <4>2 DEF Output
        <4> HIDE DEF t
        <4>4. k = 1 \/ k = 2
          BY <4>1
        <4> QED BY <4>1, <4>3, <4>4
      <3>3. Legit(t, mempool)
        BY <3>2 DEF Legit
      <3> HIDE DEF t
      <3>4. <<t>> \in Body /\ \A k \in DOMAIN <<t>> : Legit(<<t>>[k], mempool)
        BY <3>1, <3>3 DEF Body
      <3> QED BY <2>2, <3>4 DEF t
    <2> QED BY <2>1, <2>2
  <1> DEFINE subsidy == Subsidy(Len(chain), ledger, Len(chain))
             b == BlockOf(Len(chain), Peer, subsidy, txs)
  <1>2. chain' = Append(chain, b) /\ Len(chain) <= MaxHeight
    BY <1>1 DEF PushPeerBlock
  <1>3. chain \in Seq(Block) /\ Len(chain) \in 1 .. MaxHeight + 1 /\ MaxHeight \in Nat
    BY ParameterAssumption DEF FollowInv, ChainIsLegit, ParameterAssumption
  <1>4. subsidy \in Nat
    <2>1. Len(chain) \in Nat /\ ledger.supply <= MaxSupply /\ GoodLedger(ledger)
      BY <1>3, ParameterAssumption DEF FollowInv, ParameterAssumption
    <2>2. subsidy \in Int /\ subsidy >= 0
      BY <2>1, SubsidyFits
    <2> HIDE DEF subsidy
    <2> QED BY <2>2
  <1>5. b \in Block /\ \A i \in DOMAIN b : Legit(b[i], mempool)
    <2> HIDE DEF subsidy
    <2>1. Peer \in Address /\ Len(chain) \in 0 .. MaxHeight + 1
      BY <1>3 DEF Address
    <2> QED BY <1>1, <1>4, <2>1, BlockLegit
  <1> HIDE DEF b
  <1>6. /\ chain' \in Seq(Block) /\ Len(chain') \in 1 .. MaxHeight + 1
        /\ \A i \in DOMAIN chain' : chain'[i] = b \/ (i \in DOMAIN chain /\ chain'[i] = chain[i])
    BY <1>2, <1>3, <1>5
  <1> QED BY <1>5, <1>6 DEF FollowInv, ChainIsLegit

LEMMA FollowStep ==
  ASSUME OneSender, FollowInv, [FollowerNext]_allVars
  PROVE  FollowInv'
  <1>0. PayInv'
    <2>1. [PayNext]_allVars
      BY DEF FollowerNext, PayNext
    <2>2. Len(chain) \in 0 .. MaxHeight + 1 /\ GoodLedger(ledger) /\ PayInv
      BY ParameterAssumption DEF FollowInv, ChainIsLegit, ParameterAssumption
    <2> QED BY <2>1, <2>2, PayInvStep
  <1>a. /\ chain \in Seq(Block) /\ Len(chain) \in 1 .. MaxHeight + 1 /\ GoodLedger(ledger)
        /\ ledger.supply <= MaxSupply
        /\ \A i \in 1 .. Len(chain) : /\ chain[i] \in Body
                                      /\ \A j \in DOMAIN chain[i] : Legit(chain[i][j], mempool)
    BY ParameterAssumption DEF FollowInv, ChainIsLegit, Block, Body, ParameterAssumption
  <1>1. ASSUME NEW s \in Senders, ReadBalance(s) \/ Audit(s) \/ AppendTx(s) PROVE FollowInv'
    BY <1>0, <1>1, FollowReads, FollowAudits, FollowAppends
  <1>2. ASSUME NEW txs \in {<< >>} \cup {<<mempool[i].tx>> : i \in DOMAIN mempool},
               PushPeerBlock(txs), UNCHANGED <<mempool, Rest>>
        PROVE  FollowInv'
    <2>1. ChainIsLegit'
      <3>1. PushPeerBlock(<< >>) \/ \E i \in DOMAIN mempool : PushPeerBlock(<<mempool[i].tx>>)
        BY <1>2
      <3> QED BY <1>2, <3>1, FollowChain
    <2> QED BY <1>0, <1>2, <2>1, FollowKeeps DEF PushPeerBlock, Rest, sending
  <1>3. CASE BookPeerBlock /\ UNCHANGED <<mempool, Rest>>
    <2> DEFINE h == Len(chain) - 1
               reward == Subsidy(h, ledger, Len(chain))
    <2>1. /\ ledger' = Book([ledger EXCEPT !.supply = @ + reward], chain[Len(chain)], h)
          /\ UNCHANGED <<chain, mempool, spc, request, needed, realBalance, asked>>
      BY <1>3 DEF BookPeerBlock, Rest, sending
    <2>2. h \in Nat /\ h \in Int /\ Len(chain) \in 1 .. Len(chain)
      BY <1>a
    <2>3. reward \in Int /\ reward >= 0 /\ ledger.supply + reward <= MaxSupply
      <3> HIDE DEF h
      <3> QED BY <1>a, <2>2, SubsidyFits
    <2> HIDE DEF h, reward
    <2> QED BY <1>0, <1>a, <2>1, <2>2, <2>3, FollowBooks
  <1>4. CASE RebuildNext /\ UNCHANGED <<mempool, Rest>>
    <2> DEFINE h == cursor - 1
               reward == Subsidy(h, ledger, Len(chain))
    <2>1. cursor \in 1 .. Len(chain) /\ h \in Nat /\ h \in Int
      BY <1>4, <1>a DEF RebuildNext
    <2>2. reward \in Int /\ reward >= 0 /\ ledger.supply + reward <= MaxSupply
      <3> HIDE DEF h
      <3> QED BY <1>a, <2>1, SubsidyFits
    <2>3. FloorAtZero(reward) = reward
      <3> HIDE DEF reward
      <3> QED BY <2>2 DEF FloorAtZero
    <2>4. /\ ledger' = Book([ledger EXCEPT !.supply = @ + FloorAtZero(reward)], chain[cursor], h)
          /\ UNCHANGED <<chain, mempool, spc, request, needed, realBalance, asked>>
      BY <1>4 DEF RebuildNext, RebuildBlock, Rest, sending
    <2>5. ledger' = Book([ledger EXCEPT !.supply = @ + reward], chain[cursor], h)
      BY <2>3, <2>4
    <2> HIDE DEF h, reward
    <2> QED BY <1>0, <1>a, <2>1, <2>2, <2>4, <2>5, FollowBooks
  <1>5. CASE RebuildDone /\ UNCHANGED <<mempool, Rest>>
    <2>1. UNCHANGED <<chain, ledger, mempool, spc, request, needed, realBalance, asked>>
      BY <1>5 DEF RebuildDone, Rest, sending
    <2>2. ChainIsLegit'
      BY <2>1 DEF FollowInv, ChainIsLegit
    <2> QED BY <1>0, <2>1, <2>2, FollowKeeps
  <1>6. CASE UNCHANGED allVars
    <2>1. UNCHANGED <<chain, ledger, mempool, spc, request, needed, realBalance, asked>>
      BY <1>6 DEF allVars, vars, sending
    <2>2. ChainIsLegit'
      BY <2>1 DEF FollowInv, ChainIsLegit
    <2> QED BY <1>0, <2>1, <2>2, FollowKeeps
  <1> QED BY <1>1, <1>2, <1>3, <1>4, <1>5, <1>6 DEF FollowerNext, Send, PeerBlock, RebuildLedger

(* On a node that follows its peers and serves one send at a time, no      *)
(* address owes anything: what the audit of send lets through is covered,  *)
(* although a peer confirms it while it still waits and young coinbase     *)
(* coins do not count (mempool_audit.h:40).                                *)
THEOREM OneSenderOwesNothing ==
  ASSUME OneSender
  PROVE  PayFollower => []NoOverdraft
  <1>1. PayFollower => PayInit /\ [][FollowerNext]_allVars
    BY DEF PayFollower, FollowerNext
  <1>2. PayInit => FollowInv
    BY FollowInit
  <1>3. FollowInv /\ [FollowerNext]_allVars => FollowInv'
    BY FollowStep
  <1>4. FollowInv => NoOverdraft
    <2> SUFFICES ASSUME FollowInv, NEW a \in Address
                 PROVE  SumOf(ledger.utxo, Held(ledger.utxo, a)) >= 0
      BY DEF NoOverdraft
    <2>1. /\ SumOf(ledger.utxo, Held(ledger.utxo, a)) \in Int
          /\ Free(ledger.utxo, mempool, a) <= SumOf(ledger.utxo, Held(ledger.utxo, a))
          /\ Free(ledger.utxo, mempool, a) \in Int
      BY AuditCovers, FreeType DEF FollowInv, FileIsAsked, NobodyOwes
    <2>2. Free(ledger.utxo, mempool, a) >= 0
      BY DEF FollowInv, NobodyOwes
    <2> QED BY <2>1, <2>2
  <1> QED BY <1>1, <1>2, <1>3, <1>4, PTL
====

---------------------------- MODULE Ledger_proofs ----------------------------
(***************************************************************************)
(* Proofs about the ledger: what booking does to it, and that the four     *)
(* ways to book a block keep the same books.                               *)
(***************************************************************************)
EXTENDS Payments, FiniteSetTheorems, SequenceTheorems, TLAPS

------------------------------------------------------------------------------
(* What the inductions rest on                                             *)

(* The naturals and the finite sets are well founded.                      *)
LEMMA NatHasLeast ==
  \A S \in SUBSET Nat : S # {} => \E x \in S : \A y \in S : x <= y
  <1> SUFFICES ASSUME NEW S \in SUBSET Nat, S # {}
               PROVE  \E x \in S : \A y \in S : x <= y
    OBVIOUS
  <1> DEFINE R == OpToRel(<, Nat)
  <1>1. IsWellFoundedOn(R, Nat)
    BY NatLessThanWellFounded, Zenon
  <1>2. ASSUME NEW x \in Nat, NEW y \in Nat, y < x PROVE <<y, x>> \in R
    BY <1>2 DEF OpToRel
  <1> HIDE DEF R
  <1>3. PICK x \in S : \A y \in S : ~ (<<y, x>> \in R)
    BY <1>1, WFMin
  <1>4. \A y \in S : x <= y
    <2> TAKE y \in S
    <2>1. ~(y < x)
      BY <1>2, <1>3
    <2> QED BY <2>1
  <1> QED BY <1>4

LEMMA FiniteIsFounded ==
  ASSUME NEW S, IsFiniteSet(S)
  PROVE  \A F \in SUBSET SUBSET S :
           F # {} => \E T \in F : \A U \in F : U \subseteq T => U = T
  <1> SUFFICES ASSUME NEW F \in SUBSET SUBSET S, F # {}
               PROVE  \E T \in F : \A U \in F : U \subseteq T => U = T
    OBVIOUS
  <1> DEFINE R == StrictSubsetOrdering(S)
             P == FiniteSubsetsOf(S)
  <1>1. IsWellFoundedOn(R, P)
    BY FS_StrictSubsetOrderingWellFounded
  <1>2. F \subseteq P
    BY FS_Subset DEF FiniteSubsetsOf
  <1>3. \A T, U \in F : U \subseteq T /\ U # T => <<U, T>> \in R
    BY DEF StrictSubsetOrdering
  <1> HIDE DEF R, P
  <1>4. PICK T \in F : \A U \in F : ~ (<<U, T>> \in R)
    BY <1>1, <1>2, WFMin
  <1> QED BY <1>3, <1>4

------------------------------------------------------------------------------
(* Types                                                                   *)

Output == [address : Address, amount : Int]
Tx     == [id : TransferIds \cup ({"coinbase"} \X Int), coinbase : BOOLEAN, vout : Seq(Output)]
Body   == Seq(Tx)
Block  == {b \in Seq(Tx) : Len(b) > 0}
Chain  == {c \in Seq(Block) : Len(c) \in 1 .. MaxHeight + 1}

CoinType == [address : Address, amount : Int, coinbase : BOOLEAN, height : Int]

GoodCoins(utxo) ==
  /\ IsFiniteSet(DOMAIN utxo)
  /\ utxo = [k \in DOMAIN utxo |-> utxo[k]]
  /\ \A k \in DOMAIN utxo : utxo[k] \in CoinType

GoodLedger(l) ==
  /\ l = [utxo |-> l.utxo, balances |-> l.balances, supply |-> l.supply]
  /\ GoodCoins(l.utxo)
  /\ l.balances \in [Address -> Nat]
  /\ l.supply \in Int

LEMMA PutGood ==
  ASSUME NEW utxo, GoodCoins(utxo), NEW key, NEW coin \in CoinType
  PROVE  GoodCoins(Put(utxo, key, coin))
  <1>1. DOMAIN Put(utxo, key, coin) = DOMAIN utxo \cup {key}
    BY DEF Put
  <1>2. IsFiniteSet(DOMAIN utxo \cup {key})
    BY FS_AddElement DEF GoodCoins
  <1>3. \A k \in DOMAIN utxo \cup {key} : Put(utxo, key, coin)[k] \in CoinType
    BY DEF Put, GoodCoins
  <1>4. Put(utxo, key, coin) = [k \in DOMAIN utxo \cup {key} |-> Put(utxo, key, coin)[k]]
    BY DEF Put
  <1> QED BY <1>1, <1>2, <1>3, <1>4 DEF GoodCoins

LEMMA UpdateOutputType ==
  ASSUME NEW l, GoodLedger(l), NEW tx \in Tx, NEW i \in DOMAIN tx.vout, NEW h \in Int
  PROVE  /\ GoodLedger(UpdateOutput(l, tx, i, h))
         /\ UpdateOutput(l, tx, i, h).supply = l.supply
  <1> DEFINE out == tx.vout[i]
             key == <<tx.id, i, out.amount < 0>>
             u   == Put(l.utxo, key, Coin(tx, i, h))
  <1>1. out \in Output
    BY DEF Tx
  <1>2. Coin(tx, i, h) \in CoinType
    BY <1>1 DEF Coin, CoinType, Output, Tx
  <1>3. GoodCoins(u)
    BY <1>2, PutGood DEF GoodLedger
  <1>4. out.address \in Address /\ out.amount \in Int
    BY <1>1 DEF Output
  <1>5. ASSUME NEW n \in Nat
        PROVE  /\ GoodLedger(Enter(l, tx, i, h, key, n))
               /\ Enter(l, tx, i, h, key, n).supply = l.supply
    <2> HIDE DEF key
    <2> QED BY <1>3, <1>4 DEF GoodLedger, Enter
  <1>6. l.balances[out.address] \in Nat
    BY <1>4 DEF GoodLedger
  <1>7. out.amount < 0 => GoodLedger(UpdateOutput(l, tx, i, h))
                          /\ UpdateOutput(l, tx, i, h).supply = l.supply
    BY <1>4, <1>5, <1>6 DEF UpdateOutput, FloorAtZero
  <1>8. out.amount > 0 => GoodLedger(UpdateOutput(l, tx, i, h))
                          /\ UpdateOutput(l, tx, i, h).supply = l.supply
    BY <1>4, <1>5, <1>6 DEF UpdateOutput
  <1>9. out.amount = 0 => UpdateOutput(l, tx, i, h) = l
    BY DEF UpdateOutput
  <1> QED BY <1>4, <1>7, <1>8, <1>9

OutStep(acc, i, tx, h) == UpdateOutput(acc, tx, i, h)
TxStep(acc, tx, h, q) == Update(acc, tx, h)
Sound(acc, n, supply) == GoodLedger(acc) /\ acc.supply = supply

Outs == INSTANCE Inductions WITH Op <- OutStep, Holds <- Sound
Txs  == INSTANCE Inductions WITH Op <- TxStep, Holds <- Sound

LEMMA OutsGrounded == Outs!Grounded
  BY NatHasLeast DEF Outs!Grounded

LEMMA TxsGrounded == Txs!Grounded
  BY NatHasLeast DEF Txs!Grounded

LEMMA UpdateIsFold ==
  ASSUME NEW l, NEW tx, NEW h
  PROVE  Update(l, tx, h) = Outs!Fold(l, [i \in DOMAIN tx.vout |-> i], tx, h)
  BY DEF Update, FoldLeftDomain, Outs!Fold, FoldLeft, MapThenFoldSet,
         Outs!MapThenFoldSet, Max, Outs!Greatest, OutStep

LEMMA BookIsFold ==
  ASSUME NEW l, NEW txs, NEW h
  PROVE  Book(l, txs, h) = Txs!Fold(l, txs, h, 0)
  BY DEF Book, Txs!Fold, FoldLeft, MapThenFoldSet, Txs!MapThenFoldSet,
         Max, Txs!Greatest, TxStep

LEMMA UpdateType ==
  ASSUME NEW l, GoodLedger(l), NEW tx \in Tx, NEW h \in Int
  PROVE  GoodLedger(Update(l, tx, h)) /\ Update(l, tx, h).supply = l.supply
  <1> DEFINE s == [i \in DOMAIN tx.vout |-> i]
  <1>1. /\ s \in Seq(DOMAIN tx.vout) /\ Len(s) = Len(tx.vout)
        /\ \A i \in 1 .. Len(s) : s[i] = i /\ i \in DOMAIN tx.vout
    BY DEF Tx
  <1>2. Sound(l, 0, l.supply)
    BY DEF Sound
  <1>3. \A i \in 1 .. Len(s) : \A acc :
          Sound(acc, i - 1, l.supply) => Sound(OutStep(acc, s[i], tx, h), i, l.supply)
    BY <1>1, UpdateOutputType DEF Sound, OutStep
  <1> HIDE DEF s
  <1>4. Sound(Outs!Fold(l, s, tx, h), Len(s), l.supply)
    BY <1>1, <1>2, <1>3, Outs!FoldInduction, OutsGrounded
  <1> QED BY <1>4, UpdateIsFold DEF Sound, s

(* Booking a block leaves a ledger of its type and does not touch          *)
(* totalSupply, which the callers change themselves.                       *)
LEMMA BookType ==
  ASSUME NEW l, GoodLedger(l), NEW txs \in Body, NEW h \in Int
  PROVE  GoodLedger(Book(l, txs, h)) /\ Book(l, txs, h).supply = l.supply
  <1>1. txs \in Seq(Tx) /\ \A i \in 1 .. Len(txs) : txs[i] \in Tx
    BY DEF Body
  <1>2. Sound(l, 0, l.supply)
    BY DEF Sound
  <1>3. \A i \in 1 .. Len(txs) : \A acc :
          Sound(acc, i - 1, l.supply) => Sound(TxStep(acc, txs[i], h, 0), i, l.supply)
    BY <1>1, UpdateType DEF Sound, TxStep
  <1>4. Sound(Txs!Fold(l, txs, h, 0), Len(txs), l.supply)
    BY <1>1, <1>2, <1>3, Txs!FoldInduction, TxsGrounded
  <1> QED BY <1>4, BookIsFold DEF Sound

------------------------------------------------------------------------------
(* Sums of coins, rewards and fees                                         *)

AddAmount(c, n, p, q) == c.amount + n
AddFee(out, n, h, q) == n + (-out.amount * FeePercent[h]) \div 100
FeeStep(sum, tx, h, q) ==
  sum + FoldFunctionOnSet(LAMBDA out, n : n + (-out.amount * FeePercent[h]) \div 100,
                          0, tx.vout, Debits(tx))
IsInt(n, i, u) == n \in Int

Sums == INSTANCE Inductions WITH Op <- AddAmount, Holds <- IsInt
Fees == INSTANCE Inductions WITH Op <- AddFee, Holds <- IsInt
Total == INSTANCE Inductions WITH Op <- FeeStep, Holds <- IsInt

LEMMA TotalGrounded == Total!Grounded
  BY NatHasLeast DEF Total!Grounded

LEMMA SumIsTotal ==
  ASSUME NEW utxo, NEW keys
  PROVE  SumOf(utxo, keys) = Sums!Total(0, utxo, keys, 0, 0)
  BY DEF SumOf, Sums!Total, FoldFunctionOnSet, Sums!FoldFunctionOnSet, MapThenFoldSet,
         Sums!MapThenFoldSet, AddAmount

(* The sum of a set of coins, and the sum without one of them.             *)
LEMMA SumOfCoins ==
  ASSUME NEW utxo, NEW keys, IsFiniteSet(keys), \A k \in keys : utxo[k].amount \in Int
  PROVE  /\ SumOf(utxo, keys) \in Int
         /\ \A k \in keys : SumOf(utxo, keys) = utxo[k].amount + SumOf(utxo, keys \ {k})
  <1> PICK Typ : Typ = Int
    OBVIOUS
  <1>1. 0 \in Typ /\ Sums!Commutes(utxo, keys, Typ, 0, 0)
    BY DEF Sums!Commutes, AddAmount
  <1>3. Sums!Founded(keys)
    BY FiniteIsFounded DEF Sums!Founded
  <1>2. /\ Sums!Total(0, utxo, keys, 0, 0) \in Typ
        /\ \A k \in keys : Sums!Total(0, utxo, keys, 0, 0)
             = AddAmount(utxo[k], Sums!Total(0, utxo, keys \ {k}, 0, 0), 0, 0)
    BY <1>1, <1>3, Sums!TotalRemove
  <1> QED BY <1>2, SumIsTotal DEF AddAmount

LEMMA BalanceType ==
  ASSUME NEW utxo, GoodCoins(utxo), NEW a, NEW h
  PROVE  GetBalance(utxo, a, h) \in Nat
  <1> DEFINE keys == {k \in Held(utxo, a) : utxo[k].coinbase => h - utxo[k].height >= Maturity}
  <1>1. keys \subseteq DOMAIN utxo
    BY DEF Held
  <1>2. IsFiniteSet(keys) /\ \A k \in keys : utxo[k].amount \in Int
    BY <1>1, FS_Subset DEF GoodCoins, CoinType
  <1> HIDE DEF keys
  <1>3. SumOf(utxo, keys) \in Int
    BY <1>2, SumOfCoins
  <1> QED BY <1>3 DEF GetBalance, FloorAtZero, keys

LEMMA DivNat ==
  ASSUME NEW a \in Nat, NEW d \in Nat \ {0}
  PROVE  a \div d \in Nat
  OBVIOUS

LEMMA RewardType ==
  ASSUME NEW l, GoodLedger(l), NEW h \in Nat, NEW size
  PROVE  GetBlockReward(h, l, size) \in Nat /\ Subsidy(h, l, size) \in Int
  <1> DEFINE era == h \div EraLength
             reserve == GetBalance(l.utxo, Reserve, size)
  <1>1. reserve \in Nat
    BY BalanceType DEF GoodLedger
  <1>2. era \in Nat
    BY DivNat, ParameterAssumption DEF ParameterAssumption
  <1>3. reserve \div ReserveDivisor \in Nat
    BY <1>1, DivNat, ParameterAssumption DEF ParameterAssumption
  <1>4. era < LastEra => EraReward[era] \in Nat
    BY <1>2, ParameterAssumption DEF ParameterAssumption
  <1>5. MaxSupply \in Nat /\ LastEra \in Nat /\ l.supply \in Int
    BY ParameterAssumption DEF ParameterAssumption, GoodLedger
  <1> HIDE DEF era, reserve
  <1>6. GetBlockReward(h, l, size) \in Nat
    BY <1>1, <1>2, <1>3, <1>4, <1>5 DEF GetBlockReward, era, reserve
  <1> QED BY <1>5, <1>6 DEF Subsidy, Capped

LEMMA FeesType ==
  ASSUME NEW txs \in Body, NEW h \in 0 .. MaxHeight + 1
  PROVE  FeesOf(txs, h) \in Int
  <1>1. ASSUME NEW tx \in Tx, NEW sum \in Int
        PROVE  FeeStep(sum, tx, h, 0) \in Int
    <2>1. IsFiniteSet(Debits(tx)) /\ Debits(tx) \subseteq DOMAIN tx.vout
      <3>1. DOMAIN tx.vout = 1 .. Len(tx.vout) /\ Len(tx.vout) \in Nat
        BY DEF Tx
      <3>2. IsFiniteSet(1 .. Len(tx.vout))
        BY <3>1, FS_Interval
      <3> QED BY <3>1, <3>2, FS_Subset DEF Debits
    <2>2. \A i \in Debits(tx) : tx.vout[i].amount \in Int
      <3>1. \A i \in DOMAIN tx.vout : tx.vout[i] \in Output
        BY DEF Tx
      <3> QED BY <2>1, <3>1 DEF Output
    <2>3. FeePercent[h] \in Int
      <3>1. FeePercent[h] \in 0 .. 100
        BY ParameterAssumption DEF ParameterAssumption
      <3> QED BY <3>1
    <2>4. \A i \in Debits(tx) : (-tx.vout[i].amount * FeePercent[h]) \div 100 \in Int
      BY <2>2, <2>3
    <2> PICK Typ : Typ = Int
      OBVIOUS
    <2>5. 0 \in Typ /\ Fees!Commutes(tx.vout, Debits(tx), Typ, h, 0)
      BY <2>4 DEF Fees!Commutes, AddFee
    <2>8. Fees!Founded(Debits(tx))
      BY <2>1, FiniteIsFounded DEF Fees!Founded
    <2>6. Fees!Total(0, tx.vout, Debits(tx), h, 0) \in Typ
      BY <2>5, <2>8, Fees!TotalRemove
    <2>7. FeeStep(sum, tx, h, 0) = sum + Fees!Total(0, tx.vout, Debits(tx), h, 0)
      BY DEF FeeStep, Fees!Total, FoldFunctionOnSet, Fees!FoldFunctionOnSet, MapThenFoldSet,
             Fees!MapThenFoldSet, AddFee
    <2> QED BY <2>6, <2>7
  <1>2. txs \in Seq(Tx) /\ \A i \in 1 .. Len(txs) : txs[i] \in Tx
    BY DEF Body
  <1>3. \A i \in 1 .. Len(txs) : \A acc :
          IsInt(acc, i - 1, 0) => IsInt(FeeStep(acc, txs[i], h, 0), i, 0)
    BY <1>1, <1>2 DEF IsInt
  <1>4. IsInt(0, 0, 0)
    BY DEF IsInt
  <1>5. IsInt(Total!Fold(0, txs, h, 0), Len(txs), 0)
    BY <1>2, <1>3, <1>4, Total!FoldInduction, TotalGrounded
  <1>6. FeesOf(txs, h) = Total!Fold(0, txs, h, 0)
    BY DEF FeesOf, Total!Fold, FoldLeft, MapThenFoldSet,
           Total!MapThenFoldSet, Max, Total!Greatest, FeeStep
  <1> QED BY <1>5, <1>6 DEF IsInt

------------------------------------------------------------------------------
(* Blocks                                                                  *)

LEMMA CoinbaseType ==
  ASSUME NEW h \in Int, NEW to \in Address, NEW subsidy \in Int, NEW fees \in Int
  PROVE  /\ Coinbase(h, to, subsidy, fees) \in Tx
         /\ Coinbase(h, to, subsidy, fees).vout[1].amount = subsidy
  <1> DEFINE paid == <<[address |-> to, amount |-> subsidy]>>
             rest == IF fees > 0 THEN <<[address |-> Reserve, amount |-> fees]>> ELSE << >>
  <1>1. paid \in Seq(Output) /\ Len(paid) = 1 /\ paid[1].amount = subsidy
    BY DEF Output
  <1>2. rest \in Seq(Output)
    <2>1. [address |-> Reserve, amount |-> fees] \in Output
      BY DEF Output, Address
    <2>2. <<[address |-> Reserve, amount |-> fees]>> \in Seq(Output) /\ << >> \in Seq(Output)
      BY <2>1
    <2> QED BY <2>2
  <1> HIDE DEF paid, rest
  <1>3. paid \o rest \in Seq(Output) /\ (paid \o rest)[1] = paid[1]
    <2>1. paid \o rest \in Seq(Output)
      BY <1>1, <1>2
    <2>2. (paid \o rest)[1] = paid[1]
      BY <1>1, <1>2, ConcatProperties
    <2> QED BY <2>1, <2>2
  <1>4. Coinbase(h, to, subsidy, fees)
          = [id |-> <<"coinbase", h>>, coinbase |-> TRUE, vout |-> paid \o rest]
    BY DEF Coinbase, paid, rest
  <1> QED BY <1>1, <1>3, <1>4 DEF Tx

LEMMA BlockType ==
  ASSUME NEW h \in 0 .. MaxHeight + 1, NEW to \in Address, NEW subsidy \in Int,
         NEW txs \in Body
  PROVE  LET b == BlockOf(h, to, subsidy, txs)
         IN  /\ b \in Block
             /\ b[1].vout[1].amount = subsidy
             /\ b[1].id = <<"coinbase", h>>
             /\ Len(b) = Len(txs) + 1
             /\ \A i \in 1 .. Len(txs) : b[i + 1] = txs[i]
  <1> DEFINE first == Coinbase(h, to, subsidy, FeesOf(txs, h))
  <1>1. FeesOf(txs, h) \in Int
    BY FeesType
  <1>2. first \in Tx /\ first.vout[1].amount = subsidy /\ h \in Int
    BY <1>1, CoinbaseType
  <1>3. first.id = <<"coinbase", h>>
    BY DEF Coinbase
  <1>4. BlockOf(h, to, subsidy, txs) = <<first>> \o txs
    BY DEF BlockOf
  <1> HIDE DEF first
  <1>5. <<first>> \in Seq(Tx) /\ txs \in Seq(Tx)
    BY <1>2 DEF Body
  <1>6. /\ <<first>> \o txs \in Seq(Tx) /\ Len(<<first>> \o txs) = Len(txs) + 1
        /\ (<<first>> \o txs)[1] = first
        /\ \A i \in 1 .. Len(txs) : (<<first>> \o txs)[i + 1] = txs[i]
    BY <1>5
  <1> QED BY <1>2, <1>3, <1>4, <1>6, <1>5 DEF Block

LEMMA GenesisType ==
  /\ GenesisBlock \in Block /\ Len(GenesisBlock) = 1
  /\ GenesisBlock[1].vout[1].amount = EraReward[0]
  /\ GenesisBlock[1].id = <<"coinbase", 0>>
  <1>1. EraReward[0] \in Nat
    BY ParameterAssumption DEF ParameterAssumption
  <1> QED BY <1>1 DEF GenesisBlock, Block, Tx, Output, Address

LEMMA TransferIsTx == Transfer \subseteq Tx
  BY DEF Transfer, Tx, Output

LEMMA EmptyLedgerType == GoodLedger(EmptyLedger) /\ EmptyLedger.supply = 0
  <1>1. IsFiniteSet(DOMAIN << >>)
    BY FS_EmptySet
  <1> QED BY <1>1 DEF EmptyLedger, GoodLedger, GoodCoins

------------------------------------------------------------------------------
(* Replays                                                                 *)

LEMMA RebuildType ==
  ASSUME NEW l, GoodLedger(l), NEW c \in Seq(Block), NEW i \in 1 .. Len(c)
  PROVE  GoodLedger(RebuildBlock(l, i, c))
  <1>1. FloorAtZero(Subsidy(i - 1, l, Len(c))) \in Int
    BY RewardType DEF FloorAtZero
  <1> DEFINE m == [l EXCEPT !.supply = @ + FloorAtZero(Subsidy(i - 1, l, Len(c)))]
  <1>2. GoodLedger(m)
    BY <1>1, SMTT(20) DEF GoodLedger
  <1>3. c[i] \in Body
    BY DEF Block, Body
  <1>4. RebuildBlock(l, i, c) = Book(m, c[i], i - 1)
    BY DEF RebuildBlock
  <1> HIDE DEF m
  <1> QED BY <1>2, <1>3, <1>4, BookType

(* The ledger after the first k blocks of a chain.                         *)
ReplayTo(c, k) ==
  FoldLeft(LAMBDA l, i : RebuildBlock(l, i, c), EmptyLedger, [i \in 1 .. k |-> i])

BlockStep(l, i, c, q) == RebuildBlock(l, i, c)
ReplayIsGood(n, c, q) == n <= Len(c) => GoodLedger(ReplayTo(c, n))

Replays == INSTANCE Inductions WITH Op <- BlockStep, Holds <- ReplayIsGood

LEMMA ReplaysGrounded == Replays!Grounded
  BY NatHasLeast DEF Replays!Grounded

LEMMA ReplayIsFold ==
  ASSUME NEW c, NEW k
  PROVE  ReplayTo(c, k) = Replays!Fold(EmptyLedger, [i \in 1 .. k |-> i], c, 0)
  BY DEF ReplayTo, Replays!Fold, FoldLeft, MapThenFoldSet,
         Replays!MapThenFoldSet, Max, Replays!Greatest, BlockStep

LEMMA ReplaySteps ==
  ASSUME NEW c
  PROVE  /\ ReplayTo(c, 0) = EmptyLedger
         /\ \A k \in Nat : ReplayTo(c, k + 1) = RebuildBlock(ReplayTo(c, k), k + 1, c)
         /\ Len(c) \in Nat /\ DOMAIN c = 1 .. Len(c) => Replay(c) = ReplayTo(c, Len(c))
  <1>1. [i \in 1 .. 0 |-> i] = << >>
    OBVIOUS
  <1>2. ReplayTo(c, 0) = EmptyLedger
    BY <1>1, ReplayIsFold, Replays!FoldEmpty
  <1>3. ASSUME NEW k \in Nat
        PROVE  ReplayTo(c, k + 1) = RebuildBlock(ReplayTo(c, k), k + 1, c)
    <2> DEFINE s == [i \in 1 .. k + 1 |-> i]
               t == [i \in 1 .. k |-> i]
    <2>1. /\ s \in Seq(Nat) /\ t \in Seq(Nat) /\ Len(s) = Len(t) + 1 /\ Len(t) = k
          /\ \A i \in 1 .. Len(t) : s[i] = t[i]
          /\ s[Len(s)] = k + 1
      OBVIOUS
    <2> HIDE DEF s, t
    <2>2. Replays!Fold(EmptyLedger, s, c, 0)
            = BlockStep(Replays!Fold(EmptyLedger, t, c, 0), s[Len(s)], c, 0)
      BY <2>1, Replays!FoldLast, ReplaysGrounded
    <2> QED BY <2>1, <2>2, ReplayIsFold DEF BlockStep, s, t
  <1>4. Len(c) \in Nat /\ DOMAIN c = 1 .. Len(c) => Replay(c) = ReplayTo(c, Len(c))
    BY DEF Replay, ReplayTo, FoldLeftDomain
  <1> QED BY <1>2, <1>3, <1>4

LEMMA ReplayType ==
  ASSUME NEW c \in Seq(Block)
  PROVE  /\ \A k \in 0 .. Len(c) : GoodLedger(ReplayTo(c, k))
         /\ GoodLedger(Replay(c)) /\ Replay(c) = ReplayTo(c, Len(c))
  <1>1. ReplayIsGood(0, c, 0)
    BY ReplaySteps, EmptyLedgerType DEF ReplayIsGood
  <1>2. ASSUME NEW n \in Nat, ReplayIsGood(n, c, 0) PROVE ReplayIsGood(n + 1, c, 0)
    <2> SUFFICES ASSUME n + 1 <= Len(c) PROVE GoodLedger(ReplayTo(c, n + 1))
      BY DEF ReplayIsGood
    <2>1. GoodLedger(ReplayTo(c, n)) /\ n + 1 \in 1 .. Len(c)
      BY <1>2 DEF ReplayIsGood
    <2>2. GoodLedger(RebuildBlock(ReplayTo(c, n), n + 1, c))
      BY <2>1, RebuildType
    <2> QED BY <2>2, ReplaySteps
  <1>3. \A n \in Nat : ReplayIsGood(n, c, 0)
    BY <1>1, <1>2, Replays!Induction, ReplaysGrounded
  <1>4. Replay(c) = ReplayTo(c, Len(c))
    BY ReplaySteps
  <1> QED BY <1>3, <1>4 DEF ReplayIsGood

PeerStep(c, txs, p, q) ==
  Append(c, BlockOf(Len(c), Peer, Subsidy(Len(c), Replay(c), Len(c)), txs))
GrownTo(c, i, u) == c \in Seq(Block) /\ Len(c) = i + 1

Grown == INSTANCE Inductions WITH Op <- PeerStep, Holds <- GrownTo

LEMMA GrownGrounded == Grown!Grounded
  BY NatHasLeast DEF Grown!Grounded

LEMMA PeerChainsType == PeerChains \subseteq Chain
  <1> SUFFICES ASSUME NEW bodies \in PeerBodies
               PROVE  Grown!Fold(<<GenesisBlock>>, bodies, 0, 0) \in Chain
    BY DEF PeerChains, Grown!Fold, FoldLeft, MapThenFoldSet,
           Grown!MapThenFoldSet, Max, Grown!Greatest, PeerStep
  <1>1. bodies \in Seq(Seq(Transfer)) /\ Len(bodies) <= MaxHeight /\ MaxHeight \in Nat
    BY PaymentsAssumption, ParameterAssumption DEF PaymentsAssumption, ParameterAssumption
  <1>2. GrownTo(<<GenesisBlock>>, 0, 0)
    BY GenesisType DEF GrownTo
  <1>3. ASSUME NEW i \in 1 .. Len(bodies), NEW c, GrownTo(c, i - 1, 0)
        PROVE  GrownTo(PeerStep(c, bodies[i], 0, 0), i, 0)
    <2>1. c \in Seq(Block) /\ Len(c) = i /\ i \in 0 .. MaxHeight + 1 /\ i \in Nat
      BY <1>1, <1>3 DEF GrownTo
    <2>2. bodies[i] \in Body
      BY <1>1, TransferIsTx DEF Body
    <2>3. Subsidy(Len(c), Replay(c), Len(c)) \in Int
      BY <2>1, ReplayType, RewardType
    <2>4. BlockOf(Len(c), Peer, Subsidy(Len(c), Replay(c), Len(c)), bodies[i]) \in Block
      BY <2>1, <2>2, <2>3, BlockType DEF Address
    <2> QED BY <2>1, <2>4 DEF GrownTo, PeerStep
  <1>4. GrownTo(Grown!Fold(<<GenesisBlock>>, bodies, 0, 0), Len(bodies), 0)
    BY <1>1, <1>2, <1>3, Grown!FoldInduction, GrownGrounded
  <1> QED BY <1>1, <1>4 DEF GrownTo, Chain

------------------------------------------------------------------------------
(* Heights at which the emission is far from the cap                       *)

Scheduled(h) ==
  IF EraReward[h \div EraLength] < 1 THEN 1 ELSE EraReward[h \div EraLength]

(* Emitted[k] is what the schedule pays for the first k blocks.  Up to the *)
(* height the chain may reach the reserve has not taken over, and after    *)
(* any number of blocks there is room for the reward of any height: also   *)
(* for that of a height the miner read before a reorganisation.            *)
CapIsFar(Emitted) ==
  /\ Emitted \in [0 .. MaxHeight + 1 -> Nat] /\ Emitted[0] = 0
  /\ \A h \in 0 .. MaxHeight : /\ h \div EraLength < LastEra
                               /\ Emitted[h + 1] = Emitted[h] + Scheduled(h)
  /\ \A k \in 0 .. MaxHeight + 1 : \A h \in 0 .. MaxHeight :
       Emitted[k] + Scheduled(h) <= MaxSupply

LEMMA ScheduledSubsidy ==
  ASSUME NEW Emitted, CapIsFar(Emitted), NEW l, GoodLedger(l),
         NEW k \in 0 .. MaxHeight + 1, l.supply = Emitted[k],
         NEW h \in 0 .. MaxHeight, NEW size
  PROVE  Subsidy(h, l, size) = Scheduled(h) /\ Scheduled(h) \in Nat
  <1> DEFINE era == h \div EraLength
  <1>1. era \in Nat /\ era < LastEra
    <2>1. h \in Nat
      BY ParameterAssumption DEF ParameterAssumption
    <2> QED BY <2>1, DivNat, ParameterAssumption DEF ParameterAssumption, CapIsFar
  <1>2. EraReward[era] \in Nat /\ MaxSupply \in Nat /\ LastEra \in Nat
    BY <1>1, ParameterAssumption DEF ParameterAssumption
  <1>3. Emitted[k] \in Nat /\ Emitted[k] + Scheduled(h) <= MaxSupply
    BY DEF CapIsFar
  <1>4. Scheduled(h) = IF EraReward[era] < 1 THEN 1 ELSE EraReward[era]
    BY DEF Scheduled
  <1>5. GetBlockReward(h, l, size) = Scheduled(h)
    <2>1. ~(MaxSupply - l.supply <= 0 \/ era >= LastEra)
      BY <1>1, <1>2, <1>3, <1>4
    <2>2. ~(EraReward[era] > MaxSupply - l.supply)
      BY <1>2, <1>3, <1>4
    <2> HIDE DEF era
    <2> QED BY <1>4, <2>1, <2>2 DEF GetBlockReward, era
  <1> QED BY <1>2, <1>3, <1>4, <1>5 DEF Subsidy, Capped

(* Then a rebuild pays for a block what its height says, whatever the      *)
(* length of the chain it belongs to.                                      *)
BookScheduled(l, txs, h) == Book([l EXCEPT !.supply = @ + Scheduled(h)], txs, h)

LEMMA BookScheduledType ==
  ASSUME NEW Emitted, CapIsFar(Emitted), NEW l, GoodLedger(l), NEW h \in 0 .. MaxHeight,
         l.supply = Emitted[h], NEW txs \in Body
  PROVE  /\ GoodLedger(BookScheduled(l, txs, h))
         /\ BookScheduled(l, txs, h).supply = Emitted[h + 1]
  <1> DEFINE m == [l EXCEPT !.supply = @ + Scheduled(h)]
  <1>0. h \in 0 .. MaxHeight + 1 /\ h \in Int
    BY ParameterAssumption DEF ParameterAssumption
  <1>1. Subsidy(h, l, 0) = Scheduled(h) /\ Scheduled(h) \in Nat /\ h \in Int
    BY <1>0, ScheduledSubsidy
  <1>2. GoodLedger(m) /\ m.supply = Emitted[h] + Scheduled(h)
    BY <1>1 DEF GoodLedger
  <1>3. Emitted[h + 1] = Emitted[h] + Scheduled(h)
    BY DEF CapIsFar
  <1>4. BookScheduled(l, txs, h) = Book(m, txs, h)
    BY DEF BookScheduled
  <1> HIDE DEF m
  <1> QED BY <1>1, <1>2, <1>3, <1>4, BookType

LEMMA RebuildScheduled ==
  ASSUME NEW Emitted, CapIsFar(Emitted), NEW c \in Chain, NEW i \in 1 .. Len(c),
         NEW l, GoodLedger(l), l.supply = Emitted[i - 1]
  PROVE  RebuildBlock(l, i, c) = BookScheduled(l, c[i], i - 1)
  <1>1. i - 1 \in 0 .. MaxHeight /\ i - 1 \in 0 .. MaxHeight + 1
    BY ParameterAssumption DEF Chain, ParameterAssumption
  <1>2. Subsidy(i - 1, l, Len(c)) = Scheduled(i - 1) /\ Scheduled(i - 1) \in Nat
    BY <1>1, ScheduledSubsidy
  <1> QED BY <1>2 DEF RebuildBlock, BookScheduled, FloorAtZero

EmitsTo(n, c, Emitted) == n <= Len(c) => ReplayTo(c, n).supply = Emitted[n]
SameReplay(n, c, d) ==
  n <= Len(c) /\ n <= Len(d) /\ (\A i \in 1 .. n : c[i] = d[i]) =>
    ReplayTo(c, n) = ReplayTo(d, n)

Emits == INSTANCE Inductions WITH Op <- BlockStep, Holds <- EmitsTo
Same  == INSTANCE Inductions WITH Op <- BlockStep, Holds <- SameReplay

LEMMA EmitsGrounded == Emits!Grounded
  BY NatHasLeast DEF Emits!Grounded

LEMMA SameGrounded == Same!Grounded
  BY NatHasLeast DEF Same!Grounded

LEMMA ReplayEmits ==
  ASSUME NEW Emitted, CapIsFar(Emitted), NEW c \in Chain
  PROVE  \A k \in 0 .. Len(c) : ReplayTo(c, k).supply = Emitted[k]
  <1> USE DEF EmitsTo
  <1>0. c \in Seq(Block) /\ Len(c) \in 1 .. MaxHeight + 1 /\ MaxHeight \in Nat
    BY ParameterAssumption DEF Chain, ParameterAssumption
  <1>1. EmitsTo(0, c, Emitted)
    BY ReplaySteps, EmptyLedgerType DEF CapIsFar
  <1>2. ASSUME NEW n \in Nat, EmitsTo(n, c, Emitted) PROVE EmitsTo(n + 1, c, Emitted)
    <2> SUFFICES ASSUME n + 1 <= Len(c) PROVE ReplayTo(c, n + 1).supply = Emitted[n + 1]
      OBVIOUS
    <2>1. n + 1 \in 1 .. Len(c) /\ n \in 0 .. MaxHeight /\ n \in 0 .. Len(c) /\ n + 1 - 1 = n
      BY <1>0
    <2>2. ReplayTo(c, n).supply = Emitted[n] /\ GoodLedger(ReplayTo(c, n))
      BY <1>0, <1>2, <2>1, ReplayType
    <2>3. RebuildBlock(ReplayTo(c, n), n + 1, c) = BookScheduled(ReplayTo(c, n), c[n + 1], n)
      BY <2>1, <2>2, RebuildScheduled
    <2>4. c[n + 1] \in Body
      BY <1>0, <2>1 DEF Block, Body
    <2>5. BookScheduled(ReplayTo(c, n), c[n + 1], n).supply = Emitted[n + 1]
      BY <2>1, <2>2, <2>4, BookScheduledType
    <2>6. ReplayTo(c, n + 1) = RebuildBlock(ReplayTo(c, n), n + 1, c)
      BY ReplaySteps
    <2> QED BY <2>3, <2>5, <2>6
  <1> HIDE DEF EmitsTo
  <1>3. \A n \in Nat : EmitsTo(n, c, Emitted)
    BY <1>1, <1>2, Emits!Induction, EmitsGrounded
  <1> QED BY <1>0, <1>3 DEF EmitsTo

(* What a replay of a chain has booked up to a block depends on the blocks *)
(* up to it alone.                                                         *)
LEMMA ReplayPrefix ==
  ASSUME NEW Emitted, CapIsFar(Emitted), NEW c \in Chain, NEW d \in Chain,
         NEW k \in Nat, k <= Len(c), k <= Len(d), \A i \in 1 .. k : c[i] = d[i]
  PROVE  ReplayTo(c, k) = ReplayTo(d, k)
  <1>1. SameReplay(0, c, d)
    BY ReplaySteps DEF SameReplay
  <1>2. ASSUME NEW n \in Nat, SameReplay(n, c, d) PROVE SameReplay(n + 1, c, d)
    <2> SUFFICES ASSUME n + 1 <= Len(c), n + 1 <= Len(d), \A i \in 1 .. n + 1 : c[i] = d[i]
                 PROVE  ReplayTo(c, n + 1) = ReplayTo(d, n + 1)
      BY DEF SameReplay
    <2>1. n + 1 \in 1 .. Len(c) /\ n + 1 \in 1 .. Len(d) /\ n \in 0 .. Len(c)
          /\ n \in 0 .. Len(d) /\ n + 1 - 1 = n /\ c[n + 1] = d[n + 1]
      BY DEF Chain
    <2>2. ReplayTo(c, n) = ReplayTo(d, n)
      BY <1>2, <2>1 DEF SameReplay
    <2>3. ReplayTo(c, n).supply = Emitted[n] /\ GoodLedger(ReplayTo(c, n))
      BY <2>1, ReplayEmits, ReplayType DEF Chain
    <2>4. /\ RebuildBlock(ReplayTo(c, n), n + 1, c) = BookScheduled(ReplayTo(c, n), c[n + 1], n)
          /\ RebuildBlock(ReplayTo(d, n), n + 1, d) = BookScheduled(ReplayTo(d, n), d[n + 1], n)
      BY <2>1, <2>2, <2>3, RebuildScheduled
    <2> QED BY <2>1, <2>2, <2>4, ReplaySteps
  <1>3. \A n \in Nat : SameReplay(n, c, d)
    BY <1>1, <1>2, Same!Induction, SameGrounded
  <1> QED BY <1>3 DEF SameReplay

------------------------------------------------------------------------------
(* Who is doing what                                                       *)

Locks ==
  /\ lock \in {"free", "miner", "network", "startup"}
  /\ mpc \in {"idle", "assemble", "commit", "book"}
  /\ npc \in {"idle", "book", "install", "rebuild"}
  /\ lock = "miner" <=> mpc = "book"
  /\ lock = "network" <=> npc \in {"book", "rebuild"}
  /\ lock = "startup" => npc = "idle" /\ mpc = "idle"
  /\ cursor # 0 <=> lock = "startup" \/ npc = "rebuild"
  /\ cursor \in 0 .. Len(chain) + 1

ChainsFit == chain \in Chain /\ (npc = "install" => incoming \in Chain)

Drafting ==
  /\ nextIndex \in 0 .. MaxHeight
  /\ mpc \in {"commit", "book"} =>
       draft.txs \in Block /\ draft.subsidy = Scheduled(nextIndex)
  /\ mpc = "book" => chain[Len(chain)] = draft.txs /\ nextIndex = Len(chain) - 1

(* How much of the chain the ledger holds: a rebuild has got to its cursor, *)
(* a writer that holds the mutex has not booked the block it pushed.        *)
Booked ==
  IF cursor # 0 THEN cursor - 1
  ELSE IF lock = "free" THEN Len(chain) ELSE Len(chain) - 1

LedgerInv == Locks /\ ChainsFit /\ Drafting /\ ledger = ReplayTo(chain, Booked)

LEMMA LedgerFacts ==
  ASSUME LedgerInv
  PROVE  /\ Booked \in 0 .. Len(chain) /\ Booked \in 0 .. MaxHeight + 1
         /\ GoodLedger(ledger)
         /\ chain \in Seq(Block) /\ Len(chain) \in 1 .. MaxHeight + 1 /\ MaxHeight \in Nat
         /\ \A Emitted : CapIsFar(Emitted) => ledger.supply = Emitted[Booked]
  <1>1. /\ chain \in Chain /\ chain \in Seq(Block) /\ Len(chain) \in 1 .. MaxHeight + 1
        /\ MaxHeight \in Nat
    BY ParameterAssumption DEF LedgerInv, ChainsFit, Chain, ParameterAssumption
  <1>2. Booked \in 0 .. Len(chain) /\ Booked \in 0 .. MaxHeight + 1
    BY <1>1 DEF LedgerInv, Locks, Booked
  <1> QED BY <1>1, <1>2, ReplayType, ReplayEmits DEF LedgerInv

LEMMA LedgerInit ==
  ASSUME Init
  PROVE  LedgerInv
  <1>1. chain \in Chain /\ Len(chain) = 1 /\ MaxHeight \in Nat
    BY GenesisType, ParameterAssumption DEF Init, Chain, ParameterAssumption
  <1>2. Locks /\ ChainsFit /\ Drafting /\ Booked = 0
    BY <1>1 DEF Init, Locks, ChainsFit, Drafting, Booked
  <1> QED BY <1>2, ReplaySteps DEF LedgerInv, Init

(* Each step of the miner, the network thread and the rebuilds keeps it.   *)
LedgerStep(txs) ==
  \/ ReadHeight \/ Assemble(txs) \/ Discard \/ Commit \/ BookOwn
  \/ PushPeerBlock(txs) \/ BookPeerBlock \/ AcceptChain \/ InstallChain
  \/ RebuildNext \/ RebuildDone \/ Restart
  \/ UNCHANGED vars

LEMMA LedgerInvStep ==
  ASSUME NEW Emitted, CapIsFar(Emitted), LedgerInv, NEW txs \in Body, LedgerStep(txs)
  PROVE  LedgerInv'
  <1>0. /\ Booked \in 0 .. Len(chain) /\ Booked \in 0 .. MaxHeight + 1 /\ GoodLedger(ledger)
        /\ chain \in Seq(Block) /\ Len(chain) \in 1 .. MaxHeight + 1 /\ MaxHeight \in Nat
        /\ ledger.supply = Emitted[Booked]
        /\ chain \in Chain
    BY LedgerFacts DEF LedgerInv, ChainsFit
  <1>a. ASSUME NEW b \in Block, chain' = Append(chain, b), Len(chain) <= MaxHeight
        PROVE  /\ chain' \in Chain /\ Len(chain') = Len(chain) + 1
               /\ chain'[Len(chain')] = b
               /\ ReplayTo(chain', Len(chain)) = ReplayTo(chain, Len(chain))
    <2>1. /\ chain' \in Chain /\ Len(chain') = Len(chain) + 1
          /\ chain'[Len(chain')] = b
          /\ \A i \in 1 .. Len(chain) : chain'[i] = chain[i]
      BY <1>0, <1>a DEF Chain
    <2> QED BY <1>0, <2>1, ReplayPrefix
  <1>1. CASE ReadHeight
    <2>1. Booked' = Booked /\ chain' = chain /\ ledger' = ledger
      BY <1>1 DEF ReadHeight, Booked
    <2>2. Locks' /\ ChainsFit' /\ Drafting'
      BY <1>0, <1>1 DEF ReadHeight, network, LedgerInv, Locks, ChainsFit, Drafting
    <2> QED BY <2>1, <2>2 DEF LedgerInv
  <1>2. CASE Assemble(txs)
    <2>1. Booked' = Booked /\ chain' = chain /\ ledger' = ledger
      BY <1>2 DEF Assemble, Booked
    <2>2. nextIndex \in 0 .. MaxHeight /\ nextIndex \in 0 .. MaxHeight + 1
      BY <1>0 DEF LedgerInv, Drafting
    <2>3. Subsidy(nextIndex, ledger, Len(chain)) = Scheduled(nextIndex)
          /\ Scheduled(nextIndex) \in Nat
      BY <1>0, <2>2, ScheduledSubsidy
    <2>4. draft'.txs \in Block /\ draft'.subsidy = Scheduled(nextIndex)
      <3>1. BlockOf(nextIndex, Miner, Scheduled(nextIndex), txs) \in Block
        BY <2>2, <2>3, BlockType DEF Address
      <3> QED BY <1>2, <2>3, <3>1 DEF Assemble
    <2>5. Locks' /\ ChainsFit' /\ Drafting'
      BY <1>2, <2>2, <2>4 DEF Assemble, network, LedgerInv, Locks, ChainsFit, Drafting
    <2> QED BY <2>1, <2>5 DEF LedgerInv
  <1>3. CASE Discard
    <2>1. Booked' = Booked /\ chain' = chain /\ ledger' = ledger
      BY <1>3 DEF Discard, Booked
    <2>2. Locks' /\ ChainsFit' /\ Drafting'
      BY <1>0, <1>3 DEF Discard, EndMining, network, LedgerInv, Locks, ChainsFit, Drafting
    <2> QED BY <2>1, <2>2 DEF LedgerInv
  <1>4. CASE Commit
    <2>1. draft.txs \in Block /\ Len(chain) <= MaxHeight
      BY <1>0, <1>4 DEF Commit, LedgerInv, Drafting
    <2>2. /\ chain' \in Chain /\ Len(chain') = Len(chain) + 1
          /\ chain'[Len(chain')] = draft.txs
          /\ ReplayTo(chain', Len(chain)) = ReplayTo(chain, Len(chain))
      BY <1>a, <1>4, <2>1 DEF Commit
    <2>3. Booked = Len(chain) /\ Booked' = Len(chain) /\ ledger' = ledger
      BY <1>0, <1>4, <2>2 DEF Commit, LedgerInv, Locks, Booked
    <2>4. Locks' /\ ChainsFit' /\ Drafting'
      BY <1>0, <1>4, <2>2 DEF Commit, network, LedgerInv, Locks, ChainsFit, Drafting
    <2> QED BY <2>2, <2>3, <2>4 DEF LedgerInv
  <1>5. CASE BookOwn
    <2>1. /\ nextIndex = Len(chain) - 1 /\ chain[Len(chain)] = draft.txs
          /\ draft.subsidy = Scheduled(nextIndex) /\ lock = "miner" /\ cursor = 0
      BY <1>5 DEF BookOwn, LedgerInv, Locks, Drafting
    <2>2. Booked = Len(chain) - 1 /\ Len(chain) - 1 \in Nat /\ Booked' = Len(chain)
      BY <1>0, <1>5, <2>1 DEF BookOwn, Booked
    <2>3. ledger' = BookScheduled(ledger, chain[Len(chain)], Len(chain) - 1)
      BY <1>5, <2>1 DEF BookOwn, BookScheduled
    <2>4. ledger' = RebuildBlock(ReplayTo(chain, Len(chain) - 1), Len(chain), chain)
      <3>1. ledger = ReplayTo(chain, Len(chain) - 1) /\ Len(chain) \in 1 .. Len(chain)
        BY <1>0, <2>2 DEF LedgerInv
      <3> QED BY <1>0, <2>2, <2>3, <3>1, RebuildScheduled
    <2>5. ledger' = ReplayTo(chain, Len(chain))
      BY <1>0, <2>2, <2>4, ReplaySteps
    <2>6. chain' = chain /\ Locks' /\ ChainsFit' /\ Drafting'
      BY <1>0, <1>5, <2>1 DEF BookOwn, EndMining, network, LedgerInv, Locks, ChainsFit, Drafting
    <2> QED BY <2>2, <2>5, <2>6 DEF LedgerInv
  <1>6. CASE PushPeerBlock(txs)
    <2>1. Len(chain) <= MaxHeight /\ Len(chain) \in 0 .. MaxHeight + 1
      BY <1>0, <1>6 DEF PushPeerBlock
    <2>2. PICK b \in Block : chain' = Append(chain, b)
      <3>1. Subsidy(Len(chain), ledger, Len(chain)) \in Int
        BY <1>0, <2>1, RewardType
      <3> QED BY <1>6, <2>1, <3>1, BlockType DEF PushPeerBlock, Address
    <2>3. /\ chain' \in Chain /\ Len(chain') = Len(chain) + 1
          /\ ReplayTo(chain', Len(chain)) = ReplayTo(chain, Len(chain))
      BY <1>a, <2>1, <2>2
    <2>4. Booked = Len(chain) /\ Booked' = Len(chain) /\ ledger' = ledger
      BY <1>0, <1>6, <2>3 DEF PushPeerBlock, LedgerInv, Locks, Booked
    <2>5. Locks' /\ ChainsFit' /\ Drafting'
      BY <1>0, <1>6, <2>3 DEF PushPeerBlock, miner, LedgerInv, Locks, ChainsFit, Drafting
    <2> QED BY <2>3, <2>4, <2>5 DEF LedgerInv
  <1>7. CASE BookPeerBlock
    <2>1. /\ Booked = Len(chain) - 1 /\ Len(chain) - 1 \in 0 .. MaxHeight /\ Booked' = Len(chain)
      BY <1>0, <1>7 DEF BookPeerBlock, LedgerInv, Locks, Booked
    <2>2. Subsidy(Len(chain) - 1, ledger, Len(chain)) = Scheduled(Len(chain) - 1)
      BY <1>0, <2>1, ScheduledSubsidy
    <2>3. ledger' = BookScheduled(ledger, chain[Len(chain)], Len(chain) - 1)
      BY <1>7, <2>2 DEF BookPeerBlock, BookScheduled
    <2>4. ledger' = RebuildBlock(ReplayTo(chain, Len(chain) - 1), Len(chain), chain)
      <3>1. ledger = ReplayTo(chain, Len(chain) - 1) /\ Len(chain) \in 1 .. Len(chain)
        BY <1>0, <2>1 DEF LedgerInv
      <3> QED BY <1>0, <2>1, <2>3, <3>1, RebuildScheduled
    <2>5. ledger' = ReplayTo(chain, Len(chain))
      BY <1>0, <2>1, <2>4, ReplaySteps
    <2>6. chain' = chain /\ Locks' /\ ChainsFit' /\ Drafting'
      BY <1>0, <1>7 DEF BookPeerBlock, miner, LedgerInv, Locks, ChainsFit, Drafting
    <2> QED BY <2>1, <2>5, <2>6 DEF LedgerInv
  <1>8. CASE AcceptChain
    <2>1. Booked' = Booked /\ chain' = chain /\ ledger' = ledger
      BY <1>8 DEF AcceptChain, Booked
    <2>2. incoming' \in Chain
      BY <1>8, PeerChainsType DEF AcceptChain
    <2>3. Locks' /\ ChainsFit' /\ Drafting'
      BY <1>0, <1>8, <2>2 DEF AcceptChain, miner, LedgerInv, Locks, ChainsFit, Drafting
    <2> QED BY <2>1, <2>3 DEF LedgerInv
  <1>9. CASE InstallChain
    <2>1. chain' \in Chain /\ Len(chain') \in Nat
      BY <1>9 DEF InstallChain, LedgerInv, ChainsFit, Chain
    <2>2. Booked' = 0 /\ ledger' = EmptyLedger
      BY <1>9 DEF InstallChain, Booked
    <2>3. Locks' /\ ChainsFit' /\ Drafting'
      BY <1>0, <1>9, <2>1 DEF InstallChain, miner, LedgerInv, Locks, ChainsFit, Drafting
    <2> QED BY <2>2, <2>3, ReplaySteps DEF LedgerInv
  <1>10. CASE RebuildNext
    <2>1. /\ Booked = cursor - 1 /\ cursor - 1 \in Nat /\ Booked' = cursor
          /\ cursor - 1 + 1 = cursor
      BY <1>0, <1>10 DEF RebuildNext, LedgerInv, Locks, Booked
    <2>2. ledger' = ReplayTo(chain, cursor)
      <3>1. ReplayTo(chain, cursor - 1 + 1) = RebuildBlock(ReplayTo(chain, cursor - 1), cursor - 1 + 1, chain)
        BY <2>1, ReplaySteps
      <3> QED BY <1>10, <2>1, <3>1 DEF RebuildNext, LedgerInv
    <2>3. chain' = chain /\ Locks' /\ ChainsFit' /\ Drafting'
      BY <1>0, <1>10 DEF RebuildNext, miner, network, LedgerInv, Locks, ChainsFit, Drafting
    <2> QED BY <2>1, <2>2, <2>3 DEF LedgerInv
  <1>11. CASE RebuildDone
    <2>1. Booked = Len(chain) /\ Booked' = Len(chain) /\ chain' = chain /\ ledger' = ledger
      BY <1>0, <1>11 DEF RebuildDone, LedgerInv, Locks, Booked
    <2>2. Locks' /\ ChainsFit' /\ Drafting'
      BY <1>0, <1>11 DEF RebuildDone, miner, LedgerInv, Locks, ChainsFit, Drafting
    <2> QED BY <2>1, <2>2 DEF LedgerInv
  <1>12. CASE Restart
    <2>1. PICK k \in 1 .. Len(chain) : chain' = SubSeq(chain, 1, k)
      BY <1>12 DEF Restart
    <2>2. chain' \in Chain /\ Len(chain') \in Nat
      BY <1>0, <2>1 DEF Chain
    <2>3. Booked' = 0 /\ ledger' = EmptyLedger
      BY <1>12 DEF Restart, Booked
    <2>4. Locks' /\ ChainsFit' /\ Drafting'
      BY <1>0, <1>12, <2>2 DEF Restart, EndMining, LedgerInv, Locks, ChainsFit, Drafting
    <2> QED BY <2>3, <2>4, ReplaySteps DEF LedgerInv
  <1>13. CASE UNCHANGED vars
    BY <1>13 DEF vars, miner, network, LedgerInv, Locks, ChainsFit, Drafting, Booked
  <1> QED BY <1>1, <1>2, <1>3, <1>4, <1>5, <1>6, <1>7, <1>8, <1>9, <1>10, <1>11, <1>12,
             <1>13 DEF LedgerStep

------------------------------------------------------------------------------
(* Payments                                                                *)

Entry == [tx : Transfer, stamp : {0}, born : Nat]

LEMMA EntryFacts ==
  ASSUME mempool \in Seq(Entry)
  PROVE  /\ DOMAIN mempool = 1 .. Len(mempool) /\ Len(mempool) \in Nat
         /\ \A i \in DOMAIN mempool :
              mempool[i] \in Entry /\ mempool[i].tx \in Transfer /\ mempool[i].stamp = 0
  <1>1. \A i \in DOMAIN mempool : mempool[i] \in Entry
    OBVIOUS
  <1>2. \A e \in Entry : e.tx \in Transfer /\ e.stamp = 0
    BY DEF Entry
  <1> QED BY <1>1, <1>2

KeepStep(kept, e, p, q) == IF IsAlive(e) THEN Append(kept, e) ELSE kept
KeptAll(kept, i, s) == kept = SubSeq(s, 1, i)

Kept == INSTANCE Inductions WITH Op <- KeepStep, Holds <- KeptAll

LEMMA KeptGrounded == Kept!Grounded
  BY NatHasLeast DEF Kept!Grounded

(* No purge drops anything: the file keeps no timestamp, and without one   *)
(* nothing expires.                                                        *)
LEMMA PurgeKeepsAll ==
  ASSUME mempool \in Seq(Entry)
  PROVE  Purged = mempool
  <1>1. \A i \in 1 .. Len(mempool) : mempool[i] \in Entry /\ IsAlive(mempool[i])
    BY EntryFacts DEF IsAlive
  <1>2. KeptAll(<< >>, 0, mempool)
    BY DEF KeptAll
  <1>3. ASSUME NEW i \in 1 .. Len(mempool), NEW kept, KeptAll(kept, i - 1, mempool)
        PROVE  KeptAll(KeepStep(kept, mempool[i], 0, 0), i, mempool)
    <2>1. kept = SubSeq(mempool, 1, i - 1)
      BY <1>3 DEF KeptAll
    <2>2. SubSeq(mempool, 1, i) = Append(SubSeq(mempool, 1, i - 1), mempool[i])
      OBVIOUS
    <2> QED BY <1>1, <2>1, <2>2 DEF KeptAll, KeepStep
  <1>4. KeptAll(Kept!Fold(<< >>, mempool, 0, 0), Len(mempool), mempool)
    BY <1>2, <1>3, Kept!FoldInduction, KeptGrounded
  <1>5. Purged = Kept!Fold(<< >>, mempool, 0, 0)
    BY DEF Purged, Kept!Fold, FoldLeft, MapThenFoldSet,
           Kept!MapThenFoldSet, Max, Kept!Greatest, KeepStep
  <1> QED BY <1>4, <1>5 DEF KeptAll

(* So a block takes the oldest, in the order they came.                    *)
LEMMA AssembledIsPrefix ==
  ASSUME mempool \in Seq(Entry)
  PROVE  /\ Assembled \in Body
         /\ Len(Assembled) = IF Len(mempool) < BlockTxs THEN Len(mempool) ELSE BlockTxs
         /\ \A i \in 1 .. Len(Assembled) : i \in DOMAIN mempool /\ Assembled[i] = mempool[i].tx
  <1>1. Pending = [i \in DOMAIN mempool |-> mempool[i].tx]
    BY PurgeKeepsAll DEF Pending
  <1>2. /\ Pending \in Seq(Transfer) /\ Len(Pending) = Len(mempool)
        /\ \A i \in 1 .. Len(mempool) : Pending[i] = mempool[i].tx
    BY <1>1, EntryFacts
  <1>3. BlockTxs \in Nat
    BY ParameterAssumption DEF ParameterAssumption
  <1> DEFINE n == IF Len(Pending) < BlockTxs THEN Len(Pending) ELSE BlockTxs
  <1>4. n \in 0 .. Len(Pending) /\ n = IF Len(mempool) < BlockTxs THEN Len(mempool) ELSE BlockTxs
    BY <1>2, <1>3
  <1>5. Assembled = SubSeq(Pending, 1, n)
    BY DEF Assembled
  <1> HIDE DEF n
  <1>6. /\ SubSeq(Pending, 1, n) \in Seq(Transfer) /\ Len(SubSeq(Pending, 1, n)) = n
        /\ \A i \in 1 .. n : SubSeq(Pending, 1, n)[i] = Pending[i]
    BY <1>2, <1>4
  <1>7. Seq(Transfer) \subseteq Body
    BY TransferIsTx DEF Body
  <1>8. Assembled \in Body /\ Len(Assembled) = n
    BY <1>5, <1>6, <1>7
  <1>9. \A i \in 1 .. n : i \in DOMAIN mempool /\ Assembled[i] = mempool[i].tx
    BY <1>2, <1>4, <1>5, <1>6, EntryFacts
  <1> QED BY <1>4, <1>8, <1>9

PayInv ==
  /\ mempool \in Seq(Entry) /\ \A i \in DOMAIN mempool : mempool[i].born <= now
  /\ spc \in [Senders -> {"idle", "audit", "append"}]
  /\ request \in [Senders -> Requests \cup {NoRequest}]
  /\ \A s \in Senders : spc[s] # "idle" => request[s] \in Requests
  /\ needed \in [Senders -> Nat] /\ realBalance \in [Senders -> Nat]
  /\ asked \subseteq Requests \cup Relayed /\ now \in 1 .. MaxNow
  /\ restarts \in Nat

LEMMA NeededType ==
  ASSUME NEW r \in Requests, NEW h \in 0 .. MaxHeight + 1
  PROVE  r.amount + (r.amount * FeePercent[h]) \div 100 \in Nat
  <1>1. r.amount \in Nat
    BY PaymentsAssumption DEF PaymentsAssumption
  <1>2. FeePercent[h] \in 0 .. 100
    BY ParameterAssumption DEF ParameterAssumption
  <1>3. r.amount * FeePercent[h] \in Nat
    BY <1>1, <1>2
  <1>4. (r.amount * FeePercent[h]) \div 100 \in Nat
    BY <1>3, DivNat
  <1> QED BY <1>1, <1>4

LEMMA SavedType ==
  ASSUME PayInv, NEW tx \in Transfer
  PROVE  /\ Append(mempool, Saved(tx)) \in Seq(Entry)
         /\ \A i \in DOMAIN Append(mempool, Saved(tx)) : Append(mempool, Saved(tx))[i].born <= now
  <1>1. Saved(tx) \in Entry /\ Saved(tx).born <= now
    BY PaymentsAssumption DEF PayInv, Saved, Entry, PaymentsAssumption
  <1> QED BY <1>1 DEF PayInv

LEMMA TransferOfType ==
  ASSUME NEW r \in Requests, NEW n \in Nat
  PROVE  TransferOf(r, n) \in Transfer
  <1>1. r \in [from : Address, to : Address, amount : Nat, time : Nat]
    BY PaymentsAssumption DEF PaymentsAssumption
  <1>2. <<[address |-> r.to, amount |-> r.amount], [address |-> r.from, amount |-> -n]>>
          \in Seq([address : Address, amount : Int])
    BY <1>1
  <1>3. <<r.from, r.to, r.amount, r.time>> \in TransferIds
    BY <1>1 DEF TransferIds
  <1> QED BY <1>2, <1>3 DEF TransferOf, Transfer

(* Every step of the whole is one of the ledger's.                         *)
LEMMA PayIsLedgerStep ==
  ASSUME PayInv, [PayNext]_allVars
  PROVE  \E txs \in Body : LedgerStep(txs)
  <1>1. Assembled \in Body
    BY AssembledIsPrefix DEF PayInv
  <1>2. << >> \in Body
    BY DEF Body
  <1>3. CASE Send \/ RelayTx \/ Purge \/ Tick \/ UNCHANGED allVars
    BY <1>2, <1>3 DEF Send, ReadBalance, Audit, AppendTx, RelayTx, Purge, Tick, allVars, LedgerStep
  <1>4. CASE MineWithMempool
    BY <1>1, <1>4 DEF MineWithMempool, AssembleFromMempool, BookAndClear, LedgerStep
  <1>5. CASE PeerBlock
    <2>1. ASSUME NEW i \in DOMAIN mempool PROVE <<mempool[i].tx>> \in Body
      <3>1. mempool[i].tx \in Tx
        BY EntryFacts, TransferIsTx DEF PayInv
      <3> QED BY <3>1 DEF Body
    <2> QED BY <1>2, <1>5, <2>1 DEF PeerBlock, LedgerStep
  <1>6. CASE Reorganise \/ RebuildLedger \/ RestartNode
    BY <1>2, <1>6 DEF Reorganise, RebuildLedger, RestartNode, LedgerStep
  <1> QED BY <1>3, <1>4, <1>5, <1>6 DEF PayNext

LEMMA PayInvInit ==
  ASSUME PayInit
  PROVE  PayInv
  BY PaymentsAssumption DEF PayInit, Init, PayInv, PaymentsAssumption, Entry

LEMMA PayInvStep ==
  ASSUME PayInv, GoodLedger(ledger), Len(chain) \in 0 .. MaxHeight + 1, [PayNext]_allVars
  PROVE  PayInv'
  <1>1. ASSUME NEW s \in Senders, ReadBalance(s) PROVE PayInv'
    <2>1. PICK r \in Requests \ asked :
            /\ asked' = asked \cup {r}
            /\ request' = [request EXCEPT ![s] = r]
            /\ needed' = [needed EXCEPT ![s] =
                            r.amount + (r.amount * FeePercent[Len(chain)]) \div 100]
            /\ realBalance' = [realBalance EXCEPT ![s] = GetBalance(ledger.utxo, r.from, Len(chain))]
      BY <1>1 DEF ReadBalance
    <2>2. /\ r.amount + (r.amount * FeePercent[Len(chain)]) \div 100 \in Nat
          /\ GetBalance(ledger.utxo, r.from, Len(chain)) \in Nat
      BY NeededType, BalanceType DEF GoodLedger
    <2> QED BY <1>1, <2>1, <2>2 DEF ReadBalance, PayInv, vars
  <1>2. ASSUME NEW s \in Senders, Audit(s) PROVE PayInv'
    BY <1>2 DEF Audit, PayInv, vars
  <1>3. ASSUME NEW s \in Senders, AppendTx(s) PROVE PayInv'
    <2>1. request[s] \in Requests /\ needed[s] \in Nat
      BY <1>3 DEF AppendTx, PayInv
    <2>2. TransferOf(request[s], needed[s]) \in Transfer
      BY <2>1, TransferOfType
    <2> QED BY <1>3, <2>2, SavedType DEF AppendTx, PayInv, vars
  <1>4. CASE RelayTx
    <2>1. PICK tx \in Relayed \ asked :
            asked' = asked \cup {tx} /\ mempool' = Append(mempool, Saved(tx))
      BY <1>4 DEF RelayTx
    <2>2. tx \in Transfer
      BY PaymentsAssumption DEF PaymentsAssumption
    <2> QED BY <1>4, <2>1, <2>2, SavedType DEF RelayTx, PayInv, sending, vars
  <1>5. CASE Purge
    BY <1>5, PurgeKeepsAll DEF Purge, PayInv, sending, vars
  <1>6. CASE Tick
    <2>1. /\ \A i \in DOMAIN mempool : mempool[i].born <= now + 1
          /\ now + 1 \in 1 .. MaxNow
      <3>1. \A i \in DOMAIN mempool : mempool[i].born \in Nat
        <4>1. \A i \in DOMAIN mempool : mempool[i] \in Entry
          BY EntryFacts DEF PayInv
        <4> QED BY <4>1 DEF Entry
      <3> QED BY <1>6, <3>1, PaymentsAssumption DEF Tick, PayInv, PaymentsAssumption
    <2> QED BY <1>6, <2>1 DEF Tick, PayInv, sending, vars
  <1>7. CASE MineWithMempool
    <2>1. CASE AssembleFromMempool
      BY <2>1, PurgeKeepsAll DEF AssembleFromMempool, Assemble, Rest, PayInv, sending
    <2>2. CASE BookAndClear
      BY <2>2 DEF BookAndClear, BookOwn, Rest, PayInv, sending
    <2>3. CASE (ReadHeight \/ Discard \/ Commit) /\ UNCHANGED <<mempool, Rest>>
      BY <2>3 DEF ReadHeight, Discard, Commit, Rest, PayInv, sending
    <2> QED BY <1>7, <2>1, <2>2, <2>3 DEF MineWithMempool
  <1>8. CASE PeerBlock
    BY <1>8 DEF PeerBlock, PushPeerBlock, BookPeerBlock, Rest, PayInv, sending
  <1>9. CASE Reorganise \/ RebuildLedger
    BY <1>9 DEF Reorganise, RebuildLedger, AcceptChain, InstallChain, RebuildNext, RebuildDone,
                Rest, PayInv, sending
  <1>10. CASE RestartNode
    BY <1>10 DEF RestartNode, Restart, PayInv
  <1>11. CASE UNCHANGED allVars
    BY <1>11 DEF allVars, sending, vars, PayInv
  <1> QED BY <1>1, <1>2, <1>3, <1>4, <1>5, <1>6, <1>7, <1>8, <1>9, <1>10, <1>11
          DEF PayNext, Send

LEMMA LedgerInvariance ==
  ASSUME NEW Emitted, CapIsFar(Emitted)
  PROVE  PaySpec => [](LedgerInv /\ PayInv)
  <1>1. PayInit => LedgerInv /\ PayInv
    BY LedgerInit, PayInvInit DEF PayInit
  <1>2. LedgerInv /\ PayInv /\ [PayNext]_allVars => (LedgerInv /\ PayInv)'
    <2> SUFFICES ASSUME LedgerInv, PayInv, [PayNext]_allVars PROVE LedgerInv' /\ PayInv'
      OBVIOUS
    <2>1. GoodLedger(ledger) /\ Len(chain) \in 0 .. MaxHeight + 1
      BY LedgerFacts
    <2>2. PayInv'
      BY <2>1, PayInvStep
    <2>3. PICK txs \in Body : LedgerStep(txs)
      BY PayIsLedgerStep
    <2> QED BY <2>2, <2>3, LedgerInvStep
  <1> QED BY <1>1, <1>2, PTL DEF PaySpec

(* The four ways of booking a block keep the same books: as long as the    *)
(* emission is far from its cap, whichever mix of own blocks, blocks of    *)
(* peers, reorganisations and restarts led here, the coins, the debits and *)
(* totalSupply are what a rebuild of the chain would make of it.           *)
THEOREM BookingsAgree ==
  ASSUME NEW Emitted, CapIsFar(Emitted)
  PROVE  PaySpec => []BooksAgree
  <1>1. LedgerInv => BooksAgree
    <2> SUFFICES ASSUME LedgerInv, lock = "free" PROVE ledger = Replay(chain)
      BY DEF BooksAgree, LedgerIsReplay, SupplyIsReplay
    <2>1. Booked = Len(chain)
      BY DEF LedgerInv, Locks, Booked
    <2>2. Replay(chain) = ReplayTo(chain, Len(chain))
      BY LedgerFacts, ReplayType
    <2> QED BY <2>1, <2>2 DEF LedgerInv
  <1> QED BY <1>1, LedgerInvariance, PTL

(* Type correctness, at the same heights.  No balance and no supply is ever *)
(* negative, and every coin belongs to an address.                          *)
THEOREM PaymentsTypeCorrect ==
  ASSUME NEW Emitted, CapIsFar(Emitted)
  PROVE  PaySpec => []PayTypeOK
  <1>1. LedgerInv /\ PayInv => PayTypeOK
    <2> SUFFICES ASSUME LedgerInv, PayInv PROVE PayTypeOK
      OBVIOUS
    <2>1. /\ GoodLedger(ledger) /\ ledger.supply = Emitted[Booked] /\ Booked \in 0 .. MaxHeight + 1
          /\ chain \in Seq(Block) /\ Len(chain) \in 1 .. MaxHeight + 1 /\ MaxHeight \in Nat
      BY LedgerFacts
    <2>2. ledger.supply \in Nat
      BY <2>1 DEF CapIsFar
    <2>3. DOMAIN ledger = {"utxo", "balances", "supply"} /\ ledger.balances \in [Address -> Nat]
      BY <2>1 DEF GoodLedger
    <2>4. \A k \in DOMAIN ledger.utxo : ledger.utxo[k].address \in Address
      BY <2>1 DEF GoodLedger, GoodCoins, CoinType
    <2>5. \A i \in DOMAIN chain : chain[i] # << >>
      <3>1. \A i \in DOMAIN chain : chain[i] \in Block
        BY <2>1
      <3> QED BY <3>1 DEF Block
    <2>6. nextIndex \in Nat /\ cursor \in Nat
      BY <2>1 DEF LedgerInv, Drafting, Locks
    <2>7. TypeOK
      BY <2>2, <2>3, <2>4, <2>5, <2>6 DEF TypeOK, LedgerInv, Locks, PayInv
    <2>8. \A i \in DOMAIN mempool : mempool[i].stamp \in Nat
      BY EntryFacts DEF PayInv
    <2> QED BY <2>7, <2>8 DEF PayTypeOK, PayInv
  <1> QED BY <1>1, LedgerInvariance, PTL
==============================================================================

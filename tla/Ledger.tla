-------------------------------- MODULE Ledger --------------------------------
(***************************************************************************)
(* The money of one node: the coins and debits of UTXOSet (utxo.cpp), the  *)
(* running totalSupply and the reward schedule (blockchain.cpp), as the    *)
(* miner, the thread that takes blocks from the network and the rebuilds   *)
(* after a reorganisation or a restart change them.                        *)
(*                                                                         *)
(* g_blockchain_mutex guards the writers only.  A writer pushes its block  *)
(* first and books it afterwards, a rebuild books block by block, and      *)
(* mineBlock reads the height, the supply and the reserve without the      *)
(* mutex; each of these is a step.                                         *)
(*                                                                         *)
(* Amounts are integers (1 = 10^-8 MZ).  Position i of the chain is the    *)
(* block of height i - 1 (ChainNode!HeightIsIndex, which holds as long as  *)
(* peers number their blocks by position); a block is its list of          *)
(* transactions.  No code fills vin, so the loop over vin is left out.     *)
(***************************************************************************)
EXTENDS Integers, Sequences, FiniteSets, SequencesExt

CONSTANTS
  Miner,        \* the address this node mines for
  Peer,         \* the address peers mine for
  Reserve,      \* MAZE_RESERVE_FUND
  Others,       \* the other addresses
  PeerBodies,   \* the transfers of the blocks of the chains peers may offer
  EraLength,    \* blocks per halving era: 10000
  LastEra,      \* the era in which the reserve takes over: 64
  EraReward,    \* reward of eras 0 .. LastEra - 1
  MaxSupply,    \* 20 000 000 MZ
  ReserveDust,  \* below this the reserve pays nothing
  ReserveDivisor, \* the reserve pays 1 / ReserveDivisor of itself
  FeePercent,   \* FeePercent[h]: getDynamicFeePercentage
  Maturity,     \* MATURITY_THRESHOLD: 50
  BlockTxs,     \* transfers per block: MAX_BLOCK_TXS - 1
  MaxHeight,    \* bound on the height of the chain
  MaxRestarts   \* bound on the number of restarts

ASSUME ParameterAssumption ==
  /\ EraLength \in Nat \ {0} /\ LastEra \in Nat \ {0} /\ MaxSupply \in Nat
  /\ ReserveDivisor \in Nat \ {0} /\ ReserveDust \in Nat /\ Maturity \in Nat
  /\ EraReward \in [0 .. LastEra - 1 -> Nat] /\ EraReward[0] \in 1 .. MaxSupply
  /\ FeePercent \in [0 .. MaxHeight + 1 -> 0 .. 100]
  /\ BlockTxs \in Nat /\ MaxHeight \in Nat /\ MaxRestarts \in Nat

VARIABLES
  chain,     \* Blockchain::chain
  ledger,    \* [utxo: utxoMap, balances: addressBalances, supply: totalSupply]
  lock,      \* who holds g_blockchain_mutex: "miner", "network", "startup", "free"
  mpc,       \* program counter of the miner
  nextIndex, \* mineBlock's nextIndex
  draft,     \* the block mineBlock assembled, and its subsidy
  npc,       \* program counter of the network thread
  incoming,  \* the chain replaceChain has accepted
  cursor,    \* next position a rebuild books, 0 when none runs
  restarts

miner   == <<mpc, nextIndex, draft>>
network == <<npc, incoming>>
vars    == <<chain, ledger, lock, miner, network, cursor, restarts>>

Address == {Miner, Peer, Reserve} \cup Others
NoDraft == [subsidy |-> 0, txs |-> << >>]

------------------------------------------------------------------------------
(* UTXOSet                                                                 *)

EmptyLedger ==
  [utxo |-> << >>, balances |-> [a \in Address |-> 0], supply |-> 0]

FloorAtZero(n) == IF n < 0 THEN 0 ELSE n

Coin(tx, i, h) == [address  |-> tx.vout[i].address, amount |-> tx.vout[i].amount,
                   coinbase |-> tx.coinbase /\ tx.vout[i].amount > 0, height |-> h]

Put(utxo, key, coin) ==
  [k \in DOMAIN utxo \cup {key} |-> IF k = key THEN coin ELSE utxo[k]]

(* Output i is booked under this key; its address has this balance then.   *)
Enter(l, tx, i, h, key, balance) ==
  [utxo     |-> Put(l.utxo, key, Coin(tx, i, h)),
   balances |-> [l.balances EXCEPT ![tx.vout[i].address] = balance],
   supply   |-> l.supply]

(* Mutation: the cache is not floored at zero.                             *)
UpdateOutputUnfloored(l, tx, i, h) ==
  LET out == tx.vout[i]
      key == <<tx.id, i, out.amount < 0>>
  IN  IF out.amount = 0 \/ (out.amount > 0 /\ key \in DOMAIN l.utxo) THEN l
      ELSE Enter(l, tx, i, h, key, l.balances[out.address] + out.amount)

(* Mutation: the key of an output does not hold its position.              *)
UpdateOutputUnplaced(l, tx, i, h) ==
  LET out     == tx.vout[i]
      key     == <<tx.id, 0, out.amount < 0>>
      balance == l.balances[out.address] + out.amount
  IN  CASE out.amount < 0 -> Enter(l, tx, i, h, key, FloorAtZero(balance))
        [] out.amount > 0 /\ key \notin DOMAIN l.utxo -> Enter(l, tx, i, h, key, balance)
        [] OTHER -> l

(* A negative output is a debit that stays in the map under a key of its   *)
(* own; a positive one is a coin, booked unless its key is there.          *)
UpdateOutput(l, tx, i, h) ==
  LET out     == tx.vout[i]
      key     == <<tx.id, i, out.amount < 0>>
      balance == l.balances[out.address] + out.amount
  IN  CASE out.amount < 0 -> Enter(l, tx, i, h, key, FloorAtZero(balance))
        [] out.amount > 0 /\ key \notin DOMAIN l.utxo -> Enter(l, tx, i, h, key, balance)
        [] OTHER -> l

Update(l, tx, h) ==
  FoldLeftDomain(LAMBDA acc, i : UpdateOutput(acc, tx, i, h), l, tx.vout)

Book(l, txs, h) == FoldLeft(LAMBDA acc, tx : Update(acc, tx, h), l, txs)

SumOf(utxo, keys) == FoldFunctionOnSet(LAMBDA c, n : c.amount + n, 0, utxo, keys)

Held(utxo, a) == {k \in DOMAIN utxo : utxo[k].address = a}

(* Mutation: a balance may be negative.                                    *)
GetBalanceUnfloored(utxo, a, h) ==
  SumOf(utxo, {k \in Held(utxo, a) :
                 utxo[k].coinbase => h - utxo[k].height >= Maturity})

(* What a may spend at this height: young coinbase coins do not count.     *)
GetBalance(utxo, a, h) ==
  FloorAtZero(SumOf(utxo, {k \in Held(utxo, a) :
                             utxo[k].coinbase => h - utxo[k].height >= Maturity}))

------------------------------------------------------------------------------
(* Rewards and fees                                                        *)

(* Blockchain::getBlockReward: size is chain.size() when it runs.          *)
GetBlockReward(h, l, size) ==
  LET era     == h \div EraLength
      reserve == GetBalance(l.utxo, Reserve, size)
      left    == MaxSupply - l.supply
  IN  IF left <= 0 \/ era >= LastEra
      THEN IF reserve > ReserveDust THEN reserve \div ReserveDivisor ELSE 1
      ELSE LET paid == IF EraReward[era] > left THEN left ELSE EraReward[era]
           IN  IF paid < 1 THEN 1 ELSE paid

(* Mutation: the cap is left to getBlockReward.                            *)
CappedLoosely(reward, supply) == reward

(* Mutation: the reward that would meet the cap is not paid.               *)
CappedBelow(reward, supply) == IF supply + reward >= MaxSupply THEN 0 ELSE reward

(* The caller's second clamp.                                              *)
Capped(reward, supply) ==
  IF supply + reward > MaxSupply THEN MaxSupply - supply ELSE reward

Subsidy(h, l, size) == Capped(GetBlockReward(h, l, size), l.supply)

Debits(tx) == {i \in DOMAIN tx.vout : tx.vout[i].amount < 0}

FeesOf(txs, h) ==
  FoldLeft(LAMBDA sum, tx : sum + FoldFunctionOnSet(
             LAMBDA out, n : n + (-out.amount * FeePercent[h]) \div 100,
             0, tx.vout, Debits(tx)), 0, txs)

Coinbase(h, to, subsidy, fees) ==
  [id |-> <<"coinbase", h>>, coinbase |-> TRUE,
   vout |-> <<[address |-> to, amount |-> subsidy]>> \o
            IF fees > 0 THEN <<[address |-> Reserve, amount |-> fees]>> ELSE << >>]

BlockOf(h, to, subsidy, txs) == <<Coinbase(h, to, subsidy, FeesOf(txs, h))>> \o txs

GenesisBlock ==
  <<[id |-> <<"coinbase", 0>>, coinbase |-> TRUE,
     vout |-> <<[address |-> Peer, amount |-> EraReward[0]]>>]>>

(* Mutation: the rebuild adds the reward after booking the transactions of *)
(* the wrong height.                                                       *)
RebuildBlockOffByOne(l, i, c) ==
  LET reward == FloorAtZero(Subsidy(i, l, Len(c)))
  IN  Book([l EXCEPT !.supply = @ + reward], c[i], i)

(* One turn of the loop in rebuildUTXO and in replaceChain.                *)
RebuildBlock(l, i, c) ==
  LET reward == FloorAtZero(Subsidy(i - 1, l, Len(c)))
  IN  Book([l EXCEPT !.supply = @ + reward], c[i], i - 1)

(* The ledger a rebuild makes of a chain.                                  *)
Replay(c) == FoldLeftDomain(LAMBDA l, i : RebuildBlock(l, i, c), EmptyLedger, c)

(* The chains of peers that mined alone, running the same code.            *)
PeerChains ==
  {FoldLeft(LAMBDA c, txs : Append(c, BlockOf(Len(c), Peer, Subsidy(Len(c), Replay(c), Len(c)), txs)),
            <<GenesisBlock>>, bodies) : bodies \in PeerBodies}

------------------------------------------------------------------------------
(* The miner (Blockchain::mineBlock)                                       *)

ReadHeight ==
  /\ mpc = "idle" /\ lock # "startup" /\ Len(chain) <= MaxHeight
  /\ nextIndex' = Len(chain)
  /\ mpc' = "assemble"
  /\ UNCHANGED <<chain, ledger, lock, draft, network, cursor, restarts>>

(* The unlocked reads of totalSupply and of the reserve.                   *)
Assemble(txs) ==
  /\ mpc = "assemble"
  /\ LET subsidy == Subsidy(nextIndex, ledger, Len(chain))
     IN  draft' = [subsidy |-> subsidy,
                   txs |-> BlockOf(nextIndex, Miner, subsidy, txs)]
  /\ mpc' = "commit"
  /\ UNCHANGED <<chain, ledger, lock, nextIndex, network, cursor, restarts>>

EndMining == mpc' = "idle" /\ nextIndex' = 0 /\ draft' = NoDraft

(* Interrupted, or the height has changed when the nonce is found.         *)
Discard ==
  /\ mpc = "commit"
  /\ EndMining
  /\ UNCHANGED <<chain, ledger, lock, network, cursor, restarts>>

Commit ==
  /\ mpc = "commit" /\ lock = "free" /\ nextIndex = Len(chain)
  /\ lock' = "miner"
  /\ chain' = Append(chain, draft.txs)
  /\ mpc' = "book"
  /\ UNCHANGED <<ledger, nextIndex, draft, network, cursor, restarts>>

(* Mutation: the coins are booked and totalSupply is forgotten.            *)
BookOwnNoSupply ==
  /\ mpc = "book"
  /\ ledger' = Book(ledger, draft.txs, nextIndex)
  /\ lock' = "free"
  /\ EndMining
  /\ UNCHANGED <<chain, network, cursor, restarts>>

BookOwn ==
  /\ mpc = "book"
  /\ ledger' = Book([ledger EXCEPT !.supply = @ + draft.subsidy], draft.txs, nextIndex)
  /\ lock' = "free"
  /\ EndMining
  /\ UNCHANGED <<chain, network, cursor, restarts>>

------------------------------------------------------------------------------
(* Blocks from the network (addBlock) and reorganisations (replaceChain)   *)

(* A peer's block: its miner runs the same code over the same chain.       *)
PushPeerBlock(txs) ==
  /\ npc = "idle" /\ lock = "free" /\ Len(chain) <= MaxHeight
  /\ lock' = "network"
  /\ chain' = Append(chain, BlockOf(Len(chain), Peer,
                                    Subsidy(Len(chain), ledger, Len(chain)), txs))
  /\ npc' = "book"
  /\ UNCHANGED <<ledger, miner, incoming, cursor, restarts>>

(* Mutation: the coins are dated by the height after the push.             *)
BookPeerBlockLate ==
  /\ npc = "book"
  /\ LET h      == Len(chain)
         reward == Subsidy(h, ledger, Len(chain))
     IN  ledger' = Book([ledger EXCEPT !.supply = @ + reward], chain[Len(chain)], h)
  /\ lock' = "free"
  /\ npc' = "idle"
  /\ UNCHANGED <<chain, miner, incoming, cursor, restarts>>

(* The reward is computed again, now with the block on the chain.          *)
BookPeerBlock ==
  /\ npc = "book"
  /\ LET h      == Len(chain) - 1
         reward == Subsidy(h, ledger, Len(chain))
     IN  ledger' = Book([ledger EXCEPT !.supply = @ + reward], chain[Len(chain)], h)
  /\ lock' = "free"
  /\ npc' = "idle"
  /\ UNCHANGED <<chain, miner, incoming, cursor, restarts>>

AcceptChain ==
  /\ npc = "idle" /\ lock # "startup"
  /\ \E c \in PeerChains : Len(c) > Len(chain) /\ incoming' = c
  /\ npc' = "install"
  /\ UNCHANGED <<chain, ledger, lock, miner, cursor, restarts>>

(* Mutation: replaceChain keeps the coins of the chain it replaces.        *)
InstallChainUncleared ==
  /\ npc = "install" /\ lock = "free"
  /\ lock' = "network"
  /\ chain' = incoming /\ incoming' = << >>
  /\ ledger' = [ledger EXCEPT !.supply = 0] /\ cursor' = 1
  /\ npc' = "rebuild"
  /\ UNCHANGED <<miner, restarts>>

InstallChain ==
  /\ npc = "install" /\ lock = "free"
  /\ lock' = "network"
  /\ chain' = incoming /\ incoming' = << >>
  /\ ledger' = EmptyLedger /\ cursor' = 1
  /\ npc' = "rebuild"
  /\ UNCHANGED <<miner, restarts>>

RebuildNext ==
  /\ cursor \in 1 .. Len(chain)
  /\ ledger' = RebuildBlock(ledger, cursor, chain)
  /\ cursor' = cursor + 1
  /\ UNCHANGED <<chain, lock, miner, network, restarts>>

RebuildDone ==
  /\ cursor > Len(chain)
  /\ cursor' = 0 /\ lock' = "free" /\ npc' = "idle"
  /\ UNCHANGED <<chain, ledger, miner, incoming, restarts>>

(* The process ends; the start-up finds a prefix of the chain on disk      *)
(* (HashChain!Forget) and rebuildUTXO books it.                            *)
Restart ==
  /\ restarts < MaxRestarts
  /\ restarts' = restarts + 1
  /\ \E k \in 1 .. Len(chain) : chain' = SubSeq(chain, 1, k)
  /\ ledger' = EmptyLedger /\ cursor' = 1 /\ lock' = "startup"
  /\ EndMining
  /\ npc' = "idle" /\ incoming' = << >>

------------------------------------------------------------------------------
Init ==
  /\ chain = <<GenesisBlock>>
  /\ ledger = EmptyLedger /\ cursor = 1 /\ lock = "startup"
  /\ mpc = "idle" /\ nextIndex = 0 /\ draft = NoDraft
  /\ npc = "idle" /\ incoming = << >>
  /\ restarts = 0

------------------------------------------------------------------------------
(* Properties                                                              *)

(* The type invariant. *)
TypeOK ==
  /\ lock \in {"free", "miner", "network", "startup"}
  /\ mpc \in {"idle", "assemble", "commit", "book"}
  /\ npc \in {"idle", "book", "install", "rebuild"}
  /\ nextIndex \in Nat /\ cursor \in Nat /\ restarts \in Nat
  /\ DOMAIN ledger = {"utxo", "balances", "supply"}
  /\ ledger.supply \in Nat /\ ledger.balances \in [Address -> Nat]
  /\ \A k \in DOMAIN ledger.utxo : ledger.utxo[k].address \in Address
  /\ \A i \in DOMAIN chain : chain[i] # << >>

(* The coins and debits in memory are those a rebuild of the chain would book,
   whichever mix of own blocks, peer blocks, reorganisations and restarts led
   here: mineBlock, addBlock, replaceChain and rebuildUTXO agree. *)
LedgerIsReplay == lock = "free" => ledger.utxo = Replay(chain).utxo

(* The same for totalSupply: blockchain.cpp:219 announces the rebuild as the
   real supply ("calculando supply real"). *)
SupplyIsReplay == lock = "free" => ledger.supply = Replay(chain).supply

(* The four ways to book a block keep the same books (blockchain.cpp:342, 427,
   634 and storage.cpp:246). *)
BooksAgree == LedgerIsReplay /\ SupplyIsReplay

(* totalSupply is what the coinbases of the chain paid out as subsidies. *)
SupplyIsPaid ==
  lock = "free" =>
    ledger.supply = FoldLeft(LAMBDA n, txs : n + txs[1].vout[1].amount, 0, chain)

Paid(txs) ==
  FoldLeft(LAMBDA n, tx : n + FoldFunctionOnSet(LAMBDA out, m : out.amount + m,
                                                0, tx.vout, DOMAIN tx.vout), 0, txs)

(* Every output of the chain is booked once: coins and debits add up to what
   the blocks say, although they are kept under keys made of id, position and
   sign of which the first booked wins (utxo.cpp:42). *)
OutputsAreBookedOnce ==
  lock = "free" =>
    SumOf(ledger.utxo, DOMAIN ledger.utxo) = FoldLeft(LAMBDA n, txs : n + Paid(txs), 0, chain)

(* A block goes without a subsidy only when the emission has reached the cap
   exactly, where the two clamps of the reward meet (blockchain.cpp:298). *)
UnpaidOnlyAtCap ==
  lock = "free" /\ (\E i \in DOMAIN chain : chain[i][1].vout[1].amount = 0) =>
    ledger.supply = MaxSupply

(* totalSupply never passes the cap of 20 million (mining_utils.h:22). *)
SupplyCapped == ledger.supply <= MaxSupply

(* The emission of a node that mines alone: it pays what it counts, keeps the
   cap and stops paying at the cap only. *)
EmissionIsSound == SupplyCapped /\ SupplyIsPaid /\ UnpaidOnlyAtCap

(* The coins in existence never pass the cap (replit.md:10, "20M max supply"). *)
CirculatingCapped == lock = "free" => SumOf(ledger.utxo, DOMAIN ledger.utxo) <= MaxSupply

(* addressBalances is a cache of the balances (utxo.h:25): it agrees with the
   coins and debits of the address. *)
CacheAgrees ==
  lock = "free" =>
    \A a \in Address :
      ledger.balances[a] = FloorAtZero(SumOf(ledger.utxo, Held(ledger.utxo, a)))

(* Every block pays its miner, also when the emission is over
   (blockchain.cpp:177, "1 Mit - garante consenso eterno"). *)
EveryBlockPays == \A i \in DOMAIN chain : chain[i][1].vout[1].amount > 0
==============================================================================

------------------------------- MODULE Payments -------------------------------
(***************************************************************************)
(* Payments on their way into the ledger: Blockchain::send (POST /send,    *)
(* POST /api/send and the command line), the relay POST /tx, the file      *)
(* mempool.dat and what mineBlock and the purge do to it.  The ledger, the *)
(* miner and the network thread are those of Ledger.                       *)
(*                                                                         *)
(* No lock guards mempool.dat.  send reads the balance, then the file, and *)
(* appends to it later; mineBlock reads it when it assembles a block and   *)
(* empties it when it has booked one.                                      *)
(***************************************************************************)
EXTENDS Ledger

CONSTANTS
  Senders,   \* threads that serve a send request
  Requests,  \* what is asked of send: [from, to, amount, time]
  Relayed,   \* signed transactions that arrive at POST /tx
  TTL,       \* MEMPOOL_TTL_SECONDS, in ticks
  MaxNow     \* bound on the clock

TransferIds == Address \X Address \X Nat \X Nat
Transfer ==
  [id : TransferIds, coinbase : {FALSE}, vout : Seq([address : Address, amount : Int])]

ASSUME PaymentsAssumption ==
  /\ Requests \subseteq [from : Address, to : Address, amount : Nat, time : Nat]
  /\ Relayed \subseteq Transfer
  /\ \A bodies \in PeerBodies :
       /\ bodies \in Seq(Seq(Transfer)) /\ Len(bodies) <= MaxHeight
  /\ TTL \in Nat /\ MaxNow \in Nat \ {0}

VARIABLES
  mempool,   \* mempool.dat: records [tx, stamp, born]; born is the true age
  spc,       \* program counter of each sender
  request,   \* the request it serves
  needed,    \* totalNeeded: amount and fee
  realBalance, \* the balance IsTransactionAllowed read
  asked,     \* the requests that have come in, each comes once
  now

sending == <<spc, request, needed, realBalance>>
allVars == <<vars, mempool, sending, asked, now>>

NoRequest == [from |-> Reserve, to |-> Reserve, amount |-> 0, time |-> 0]

------------------------------------------------------------------------------
(* The file.  saveMempool writes id, signature, key and outputs: a         *)
(* timestamp does not survive it, and loadMempool yields 0.                *)
Saved(tx) == [tx |-> tx, stamp |-> 0, born |-> now]

(* MempoolExpiry::isAlive: no timestamp, no expiry.                        *)
IsAlive(e) == e.stamp = 0 \/ now - e.stamp < TTL

Purged == FoldLeft(LAMBDA kept, e : IF IsAlive(e) THEN Append(kept, e) ELSE kept, << >>, mempool)

Pending == [i \in DOMAIN Purged |-> Purged[i].tx]

(* Mutation: a block takes the newest.                                     *)
AssembledNewest ==
  SubSeq(Pending, 1 + Len(Pending) - (IF Len(Pending) < BlockTxs THEN Len(Pending) ELSE BlockTxs),
         Len(Pending))

Assembled == SubSeq(Pending, 1, IF Len(Pending) < BlockTxs THEN Len(Pending) ELSE BlockTxs)

(* MempoolAudit::GetPendingSpent.                                          *)
PendingSpent(entries, a) ==
  FoldLeft(LAMBDA sum, e : sum + IF Len(e.tx.vout) >= 2 /\ e.tx.vout[2].address = a
                                 THEN (IF e.tx.vout[2].amount < 0 THEN -e.tx.vout[2].amount
                                                                  ELSE e.tx.vout[2].amount)
                                 ELSE 0, 0, entries)

(* The id hashes sender, receiver, amount and the second of the request.   *)
TransferOf(r, debit) ==
  [id |-> <<r.from, r.to, r.amount, r.time>>, coinbase |-> FALSE,
   vout |-> <<[address |-> r.to, amount |-> r.amount],
              [address |-> r.from, amount |-> -debit]>>]

------------------------------------------------------------------------------
(* Blockchain::send                                                        *)

ReadBalance(s) ==
  /\ spc[s] = "idle" /\ lock # "startup"
  /\ \E r \in Requests \ asked :
       /\ asked' = asked \cup {r}
       /\ request' = [request EXCEPT ![s] = r]
       /\ needed' = [needed EXCEPT ![s] =
                       r.amount + (r.amount * FeePercent[Len(chain)]) \div 100]
       /\ realBalance' = [realBalance EXCEPT ![s] =
                            GetBalance(ledger.utxo, r.from, Len(chain))]
  /\ spc' = [spc EXCEPT ![s] = "audit"]
  /\ UNCHANGED <<vars, mempool, now>>

(* Mutation: only the balance is compared.                                 *)
AuditBalanceOnly(s) ==
  /\ spc[s] = "audit"
  /\ spc' = [spc EXCEPT ![s] = IF realBalance[s] >= needed[s] THEN "append" ELSE "idle"]
  /\ UNCHANGED <<vars, mempool, request, needed, realBalance, asked, now>>

Audit(s) ==
  /\ spc[s] = "audit"
  /\ spc' = [spc EXCEPT ![s] =
               IF realBalance[s] >= PendingSpent(mempool, request[s].from) + needed[s]
               THEN "append" ELSE "idle"]
  /\ UNCHANGED <<vars, mempool, request, needed, realBalance, asked, now>>

AppendTx(s) ==
  /\ spc[s] = "append"
  /\ mempool' = Append(mempool, Saved(TransferOf(request[s], needed[s])))
  /\ spc' = [spc EXCEPT ![s] = "idle"]
  /\ UNCHANGED <<vars, request, needed, realBalance, asked, now>>

(* POST /tx: the signature is checked, the balance is not.                 *)
RelayTx ==
  /\ lock # "startup"
  /\ \E tx \in Relayed \ asked :
       /\ asked' = asked \cup {tx}
       /\ mempool' = Append(mempool, Saved(tx))
  /\ UNCHANGED <<vars, sending, now>>

Purge ==
  /\ mempool' = Purged
  /\ UNCHANGED <<vars, sending, asked, now>>

Tick == now < MaxNow /\ now' = now + 1 /\ UNCHANGED <<vars, mempool, sending, asked>>

------------------------------------------------------------------------------
(* The ledger's steps and the file                                         *)

Rest == <<sending, asked, now>>

AssembleFromMempool ==
  /\ Assemble(Assembled)
  /\ mempool' = Purged
  /\ UNCHANGED Rest

(* Mutation: the mempool is not cleared.                                   *)
BookOwnOnly == BookOwn /\ UNCHANGED <<mempool, Rest>>

BookAndClear == BookOwn /\ mempool' = << >> /\ UNCHANGED Rest

MineWithMempool ==
  \/ AssembleFromMempool
  \/ BookAndClear
  \/ (ReadHeight \/ Discard \/ Commit) /\ UNCHANGED <<mempool, Rest>>

(* A peer may confirm what was sent to it as well.                         *)
PeerBlock ==
  \/ \E txs \in {<< >>} \cup {<<mempool[i].tx>> : i \in DOMAIN mempool} :
       PushPeerBlock(txs) /\ UNCHANGED <<mempool, Rest>>
  \/ BookPeerBlock /\ UNCHANGED <<mempool, Rest>>

(* replaceChain does not look at the file either.                          *)
Reorganise == (AcceptChain \/ InstallChain) /\ UNCHANGED <<mempool, Rest>>

(* The file outlives the process.                                          *)
RestartNode ==
  /\ Restart
  /\ spc' = [s \in Senders |-> "idle"]
  /\ UNCHANGED <<mempool, request, needed, realBalance, asked, now>>

RebuildLedger == (RebuildNext \/ RebuildDone) /\ UNCHANGED <<mempool, Rest>>

PayInit ==
  /\ Init
  /\ mempool = << >> /\ asked = {} /\ now = 1
  /\ spc = [s \in Senders |-> "idle"]
  /\ request = [s \in Senders |-> NoRequest]
  /\ needed = [s \in Senders |-> 0]
  /\ realBalance = [s \in Senders |-> 0]

Send == \E s \in Senders : ReadBalance(s) \/ Audit(s) \/ AppendTx(s)

PayNext ==
  \/ Send \/ RelayTx \/ Purge \/ Tick
  \/ MineWithMempool \/ PeerBlock \/ Reorganise \/ RebuildLedger \/ RestartNode

PaySpec == PayInit /\ [][PayNext]_allVars

(* A node that mines alone, and a node that only follows its peers.        *)
PayMiner == PayInit /\ [][Send \/ RelayTx \/ MineWithMempool \/ RebuildLedger]_allVars
PayFollower == PayInit /\ [][Send \/ PeerBlock \/ RebuildLedger]_allVars

------------------------------------------------------------------------------
(* Properties                                                              *)

(* The type invariant. *)
PayTypeOK ==
  /\ TypeOK
  /\ \A i \in DOMAIN mempool : mempool[i].stamp \in Nat /\ mempool[i].born <= now
  /\ spc \in [Senders -> {"idle", "audit", "append"}]
  /\ needed \in [Senders -> Nat] /\ realBalance \in [Senders -> Nat]
  /\ asked \subseteq Requests \cup Relayed /\ now \in 1 .. MaxNow

(* No address owes: what send let through never exceeds what its sender had,
   pending payments included (mempool_audit.h:40, "evita double spend no
   mempool"). *)
NoOverdraft ==
  lock = "free" => \A a \in Address : SumOf(ledger.utxo, Held(ledger.utxo, a)) >= 0

InChain(tx, c) == \E i \in DOMAIN c : \E j \in DOMAIN c[i] : c[i][j].id = tx.id

(* What waits in mempool.dat is not in the chain already (mempool_audit.h:16,
   "transacoes que estao aguardando"): it would be booked, and its fee paid,
   a second time. *)
PendingIsWaiting ==
  lock = "free" => \A i \in DOMAIN mempool : ~InChain(mempool[i].tx, chain)

(* A transaction leaves mempool.dat for a block, or because it expired
   (mempool_expiry.h:5). *)
NothingIsLost ==
  [][\A i \in DOMAIN mempool :
       LET e == mempool[i] IN
         \/ \E j \in DOMAIN mempool' : mempool'[j] = e
         \/ InChain(e.tx, chain')
         \/ now - e.born >= TTL]_allVars

(* What the code keeps of it on a node that mines alone: the miner takes the
   oldest, and what it empties the file of without a block lies behind all
   that its block took, since it did not fit or came later
   (blockchain.cpp:349). *)
TakenOldestFirst ==
  [][\A i \in DOMAIN mempool :
       LET e == mempool[i] IN
         \/ \E j \in DOMAIN mempool' : mempool'[j] = e
         \/ InChain(e.tx, chain')
         \/ mpc = "book" /\ i >= Len(draft.txs)]_allVars

(* When a block is assembled, transactions older than a day have left the
   mempool (mempool_expiry.h:5, "descartadas automaticamente"). *)
ExpiredIsDropped ==
  [][mpc = "assemble" /\ mpc' = "commit" =>
       \A i \in DOMAIN mempool' : now - mempool'[i].born < TTL]_allVars
==============================================================================

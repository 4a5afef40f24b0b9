# MazeChain node: TLA+ specifications

MazeChain is a proof-of-work node in C++ (`api/main.cpp` over `src/*.cpp`), with an HTTP API
for wallets, miners and other nodes. This directory holds TLA+ models of it, the TLC
configurations that check them on small instances, and TLAPS proofs of the properties that
matter most. `PROJECT.json` lists components, runs, mutants, findings, hazards and theorems, and maps
every definition to the lines it translates.

Paths below are relative to the repository root.

## 1. The system

One process, several threads, a handful of files, no database. Around it: other nodes, that exchange blocks and lists of peers;
remote miners, that work on templates; and a command line process of the same program, that may run over the same files.

| component | state | operations | talks to |
|---|---|---|---|
| chain (`src/blockchain.cpp`, `src/block.cpp`) | `chain`, `totalSupply`, `difficulty`, `interruptMining`, `g_blockchain_mutex` | `mineBlock`, `addBlock`, `replaceChain`, `send`, the constructor | all below |
| HTTP routes and mining threads (`api/main.cpp`) | `is_mining` | about 90 routes; `async_mine` per mining request | chain, mempool file, peers |
| ledger (`src/utxo.cpp`) | `utxoMap`, `addressBalances` | `update`, `getBalance` | called by the chain |
| storage (`src/storage.cpp`) | `blk00000.dat`, `blockchain.dat`, `mempool.dat` | append, rewrite, load, clear | files |
| checkpoints (`src/checkpoints.cpp`) | `runtimeCheckpoints`, `checkpoints.dat` | check, add, save, load | called by the chain |
| integrity hash (`src/db_integrity.cpp`) | `blockchain.hash` | update, verify | called by `mineBlock`, routes |
| mempool rules (`mempool_audit.h`, `mempool_expiry.h`) | none (the file) | pending payments, expiry | `send`, `mineBlock` |
| difficulty (`difficulty.h`) | none (the field) | next difficulty | `adjustDifficulty` |
| peers (`src/p2p.cpp`) | `peers`, `peers.dat` | bootstrap, rounds of sync, exchange of lists, broadcast, `/peers/*` | other nodes' routes |
| multi-signature proposals (`multisig.h`) | `multisig_pending.dat` | propose, sign, broadcast | mempool file |
| server-sent events (`sse.h`) | `g_events`, `g_nextId` | push, long poll, latest | streams, the page |
| labels (`wallet_features.h`), extra nonce (`extra_nonce.h`) | `g_labels` and `labels.dat`, `g_extraNonce1` | set and save, next | routes |
| script machine (`script_vm.h`), merkle proofs (`merkle_proof.h`) | one evaluation, one proof | `/script/eval`, `/script/build`, `/merkle/proof` | routes |
| remote miners (`miner.py`, `mazechain_client.py`) | template, `blocks_found` | `/getblocktemplate`, `POST /block`, retry | routes |
| command line (`main`) | a chain and checkpoints of its own | mine, send, stop | the files of the node |
| orphan pool, request limits, eviction, inventory, version bits, stratum, fee estimation (one header each) | a container behind a mutex | nothing calls what would change their state | routes that show it |
| ban score | scores and bans | `/ban`, `/unban`; nothing consults a ban | routes |
| wallets, keys, encodings | key files | signatures, derivation, addresses | `send`, `/tx`, clients |
| validation skeleton (`src/net_processing.cpp`, `src/validation.cpp`, `src/pow.cpp`, `src/coins.cpp` and others) | - | in no build target | nothing |

**What is hard.** Three kinds of thread write the chain: a mining thread, the HTTP worker of
`POST /block`, and the thread of a sync. Each makes part of its decisions before it holds
`g_blockchain_mutex`: the miner reads height, tip, difficulty, supply and mempool unlocked, the handler
checks height and `prevHash` before it waits, the sync compares whole chains before it waits. Readers
take no lock at all. Two different files receive blocks, and only one is read at start-up. The
mempool is a file that senders append to and the miner empties, without a lock. A crash can fall
between any two writes, or in the middle of a record, and the loader behind it trusts lengths it reads from what is left. Sixteen HTTP workers
load, truncate and write back one file of multi-signature proposals, without a lock either, and the lists of peers and of checkpoints are saved the same way, emptied first and written later; the event bus keeps a bounded list for
clients that wait, time out, lose answers and survive a restart with an old id. Lists of peers grow under the loops that run over them,
while nodes restart and exchanges time out. A remote miner puts together a template from a height and a hash read one after the other, and its
block may arrive after it gave up waiting. A command line process reads, appends to and overwrites the files of a node that runs.
The hazards are listed with their lines in `PROJECT.json`.

## 2. Modules

| module | what it is |
|---|---|
| `HashChain` | the promise of an appending node: a hash-linked log that grows by one block and that a restart may take back to a prefix of itself |
| `ChainNode` | the chain of one node: miners, `POST /block` handlers, sync threads, files, crash, start-up |
| `Gossip` | the lists of peers of several nodes: bootstrap, rounds, exchanges, `/peers/*`, restarts |
| `PeerNetwork` | both halves of `p2p.cpp`, `ChainNode` and `Gossip`; `MCNetwork` for TLC |
| `RemoteMiners` | miners on other machines over templates and `POST /block` |
| `NodeAndMiners` | the chain from inside and outside, `ChainNode` and `RemoteMiners`; `MCRace` for TLC |
| `Ledger` | coins, debits, cached balances, supply and rewards, booked by four different paths; actions and properties only |
| `Payments` | extends `Ledger` with `send`, `POST /tx`, the mempool file, expiry, and composes the actions of both into specifications |
| `BlockTiming` | difficulty, adjusted without a lock by every thread that asks for it, and median time past |
| `SharedFiles` | a node and command line processes over the three files of one data directory |
| `TornRecords` | one process, stops in the middle of a record, and what the loader makes of the rest |
| `WorkerStores` | labels and their file, the extra nonce, under HTTP workers |
| `ScriptVM`, `MerkleProofs` | the script machine, a step per opcode; the proof of a transaction level by level |
| `Rules` | composes the six components of the five lines above (`BlockTiming` to `MerkleProofs`); `MCRules` for TLC |
| `Events` | the event bus, `GET /events`, `GET /events/latest`, a stream that follows Last-Event-ID and the page |
| `Multisig` | the file of proposals and the routes `/multisig/propose`, `/sign`, `/broadcast` |
| `Services` | composes `Events` and `Multisig`; `MCServices` for TLC |
| `MCChainNode`, `MCPayments` | block universes; eras, rewards, caps and requests |
| `ChainNode_proofs`, `Ledger_proofs`, `Payments_proofs`, `Gossip_proofs`, `RemoteMiners_proofs`, `Rules_proofs`, `Services_proofs` | theorems and their lemmas (section 4) |
| `Inductions` | induction over naturals, recursive functions, folds and sums, stated once for constants that the proof modules instantiate with their own operators |

The split follows what the properties tell apart. In `ChainNode` a block is its hash (with its
index and its predecessor), so that every order of the threads can be explored; in `Ledger` a block is its
transactions and the chain module's results are taken over (position is height, which holds as long as no peer serves a chain that numbers its blocks otherwise, section 5; `HashChain!Forget`: a restart
finds a prefix); in `BlockTiming` a block is its timestamp; in `SharedFiles` it is the chain it was mined on, so that two
blocks of one height and different ancestry differ; in `TornRecords` it is the number of its record.

`PeerNetwork`, `NodeAndMiners`, `Rules` and `Services` join components without a common variable. A joint behaviour of those is any
interleaving of one behaviour of each, and a property of one holds jointly when it holds alone (proved, section 4). Each of these modules therefore picks the one to
exercise in `focus` and leaves the others in their initial state. Where components do share state (the chain with its
miners, handlers, sync threads and files; the ledger with the mempool file) they are one module, or one extends the other.

### ChainNode

| variables | in the code |
|---|---|
| `chain`, `runtimeCheckpoints`, `lock`, `is_mining`, `interruptMining` | the fields and atomics of the same name; `lock` is the holder of `g_blockchain_mutex` across the steps of `mineBlock` |
| `blkFile`, `datFile`, `checkpointsDat`, `hashed` | the files; `hashed` is the length of `blk00000.dat` that `blockchain.hash` covers |
| `phase`, `cursor`, `crashes` | the constructor's reload, record by record |
| `mpc`, `nextIndex`, `lastHash`, `newBlock` | a mining thread inside `async_mine` / `mineBlock` |
| `hpc`, `received` | a handler inside `POST /block` |
| `spc`, `peerBlocks`, `full` | a sync thread inside `sync_with_peers` |

Mining: `MineRequest`, `ReleaseFlag`, `TakeFlag`/`GiveUp` (the route sets `is_mining`, clears it, and the thread it starts
sets it again) or `MineDirectly` (the regtest route), then `ReadIndex`, `ReadTip`,
`StartSearch`, `FindNonce` or `Interrupted`, `Commit` or `Discard`, `UpdateHash`, `SealCheckpoint`, `StopMining`.
Receiving: `ReceiveBlock`, `HandlerAdd` (the whole of `addBlock`), `HandlerSave`, `HandlerInterrupt`.
Sync: `CompareHeights`, `DownloadChain`, `ValidateChain` (the checks `replaceChain` makes before the
mutex), `ReplaceChain`, `DumpChain`, or `FetchBatch`, `NextOfBatch`, `SyncAdd`, `SyncSave`, `EndOfBatch`. `Crash` may fall
between any two of them and `LoadRecord`, `CreateGenesis`, `FinishLoad` bring the node back.

A step is a critical section, or one read of shared state made without the mutex. Blocks that
`addBlock` may refuse for time or size are the constant `Suspect`; everything else it refuses for is explicit. The save of a checkpoint is one step here
and two in `SharedFiles`, where others come between them. What a peer serves is any chain of blocks, also of another network, also with an index that is not the position:
`parse_block` takes the index from the message. A block is what its hash says; that a peer declares the hash of one block over the contents of another is not represented.

### Ledger and Payments

Amounts are integers; the code's doubles are compared against thresholds of 10^-9, so the models use
amounts for which fees are whole numbers. `ledger` is the record of `utxoMap` (a coin or a debit per key),
`addressBalances` and `totalSupply`. A writer pushes its block (`Commit`, `PushPeerBlock`) before it books it (`BookOwn`,
`BookPeerBlock`), a rebuild (`RebuildNext`) goes block by block, and `ReadHeight` and `Assemble` read without
the mutex. `Payments` adds the threads of `send` (`ReadBalance`, `Audit`, `AppendTx`), `RelayTx`, `Purge`, the clock, and joins
the mempool file to the miner's actions (`AssembleFromMempool`, `BookAndClear`).

### BlockTiming

`times` is the chain as its timestamps, `difficulty` the field that miner, network and templates overwrite. `adjustDifficulty` has no lock of its own, so each call of it is a thread
(`at`) with locals: `ReadSize` takes the height and with it the era (`height`), `Compute` reads chain and field (`value`), `Store` writes the field, `Check` compares it with the floor once more and `Raise`
is the store behind that. The callers are the miner (`ReadHeight`, the call, `StartSearch` or `RefuseAddress`, then `Commit` or `StopSearch`), any number of templates, and `addBlock`, which is under the mutex from
`AddBlock` to `PushBlock` or `RefuseBlock`. `overrun` is a history: a call that began in an earlier era stored its result behind the miner's own.

### Events, Multisig and Services

`events`, `nextId` are `g_events`, `g_nextId`; `ppc` a pusher between the unlock and `notify_all`; `wpc`, `after`, `body` the
handler of a client. `Poll` is the predicate that `wait_for` tests before it sleeps, `Wake` the test after a notification, `TimeOut` its
end. `LoseAnswer` and `LoseLatest` are broken connections, `RestartBus` the restart after which ids count from 1. A stream
(`StreamReceives`) takes the id of each event; the page (`PageReceives`, `TakeLatest`) stores the time of a block, then whatever
`/events/latest` answers.

`pending` is `multisig_pending.dat`, the sequence of its lines. `SignLoad` or `BroadcastLoad`, `Send`, `Reload` load it, `Truncate` and
`Write` are the two moments at which the `ofstream` touches it. Writers that overlap write over each other from offset 0, so `Write` keeps
any end of what it meets (`Ends`); the first line of that end may be cut, anywhere, and what is left of it (`Tails`) is a record whenever it has six fields, with an id of its own (`Scrap`) and a threshold of 1
where the fifth field is no number. Files longer than a stream buffer are written in several pieces; that is left out. A proposal may ask for no signature at all: `BroadcastUnsigned`
then reads the first of an empty vector and the process ends. `proposed`, `asked`, `acknowledged` and `calm` are histories: what was proposed, who asked to sign, what was answered,
and whether two requests ever overlapped or a proposal was repeated within its second, which gives it the same id.

A page and a stream only read the bus and are taken one at a time.

### Gossip

| variables | in the code |
|---|---|
| `peers`, `peerFile` | `P2P::peers` and `data/peers.dat` of each node |
| `stage`, `kind`, `at` | the threads of a node: the one that `main` starts, which runs `bootstrap` and then a round of `sync_with_peers`, and those of `/peers/sync`, which run a round next to it; the URL each loop stands on |
| `mail` | exchanges under way, from the request to the answer or the timeout |
| `save`, `seen`, `asker` | `save_peers` in the bootstrap or in an HTTP worker: due or with its file open, the list as its walk began, and the exchange the worker answers when it is done |
| `kept`, `orderly` | histories: what a route was told or a save wrote; whether saves came one after the other, after the load, and none was cut off |
| `started`, `smooth` | histories: the list a node loaded; no exchange failed, no node restarted, no peer was removed |

`Load`, `Ask`, `Pass`, `Learn`, `Abandon` (8 seconds; a request may be served later), `SaveBootstrap` and `EndBootstrap`, `EndSync` (which does not save).
`Serve` is `/peers/exchange`, `AddPeer`, `RemovePeer`, `SyncNow` the other routes, `RestartNode` a stop. `OpenSave` truncates the file and begins the walk over the list, `EndSave` writes
what the walk met (`Walked`) over the beginning of whatever another save has written since; a line that is cut there leaves a URL of nobody (`Cuts`). A URL is a number, because
the loop follows the order of a `std::set`: what is inserted ahead of the cursor is visited, what is inserted behind it is not.

### RemoteMiners

`FetchIndex` and `FetchPrev` are the two reads `/getblocktemplate` makes of a chain that may grow between them; `Find`, `Refresh`, `ReadReply` and `GiveUpPost`
are `miner.py`; `CheckPosted` and `AddPosted` are `POST /block` before and inside `g_blockchain_mutex`; `Vanish` loses what a miner gave up;
`MineAtHome` is a block of the node. A block is who made it, at which height and which of his blocks at that height it is. `Misdating` are miners
whose clock makes `addBlock` refuse them.

### SharedFiles and TornRecords

`Launch`, `ReadBlocks` or `ReadDump`, `MakeGenesis` and `KeepGenesis`, `Mine`, `MarkHalving`, `Receive` and `StoreReceived`, `Exit`: every process holds a chain and checkpoints of
its own (`held`, `marks`) and appends to or overwrites `blkRecords`, `datRecords`, `markFile`. `Replay` is the loader, record by record. What a step has to save of its checkpoints is queued in `saves`
(a replay saves once per halving block): `OpenSave` empties the file, `CloseSave` writes the map over whatever another process has put there since, and the process goes on when its queue is empty (`Stands`). A command line reads
`blockchain.dat` after the constructor whenever that file exists, and then holds its blocks instead.

In `TornRecords` a record of `blk00000.dat` is whole or cut. `ReadAll` may find any blocks at and behind the first cut, or stop the start
(`ReadFails`): lengths are taken from the middle of other data. `SealGenesis`, `WriteGenesis` and `MineRecord` are
the writes, in their order; `Break` stops the process in the middle of the last.

### WorkerStores, ScriptVM, MerkleProofs

`SetLabel`, `OpenLabels`, `WriteLabels`: the map changes under one hold of `g_labelMutex`, the file is written under another. `NextExtraNonce`,
`LoadHex`, `LoadId`, `SendTemplate`: `/mining/template` advances `g_extraNonce1` once and reads it twice more.

`ScriptVM` is `evaluate` on an unlocking and a locking script: `stack`, `altStack` and `ifStack` are the code's, `verdict` its end, and `Do...` an
opcode each; values, keys, signatures and hashes are terms. `MerkleProofs` climbs with `generateProof` from a leaf to the root and folds the path as `isValid` does.

## 3. Runs

`tlc -config X.cfg M` for each run of `PROJECT.json`. Names starting with `bug_` are expected to end in a
violation: the property is what a comment or document of the repository says, and the run is a short way
in which the code departs from it (section 5). A property that joins several formulas does so because
they answer one question; the parts have names and comments of their own.

| run | question | properties |
|---|---|---|
| `node_append` | two mining threads, a handler, a crash: what can go wrong when nobody reorganises? | `TypeOK`, `OneMiner`, `Linked`, `DiskFollowsChain` (`HalvingIsDurable`, `HashCoversFile`), `ImplementsHashChain`, `OvertakenSearchIsTold`, `ThreadsGoOn` (`BlockIsAnswered`, `MinerEndsOrSearches`) |
| `node_sync_alone` | a sync nobody races; three nodes that exchange lists | `CheckpointsHold`, `ReorgGrows`, `GossipTypeOK`, `BootstrapSpreads`, `OrderlySavesStay`, `EveryRoundEnds` |
| `node_race` | a miner and a sync that race; remote miners and a node that mines too | `BlocksStay` (`OutOfPlaceAsServed`, `GenesisStays`), `RemoteTypeOK`, `MinersAreServed` (`PostedIsLinked`, `AcceptedIsMined`), `SyncsEnd` (a sync ends, or comes to a batch that addBlock refuses or that its peer misnumbers), `ChainAdvances` |
| `pay_all` | does every way to book a block arrive at the same ledger? | `PayTypeOK`, `BooksAgree` (`LedgerIsReplay`, `SupplyIsReplay`) |
| `pay_mine` | a node that mines alone: is the cap kept, is nothing pending that is confirmed, is nothing booked twice? | `PendingIsWaiting`, `EmissionIsSound` (`SupplyCapped`, `SupplyIsPaid`, `UnpaidOnlyAtCap`), `OutputsAreBookedOnce`, `TakenOldestFirst` |
| `pay_follow` | does `send` keep every address solvent on a node that follows? | `NoOverdraft` |
| `timing_rules` | what the six components of `Rules` must never do | `RulesTypeOK`, `SearchKeepsFloor`, `MedianAdvances`, `LocksDecide` (`LockIsNotSkipped`, `KeyIsShown`, `OwnersSpend`), `ProofsAreSound` (`ProofLeadsToRoot`, `ProofIsForOne`), `FilesSurvive` (`AloneIsLinked`, `HeightsSurvive`), `CheckpointsKept`, `RecordsSurvive` (`WholeRecordsSurvive`, `GenesisIsMadeAnew`), `StoresAreSafe` (`LabelsAreSaved`, `TemplateIsFresh`) |
| `services` | is every event delivered once and every broadcast approved? | `ServicesTypeOK`, `NoLostWakeup`, `StreamsAreServed` (`InOrderOnce`, `NothingMissed`), `BroadcastIsApproved`, `CalmIsSafe` (`KeptWhileCalm`, `SentOnceWhileCalm`), `ClientsHear` |
| `bug_reorg_race`, `bug_restart_loses`, `bug_pay_race`, `bug_cap_race` | section 5 | one each |

**Bounds**, and why they are enough:

- `node_append`, `node_sync_alone`: heights 0-3, a checkpoint every 2 blocks, one crash: a block before, at and after a checkpoint. Two miners
  suffice to race for the flag, a third block to be outrun twice, two peer branches that part at the first block to reorganise twice, a third chain that skips index 1.
- `node_race`: peers that grow, one of another network, one whose blocks skip an index, and a block that `addBlock` may refuse as too large or too new, in batches of two; no checkpoint within the bound (interval 10), for a racing sync may drop one (section
  5). Two remote miners, one with a bad clock, two heights, one lost request: the request may be served before, while and after its miner works on another template.
- Lists of peers: three nodes, of which the first knows two and the third is told of the second; one of them fails or restarts once, or one call of another route falls in between. With three a list can grow ahead of a
  cursor and behind it. Each has a thread for `/peers/sync` and a worker, which with the bootstrap makes two that save at a time; one URL stands for what is left of a cut line.
- `pay_all`, `pay_mine`, `pay_follow`: heights 0-3 or 0-4 with eras of 1 or 2 blocks, so that the reward falls; the cap is reached in the second era of
  `pay_mine`; a payment that may be confirmed twice; two senders at once; three requests against a balance that covers one or two.
- `timing_rules`: eras and windows of 2, a median of 3, heights 0-4 cover three eras, in each of which the three callers of `adjustDifficulty` (miner, `addBlock`, one template) may stand at any of its reads and stores, clocks that disagree by one. Every unlocking script of up to three
  of ten opcodes against nine locking scripts. Trees of up to nine leaves have odd levels at the leaf, one above and two above. One node, one
  command line, heights up to 4 with a halving block every 2, one block of a peer, three starts, so that a save may meet a start, a stop or another save. Four blocks made, four stops, two illegible blocks. Two workers, four requests, one restart; the extra
  nonce is smaller than its range, for it wraps at 2^32 in the code.
- `services`: three events through a queue of two, so that a client can fall behind; one restart; two workers, two ids, proposals that ask for no signature, one or two,
  one id for what is left of a cut line, four requests: propose, sign, broadcast, and one that overlaps any of them. A broadcast of what a cut left takes five (section 5); the theorem covers those.

**Deadlock.** `CHECK_DEADLOCK FALSE` is given where a behaviour stops: at a bound (a finite universe of blocks, a height, a number of requests), at the
end of an evaluation or of a proof, or, for an appending node, when everything posted is answered and nobody mines. In `services` TLC checks deadlock. That the
other systems do not stop before their bound is what `ThreadsGoOn`, `EveryRoundEnds`, `SyncsEnd` and `ChainAdvances` say.

**Fairness.** `FairSpec` of `ChainNode` gives weak fairness to the start-up and to each thread's own
steps: the operating system runs every thread, `std::mutex` is released by every path that takes it. Nothing is assumed
about nonces (`FindNonce` has no fairness), about requests, about crashes, or about peers. `SidesSpec` and `NetworkSpec` say the same where they include `ChainNode`'s threads.

`NetworkSpec` gives weak fairness to the thread of each node and to serving its requests (`Abandon` is a step of the thread: the client's timeout ends a wait that
no answer ends). `SidesSpec` gives weak fairness to the steps of a remote miner and to serving it, and strong fairness to `Find`: a search that starts again on a
new template every 15 s for ever finds a nonce some time, which is what a difficulty of the network means. Nothing is assumed about the node's own blocks.

`ServicesSpec` gives weak fairness to `Notify`, `Poll`, `Wake` and `TimeOut` (threads run, `wait_for` returns after at most
30 s, a client reconnects in a loop) and strong fairness to the receipt of an answer and to `ServeLatest`: a request that is repeated
for ever is not lost for ever. Nothing is assumed about pushes or restarts.

Every property of a passing run has a mutant: a definition named in a comment "Mutation", changed as a plausible slip would
change it, for which TLC finds the property violated.

## 4. Proofs

`tlapm` on the seven `_proofs` modules and `Inductions` proves, for every value of the constants that satisfies
the assumption named in each module (`BlockAssumption`, `BoundAssumption`, `PeerAssumption`, `ThreadAssumption` in `ChainNode`; one in each of the others),
what `PROJECT.json` lists under "theorems". Every invariant and action property of a passing run is stated by one of them.

Where a theorem has a hypothesis beyond those, it is in its statement and named here.

**Inductions.** The library's induction theorems take an operator as a parameter, which the provers cannot instantiate. `Inductions` declares
the step and the property as operator CONSTANTS instead and proves induction, the equations of a function defined by recursion, of `FoldFunctionOnSet`
and `FoldSeq` once for them. A proof module writes `X == INSTANCE Inductions WITH Op <- ..., Holds <- ...`, proves the assumptions of the instance as
lemmas and cites `X!...`. That is how everything below about replays, sums, medians, scripts and trees is reached.

**ChainNode.**
- `TypeCorrect`, with `Control` (which program counter goes with which holder of the mutex) as the strengthening.
- `MutualExclusion`: at most one thread is inside `mineBlock`. Inductive with `OwnerInv`: whoever is past `TakeFlag` has set
  `is_mining`, although the route clears the flag before the thread takes it.
- `BlocksSitAtTheirHeight`, for nodes without sync threads, and `OnlyPeersMisplace`, with them and for any peers: `HeightInv` says that what a sync thread is about to install is a chain as
  a peer serves it, and that everything behind such a beginning was appended where its index says.
- `AppendedChainIsLinked`, `AppendedChainKeepsCheckpoints`, for nodes without sync threads (`Syncers = {}`; a sync that races
  another writer breaks both, section 5). `ChainInv` is the argument: the chain in memory and the chain that the start-up would replay from
  `blk00000.dat` are both sound, the file replays at least the chain, a block a miner or handler holds is linked to the
  chain it was read from as long as no one has appended (`Outrun`), and every checkpoint below the tip is the
  chain's own block.
- `AppendingNodeKeepsPromise`, for nodes without sync threads: every behaviour is one of `HashChain`. `ChainInv` names the records of the file that a start-up
  would keep (its marks); the log of `HashChain` is the chain of a running node and what those records rebuild while one starts. An append to chain and file is `Extend`, a crash
  leaves a prefix (`Forget`), and no step of the loader changes what the records rebuild.
- `GenesisIsNeverReplaced`, for every node: `GenesisInv` adds that any chain that passed validation starts at the genesis. With `OnlyPeersMisplace`, `BlocksStayInPlace`.
- `HashFollowsFile`, until the first crash (section 5 says why not after it), and `AppendedHalvingIsDurable`: every halving block below the one being
  committed is sealed in memory and on disk. Together, `AppendedChainIsOnDisk`.
- `SearchesHearOfBlocks`: without sync threads, a search that another block overtook is told of it, and no thread clears that under it.
- `LoneSyncGrows` and `LoneSyncKeepsCheckpoints`, for a sync that no other writer races (`LoneSync`: no miner, no handler, one sync thread, as in `node_sync_alone`): the chain is never
  replaced by one that is not longer, nor by one with a block at its height that disagrees with the checkpoint of that height. `SyncInv` is the argument: what `replaceChain` found before it took the mutex (`AcceptsChain`) is still so
  when it installs. With another writer it is not, and `bug_reorg_race` is such a behaviour.

**Ledger and Payments.**
- `BookingsAgree` and `PaymentsTypeCorrect`: whatever mix of own blocks, peer blocks, reorganisations and restarts led to a chain, coins, debits and supply are
  what a rebuild makes of it. `LedgerInv` says it between the steps too: the ledger is the replay of the blocks that are booked, which is all of them but the one a holder of the mutex has
  pushed, or those before the cursor of a rebuild. What makes the paths agree is that the subsidy of a block depends on its height alone, hence the
  hypothesis `CapIsFar`: below the heights considered, the schedule leaves room for one more reward. With the code's
  numbers (64 eras of 10 000 blocks from 100 MZ, falling by 4.8 % each) the sum over all eras is 19 957 000 MZ, so that it holds for every height below 640 000, and it holds in `pay_all`.
  Without it the subsidy depends on when `totalSupply` was read, and `bug_cap_race` shows what comes of it.
- `MinerEmissionIsSound`, for a node that mines alone (`PayMiner`, as in `pay_mine`), at the cap and beyond. `EmissionInv`: between `ReadHeight` and the booking nobody else
  pays, so the supply the subsidy was computed from is still the supply. The hypothesis `ReservePays` says that a reserve above the dust limit pays a whole unit at least, or that its era is
  out of reach; the code pays 1/10 000 of more than 10 000 units of 10^-8.
- `OldestIsTakenFirst` (`TookInv`: a draft is a prefix of the file from its assembly to its commit, for others only append or drop what is too old and the draft has no payment twice), `WaitingIsNotBooked` (what was
  asked for is at one place: not yet in the file, in the file, or on the chain), `MinerBooksOnce` (the sum over the coin map is that over the outputs of the blocks booked so far, debits counted
  negative, because the keys of a block are new to the map). The last two suppose `DistinctIds`: two payments of one id are one payment. The code makes ids of sender, recipient, amount and a second, section 5 says when they collide.
- `OneSenderOwesNothing`: on a node that follows its peers, one request at a time (`OneSender`) never overdraws. `FollowInv`: for every
  address, its coins less its debits cover the debits that wait in the file, and what an audit has read is still there when it appends. With two senders the audit of one precedes the append of the other, `send` has no lock,
  and the run with one sender is `pay_follow`; `bug_pay_race` is what a miner between the two reads does.

**Joint behaviours.** `NetworkStaysSafe`, `SidesStaySafe`, `RulesStaySafe`, `RulesTypeCorrect`, `ServicesStaySafe`, `ServicesTypeCorrect`: a behaviour of `PeerNetwork`, `NodeAndMiners`, `Rules` or
`Services` is one of each component, because a step of the composition is a step of one and leaves the variables of the others. For `PeerNetwork` and `NodeAndMiners` the theorem concludes `ChainNode!Spec`, so every
theorem above applies. That is what section 2 says of compositions, and what lets a run exercise one component at a time.

**Gossip.** `GossipTypeCorrect`. `SavedIsKept`: as long as the saves of a node come one after the other, what routes were told and saves wrote is within its list (`InOrder`), so that the one save that is open
met it when its walk began, unless another save is due that will. `BootstrapsSpread`: the argument is `Spreading`: the cursor moves to the least URL ahead of it, so it passes over none of the
peers the node began with, and a list that was sent once is known where it was sent, since lists only grow while nothing is removed.

**RemoteMiners.** `MinersTypeCorrect`, `PostedBlocksAreLinked`, `CountedBlocksAreMined`, together `MinersStayServed`. `FitInv` is the argument: a template's height was read
before its hash and the chain only grows, so a hash that belongs to another block belongs to a height that is gone. The order of the two reads at `main.cpp:1425` decides.

**Rules.** Each about the specification of one component.
- *BlockTiming.* `SearchesKeepFloor` (and `TimingTypeCorrect`): `mineBlock` may read an older height than the one the difficulty is adjusted for; the
  floor is monotone in the height, what a call computes is never below the floor of the height it read (`CallInv`), and once the miner has stored, a store takes the field below its floor only when its call read an older
  era (`FloorInv`), which is what `overrun` says. `MedianStays`: a finite set of timestamps has a median (a value with
  enough times below and above it), and a block later than the median moves none of the times below it into the upper half of the next window.
- *TornRecords.* `WholeRecordsComeBack`: `SealedFirst` (the checkpoint of the genesis is on disk before any record) leaves the loader nothing but this genesis to begin with, and the
  part before the least cut only ever grows until there is one (`LegibleGrows`), so that it begins every chain a process resumes (`Resumed`).
- *WorkerStores.* `NoLabelIsForgotten` and `NoExtraNonceReturns`, together `StoresStaySafe`: a save that is open has the map as it is now, for it holds the mutex; the
  two later reads of the counter are at least the worker's own increment.
- *SharedFiles.* `SharedTypeCorrect`, `FilesStartTheNext`, `CheckpointsStay`, with `SharedInv` (types, and that every map still to be saved is within the checkpoints of its process) and two invariants, one for each way in which processes behave. `AloneInv`, as long as they take turns (`TakesTurns`): the
  checkpoints in the file are among those of the process, no checkpoint contradicts what the records restore, and that begins the chain the process holds. It says nothing of how much the file holds, so a stop in a save does it no harm.
  `MinedInv`, as long as all blocks are mined and nothing clashes: one process saves at a time, over a file that is empty (`OneSaver`); there is one halving
  block per height, in files and memories alike (`OneHalving`), so that no checkpoint ever rejects a record, whichever of them survived; the records lie below the height that a start restores (`NoneLost`), and a process has a
  checkpoint for each halving block it holds (`OwnHalvings`). As long as no save was cut off, who empties the file has all of it in the maps to be written (`Whole`).
- *ScriptVM.* `VMTypeCorrect` and `LocksAreDecisive`, for any scripts. That a successful spend ran its whole locking script follows from counting: the depth of `ifStack` is the number of
  conditions opened less those closed, so that a condition which the unlocking script leaves open over a balanced lock is still open at the end, where `evaluate` refuses it. That it showed the key is an argument
  backwards along `PayToKeyHash`: only a pushed key has the hash, for items are numbers, hashes or what the scripts push. That owners get through is a trace along each builder's script, opcode by opcode.
  `VMAssumption` says that keys are neither numbers nor hashes, scripts are sequences of opcodes and readings of bytes are integers.
- *MerkleProofs.* `MerkleProofsAreSound`: the layer a proof climbs is the layer of a tree of full width (`Node`), whose last element is repeated as the code repeats it; a path folded from a leaf gives, level by level, the
  node above it, and from another leaf something else, since `Combine` is injective. It stops at the height at which the width is one, which (w - 1) 2^h < n <= w 2^h gives.

**Services.**
- *Multisig.* `BroadcastNeedsApprovals` (and `SignaturesTypeCorrect`): whatever requests overlap, overwrite and cut, M different signers
  asked before a proposal enters the mempool. `HonestInv`: every record under an id that was given, in the file or in a worker's copy, has the threshold of a proposal, counts each of
  its signers once and lists only signers that asked; of what is left of a cut line it says nothing, and neither does the theorem, but that nothing of the kind is broadcast before requests overlap.
  `CalmStaysSafe`: as long as no two requests overlapped and no proposal was repeated within its second, nothing acknowledged is lost and nothing is sent twice.
  `CalmInv`: the lines that count, one for each proposal that was not broadcast (`Keeps`), are those of the file until one worker carries others (`Carries`), and he alone runs.
- *Events.* `NoWakeupIsLost`: a handler that goes to sleep has just found nothing, and every push after that still has its notification to make (`WakeInv`).
  `StreamsHearInOrder`: the ids in the queue have no gap, so what `waitForEvents` selects is the end of the queue behind the client's id, and an answer continues what the client has heard.

Only model-checked:

- Liveness (`ThreadsGoOn`, `EveryRoundEnds`, `SyncsEnd`, `ChainAdvances`, `ClientsHear`): needs fairness and `ENABLED`, which the provers do not handle.
- The converse of a hypothesis: that the ledger's paths part near the cap, that a race overdraws. TLC shows those with the runs of section 5.

## 5. Where the code departs from what it says

Four runs end in a violation, each named in `PROJECT.json` "findings" with the line that says otherwise:

| run | departure |
|---|---|
| `bug_reorg_race` | `replaceChain` decides before it locks: it may install a chain that is not longer than the one it replaces |
| `bug_restart_loses` | blocks of peers go to `blockchain.dat`, which the start-up does not read |
| `bug_pay_race` | `send` may count an earlier payment neither as booked nor as pending |
| `bug_cap_race` | the subsidy is computed from a supply that lags the height |

The modules state further formulas that the code does not keep. No listed run names them; add the formula to the cfg and
TLC prints the trace.

| formula | add to | departure |
|---|---|---|
| `HalvingIsDurable` | `node_sync_alone` | halving blocks that arrive by reorganisation get no checkpoint (`blockchain.cpp:630`) |
| `Linked` | `node_race` | a batch is appended to another branch: `addBlock` compares no `prevHash` (`p2p.cpp:358`) |
| `HeightIsIndex` | `node_race` | a peer's longer chain whose blocks carry an index that is not their position is installed as it is (`p2p.cpp:108`, `blockchain.cpp:606`) |
| `EveryBlockAgrees` | `node_sync_alone` | `replaceChain` looks for a checkpoint at the index of a block, so one out of place replaces a checkpointed block (`blockchain.cpp:619`) |
| `SyncEnds` | `node_race`, as PROPERTY | a full batch with a block that `addBlock` refuses, or that the peer numbers out of place, is fetched over and over (`p2p.cpp:335`) |
| `EverySaveStays` | `node_sync_alone` | saves of the list of peers that overlap, precede the load or are cut off lose peers (`p2p.cpp:69`) |
| `StaleSearchIsInterrupted` | `node_append` | an interrupt raised while a block is assembled is cleared (`blockchain.cpp:317`) |
| `NoFalseAlarm` | `node_append` | a crash before `UpdateHash` leaves the integrity route reporting a modification (`blockchain.cpp:340`) |
| `CirculatingCapped` | `pay_mine` | the fee is charged on the debit, fee included; more is credited than debited (`blockchain.cpp:281`) |
| `EveryBlockPays` | `pay_mine` | at the cap the second clamp makes the reward zero (`blockchain.cpp:298`) |
| `CacheAgrees` | `pay_all` | the cached balance forgets part of a debit (`utxo.cpp:38`) |
| `PendingIsWaiting` | `pay_all` | what a peer block confirmed stays pending (`blockchain.cpp:264`) |
| `NothingIsLost` | `pay_all` | the miner empties the file, with what came after its block or did not fit it (`blockchain.cpp:349`) |
| `ExpiredIsDropped` | `pay_all` | the file keeps no time, so nothing expires (`storage.cpp:87`) |
| `SearchAboveFloor` | `timing_rules` | a template that read the height in the era before stores the old difficulty behind the miner's adjustment (`main.cpp:1425`) |
| `NoBlockBehindMedian` | `timing_rules` | the node's own block is not compared with the median (`blockchain.cpp:336`) |
| `AdjustedOncePerBlock` | `timing_rules` | the difficulty moves once per template instead of once per window (`main.cpp:1425`) |
| `CheckpointsKept` without `cutOff` | `timing_rules` | a stop while the file of checkpoints is open leaves it empty, and a process that starts then saves less than it held (`checkpoints.cpp:26`) |
| `OnlyProposalsBroadcast` | `services` with `MaxRequests = 5` | what a shorter write leaves of a line is a record of its own, and may be ready (`multisig.h:103`) |
| `PageAsksFromLastEvent` | `services`, as PROPERTY | the page closes its source on every error and keeps a block's time as last id (`index.html:643`) |
| `KeptWhileCalm`, `SentOnceWhileCalm` without `calm` | `services` | the file is loaded and written back without a lock: an acknowledged signature is overwritten, a broadcast sent twice (`multisig.h:140`, `main.cpp:1331`) |
| `OnTargetIsKept` | `timing_rules` with `EraLength = 10` | 100 timestamps are compared with 100 intervals (`blockchain.cpp:205`) |
| `ManyKeysSpend` | `timing_rules` with `\cup ManyKeySpends` added to `MCSpends` | `buildMultisig` emits `OP_4` to `OP_15`, for which `evaluate` has no case: a wallet of four keys cannot spend |

The conditions in the properties mark further departures. Where a property says "as long as", this is what comes after:

- `alone` (`SharedFiles`): `main.cpp:526` suggests `./mazechain mine` beside a running node. Two processes that mine at once leave a file whose replay is not linked, and the node never learns of the
  other's blocks. Once `blockchain.dat` exists the command line holds that file's chain instead of the replay; a block it mines on it is appended to `blk00000.dat`, where it fits nothing. A dump that starts
  above height 0 leaves it with an empty chain, of which `back()` is taken.
- `clashed`: two processes inside the very first start may lose the checkpoint of the genesis, or empty the other's file; halving blocks of one height that differ leave one of two
  checkpoints; of two saves at a time the older may be written last.
- `cutOff`: a stop between the truncation and the close of a save leaves no checkpoints, and who starts in between loads none; see the table.
- `overrun` (`BlockTiming`): see the table.
- `OutOfPlaceAsServed`, `SyncEndsOrIsRefused` (`ChainNode`): see the table for what peers that misnumber their blocks, and blocks that `addBlock` refuses, bring about.
- `Cut = {}` (`TornRecords`): what is appended behind a cut record is not read back. The loader may accept blocks of any content there, or end every start with an exception.
- `orderly` (`RemoteMiners`): `POST /block` answers "accepted" for a block that `addBlock` dropped under the mutex, so two miners may count one height. A refusal is plain text, which the
  miner fails to parse; it waits 3 s.
- `smooth` (`Gossip`): a peer whose exchange failed is not told again before the next round.
- `orderly` (`Gossip`): of two saves at a time the one with the older list may be written last, or leave a cut line behind its own; a stop between truncation and close leaves an empty file, and so does a
  stop behind a save that preceded the load.
- `calm` (`Multisig`): see the table. It ends as well when a proposal is repeated within its second (`main.cpp:1238`): both have one id, a signature goes to the first, and the removal takes both. A `required` of 0 or
  less is accepted (`main.cpp:1235`); a broadcast of such a proposal without a signature reads the first of none (`main.cpp:1334`).

Observed while modelling, without a property: peers that a round of sync learned are not saved, and a route's save in the three seconds before `bootstrap` replaces
the saved list (`main.cpp:517`, the `orderly` of `Gossip`); a node may list itself, for it knows no own URL; `/peers/remove` compares a URL with its trailing slash. Templates that overlap may carry the same `extra_nonce1`, `extra_nonce2` never
advances; `loadLabels` has no caller, so the first save after a start drops what was saved before. The Merkle root of the header (`crypto.cpp:53`) hashes the text of hashes, `merkle_proof.h` the bytes: a proof
leads to its own root, never to a header's. `/bloom/test` (`main.cpp:2278`) rebuilds a filter behind one byte the default constructor left there, and so misses what was inserted. Two equal payments within one second have one id
(`blockchain.cpp:498`): `OutputsAreBookedOnce` supposes ids that differ.

## 6. Not modelled

- Hashes, signatures, keys, encodings and the bloom filter: functions of bytes, abstracted to identities where a protocol uses them. The order of bytes inside a record; the width of a nonce.
- Data races on the vector of blocks and the coin map, whose outcome C++ leaves undefined: readers such as `/chain` iterate while another thread reallocates.
- Sending from the command line, and the dialogues of wallets. `POST /db/integrity/update`, by which an operator seals a file by hand.
- Orphan pool, request limits, eviction, inventory, version bits, stratum, fee estimation: headers with a state that no code of the program ever changes, or changes but for what a route shows; the ban score is set and nothing
  consults it. A model of them would be a model of a container.
- The validation skeleton (`net_processing.cpp`, `validation.cpp` and others): in no build target.
- The vendored headers (`json.hpp`, `httplib.h`, `crow_all.h`), which are 60 000 of the 73 000 lines of the tree. What the program relies on of them is external: requests are served concurrently, a client's read times out.

Each component is listed in `PROJECT.json` with its status.

## 7. Plan

Done: the chain of one node with its threads, files and crashes; its neighbours (peers, remote miners, a command line process); ledger, payments and mempool; the rules on time; the services that keep a state;
script machine and Merkle proofs; proofs of all of their safety properties.

Left:

1. Two full nodes: `ChainNode` on both sides of a sync, in place of peers that serve any chain.
2. Larger instances: heights 0-4 in `node_append` and `node_race`, three workers in `services`, a second command line in `timing_rules`. They
   want symmetry or a coarser grain of steps to stay within minutes.

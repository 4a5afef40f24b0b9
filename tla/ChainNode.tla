------------------------------ MODULE ChainNode ------------------------------
(***************************************************************************)
(* The chain of one node and every thread that writes it:                  *)
(*   - mining threads (GET /minerar_agora, /regtest/generate and the       *)
(*     mining loop: async_mine in api/main.cpp, Blockchain::mineBlock),    *)
(*   - the handlers of POST /block (api/main.cpp, Blockchain::addBlock),   *)
(*   - sync threads (P2P::sync_with_peers, Blockchain::replaceChain),      *)
(* with the files they write, the crash of the process and the start-up    *)
(* that rebuilds the chain from disk (Blockchain::Blockchain,              *)
(* Storage::loadChain).                                                    *)
(*                                                                         *)
(* One action is one critical section, or one read of shared state that    *)
(* the code makes without g_blockchain_mutex.  The order of the statements *)
(* is the order of the program counters.                                   *)
(*                                                                         *)
(* Balances, the mempool, difficulty and timestamps are other components;  *)
(* here a block is its hash, and a block addBlock may refuse for its       *)
(* timestamp or size is a member of Suspect.                               *)
(***************************************************************************)
EXTENDS Naturals, Sequences

CONSTANTS
  Block,      \* block hashes
  Genesis,    \* the genesis block, the same on every node of the network
  None,       \* no block
  Index,      \* Index[b]: block.index
  Prev,       \* Prev[b]: block.prevHash
  Own,        \* the blocks this node's miners can find
  Suspect,    \* blocks that may fail addBlock's timestamp and size rules
  PeerChains, \* the chains peers serve at GET /blockchain
  Miners,     \* mining threads
  Handlers,   \* POST /block handler threads
  Syncers,    \* sync threads
  CheckpointInterval, \* IsHalvingBlock: 10000 in the code
  BatchLimit, \* blocks per GET /blockchain: 500 in the code
  MaxCrashes  \* bound on the number of crashes

ASSUME BlockAssumption ==
  /\ Genesis \in Block
  /\ None \notin Block
  /\ Own \subseteq Block
  /\ Suspect \subseteq Block
  /\ Index \in [Block -> Nat]
  /\ Prev \in [Block -> Block \cup {None}]
  /\ Index[Genesis] = 0

ASSUME BoundAssumption ==
  /\ CheckpointInterval \in Nat \ {0}
  /\ BatchLimit \in Nat \ {0}
  /\ MaxCrashes \in Nat

(* A peer may serve a chain of another network: version_handshake lets a   *)
(* peer pass that does not report its genesis hash.  And its blocks may    *)
(* carry any index: nothing compares it with the position (p2p.cpp:108,    *)
(* blockchain.cpp:606).                                                    *)
ASSUME PeerAssumption == \A p \in PeerChains : p \in Seq(Block) /\ p # << >>

ASSUME ThreadAssumption == None \notin Miners

VARIABLES
  chain,              \* Blockchain::chain
  runtimeCheckpoints, \* Checkpoints::runtimeCheckpoints, as a set of hashes
  lock,               \* the miner inside its critical section, or None
  is_mining,          \* api/main.cpp, std::atomic<bool>
  interruptMining     \* Blockchain::interruptMining, std::atomic<bool>

VARIABLES
  blkFile,        \* data/blocks/blk00000.dat: the blocks in write order
  datFile,        \* data/blockchain.dat: the set of blocks written to it
  checkpointsDat, \* data/checkpoints.dat
  hashed          \* length of the blkFile that data/blockchain.hash covers

VARIABLES
  phase,          \* "loading" while the constructor runs, then "up"
  cursor,         \* records of blkFile loadChain has read
  crashes         \* number of crashes so far

VARIABLES
  mpc,            \* program counter of each mining thread
  nextIndex,      \* mineBlock's nextIndex
  lastHash,       \* mineBlock's lastHash
  newBlock        \* mineBlock's newBlock once its nonce is found

VARIABLES
  hpc,            \* program counter of each POST /block handler
  received        \* the block it handles

VARIABLES
  spc,            \* program counter of each sync thread
  peerBlocks,     \* the downloaded chain or batch, what is left of it
  full            \* was the batch full (then the fetch loop goes on)

files    == <<blkFile, datFile, checkpointsDat, hashed>>
process  == <<phase, cursor, crashes>>
mining   == <<mpc, nextIndex, lastHash, newBlock>>
handling == <<hpc, received>>
syncing  == <<spc, peerBlocks, full>>
shared   == <<chain, runtimeCheckpoints, lock, is_mining, interruptMining>>
vars     == <<shared, files, process, mining, handling, syncing>>

------------------------------------------------------------------------------
(* Helpers                                                                 *)

Tip(c) == c[Len(c)]

IsLinked(c) == \A i \in 2 .. Len(c) : Prev[c[i]] = c[i - 1]

IsHalvingBlock(b) == Index[b] > 0 /\ Index[b] % CheckpointInterval = 0

(* The map from heights to hashes, as the set of hashes: hash implies height. *)
CheckBlock(cps, b) == \A c \in cps : Index[c] = Index[b] => c = b

(* Mutation: the map is filled with the previous hash.                     *)
AddCheckpointPrev(cps, b) == {c \in cps : Index[c] # Index[b]} \cup {Prev[b]}

AddCheckpoint(cps, b) == {c \in cps : Index[c] # Index[b]} \cup {b}

(* Mutation: addBlock no longer compares the index with the height.        *)
AppendBlockAnywhere(b) ==
  IF CheckBlock(runtimeCheckpoints, b)
  THEN /\ chain' = Append(chain, b)
       /\ UNCHANGED <<runtimeCheckpoints, checkpointsDat>>
  ELSE UNCHANGED <<chain, runtimeCheckpoints, checkpointsDat>>

(* Mutation: a block for the height of the tip takes the place of the tip. *)
AppendBlockReplacing(b) ==
  IF Index[b] \in {Len(chain), Len(chain) - 1} /\ CheckBlock(runtimeCheckpoints, b)
  THEN /\ chain' = Append(SubSeq(chain, 1, Index[b]), b)
       /\ UNCHANGED <<runtimeCheckpoints, checkpointsDat>>
  ELSE UNCHANGED <<chain, runtimeCheckpoints, checkpointsDat>>

(* The part of Blockchain::addBlock after the timestamp and size rules.    *)
AppendBlock(b) ==
  IF Index[b] = Len(chain) /\ CheckBlock(runtimeCheckpoints, b)
  THEN /\ chain' = Append(chain, b)
       /\ IF IsHalvingBlock(b)
          THEN /\ runtimeCheckpoints' = AddCheckpoint(runtimeCheckpoints, b)
               /\ checkpointsDat' = runtimeCheckpoints'
          ELSE UNCHANGED <<runtimeCheckpoints, checkpointsDat>>
  ELSE UNCHANGED <<chain, runtimeCheckpoints, checkpointsDat>>

(* A block from the network; the rules on time and size may refuse it.     *)
AddBlock(b) ==
  /\ lock = None
  /\ \/ AppendBlock(b)
     \/ /\ b \in Suspect
        /\ UNCHANGED <<chain, runtimeCheckpoints, checkpointsDat>>

------------------------------------------------------------------------------
(* Start-up and crash                                                      *)

LoadRecord ==
  /\ phase = "loading" /\ cursor < Len(blkFile)
  /\ AppendBlock(blkFile[cursor + 1])
  /\ cursor' = cursor + 1
  /\ UNCHANGED <<lock, is_mining, interruptMining, blkFile, datFile, hashed,
                 phase, crashes, mining, handling, syncing>>

(* The file held no block: the genesis is made, checkpointed and saved.    *)
CreateGenesis ==
  /\ phase = "loading" /\ cursor = Len(blkFile) /\ chain = << >>
  /\ chain' = <<Genesis>>
  /\ runtimeCheckpoints' = AddCheckpoint(runtimeCheckpoints, Genesis)
  /\ checkpointsDat' = runtimeCheckpoints'
  /\ blkFile' = <<Genesis>>
  /\ hashed' = 1
  /\ phase' = "up"
  /\ UNCHANGED <<lock, is_mining, interruptMining, datFile, cursor, crashes,
                 mining, handling, syncing>>

(* isChainValid only logs what it finds: the node comes up either way.     *)
FinishLoad ==
  /\ phase = "loading" /\ cursor = Len(blkFile) /\ chain # << >>
  /\ phase' = "up"
  /\ UNCHANGED <<shared, files, cursor, crashes, mining, handling, syncing>>

Crash ==
  /\ crashes < MaxCrashes
  /\ crashes' = crashes + 1
  /\ phase' = "loading" /\ cursor' = 0
  /\ chain' = << >> /\ runtimeCheckpoints' = checkpointsDat
  /\ lock' = None /\ is_mining' = FALSE /\ interruptMining' = FALSE
  /\ mpc' = [m \in Miners |-> "idle"]
  /\ hpc' = [h \in Handlers |-> "idle"]
  /\ spc' = [s \in Syncers |-> "idle"]
  /\ nextIndex' = [m \in Miners |-> 0]
  /\ lastHash' = [m \in Miners |-> None]
  /\ newBlock' = [m \in Miners |-> None]
  /\ received' = [h \in Handlers |-> None]
  /\ peerBlocks' = [s \in Syncers |-> << >>]
  /\ full' = [s \in Syncers |-> FALSE]
  /\ UNCHANGED files

------------------------------------------------------------------------------
(* Mining threads                                                          *)

Move(pcs, t, from, to) == pcs[t] = from /\ pcs' = [pcs EXCEPT ![t] = to]

(* GET /minerar_agora: 429 while is_mining is set (no step), else a thread. *)
MineRequest(m) ==
  /\ phase = "up" /\ ~is_mining
  /\ is_mining' = TRUE
  /\ Move(mpc, m, "idle", "spawned")
  /\ UNCHANGED <<chain, runtimeCheckpoints, lock, interruptMining, files,
                 process, nextIndex, lastHash, newBlock, handling, syncing>>

(* The new thread gives the flag back before async_mine takes it again.    *)
ReleaseFlag(m) ==
  /\ Move(mpc, m, "spawned", "try")
  /\ is_mining' = FALSE
  /\ UNCHANGED <<chain, runtimeCheckpoints, lock, interruptMining, files,
                 process, nextIndex, lastHash, newBlock, handling, syncing>>

(* /regtest/generate and the mining loop call async_mine directly.         *)
MineDirectly(m) ==
  /\ phase = "up"
  /\ Move(mpc, m, "idle", "try")
  /\ UNCHANGED <<shared, files, process, nextIndex, lastHash, newBlock,
                 handling, syncing>>

(* Mutation: a store instead of compare_exchange_strong.                   *)
TakeFlagBlindly(m) ==
  /\ Move(mpc, m, "try", "index")
  /\ is_mining' = TRUE
  /\ UNCHANGED <<chain, runtimeCheckpoints, lock, interruptMining, files,
                 process, nextIndex, lastHash, newBlock, handling, syncing>>

TakeFlag(m) ==
  /\ ~is_mining
  /\ Move(mpc, m, "try", "index")
  /\ is_mining' = TRUE
  /\ UNCHANGED <<chain, runtimeCheckpoints, lock, interruptMining, files,
                 process, nextIndex, lastHash, newBlock, handling, syncing>>

(* Mutation: the thread spins until the flag is free.                      *)
GiveUpNever(m) == FALSE /\ Move(mpc, m, "try", "idle")

GiveUp(m) ==
  /\ is_mining
  /\ Move(mpc, m, "try", "idle")
  /\ UNCHANGED <<shared, files, process, nextIndex, lastHash, newBlock,
                 handling, syncing>>

ReadIndex(m) ==
  /\ Move(mpc, m, "index", "tip")
  /\ nextIndex' = [nextIndex EXCEPT ![m] = Len(chain)]
  /\ UNCHANGED <<shared, files, process, lastHash, newBlock, handling, syncing>>

ReadTip(m) ==
  /\ Move(mpc, m, "tip", "assemble")
  /\ lastHash' = [lastHash EXCEPT ![m] = Tip(chain)]
  /\ UNCHANGED <<shared, files, process, nextIndex, newBlock, handling, syncing>>

(* An address that is not an MZ address ends mineBlock here.               *)
RejectAddress(m) ==
  /\ Move(mpc, m, "assemble", "done")
  /\ UNCHANGED <<shared, files, process, nextIndex, lastHash, newBlock,
                 handling, syncing>>

(* The block is assembled; interruptMining is cleared just before the search. *)
StartSearch(m) ==
  /\ Move(mpc, m, "assemble", "search")
  /\ interruptMining' = FALSE
  /\ UNCHANGED <<chain, runtimeCheckpoints, lock, is_mining, files, process,
                 nextIndex, lastHash, newBlock, handling, syncing>>

FindNonce(m) ==
  /\ Move(mpc, m, "search", "commit")
  /\ \E b \in Own :
       /\ Index[b] = nextIndex[m] /\ Prev[b] = lastHash[m]
       /\ newBlock' = [newBlock EXCEPT ![m] = b]
  /\ UNCHANGED <<shared, files, process, nextIndex, lastHash, handling, syncing>>

Interrupted(m) ==
  /\ interruptMining
  /\ Move(mpc, m, "search", "done")
  /\ UNCHANGED <<shared, files, process, nextIndex, lastHash, newBlock,
                 handling, syncing>>

(* Mutation: no checkpoint check for the node's own blocks.                *)
MayCommitUnchecked(m) == nextIndex[m] = Len(chain)

(* What mineBlock checks under the mutex before it pushes its block.       *)
MayCommit(m) ==
  /\ nextIndex[m] = Len(chain)
  /\ CheckBlock(runtimeCheckpoints, newBlock[m])

Discard(m) ==
  /\ Move(mpc, m, "commit", "done")
  /\ lock = None /\ ~MayCommit(m)
  /\ UNCHANGED <<shared, files, process, nextIndex, lastHash, newBlock,
                 handling, syncing>>

Commit(m) ==
  /\ Move(mpc, m, "commit", "seal")
  /\ lock = None /\ MayCommit(m)
  /\ lock' = m
  /\ chain' = Append(chain, newBlock[m])
  /\ blkFile' = Append(blkFile, newBlock[m])
  /\ UNCHANGED <<runtimeCheckpoints, is_mining, interruptMining, datFile,
                 checkpointsDat, hashed, process, nextIndex, lastHash,
                 newBlock, handling, syncing>>

(* Mutation: blockchain.hash is not rewritten.                             *)
UpdateHashNever(m) ==
  /\ Move(mpc, m, "seal", "checkpoint")
  /\ UNCHANGED <<shared, files, process, nextIndex, lastHash, newBlock,
                 handling, syncing>>

UpdateHash(m) ==
  /\ Move(mpc, m, "seal", "checkpoint")
  /\ hashed' = Len(blkFile)
  /\ UNCHANGED <<shared, blkFile, datFile, checkpointsDat, process, nextIndex,
                 lastHash, newBlock, handling, syncing>>

(* Mutation: the checkpoint is kept in memory only.                        *)
SealInMemory(m) ==
  /\ Move(mpc, m, "checkpoint", "done")
  /\ lock' = None
  /\ IF IsHalvingBlock(newBlock[m])
     THEN runtimeCheckpoints' = AddCheckpoint(runtimeCheckpoints, newBlock[m])
     ELSE UNCHANGED runtimeCheckpoints
  /\ UNCHANGED <<chain, is_mining, interruptMining, files, process, nextIndex,
                 lastHash, newBlock, handling, syncing>>

(* Mutation: the mutex stays locked when the block is not a halving block. *)
SealKeepsLock(m) ==
  /\ Move(mpc, m, "checkpoint", "done")
  /\ lock' = IF IsHalvingBlock(newBlock[m]) THEN None ELSE lock
  /\ UNCHANGED <<chain, runtimeCheckpoints, is_mining, interruptMining, files,
                 process, nextIndex, lastHash, newBlock, handling, syncing>>

(* The checkpoint of a halving block, then the mutex is released.          *)
SealCheckpoint(m) ==
  /\ Move(mpc, m, "checkpoint", "done")
  /\ lock' = None
  /\ IF IsHalvingBlock(newBlock[m])
     THEN /\ runtimeCheckpoints' = AddCheckpoint(runtimeCheckpoints, newBlock[m])
          /\ checkpointsDat' = runtimeCheckpoints'
     ELSE UNCHANGED <<runtimeCheckpoints, checkpointsDat>>
  /\ UNCHANGED <<chain, is_mining, interruptMining, blkFile, datFile, hashed,
                 process, nextIndex, lastHash, newBlock, handling, syncing>>

StopMining(m) ==
  /\ Move(mpc, m, "done", "idle")
  /\ is_mining' = FALSE
  /\ nextIndex' = [nextIndex EXCEPT ![m] = 0]
  /\ lastHash' = [lastHash EXCEPT ![m] = None]
  /\ newBlock' = [newBlock EXCEPT ![m] = None]
  /\ UNCHANGED <<chain, runtimeCheckpoints, lock, interruptMining, files,
                 process, handling, syncing>>

MinerStep(m) ==
  \/ ReleaseFlag(m) \/ TakeFlag(m) \/ GiveUp(m) \/ ReadIndex(m) \/ ReadTip(m)
  \/ RejectAddress(m) \/ StartSearch(m) \/ Interrupted(m) \/ Discard(m)
  \/ Commit(m) \/ UpdateHash(m) \/ SealCheckpoint(m) \/ StopMining(m)

------------------------------------------------------------------------------
(* POST /block                                                             *)

(* A peer's block, or one of ours that a peer relays back.                 *)
Incoming == (Block \ Own) \cup {blkFile[i] : i \in 1 .. Len(blkFile)}

(* Mutation: the handler does not compare prevHash with the tip.           *)
ReceiveUnlinked(h) ==
  /\ phase = "up"
  /\ Move(hpc, h, "idle", "add")
  /\ \E b \in Incoming :
       /\ Index[b] = Len(chain)
       /\ received' = [received EXCEPT ![h] = b]
  /\ UNCHANGED <<shared, files, process, mining, syncing>>

(* The checks against a snapshot of the chain; a block they refuse is a    *)
(* response and no step.                                                   *)
ReceiveBlock(h) ==
  /\ phase = "up"
  /\ Move(hpc, h, "idle", "add")
  /\ \E b \in Incoming :
       /\ Index[b] = Len(chain) /\ Prev[b] = Tip(chain)
       /\ received' = [received EXCEPT ![h] = b]
  /\ UNCHANGED <<shared, files, process, mining, syncing>>

HandlerAdd(h) ==
  /\ Move(hpc, h, "add", "save")
  /\ AddBlock(received[h])
  /\ UNCHANGED <<lock, is_mining, interruptMining, blkFile, datFile, hashed,
                 process, mining, received, syncing>>

(* Written whether addBlock took it or not.                                *)
HandlerSave(h) ==
  /\ Move(hpc, h, "save", "interrupt")
  /\ datFile' = datFile \cup {received[h]}
  /\ UNCHANGED <<shared, blkFile, checkpointsDat, hashed, process, mining,
                 received, syncing>>

HandlerInterrupt(h) ==
  /\ Move(hpc, h, "interrupt", "idle")
  /\ interruptMining' = TRUE
  /\ received' = [received EXCEPT ![h] = None]
  /\ UNCHANGED <<chain, runtimeCheckpoints, lock, is_mining, files, process,
                 mining, syncing>>

HandlerStep(h) == HandlerAdd(h) \/ HandlerSave(h) \/ HandlerInterrupt(h)

------------------------------------------------------------------------------
(* Sync threads                                                            *)

(* The height the peer reports; 0 when GET /status fails.                  *)
ReportedHeights == {0} \cup {Len(p) : p \in PeerChains}

CompareHeights(s) ==
  /\ phase = "up" /\ spc[s] = "idle"
  /\ \E peerHeight \in ReportedHeights :
       spc' = [spc EXCEPT ![s] =
                 IF peerHeight > Len(chain) + 1 THEN "download" ELSE "fetch"]
  /\ UNCHANGED <<shared, files, process, mining, handling, peerBlocks, full>>

(* The whole chain of the peer, as it is when GET /blockchain is answered. *)
DownloadChain(s) ==
  /\ Move(spc, s, "download", "validate")
  /\ \E p \in PeerChains \cup {<< >>} : peerBlocks' = [peerBlocks EXCEPT ![s] = p]
  /\ UNCHANGED <<shared, files, process, mining, handling, full>>

(* Mutations: no length check; no checkpoint check.                        *)
AcceptsAnyLength(c) ==
  /\ c # << >> /\ c[1] = chain[1] /\ IsLinked(c)
  /\ \A i \in 1 .. Len(c) : CheckBlock(runtimeCheckpoints, c[i])

AcceptsUncheckpointed(c) ==
  Len(c) > Len(chain) /\ c[1] = chain[1] /\ IsLinked(c)

(* replaceChain's checks, all made before it takes the mutex.              *)
AcceptsChain(c) ==
  /\ Len(c) > Len(chain)
  /\ c[1] = chain[1]
  /\ IsLinked(c)
  /\ \A i \in 1 .. Len(c) : CheckBlock(runtimeCheckpoints, c[i])

ValidateChain(s) ==
  /\ spc[s] = "validate"
  /\ spc' = [spc EXCEPT ![s] =
               IF AcceptsChain(peerBlocks[s]) THEN "replace" ELSE "fetch"]
  /\ UNCHANGED <<shared, files, process, mining, handling, peerBlocks, full>>

ReplaceChain(s) ==
  /\ lock = None
  /\ Move(spc, s, "replace", "dump")
  /\ chain' = peerBlocks[s]
  /\ UNCHANGED <<runtimeCheckpoints, lock, is_mining, interruptMining, files,
                 process, mining, handling, peerBlocks, full>>

(* saveChain rewrites the file with the chain as it is now.                *)
DumpChain(s) ==
  /\ Move(spc, s, "dump", "idle")
  /\ datFile' = {chain[i] : i \in 1 .. Len(chain)}
  /\ peerBlocks' = [peerBlocks EXCEPT ![s] = << >>]
  /\ UNCHANGED <<shared, blkFile, checkpointsDat, hashed, process, mining,
                 handling, full>>

(* GET /blockchain?from=f&limit=BatchLimit: at most a batch, from height f. *)
Served(p, f) ==
  SubSeq(p, f + 1, IF Len(p) < f + BatchLimit THEN Len(p) ELSE f + BatchLimit)

(* Mutation: every batch is asked for from the first block.                *)
FetchFromStart(s) ==
  /\ spc[s] = "fetch"
  /\ \E p \in PeerChains \cup {<< >>} :
       LET batch == Served(p, 0)
       IN /\ peerBlocks' = [peerBlocks EXCEPT ![s] = batch]
          /\ full' = [full EXCEPT ![s] = (Len(batch) = BatchLimit)]
          /\ spc' = [spc EXCEPT ![s] = IF batch = << >> THEN "idle" ELSE "each"]
  /\ UNCHANGED <<shared, files, process, mining, handling>>

(* GET /blockchain?from=<local height>; an empty answer ends the sync.     *)
FetchBatch(s) ==
  /\ spc[s] = "fetch"
  /\ \E p \in PeerChains \cup {<< >>} :
       LET batch == Served(p, Len(chain))
       IN /\ peerBlocks' = [peerBlocks EXCEPT ![s] = batch]
          /\ full' = [full EXCEPT ![s] = (Len(batch) = BatchLimit)]
          /\ spc' = [spc EXCEPT ![s] = IF batch = << >> THEN "idle" ELSE "each"]
  /\ UNCHANGED <<shared, files, process, mining, handling>>

(* A block at the height of the unlocked read is added; others are skipped. *)
NextOfBatch(s) ==
  /\ spc[s] = "each" /\ peerBlocks[s] # << >>
  /\ IF Index[Head(peerBlocks[s])] = Len(chain)
     THEN /\ spc' = [spc EXCEPT ![s] = "add"]
          /\ UNCHANGED peerBlocks
     ELSE /\ peerBlocks' = [peerBlocks EXCEPT ![s] = Tail(@)]
          /\ UNCHANGED spc
  /\ UNCHANGED <<shared, files, process, mining, handling, full>>

SyncAdd(s) ==
  /\ Move(spc, s, "add", "save")
  /\ AddBlock(Head(peerBlocks[s]))
  /\ UNCHANGED <<lock, is_mining, interruptMining, blkFile, datFile, hashed,
                 process, mining, handling, peerBlocks, full>>

SyncSave(s) ==
  /\ Move(spc, s, "save", "each")
  /\ datFile' = datFile \cup {Head(peerBlocks[s])}
  /\ peerBlocks' = [peerBlocks EXCEPT ![s] = Tail(@)]
  /\ UNCHANGED <<shared, blkFile, checkpointsDat, hashed, process, mining,
                 handling, full>>

EndOfBatch(s) ==
  /\ spc[s] = "each" /\ peerBlocks[s] = << >>
  /\ spc' = [spc EXCEPT ![s] = IF full[s] THEN "fetch" ELSE "idle"]
  /\ UNCHANGED <<shared, files, process, mining, handling, peerBlocks, full>>

SyncStep(s) ==
  \/ DownloadChain(s) \/ ValidateChain(s) \/ ReplaceChain(s) \/ DumpChain(s)
  \/ FetchBatch(s) \/ NextOfBatch(s) \/ SyncAdd(s) \/ SyncSave(s)
  \/ EndOfBatch(s)

------------------------------------------------------------------------------
Init ==
  /\ phase = "loading" /\ cursor = 0 /\ crashes = 0
  /\ chain = << >> /\ runtimeCheckpoints = {} /\ lock = None
  /\ is_mining = FALSE /\ interruptMining = FALSE
  /\ blkFile = << >> /\ datFile = {} /\ checkpointsDat = {} /\ hashed = 0
  /\ mpc = [m \in Miners |-> "idle"]
  /\ hpc = [h \in Handlers |-> "idle"]
  /\ spc = [s \in Syncers |-> "idle"]
  /\ nextIndex = [m \in Miners |-> 0]
  /\ lastHash = [m \in Miners |-> None]
  /\ newBlock = [m \in Miners |-> None]
  /\ received = [h \in Handlers |-> None]
  /\ peerBlocks = [s \in Syncers |-> << >>]
  /\ full = [s \in Syncers |-> FALSE]

Next ==
  \/ LoadRecord \/ CreateGenesis \/ FinishLoad \/ Crash
  \/ \E m \in Miners :
       MineRequest(m) \/ MineDirectly(m) \/ FindNonce(m) \/ MinerStep(m)
  \/ \E h \in Handlers : ReceiveBlock(h) \/ HandlerStep(h)
  \/ \E s \in Syncers : CompareHeights(s) \/ SyncStep(s)

Spec == Init /\ [][Next]_vars

------------------------------------------------------------------------------
(* Properties                                                              *)

MinerPcs == {"idle", "spawned", "try", "index", "tip", "assemble", "search",
             "commit", "seal", "checkpoint", "done"}
HandlerPcs == {"idle", "add", "save", "interrupt"}
SyncPcs == {"idle", "download", "validate", "replace", "dump", "fetch",
            "each", "add", "save"}

(* The type invariant. *)
TypeOK ==
  /\ chain \in Seq(Block)
  /\ runtimeCheckpoints \subseteq Block
  /\ lock \in Miners \cup {None}
  /\ is_mining \in BOOLEAN /\ interruptMining \in BOOLEAN
  /\ blkFile \in Seq(Block) /\ datFile \subseteq Block
  /\ checkpointsDat \subseteq Block /\ hashed \in Nat
  /\ phase \in {"loading", "up"} /\ cursor \in Nat /\ crashes \in Nat
  /\ mpc \in [Miners -> MinerPcs]
  /\ nextIndex \in [Miners -> Nat]
  /\ lastHash \in [Miners -> Block \cup {None}]
  /\ newBlock \in [Miners -> Block \cup {None}]
  /\ hpc \in [Handlers -> HandlerPcs]
  /\ received \in [Handlers -> Block \cup {None}]
  /\ spc \in [Syncers -> SyncPcs]
  /\ peerBlocks \in [Syncers -> Seq(Block)]
  /\ full \in [Syncers -> BOOLEAN]

(* Whatever the interleaving of miners, handlers, sync threads and restarts,
   the block at position i of the vector is the block built for height i:
   every reader of the chain (balances, maturity, GET /blockchain) indexes
   the vector by block.index.  A node without sync threads keeps this. *)
SitsAtHeight(c, i) == Index[c[i]] = i - 1
HeightIsIndex == \A i \in 1 .. Len(chain) : SitsAtHeight(chain, i)

(* With sync threads a block out of place is one that a peer served there, in
   the part of the chain that one reorganisation took from this peer, unbroken
   from the first block on: no race adds another, before it or behind it. *)
StartsLike(c, p, i) == i <= Len(p) /\ \A j \in 1 .. i : c[j] = p[j]
OutOfPlaceAsServed ==
  \A i \in 1 .. Len(chain) :
    SitsAtHeight(chain, i) \/ \E p \in PeerChains : StartsLike(chain, p, i)

(* At most one thread is inside mineBlock, although GET /minerar_agora takes
   the flag, gives it back and takes it again (api/main.cpp:608-613). *)
OneMiner ==
  \A m, n \in Miners :
    /\ mpc[m] \notin {"idle", "spawned", "try"}
    /\ mpc[n] \notin {"idle", "spawned", "try"}
    => m = n

(* The chain in memory is hash-linked: isChainValid's first test would pass
   at every moment.  addBlock and mineBlock do not look at prevHash, so this
   rests on what the callers checked before they waited for the mutex. *)
Linked == IsLinked(chain)

(* Every block at its height agrees with every checkpoint of that height, also
   after a restart that lost blocks but kept their checkpoints. *)
CheckpointsHold ==
  \A i \in 1 .. Len(chain) :
    SitsAtHeight(chain, i) => CheckBlock(runtimeCheckpoints, chain[i])

(* ... and so does a block that a peer served out of place (blockchain.cpp:619,
   "blocos de halving nao podem ser substituidos"). *)
EveryBlockAgrees ==
  \A i \in 1 .. Len(chain) : CheckBlock(runtimeCheckpoints, chain[i])

(* Once the mutex is free every halving block of the chain is a checkpoint on
   disk, whichever way it came in and wherever the process crashed. *)
HalvingIsDurable ==
  phase = "up" /\ lock = None =>
    \A i \in 1 .. Len(chain) :
      IsHalvingBlock(chain[i]) => chain[i] \in checkpointsDat

(* The chain loadChain would rebuild from blk00000.dat at this moment. *)
ReplayOf(file, cps) ==
  LET upTo[i \in 0 .. Len(file)] ==
        IF i = 0 THEN << >>
        ELSE IF /\ Index[file[i]] = Len(upTo[i - 1])
                /\ CheckBlock(cps, file[i])
             THEN Append(upTo[i - 1], file[i])
             ELSE upTo[i - 1]
  IN  upTo[Len(file)]

Replayed == ReplayOf(blkFile, checkpointsDat)

(* A node without sync threads implements HashChain: it appends linked blocks
   at the tip and a restart takes it back to an earlier chain of its own. *)
Promise == INSTANCE HashChain WITH log <- IF phase = "up" THEN chain ELSE Replayed
ImplementsHashChain == Promise!Spec

(* data/blockchain.hash covers the whole of blk00000.dat whenever no miner is
   in its critical section and the process never crashed in one. *)
HashCoversFile == lock = None /\ crashes = 0 => hashed = Len(blkFile)

(* Once a critical section is over the disk has what it promises of the chain:
   a checkpoint for every halving block, and the hash of the whole file. *)
DiskFollowsChain == HalvingIsDurable /\ HashCoversFile

(* The genesis block is never replaced. *)
GenesisStays == Len(chain) > 0 => chain[1] = Genesis

(* Under every race of miners and sync threads, reorganisations to branches of
   this and of other networks included, and to chains that number their blocks
   as they like: the chain begins with the genesis block of this network, and
   blocks sit at their height as far as the peers' own do. *)
BlocksStay == OutOfPlaceAsServed /\ GenesisStays

(* Between restarts, a step that does not extend the chain replaces it with a
   strictly longer one: the longest chain rule of replaceChain. *)
ReorgGrows ==
  [][phase = "up" /\ phase' = "up" /\ chain' # chain =>
       Len(chain') > Len(chain)]_vars

(* A miner that still searches for a height the chain has passed has been told
   to stop, or is about to be (src/block.cpp:60-61). *)
StaleSearchIsInterrupted ==
  \A m \in Miners :
    mpc[m] = "search" /\ nextIndex[m] < Len(chain) =>
      \/ interruptMining
      \/ \E h \in Handlers : hpc[h] \in {"save", "interrupt"}

(* A search that is overtaken, or that was told to stop, is told to stop or is
   about to be after every further step: no thread clears the flag under a
   search that runs (blockchain.cpp:317 clears it before one begins), and who
   lengthens the chain raises it.  A node without sync threads keeps this. *)
StopIsRaised ==
  interruptMining \/ \E h \in Handlers : hpc[h] \in {"save", "interrupt"}
TellsSearch(m) ==
  mpc[m] = "search" /\ mpc'[m] = "search" /\ (StopIsRaised \/ Len(chain') > Len(chain))
  => StopIsRaised'
OvertakenSearchIsTold == [][\A m \in Miners : TellsSearch(m)]_vars

(* The node comes back from a restart with every block it wrote to disk that
   continues its chain (replit.md:11). *)
RestartRestores ==
  [][phase = "loading" /\ phase' = "up" =>
       ~ \E b \in datFile \ Suspect :
           Index[b] = Len(chain') /\ Prev[b] = Tip(chain')]_vars

(* /db/integrity raises its alarm only when the file was changed outside the
   protocol (api/main.cpp:1389, 1398); no step of the model does that. *)
NoFalseAlarm == phase = "up" /\ lock = None => hashed = Len(blkFile)

(* Under fair scheduling of the threads, POST /block is always answered. *)
BlockIsAnswered == \A h \in Handlers : hpc[h] # "idle" ~> hpc[h] = "idle"

(* A mining thread ends, or it is searching for a nonce: nothing else makes it
   wait, in particular not is_mining and not g_blockchain_mutex. *)
MinerEndsOrSearches ==
  \A m \in Miners : mpc[m] # "idle" ~> mpc[m] \in {"idle", "search"}

(* No thread waits for ever on the one mutex and the one mining flag. *)
ThreadsGoOn == BlockIsAnswered /\ MinerEndsOrSearches

(* A sync with a peer ends (p2p.cpp:330, "baixa apenas blocos novos"). *)
SyncEnds == \A s \in Syncers : spc[s] # "idle" ~> spc[s] = "idle"

(* Two kinds of full batch it may ask for over and over: one with a block that
   addBlock refuses, and one with a block that its peer serves out of place. *)
Refused(s) ==
  full[s] /\ spc[s] = "save" /\ \A i \in 1 .. Len(chain) : chain[i] # Head(peerBlocks[s])
OutOfPlace == {b \in Block : \E p \in PeerChains :
                 \E i \in 1 .. Len(p) : p[i] = b /\ ~SitsAtHeight(p, i)}
Misnumbered(s) ==
  full[s] /\ spc[s] = "each" /\ \E i \in 1 .. Len(peerBlocks[s]) : peerBlocks[s][i] \in OutOfPlace

(* Whatever the own miner does to the height the loop starts from, and however
   the peer grows, shrinks or changes branch: a sync ends, or meets one of the
   two. *)
SyncEndsOrIsRefused ==
  \A s \in Syncers : spc[s] # "idle" ~> (spc[s] = "idle" \/ Refused(s) \/ Misnumbered(s))

------------------------------------------------------------------------------
(* The operating system runs every thread; nobody promises a nonce.        *)
Fairness ==
  /\ WF_vars(LoadRecord) /\ WF_vars(CreateGenesis) /\ WF_vars(FinishLoad)
  /\ \A m \in Miners : WF_vars(MinerStep(m))
  /\ \A h \in Handlers : WF_vars(HandlerStep(h))
  /\ \A s \in Syncers : WF_vars(SyncStep(s))

FairSpec == Spec /\ Fairness
==============================================================================

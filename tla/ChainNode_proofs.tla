-------------------------- MODULE ChainNode_proofs --------------------------
(***************************************************************************)
(* Proofs about ChainNode, for every set of blocks, threads and peers.     *)
(***************************************************************************)
EXTENDS ChainNode, SequenceTheorems, WellFoundedInduction, TLAPS

(* Where the program counters are, the values they stand for exist: the chain
   has a tip once the node is up, a thread that will add or save a block holds
   one, and no thread runs while the constructor loads the chain. *)
Control ==
  /\ phase = "up" => chain # << >>
  /\ phase = "loading" =>
       /\ \A m \in Miners : mpc[m] = "idle"
       /\ \A h \in Handlers : hpc[h] = "idle"
       /\ \A s \in Syncers : spc[s] = "idle"
  /\ \A m \in Miners :
       mpc[m] \in {"commit", "seal", "checkpoint"} => newBlock[m] \in Block
  /\ \A h \in Handlers : hpc[h] # "idle" => received[h] \in Block
  /\ \A s \in Syncers :
       spc[s] \in {"add", "save", "replace"} => peerBlocks[s] # << >>

TypeInv == TypeOK /\ Control

(* What a sync thread downloads is a sequence of blocks. *)
LEMMA PeerChainType == \A p \in PeerChains \cup {<< >>} : p \in Seq(Block)
  BY PeerAssumption, EmptySeq

(* A served batch is a sequence of blocks. *)
LEMMA ServedType ==
  ASSUME NEW p \in Seq(Block), NEW f \in Nat
  PROVE  Served(p, f) \in Seq(Block)
<1> DEFINE top == IF Len(p) < f + BatchLimit THEN Len(p) ELSE f + BatchLimit
<1>1. f + 1 \in Int /\ top \in Int /\ top <= Len(p)
  BY BoundAssumption, LenProperties
<1>2. \A i \in f + 1 .. top : p[i] \in Block
  BY <1>1, ElementOfSeq, LenProperties
<1>3. SubSeq(p, f + 1, top) \in Seq(Block)
  BY <1>1, <1>2, SubSeqProperties
<1> QED BY <1>3 DEF Served

(* What AppendBlock leaves: a chain of blocks that did not shrink. *)
LEMMA AppendBlockType ==
  ASSUME TypeOK, NEW b \in Block, AppendBlock(b)
  PROVE  /\ chain' \in Seq(Block)
         /\ runtimeCheckpoints' \subseteq Block
         /\ checkpointsDat' \subseteq Block
         /\ chain # << >> => chain' # << >>
<1>1. chain \in Seq(Block) BY DEF TypeOK
<1>2. Append(chain, b) \in Seq(Block) /\ Append(chain, b) # << >>
  BY <1>1, AppendProperties
<1>3. AddCheckpoint(runtimeCheckpoints, b) \subseteq Block
  BY DEF AddCheckpoint, TypeOK
<1> QED BY <1>1, <1>2, <1>3 DEF AppendBlock, TypeOK

LEMMA TypeInit == Init => TypeInv
<1> SUFFICES ASSUME Init PROVE TypeInv
  OBVIOUS
<1>1. << >> \in Seq(Block)
  BY EmptySeq
<1>2. TypeOK
  BY <1>1 DEF Init, TypeOK, MinerPcs, HandlerPcs, SyncPcs
<1>3. Control
  BY DEF Init, Control
<1> QED BY <1>2, <1>3 DEF TypeInv

(* Start-up and crash keep the types. *)
LEMMA TypeProcess ==
  ASSUME TypeInv, LoadRecord \/ CreateGenesis \/ FinishLoad \/ Crash
  PROVE  TypeInv'
<1> USE DEF TypeInv, TypeOK, Control, vars, shared, files, process, mining,
            handling, syncing, MinerPcs, HandlerPcs, SyncPcs
<1>1. CASE LoadRecord
  <2>1. blkFile[cursor + 1] \in Block
    BY <1>1, ElementOfSeq, LenProperties DEF LoadRecord
  <2> QED BY <1>1, <2>1, AppendBlockType DEF LoadRecord
<1>2. CASE CreateGenesis
  <2>1. <<Genesis>> \in Seq(Block) /\ <<Genesis>> # << >>
    BY BlockAssumption
  <2>2. AddCheckpoint(runtimeCheckpoints, Genesis) \subseteq Block
    BY BlockAssumption DEF AddCheckpoint
  <2> QED BY <1>2, <2>1, <2>2 DEF CreateGenesis
<1>3. CASE FinishLoad
  BY <1>3 DEF FinishLoad
<1>4. CASE Crash
  <2>1. << >> \in Seq(Block)
    BY EmptySeq
  <2>2. TypeOK'
    <3>1. /\ mpc' \in [Miners -> MinerPcs]
          /\ nextIndex' \in [Miners -> Nat]
          /\ lastHash' \in [Miners -> Block \cup {None}]
          /\ newBlock' \in [Miners -> Block \cup {None}]
      BY <1>4 DEF Crash
    <3>2. /\ hpc' \in [Handlers -> HandlerPcs]
          /\ received' \in [Handlers -> Block \cup {None}]
          /\ spc' \in [Syncers -> SyncPcs]
          /\ peerBlocks' \in [Syncers -> Seq(Block)]
          /\ full' \in [Syncers -> BOOLEAN]
      BY <1>4, <2>1 DEF Crash
    <3>3. is_mining' \in BOOLEAN /\ interruptMining' \in BOOLEAN
      BY <1>4 DEF Crash
    <3>4. UNCHANGED <<blkFile, datFile, checkpointsDat, hashed>>
      BY <1>4 DEF Crash
    <3>5. chain' \in Seq(Block) /\ runtimeCheckpoints' \subseteq Block
      BY <1>4, <2>1 DEF Crash
    <3>6. lock' \in Miners \cup {None} /\ crashes' \in Nat
      BY <1>4 DEF Crash
    <3>7. phase' \in {"loading", "up"} /\ cursor' \in Nat
      BY <1>4 DEF Crash
    <3>8. /\ blkFile' \in Seq(Block) /\ datFile' \subseteq Block
          /\ checkpointsDat' \subseteq Block /\ hashed' \in Nat
      BY <3>4
    <3> QED BY <3>1, <3>2, <3>3, <3>5, <3>6, <3>7, <3>8
  <2>3. Control'
    BY <1>4 DEF Crash
  <2> QED BY <2>2, <2>3
<1> QED BY <1>1, <1>2, <1>3, <1>4

(* Every step of a mining thread keeps the types. *)
LEMMA TypeMiner ==
  ASSUME TypeInv, NEW m \in Miners,
         MineRequest(m) \/ MineDirectly(m) \/ FindNonce(m) \/ MinerStep(m)
  PROVE  TypeInv'
<1> USE DEF TypeInv, TypeOK, Control, Move, vars, shared, files, process, mining,
            handling, syncing, MinerPcs, HandlerPcs, SyncPcs
<1>1. CASE MineRequest(m)
  BY <1>1 DEF MineRequest
<1>2. CASE ReleaseFlag(m)
  BY <1>2 DEF ReleaseFlag
<1>3. CASE MineDirectly(m)
  BY <1>3 DEF MineDirectly
<1>4. CASE TakeFlag(m)
  BY <1>4 DEF TakeFlag
<1>5. CASE GiveUp(m)
  BY <1>5 DEF GiveUp
<1>6. CASE ReadIndex(m)
  BY <1>6 DEF ReadIndex
<1>7. CASE ReadTip(m)
  BY <1>7, ElementOfSeq, LenProperties DEF ReadTip, Tip
<1>8. CASE RejectAddress(m)
  BY <1>8 DEF RejectAddress
<1>9. CASE StartSearch(m)
  BY <1>9 DEF StartSearch
<1>10. CASE FindNonce(m)
  BY <1>10, BlockAssumption DEF FindNonce
<1>11. CASE Interrupted(m)
  BY <1>11 DEF Interrupted
<1>12. CASE Discard(m)
  BY <1>12 DEF Discard
<1>13. CASE Commit(m)
  BY <1>13, AppendProperties DEF Commit
<1>14. CASE UpdateHash(m)
  BY <1>14 DEF UpdateHash
<1>15. CASE SealCheckpoint(m)
  BY <1>15 DEF SealCheckpoint, AddCheckpoint
<1>16. CASE StopMining(m)
  BY <1>16 DEF StopMining
<1> QED BY <1>1, <1>2, <1>3, <1>4, <1>5, <1>6, <1>7, <1>8, <1>9, <1>10, <1>11, <1>12, <1>13, <1>14, <1>15, <1>16 DEF MinerStep

(* Every step of a POST /block handler keeps the types. *)
LEMMA TypeHandler ==
  ASSUME TypeInv, NEW h \in Handlers, ReceiveBlock(h) \/ HandlerStep(h)
  PROVE  TypeInv'
<1> USE DEF TypeInv, TypeOK, Control, Move, vars, shared, files, process, mining,
            handling, syncing, MinerPcs, HandlerPcs, SyncPcs
<1>1. CASE ReceiveBlock(h)
  BY <1>1, ElementOfSeq DEF ReceiveBlock, Incoming
<1>2. CASE HandlerAdd(h)
  BY <1>2, AppendBlockType DEF HandlerAdd, AddBlock
<1>3. CASE HandlerSave(h)
  BY <1>3 DEF HandlerSave
<1>4. CASE HandlerInterrupt(h)
  BY <1>4 DEF HandlerInterrupt
<1> QED BY <1>1, <1>2, <1>3, <1>4 DEF HandlerStep

(* Every step of a sync thread keeps the types. *)
LEMMA TypeSyncer ==
  ASSUME TypeInv, NEW s \in Syncers, CompareHeights(s) \/ SyncStep(s)
  PROVE  TypeInv'
<1> USE DEF TypeInv, TypeOK, Control, Move, vars, shared, files, process, mining,
            handling, syncing, MinerPcs, HandlerPcs, SyncPcs
<1>1. CASE CompareHeights(s)
  BY <1>1 DEF CompareHeights
<1>2. CASE DownloadChain(s)
  BY <1>2, PeerChainType DEF DownloadChain
<1>3. CASE ValidateChain(s)
  <2>1. AcceptsChain(peerBlocks[s]) => peerBlocks[s] # << >>
    <3>1. Len(chain) \in Nat /\ Len(<< >>) = 0
      BY LenProperties, EmptySeq
    <3> QED BY <3>1 DEF AcceptsChain
  <2> QED BY <1>3, <2>1 DEF ValidateChain
<1>4. CASE ReplaceChain(s)
  BY <1>4 DEF ReplaceChain
<1>5. CASE DumpChain(s)
  BY <1>5 DEF DumpChain
<1>6. CASE FetchBatch(s)
  <2>1. \A p \in PeerChains \cup {<< >>} : Served(p, Len(chain)) \in Seq(Block)
    BY PeerChainType, ServedType, LenProperties
  <2>2. PICK p \in PeerChains \cup {<< >>} :
          LET batch == Served(p, Len(chain))
          IN /\ peerBlocks' = [peerBlocks EXCEPT ![s] = batch]
             /\ full' = [full EXCEPT ![s] = (Len(batch) = BatchLimit)]
             /\ spc' = [spc EXCEPT ![s] = IF batch = << >> THEN "idle" ELSE "each"]
    BY <1>6 DEF FetchBatch
  <2>3. full' \in [Syncers -> BOOLEAN]
    BY <2>2
  <2> QED BY <1>6, <2>1, <2>2, <2>3 DEF FetchBatch
<1>7. CASE NextOfBatch(s)
  <2>1. peerBlocks[s] # << >> => Tail(peerBlocks[s]) \in Seq(Block)
    BY HeadTailProperties
  <2> QED BY <1>7, <2>1 DEF NextOfBatch
<1>8. CASE SyncAdd(s)
  <2>1. Head(peerBlocks[s]) \in Block
    BY <1>8, HeadTailProperties DEF SyncAdd
  <2> QED BY <1>8, <2>1, AppendBlockType DEF SyncAdd, AddBlock
<1>9. CASE SyncSave(s)
  <2>1. Head(peerBlocks[s]) \in Block /\ Tail(peerBlocks[s]) \in Seq(Block)
    BY <1>9, HeadTailProperties DEF SyncSave
  <2> QED BY <1>9, <2>1 DEF SyncSave
<1>10. CASE EndOfBatch(s)
  BY <1>10 DEF EndOfBatch
<1> QED BY <1>1, <1>2, <1>3, <1>4, <1>5, <1>6, <1>7, <1>8, <1>9, <1>10 DEF SyncStep

(* Every step keeps the types, and so does a stutter. *)
LEMMA TypeNext == TypeInv /\ [Next]_vars => TypeInv'
<1> SUFFICES ASSUME TypeInv, [Next]_vars PROVE TypeInv'
  OBVIOUS
<1>1. CASE UNCHANGED vars
  BY <1>1 DEF TypeInv, TypeOK, Control, vars, shared, files, process, mining,
              handling, syncing
<1> QED BY <1>1, TypeProcess, TypeMiner, TypeHandler, TypeSyncer DEF Next

LEMMA TypeInvariant == Spec => []TypeInv
  BY TypeInit, TypeNext, PTL DEF Spec

(* Type correctness of the node (TypeOK) for every set of threads and blocks. *)
THEOREM TypeCorrect == Spec => []TypeOK
<1>1. TypeInv => TypeOK
  BY DEF TypeInv
<1> QED BY <1>1, TypeInvariant, PTL

------------------------------------------------------------------------------
(* What each kind of thread leaves alone.                                  *)

LEMMA MinerFrame ==
  ASSUME NEW m \in Miners,
         MineRequest(m) \/ MineDirectly(m) \/ FindNonce(m) \/ MinerStep(m)
  PROVE  UNCHANGED <<handling, syncing, process, datFile>>
  BY DEF MinerStep, MineRequest, MineDirectly, FindNonce, ReleaseFlag, TakeFlag,
    GiveUp, ReadIndex, ReadTip, RejectAddress, StartSearch, Interrupted, Discard,
    Commit, UpdateHash, SealCheckpoint, StopMining, files

LEMMA HandlerFrame ==
  ASSUME NEW h \in Handlers, ReceiveBlock(h) \/ HandlerStep(h)
  PROVE  UNCHANGED <<mining, syncing, process, lock, is_mining, blkFile, hashed>>
  BY DEF HandlerStep, ReceiveBlock, HandlerAdd, HandlerSave, HandlerInterrupt,
    shared, files

LEMMA SyncerFrame ==
  ASSUME NEW s \in Syncers, CompareHeights(s) \/ SyncStep(s)
  PROVE  UNCHANGED <<mining, handling, process, lock, is_mining, blkFile, hashed>>
  BY DEF SyncStep, CompareHeights, DownloadChain, ValidateChain, ReplaceChain,
    DumpChain, FetchBatch, NextOfBatch, SyncAdd, SyncSave, EndOfBatch, shared,
    files

LEMMA LoadFrame ==
  ASSUME LoadRecord \/ CreateGenesis \/ FinishLoad
  PROVE  UNCHANGED <<mining, handling, syncing, lock, is_mining>>
  BY DEF LoadRecord, CreateGenesis, FinishLoad, shared

------------------------------------------------------------------------------
(* Mutual exclusion of the mining threads.  A thread owns is_mining while it
   is "spawned" (the handler set the flag for it) or inside async_mine; every
   store of FALSE is the owner's. *)
Owns(m) == mpc[m] \notin {"idle", "try"}

OwnerInv ==
  \A m \in Miners : Owns(m) => is_mining /\ \A n \in Miners : Owns(n) => n = m

LEMMA OwnerInit == Init => OwnerInv
  BY DEF Init, OwnerInv, Owns

LEMMA OwnerNext == TypeInv /\ OwnerInv /\ [Next]_vars => OwnerInv'
<1> SUFFICES ASSUME TypeInv, OwnerInv, [Next]_vars PROVE OwnerInv'
  OBVIOUS
<1> USE DEF OwnerInv, Owns, TypeInv, TypeOK
<1>1. CASE UNCHANGED <<mpc, is_mining>>
  BY <1>1
<1>2. CASE Crash
  BY <1>2 DEF Crash
<1>3. ASSUME NEW m \in Miners,
             MineRequest(m) \/ MineDirectly(m) \/ FindNonce(m) \/ MinerStep(m)
      PROVE  OwnerInv'
  <2> USE DEF Move, MinerPcs
  <2>1. CASE MineRequest(m)
    BY <2>1 DEF MineRequest
  <2>2. CASE ReleaseFlag(m)
    <3>1. Owns(m) /\ \A n \in Miners : n # m => mpc[n] \in {"idle", "try"}
      BY <2>2 DEF ReleaseFlag
    <3>2. mpc'[m] \in {"idle", "try"} /\ \A n \in Miners : n # m => mpc'[n] = mpc[n]
      BY <2>2 DEF ReleaseFlag
    <3>3. \A n \in Miners : mpc'[n] \in {"idle", "try"}
      BY <3>1, <3>2
    <3> HIDE DEF TypeInv, TypeOK
    <3> QED BY <3>3
  <2>3. CASE TakeFlag(m)
    BY <2>3 DEF TakeFlag
  <2>4. CASE StopMining(m)
    <3>1. Owns(m) /\ \A n \in Miners : n # m => mpc[n] \in {"idle", "try"}
      BY <2>4 DEF StopMining
    <3>2. mpc'[m] \in {"idle", "try"} /\ \A n \in Miners : n # m => mpc'[n] = mpc[n]
      BY <2>4 DEF StopMining
    <3>3. \A n \in Miners : mpc'[n] \in {"idle", "try"}
      BY <3>1, <3>2
    <3> HIDE DEF TypeInv, TypeOK
    <3> QED BY <3>3
  <2>5. CASE MineDirectly(m) \/ GiveUp(m)
    <3>1. is_mining' = is_mining /\ ~Owns(m) /\ (Owns(m))'  = FALSE
      BY <2>5 DEF MineDirectly, GiveUp, shared
    <3>2. \A n \in Miners : n # m => mpc'[n] = mpc[n]
      BY <2>5 DEF MineDirectly, GiveUp
    <3> QED BY <3>1, <3>2
  <2>6. CASE \/ ReadIndex(m) \/ ReadTip(m) \/ RejectAddress(m) \/ StartSearch(m)
             \/ FindNonce(m) \/ Interrupted(m) \/ Discard(m) \/ Commit(m)
             \/ UpdateHash(m) \/ SealCheckpoint(m)
    <3>1. Owns(m) /\ is_mining' = is_mining
      BY <2>6 DEF ReadIndex, ReadTip, RejectAddress, StartSearch, FindNonce,
        Interrupted, Discard, Commit, UpdateHash, SealCheckpoint, shared
    <3>2. \A n \in Miners : n # m => mpc'[n] = mpc[n]
      BY <2>6 DEF ReadIndex, ReadTip, RejectAddress, StartSearch, FindNonce,
        Interrupted, Discard, Commit, UpdateHash, SealCheckpoint
    <3> QED BY <3>1, <3>2
  <2> QED BY <1>3, <2>1, <2>2, <2>3, <2>4, <2>5, <2>6 DEF MinerStep
<1>4. CASE UNCHANGED vars
  BY <1>1, <1>4 DEF vars, shared, mining
<1> QED
  BY <1>1, <1>2, <1>3, <1>4, HandlerFrame, SyncerFrame, LoadFrame DEF Next, mining

(* Two threads are never inside mineBlock together (OneMiner), however many
   requests, direct callers and crashes there are. *)
THEOREM MutualExclusion == Spec => []OneMiner
<1>1. TypeInv /\ OwnerInv => OneMiner
  BY DEF TypeInv, TypeOK, OwnerInv, Owns, OneMiner, MinerPcs
<1> QED BY <1>1, OwnerInit, OwnerNext, TypeInvariant, PTL DEF Spec

------------------------------------------------------------------------------
(* A running search hears of every block that overtakes it.  Only the owner of
   is_mining clears the flag or appends a block of its own, so while one miner
   searches the chain grows by POST /block alone, and such a handler is at
   "save" and "interrupt" until the flag is up. *)
LEMMA TellNext ==
  ASSUME Syncers = {}, TypeInv, OwnerInv, [Next]_vars, NEW m \in Miners
  PROVE  TellsSearch(m)
<1> SUFFICES ASSUME mpc[m] = "search", mpc'[m] = "search",
                    StopIsRaised \/ Len(chain') > Len(chain)
             PROVE  StopIsRaised'
  BY DEF TellsSearch
<1>1. CASE UNCHANGED <<chain, interruptMining, hpc>>
  BY <1>1 DEF StopIsRaised
<1>2. CASE Crash
  BY <1>2 DEF Crash
<1>3. CASE LoadRecord \/ CreateGenesis \/ FinishLoad
  BY <1>3 DEF LoadRecord, CreateGenesis, FinishLoad, TypeInv, Control
<1>4. ASSUME NEW n \in Miners,
             MineRequest(n) \/ MineDirectly(n) \/ FindNonce(n) \/ MinerStep(n)
      PROVE  StopIsRaised'
  <2>1. n # m => mpc[n] \in {"idle", "try"}
    BY DEF OwnerInv, Owns, TypeInv, TypeOK
  <2>2. mpc'[n] # mpc[n]
    BY <1>4 DEF TypeInv, TypeOK, MinerStep, MineRequest, MineDirectly, FindNonce,
      ReleaseFlag, TakeFlag, GiveUp, ReadIndex, ReadTip, RejectAddress, StartSearch,
      Interrupted, Discard, Commit, UpdateHash, SealCheckpoint, StopMining, Move
  <2>3. mpc[n] \in {"idle", "try"}
    BY <2>1, <2>2
  <2>4. UNCHANGED <<chain, interruptMining>>
    BY <1>4, <2>3 DEF MinerStep, MineRequest, MineDirectly, FindNonce, ReleaseFlag,
      TakeFlag, GiveUp, ReadIndex, ReadTip, RejectAddress, StartSearch, Interrupted,
      Discard, Commit, UpdateHash, SealCheckpoint, StopMining, Move, shared
  <2> QED BY <1>1, <1>4, <2>4, MinerFrame DEF handling
<1>5. ASSUME NEW h \in Handlers, ReceiveBlock(h) \/ HandlerStep(h)
      PROVE  StopIsRaised'
  <2> USE DEF StopIsRaised, Move, TypeInv, TypeOK
  <2>1. CASE ReceiveBlock(h)
    BY <1>5, <2>1 DEF ReceiveBlock, shared
  <2>2. CASE HandlerAdd(h)
    BY <1>5, <2>2 DEF HandlerAdd
  <2>3. CASE HandlerSave(h)
    BY <1>5, <2>3 DEF HandlerSave, shared
  <2>4. CASE HandlerInterrupt(h)
    BY <1>5, <2>4 DEF HandlerInterrupt
  <2> QED BY <1>5, <2>1, <2>2, <2>3, <2>4 DEF HandlerStep
<1>6. CASE UNCHANGED vars
  BY <1>1, <1>6 DEF vars, shared, handling
<1> QED
  BY <1>2, <1>3, <1>4, <1>5, <1>6 DEF Next

(* While a miner searches, a node without sync threads never takes back or
   forgets to raise the flag that tells it of a block (OvertakenSearchIsTold). *)
THEOREM SearchesHearOfBlocks ==
  ASSUME Syncers = {}
  PROVE  Spec => OvertakenSearchIsTold
<1>1. TypeInv /\ OwnerInv /\ [Next]_vars => [\A m \in Miners : TellsSearch(m)]_vars
  BY TellNext
<1> QED
  BY <1>1, OwnerInit, OwnerNext, TypeInvariant, PTL DEF Spec, OvertakenSearchIsTold

------------------------------------------------------------------------------
(* The places of the blocks.  mineBlock compares the height it read with the
   chain's under the mutex and addBlock compares the block's index, so that an
   appended block sits at its height; a block that sits elsewhere came with the
   chain of a peer, and nobody has touched that chain from its first block to
   this one since. *)
IsIndexed(c) == \A i \in 1 .. Len(c) : Index[c[i]] = i - 1

Placed(c) == \A i \in 1 .. Len(c) :
               SitsAtHeight(c, i) \/ \E p \in PeerChains : StartsLike(c, p, i)

HeightInv ==
  /\ Placed(chain)
  /\ Syncers = {} => IsIndexed(chain)
  /\ \A m \in Miners : mpc[m] = "commit" => Index[newBlock[m]] = nextIndex[m]
  /\ \A s \in Syncers : spc[s] \in {"validate", "replace"} =>
                          peerBlocks[s] \in PeerChains \cup {<< >>}

LEMMA IndexedAppend ==
  ASSUME NEW c \in Seq(Block), NEW b \in Block, IsIndexed(c), Index[b] = Len(c)
  PROVE  IsIndexed(Append(c, b))
  BY AppendProperties, LenProperties DEF IsIndexed

LEMMA PlacedAppend ==
  ASSUME NEW c \in Seq(Block), NEW b \in Block, Placed(c), Index[b] = Len(c)
  PROVE  Placed(Append(c, b))
<1> DEFINE d == Append(c, b)
<1>1. /\ Len(c) \in Nat /\ Len(d) = Len(c) + 1 /\ d[Len(c) + 1] = b
      /\ \A i \in 1 .. Len(c) : d[i] = c[i]
  BY AppendProperties, LenProperties
<1> HIDE DEF d
<1> SUFFICES ASSUME NEW i \in 1 .. Len(d)
             PROVE  SitsAtHeight(d, i) \/ \E p \in PeerChains : StartsLike(d, p, i)
  BY DEF Placed, d
<1>2. CASE i = Len(d)
  BY <1>1, <1>2 DEF SitsAtHeight
<1>3. CASE i # Len(d)
  <2>1. i \in 1 .. Len(c) /\ 1 .. i \subseteq 1 .. Len(c)
    BY <1>1, <1>3
  <2>2. CASE SitsAtHeight(c, i)
    BY <1>1, <2>1, <2>2 DEF SitsAtHeight
  <2>3. CASE \E p \in PeerChains : StartsLike(c, p, i)
    BY <1>1, <2>1, <2>3 DEF StartsLike
  <2> QED BY <2>1, <2>2, <2>3 DEF Placed
<1> QED BY <1>2, <1>3

(* A chain that a peer served, or no chain, is in place as it is. *)
LEMMA PlacedAsServed ==
  ASSUME NEW p \in PeerChains \cup {<< >>}
  PROVE  Placed(p)
<1>1. CASE p \in PeerChains
  <2> SUFFICES ASSUME NEW i \in 1 .. Len(p) PROVE StartsLike(p, p, i)
    BY <1>1 DEF Placed
  <2>1. Len(p) \in Nat
    BY <1>1, PeerAssumption, LenProperties
  <2> QED BY <2>1 DEF StartsLike
<1>2. CASE p = << >>
  BY <1>2, EmptySeq DEF Placed
<1> QED BY <1>1, <1>2

LEMMA PlacedAppendBlock ==
  ASSUME TypeOK, HeightInv, NEW b \in Block, AppendBlock(b)
  PROVE  Placed(chain') /\ (Syncers = {} => IsIndexed(chain'))
<1>1. CASE chain' = chain
  BY <1>1 DEF HeightInv
<1>2. CASE Index[b] = Len(chain) /\ chain' = Append(chain, b)
  BY <1>2, IndexedAppend, PlacedAppend DEF HeightInv, TypeOK
<1> QED BY <1>1, <1>2 DEF AppendBlock

LEMMA HeightInit == Init => HeightInv
<1> SUFFICES ASSUME Init PROVE HeightInv
  OBVIOUS
<1>1. Placed(chain) /\ IsIndexed(chain)
  BY PlacedAsServed, EmptySeq DEF Init, IsIndexed
<1> QED BY <1>1 DEF Init, HeightInv

LEMMA HeightNext == TypeInv /\ HeightInv /\ [Next]_vars => HeightInv'
<1> SUFFICES ASSUME TypeInv, HeightInv, [Next]_vars PROVE HeightInv'
  OBVIOUS
<1>k. ASSUME chain' = chain PROVE Placed(chain') /\ (Syncers = {} => IsIndexed(chain'))
  BY <1>k DEF HeightInv
<1> USE DEF TypeInv, TypeOK
<1>1. CASE UNCHANGED <<chain, mining, syncing>>
  BY <1>1 DEF HeightInv, mining, syncing, Placed, IsIndexed
<1>2. CASE LoadRecord
  <2>1. blkFile[cursor + 1] \in Block
    BY <1>2, ElementOfSeq, LenProperties DEF LoadRecord
  <2>2. Placed(chain') /\ (Syncers = {} => IsIndexed(chain'))
    BY <1>2, <2>1, PlacedAppendBlock DEF LoadRecord
  <2> QED BY <1>2, <2>2 DEF LoadRecord, mining, syncing, HeightInv, Placed, IsIndexed
<1>3. CASE CreateGenesis
  <2>1. IsIndexed(<<Genesis>>) /\ Placed(<<Genesis>>)
    BY BlockAssumption DEF IsIndexed, Placed, SitsAtHeight
  <2> QED BY <1>3, <2>1 DEF CreateGenesis, mining, syncing, HeightInv
<1>4. CASE Crash
  <2>1. IsIndexed(<< >>) /\ Placed(<< >>)
    BY EmptySeq DEF IsIndexed, Placed
  <2> QED BY <1>4, <2>1 DEF Crash, HeightInv
<1>5. ASSUME NEW m \in Miners,
             MineRequest(m) \/ MineDirectly(m) \/ FindNonce(m) \/ MinerStep(m)
      PROVE  HeightInv'
  <2>1. UNCHANGED <<spc, peerBlocks>>
    BY <1>5, MinerFrame DEF syncing
  <2>2. CASE Commit(m)
    <3>1. newBlock[m] \in Block /\ Index[newBlock[m]] = Len(chain)
      BY <2>2 DEF Commit, MayCommit, Move, Control, HeightInv
    <3>2. Placed(chain') /\ (Syncers = {} => IsIndexed(chain'))
      BY <2>2, <3>1, IndexedAppend, PlacedAppend DEF Commit, HeightInv
    <3>3. \A n \in Miners :
            mpc'[n] = "commit" => Index[newBlock'[n]] = nextIndex'[n]
      BY <2>2 DEF Commit, Move, HeightInv
    <3> QED BY <2>1, <3>2, <3>3 DEF HeightInv
  <2>3. CASE ~Commit(m)
    <3>1. chain' = chain
      BY <1>5, <2>3 DEF MinerStep, MineRequest, MineDirectly, FindNonce,
        ReleaseFlag, TakeFlag, GiveUp, ReadIndex, ReadTip, RejectAddress,
        StartSearch, Interrupted, Discard, UpdateHash, SealCheckpoint,
        StopMining, shared
    <3>2. \A n \in Miners :
            mpc'[n] = "commit" => Index[newBlock'[n]] = nextIndex'[n]
      BY <1>5, <2>3 DEF HeightInv, MinerStep, MineRequest, MineDirectly, FindNonce,
        ReleaseFlag, TakeFlag, GiveUp, ReadIndex, ReadTip, RejectAddress,
        StartSearch, Interrupted, Discard, UpdateHash, SealCheckpoint,
        StopMining, Move
    <3> QED BY <1>k, <2>1, <3>1, <3>2 DEF HeightInv
  <2> QED BY <2>2, <2>3
<1>6. ASSUME NEW h \in Handlers, ReceiveBlock(h) \/ HandlerStep(h)
      PROVE  HeightInv'
  <2>1. CASE HandlerAdd(h)
    <3>1. (received[h] \in Block /\ AppendBlock(received[h])) \/ chain' = chain
      BY <2>1 DEF HandlerAdd, AddBlock, Move, Control
    <3>2. Placed(chain') /\ (Syncers = {} => IsIndexed(chain'))
      BY <1>k, <3>1, PlacedAppendBlock
    <3> QED BY <1>6, <3>2, HandlerFrame DEF mining, syncing, HeightInv
  <2>2. CASE ReceiveBlock(h) \/ HandlerSave(h) \/ HandlerInterrupt(h)
    <3>1. chain' = chain
      BY <2>2 DEF ReceiveBlock, HandlerSave, HandlerInterrupt, shared
    <3> QED BY <1>1, <1>6, <3>1, HandlerFrame
  <2> QED BY <1>6, <2>1, <2>2 DEF HandlerStep
<1>7. ASSUME NEW s \in Syncers, CompareHeights(s) \/ SyncStep(s)
      PROVE  HeightInv'
  <2>1. UNCHANGED <<mpc, newBlock, nextIndex>>
    BY <1>7, SyncerFrame DEF mining
  <2>e. Syncers # {}
    OBVIOUS
  <2>2. CASE DownloadChain(s)
    <3>1. \A t \in Syncers : spc'[t] \in {"validate", "replace"} =>
            peerBlocks'[t] \in PeerChains \cup {<< >>}
      BY <2>2 DEF DownloadChain, Move, HeightInv
    <3> QED BY <1>k, <2>1, <2>2, <3>1 DEF DownloadChain, shared, HeightInv
  <2>3. CASE ReplaceChain(s)
    <3>1. Placed(chain')
      BY <2>3, PlacedAsServed DEF ReplaceChain, Move, HeightInv
    <3> QED BY <2>1, <2>3, <2>e, <3>1 DEF ReplaceChain, Move, HeightInv
  <2>4. CASE SyncAdd(s)
    <3>1. Head(peerBlocks[s]) \in Block
      BY <2>4, HeadTailProperties DEF SyncAdd, Move, Control
    <3>2. AppendBlock(Head(peerBlocks[s])) \/ chain' = chain
      BY <2>4 DEF SyncAdd, AddBlock
    <3>3. Placed(chain')
      BY <1>k, <3>1, <3>2, PlacedAppendBlock
    <3> QED BY <2>1, <2>4, <2>e, <3>3 DEF SyncAdd, Move, HeightInv
  <2>5. CASE \/ CompareHeights(s) \/ ValidateChain(s) \/ DumpChain(s)
             \/ FetchBatch(s) \/ NextOfBatch(s) \/ SyncSave(s) \/ EndOfBatch(s)
    <3>1. chain' = chain
      BY <2>5 DEF CompareHeights, ValidateChain, DumpChain, FetchBatch,
        NextOfBatch, SyncSave, EndOfBatch, shared
    <3>2. \A t \in Syncers : spc'[t] \in {"validate", "replace"} =>
            spc[t] \in {"validate", "replace"} /\ peerBlocks'[t] = peerBlocks[t]
      BY <2>5 DEF CompareHeights, ValidateChain, DumpChain, FetchBatch,
        NextOfBatch, SyncSave, EndOfBatch, Move
    <3> QED BY <1>k, <2>1, <3>1, <3>2 DEF HeightInv
  <2> QED BY <1>7, <2>2, <2>3, <2>4, <2>5 DEF SyncStep
<1> QED
  BY <1>1, <1>2, <1>3, <1>4, <1>5, <1>6, <1>7 DEF Next, vars, shared, FinishLoad

(* Every block is at the position it names (HeightIsIndex), whatever miners,
   handlers, crashes and restarts do, as long as the node takes no chain from a
   peer: replaceChain compares no position. *)
THEOREM BlocksSitAtTheirHeight ==
  ASSUME Syncers = {}
  PROVE  Spec => []HeightIsIndex
<1>1. HeightInv => HeightIsIndex
  BY DEF HeightInv, IsIndexed, HeightIsIndex, SitsAtHeight
<1> QED BY <1>1, HeightInit, HeightNext, TypeInvariant, PTL DEF Spec

(* With any number of sync threads, and whatever indices the peers' chains
   carry, a block out of its place is one its peer served in that place, with
   every block before it (OutOfPlaceAsServed): no race of the node's own threads
   puts a block where it does not belong. *)
THEOREM OnlyPeersMisplace == Spec => []OutOfPlaceAsServed
<1>1. HeightInv => OutOfPlaceAsServed
  BY DEF HeightInv, Placed, OutOfPlaceAsServed
<1> QED BY <1>1, HeightInit, HeightNext, TypeInvariant, PTL DEF Spec

------------------------------------------------------------------------------
(* Without sync threads the chain stays hash-linked and consistent with its
   checkpoints.  addBlock and mineBlock compare no prevHash, so the argument
   is about what their callers read before they waited for the mutex, and a
   restart is covered by what the file would rebuild.                       *)

Sound(c) ==
  /\ IsIndexed(c)
  /\ IsLinked(c)
  /\ \A i \in 1 .. Len(c) : CheckBlock(runtimeCheckpoints, c[i])

(* Reading the first i records of blk00000.dat rebuilds mark[i] blocks of c. *)
Marks(c) == [0 .. Len(blkFile) -> 0 .. Len(c)]

Replays(c, mark) ==
  /\ mark[0] = 0
  /\ \A i, j \in 0 .. Len(blkFile) : i <= j => mark[i] <= mark[j]
  /\ \A i \in 1 .. Len(blkFile) :
       IF Index[blkFile[i]] = mark[i - 1]
       THEN mark[i] = mark[i - 1] + 1 /\ c[mark[i]] = blkFile[i]
       ELSE mark[i] = mark[i - 1]

FileReplays(c) == \E mark \in Marks(c) : Replays(c, mark)

LoadsPrefix(c) ==
  \E mark \in Marks(c) :
    /\ Replays(c, mark)
    /\ cursor \in 0 .. Len(blkFile)
    /\ chain = SubSeq(c, 1, mark[cursor])

(* A miner that read height and tip at different moments holds a height the
   chain has passed; its stale block fails the comparison under the mutex. *)
MinerFollows(m) ==
  /\ mpc[m] \in {"tip", "assemble", "search", "commit"} => nextIndex[m] <= Len(chain)
  /\ mpc[m] \in {"assemble", "search", "commit"} /\ nextIndex[m] = Len(chain) =>
       lastHash[m] = Tip(chain)
  /\ mpc[m] = "commit" =>
       Index[newBlock[m]] = nextIndex[m] /\ Prev[newBlock[m]] = lastHash[m]
  /\ mpc[m] \in {"seal", "checkpoint"} => lock = m /\ newBlock[m] = Tip(chain)

HandlerFollows(h) ==
  hpc[h] = "add" =>
    /\ Index[received[h]] <= Len(chain)
    /\ Index[received[h]] = Len(chain) => Prev[received[h]] = Tip(chain)

ChainInv ==
  /\ Sound(chain)
  /\ runtimeCheckpoints = checkpointsDat
  /\ phase = "up" => FileReplays(chain)
  /\ phase = "loading" => \E c \in Seq(Block) : Sound(c) /\ LoadsPrefix(c)
  /\ \A m \in Miners : MinerFollows(m)
  /\ \A h \in Handlers : HandlerFollows(h)

LEMMA SoundAppend ==
  ASSUME NEW c \in Seq(Block), NEW b \in Block, c # << >>, Sound(c),
         Index[b] = Len(c), Prev[b] = Tip(c), CheckBlock(runtimeCheckpoints, b)
  PROVE  Sound(Append(c, b))
<1> DEFINE d == Append(c, b)
<1>1. /\ Len(c) \in Nat \ {0} /\ Len(d) = Len(c) + 1 /\ d[Len(d)] = b
      /\ \A i \in 1 .. Len(c) : d[i] = c[i]
  BY AppendProperties, EmptySeq
<1>2. IsIndexed(d)
  BY IndexedAppend DEF Sound
<1> HIDE DEF d
<1>3. IsLinked(d)
  <2> SUFFICES ASSUME NEW i \in 2 .. Len(d) PROVE Prev[d[i]] = d[i - 1]
    BY DEF IsLinked
  <2>1. CASE i = Len(d)
    BY <1>1, <2>1 DEF Tip
  <2>2. CASE i # Len(d)
    <3>1. i \in 2 .. Len(c) /\ i - 1 \in 1 .. Len(c)
      BY <1>1, <2>2
    <3> QED BY <1>1, <3>1 DEF Sound, IsLinked
  <2> QED BY <2>1, <2>2
<1>4. \A i \in 1 .. Len(d) : CheckBlock(runtimeCheckpoints, d[i])
  <2> SUFFICES ASSUME NEW i \in 1 .. Len(d) PROVE CheckBlock(runtimeCheckpoints, d[i])
    OBVIOUS
  <2>1. i \in 1 .. Len(c) \/ d[i] = b
    BY <1>1
  <2> QED BY <1>1, <2>1 DEF Sound
<1> QED BY <1>2, <1>3, <1>4 DEF Sound, d

(* A new checkpoint for a block of an indexed chain agrees with that chain. *)
LEMMA CheckpointAgrees ==
  ASSUME NEW c \in Seq(Block), IsIndexed(c), NEW j \in 1 .. Len(c), NEW cps,
         \A i \in 1 .. Len(c) : CheckBlock(cps, c[i])
  PROVE  \A i \in 1 .. Len(c) : CheckBlock(AddCheckpoint(cps, c[j]), c[i])
<1> SUFFICES ASSUME NEW i \in 1 .. Len(c), NEW p \in AddCheckpoint(cps, c[j]),
                    Index[p] = Index[c[i]]
             PROVE  p = c[i]
  BY DEF CheckBlock
<1>1. CASE p = c[j]
  <2>1. i - 1 = j - 1
    BY <1>1 DEF IsIndexed
  <2>2. i \in Int /\ j \in Int
    OBVIOUS
  <2> QED BY <1>1, <2>1, <2>2
<1>2. CASE p \in cps
  BY <1>2 DEF CheckBlock
<1> QED BY <1>1, <1>2 DEF AddCheckpoint

(* addBlock keeps a sound chain sound, provided its caller saw that the block
   names the tip if it names the next height. *)
LEMMA SoundAppendBlock ==
  ASSUME TypeOK, chain # << >>, Sound(chain), NEW b \in Block, AppendBlock(b),
         Index[b] = Len(chain) => Prev[b] = Tip(chain)
  PROVE  Sound(chain)'
<1>1. CASE UNCHANGED <<chain, runtimeCheckpoints>>
  BY <1>1 DEF Sound, IsIndexed, IsLinked, CheckBlock
<1>2. CASE Index[b] = Len(chain) /\ CheckBlock(runtimeCheckpoints, b)
  <2> DEFINE d == Append(chain, b)
  <2>1. chain \in Seq(Block) /\ d \in Seq(Block) /\ d[Len(d)] = b /\ Len(d) \in 1 .. Len(d)
    BY AppendProperties, LenProperties DEF TypeOK
  <2>2. Sound(d)
    BY <1>2, <2>1, SoundAppend
  <2>3. chain' = d
    BY <1>2 DEF AppendBlock
  <2> HIDE DEF d
  <2>4. CASE runtimeCheckpoints' = runtimeCheckpoints
    BY <2>2, <2>3, <2>4 DEF Sound, IsIndexed, IsLinked, CheckBlock
  <2>5. CASE runtimeCheckpoints' = AddCheckpoint(runtimeCheckpoints, d[Len(d)])
    <3>1. \A i \in 1 .. Len(d) : CheckBlock(runtimeCheckpoints', d[i])
      BY <2>1, <2>2, <2>5, CheckpointAgrees DEF Sound
    <3> QED BY <2>2, <2>3, <3>1 DEF Sound, IsIndexed, IsLinked
  <2> QED BY <1>2, <2>1, <2>4, <2>5 DEF AppendBlock
<1> QED BY <1>1, <1>2 DEF AppendBlock

(* A block added to memory only does not change what the file rebuilds. *)
LEMMA ReplayLonger ==
  ASSUME TypeOK, NEW c \in Seq(Block), NEW b \in Block,
         NEW mark \in Marks(c), Replays(c, mark)
  PROVE  mark \in Marks(Append(c, b)) /\ Replays(Append(c, b), mark)
<1>1. /\ Len(c) \in Nat /\ Len(Append(c, b)) = Len(c) + 1
      /\ \A i \in 1 .. Len(c) : Append(c, b)[i] = c[i]
  BY AppendProperties, LenProperties
<1>2. mark \in Marks(Append(c, b))
  BY <1>1 DEF Marks
<1>3. \A i \in 1 .. Len(blkFile) : Index[blkFile[i]] = mark[i - 1] =>
        mark[i] \in 1 .. Len(c)
  <2> TAKE i \in 1 .. Len(blkFile)
  <2> HAVE Index[blkFile[i]] = mark[i - 1]
  <2>1. Len(blkFile) \in Nat
    BY LenProperties DEF TypeOK
  <2>2. i \in 0 .. Len(blkFile) /\ i - 1 \in 0 .. Len(blkFile)
    BY <2>1
  <2>3. mark[i] \in 0 .. Len(c) /\ mark[i - 1] \in 0 .. Len(c)
    BY <2>2 DEF Marks
  <2>4. mark[i] = mark[i - 1] + 1
    BY DEF Replays
  <2> QED BY <2>3, <2>4
<1>4. Replays(Append(c, b), mark)
  BY <1>1, <1>3 DEF Replays
<1> QED BY <1>2, <1>4

LEMMA FileReplaysLonger ==
  ASSUME TypeOK, NEW b \in Block, FileReplays(chain),
         blkFile' = blkFile, chain' = Append(chain, b)
  PROVE  FileReplays(chain)'
<1>1. PICK mark \in Marks(chain) : Replays(chain, mark)
  BY DEF FileReplays
<1>2. mark \in Marks(Append(chain, b)) /\ Replays(Append(chain, b), mark)
  BY <1>1, ReplayLonger DEF TypeOK
<1>3. mark \in Marks(chain)' /\ Replays(chain, mark)'
  BY <1>2 DEF Marks, Replays
<1> QED BY <1>3 DEF FileReplays

(* A block written to the file as it is added to memory is rebuilt, or was
   already beyond what the file rebuilds. *)
LEMMA ReplayCommit ==
  ASSUME TypeOK, NEW b \in Block, Index[b] = Len(chain), FileReplays(chain),
         blkFile' = Append(blkFile, b), chain' = Append(chain, b)
  PROVE  FileReplays(chain)'
<1> DEFINE d == Append(chain, b)
           f == Append(blkFile, b)
           L == Len(blkFile)
<1>1. PICK mark \in Marks(chain) : Replays(chain, mark)
  BY DEF FileReplays
<1>2. mark \in Marks(d) /\ Replays(d, mark)
  BY <1>1, ReplayLonger DEF TypeOK
<1>3. /\ L \in Nat /\ Len(f) = L + 1 /\ f[L + 1] = b
      /\ \A i \in 1 .. L : f[i] = blkFile[i]
      /\ Len(chain) \in Nat /\ Len(d) = Len(chain) + 1 /\ d[Len(chain) + 1] = b
  BY AppendProperties, LenProperties DEF TypeOK
<1> HIDE DEF d, f, L
<1>4. mark[L] \in 0 .. Len(chain) /\ \A i \in 0 .. L : mark[i] \in 0 .. Len(d)
  <2>1. mark \in [0 .. L -> 0 .. Len(chain)]
    BY <1>1 DEF Marks, L
  <2>2. mark \in [0 .. L -> 0 .. Len(d)]
    BY <1>2 DEF Marks, L
  <2>3. L \in 0 .. L
    BY <1>3
  <2> QED BY <2>1, <2>2, <2>3
<1> DEFINE step == IF mark[L] = Len(chain) THEN mark[L] + 1 ELSE mark[L]
           longer == [i \in 0 .. L + 1 |-> IF i = L + 1 THEN step ELSE mark[i]]
<1>5. step \in 0 .. Len(d)
  BY <1>3, <1>4
<1>6. longer \in [0 .. Len(f) -> 0 .. Len(d)]
  BY <1>3, <1>4, <1>5
<1>7. /\ longer[0] = 0
      /\ \A i, j \in 0 .. Len(f) : i <= j => longer[i] <= longer[j]
      /\ \A i \in 1 .. Len(f) :
           IF Index[f[i]] = longer[i - 1]
           THEN longer[i] = longer[i - 1] + 1 /\ d[longer[i]] = f[i]
           ELSE longer[i] = longer[i - 1]
  <2>1. longer[0] = 0
    BY <1>2, <1>3 DEF Replays
  <2>2. ASSUME NEW i \in 0 .. Len(f), NEW j \in 0 .. Len(f), i <= j
        PROVE  longer[i] <= longer[j]
    <3>1. mark[L] <= step /\ step \in Nat
      BY <1>4, <1>5, <1>3
    <3>2. \A k \in 0 .. L : mark[k] <= mark[L] /\ mark[k] \in Nat
      BY <1>1, <1>3, <1>4 DEF Replays, L
    <3>3. CASE j # L + 1
      <4>1. i \in 0 .. L /\ j \in 0 .. L
        BY <1>3, <2>2, <3>3
      <4>2. longer[i] = mark[i] /\ longer[j] = mark[j]
        BY <1>3, <4>1
      <4> QED BY <1>1, <2>2, <4>1, <4>2 DEF Replays, L
    <3>4. CASE j = L + 1 /\ i # L + 1
      <4>1. i \in 0 .. L
        BY <1>3, <2>2, <3>4
      <4>2. longer[i] = mark[i] /\ longer[j] = step
        BY <1>3, <3>4, <4>1
      <4>3. mark[i] \in Nat /\ mark[i] <= mark[L] /\ mark[L] \in Nat
        BY <1>3, <1>4, <3>2, <4>1
      <4> HIDE DEF step
      <4> QED BY <3>1, <4>2, <4>3
    <3>5. CASE i = L + 1 /\ j = L + 1
      <4>1. longer[i] = step /\ longer[j] = step
        BY <1>3, <3>5
      <4> HIDE DEF step
      <4> QED BY <3>1, <4>1
    <3>6. i = L + 1 => j = L + 1
      BY <1>3, <2>2
    <3> QED BY <3>3, <3>4, <3>5, <3>6
  <2>3. ASSUME NEW i \in 1 .. Len(f)
        PROVE  IF Index[f[i]] = longer[i - 1]
               THEN longer[i] = longer[i - 1] + 1 /\ d[longer[i]] = f[i]
               ELSE longer[i] = longer[i - 1]
    <3>1. CASE i = L + 1
      <4>1. longer[i] = step /\ longer[i - 1] = mark[L] /\ f[i] = b
        BY <1>3, <3>1
      <4> QED BY <1>3, <1>4, <4>1
    <3>2. CASE i # L + 1
      <4>1. i \in 1 .. L /\ i - 1 \in 0 .. L
        BY <1>3, <3>2
      <4>2. longer[i] = mark[i] /\ longer[i - 1] = mark[i - 1] /\ f[i] = blkFile[i]
        BY <1>3, <4>1
      <4> QED BY <1>2, <4>1, <4>2 DEF Replays, L
    <3> QED BY <3>1, <3>2
  <2> QED BY <2>1, <2>2, <2>3
<1>8. PICK mark2 : mark2 = longer
  OBVIOUS
<1> HIDE DEF longer
<1>9. mark2 \in Marks(chain)' /\ Replays(chain, mark2)'
  <2>1. blkFile' = f /\ chain' = d
    BY DEF f, d
  <2> QED BY <1>6, <1>7, <1>8, <2>1 DEF Marks, Replays
<1> QED BY <1>9 DEF FileReplays

(* What loadChain has rebuilt so far is as sound as the chain it rebuilds. *)
LEMMA SoundPrefix ==
  ASSUME NEW c \in Seq(Block), Sound(c), NEW n \in 0 .. Len(c)
  PROVE  /\ SubSeq(c, 1, n) \in Seq(Block) /\ Len(SubSeq(c, 1, n)) = n
         /\ \A i \in 1 .. n : SubSeq(c, 1, n)[i] = c[i]
         /\ Sound(SubSeq(c, 1, n))
<1> DEFINE p == SubSeq(c, 1, n)
<1>1. Len(c) \in Nat /\ \A i \in 1 .. n : i \in 1 .. Len(c) /\ c[i] \in Block
  BY LenProperties, ElementOfSeq
<1>2. p \in Seq(Block) /\ Len(p) = n /\ \A i \in 1 .. n : p[i] = c[i]
  <2>1. /\ p \in Seq(Block) /\ Len(p) = IF 1 <= n THEN n - 1 + 1 ELSE 0
        /\ \A i \in 1 .. n - 1 + 1 : p[i] = c[1 + i - 1]
    BY <1>1, SubSeqProperties
  <2> HIDE DEF p
  <2> QED BY <2>1
<1> HIDE DEF p
<1>3. IsIndexed(p)
  BY <1>1, <1>2 DEF Sound, IsIndexed
<1>4. IsLinked(p)
  <2> SUFFICES ASSUME NEW i \in 2 .. n PROVE Prev[p[i]] = p[i - 1]
    BY <1>2 DEF IsLinked
  <2>1. i \in 2 .. Len(c) /\ i \in 1 .. n /\ i - 1 \in 1 .. n
    BY <1>1
  <2> QED BY <1>2, <2>1 DEF Sound, IsLinked
<1>5. \A i \in 1 .. Len(p) : CheckBlock(runtimeCheckpoints, p[i])
  BY <1>1, <1>2 DEF Sound
<1> QED BY <1>2, <1>3, <1>4, <1>5 DEF Sound, p

LEMMA PrefixLength ==
  ASSUME NEW c \in Seq(Block), NEW n \in 0 .. Len(c)
  PROVE  /\ SubSeq(c, 1, n) \in Seq(Block) /\ Len(SubSeq(c, 1, n)) = n
         /\ \A i \in 1 .. n : SubSeq(c, 1, n)[i] = c[i]
<1> DEFINE p == SubSeq(c, 1, n)
<1>1. Len(c) \in Nat /\ \A i \in 1 .. n : i \in 1 .. Len(c) /\ c[i] \in Block
  BY LenProperties, ElementOfSeq
<1>2. /\ p \in Seq(Block) /\ Len(p) = IF 1 <= n THEN n - 1 + 1 ELSE 0
      /\ \A i \in 1 .. n - 1 + 1 : p[i] = c[1 + i - 1]
  BY <1>1, SubSeqProperties
<1> HIDE DEF p
<1>3. p \in Seq(Block) /\ Len(p) = n /\ \A i \in 1 .. n : p[i] = c[i]
  BY <1>2
<1> QED BY <1>3 DEF p

(* One block more of a prefix. *)
LEMMA PrefixGrows ==
  ASSUME NEW c \in Seq(Block), NEW k \in Nat, k + 1 \in 1 .. Len(c)
  PROVE  /\ SubSeq(c, 1, k) \in Seq(Block) /\ Len(SubSeq(c, 1, k)) = k
         /\ Append(SubSeq(c, 1, k), c[k + 1]) = SubSeq(c, 1, k + 1)
<1> DEFINE p == SubSeq(c, 1, k)
           q == SubSeq(c, 1, k + 1)
<1>1. Len(c) \in Nat /\ c[k + 1] \in Block /\ \A i \in 1 .. k + 1 : c[i] \in Block
  BY LenProperties, ElementOfSeq
<1>2. p \in Seq(Block) /\ Len(p) = k /\ \A i \in 1 .. k : p[i] = c[i]
  <2>1. k \in 0 .. Len(c)
    BY <1>1
  <2> QED BY <2>1, PrefixLength
<1>3. q \in Seq(Block) /\ Len(q) = k + 1 /\ \A i \in 1 .. k + 1 : q[i] = c[i]
  <2>1. k + 1 \in 0 .. Len(c)
    BY <1>1
  <2> QED BY <2>1, PrefixLength
<1> HIDE DEF p, q
<1>4. /\ Append(p, c[k + 1]) \in Seq(Block) /\ Len(Append(p, c[k + 1])) = k + 1
      /\ \A i \in 1 .. k : Append(p, c[k + 1])[i] = p[i]
      /\ Append(p, c[k + 1])[k + 1] = c[k + 1]
  BY <1>1, <1>2, AppendProperties
<1>5. \A i \in 1 .. k + 1 : Append(p, c[k + 1])[i] = q[i]
  BY <1>2, <1>3, <1>4
<1>6. Append(p, c[k + 1]) = q
  BY <1>3, <1>4, <1>5, SeqEqual
<1> QED BY <1>2, <1>6 DEF p, q

LEMMA ChainInit == Init => ChainInv
<1> SUFFICES ASSUME Init PROVE ChainInv
  OBVIOUS
<1>1. << >> \in Seq(Block) /\ Len(<< >>) = 0 /\ SubSeq(<< >>, 1, 0) = << >>
  BY EmptySeq, SubSeqEmpty
<1>2. Sound(<< >>)
  BY <1>1 DEF Sound, IsIndexed, IsLinked
<1>3. PICK mark : mark = [i \in 0 .. 0 |-> 0]
  OBVIOUS
<1>4. mark \in [0 .. 0 -> 0 .. 0] /\ mark[0] = 0
  BY <1>3
<1>5. LoadsPrefix(<< >>)
  <2>1. mark \in Marks(<< >>) /\ cursor \in 0 .. Len(blkFile)
    BY <1>1, <1>4 DEF Init, Marks
  <2>2. Replays(<< >>, mark)
    BY <1>1, <1>4 DEF Init, Replays
  <2>3. chain = SubSeq(<< >>, 1, mark[cursor])
    BY <1>1, <1>4 DEF Init
  <2> QED BY <2>1, <2>2, <2>3 DEF LoadsPrefix
<1> QED BY <1>1, <1>2, <1>5 DEF Init, ChainInv, MinerFollows, HandlerFollows

(* A record read from the file takes the chain one step nearer to the chain
   the file rebuilds, and its checkpoint agrees with that chain. *)
LoadsTo(c, mark) ==
  /\ Sound(c) /\ Replays(c, mark) /\ cursor \in 0 .. Len(blkFile)
  /\ chain = SubSeq(c, 1, mark[cursor])

LEMMA RecordLoads ==
  ASSUME TypeInv, ChainInv, LoadRecord
  PROVE  \E c \in Seq(Block) : \E mark \in Marks(c) :
           /\ LoadsTo(c, mark) /\ cursor + 1 \in 0 .. Len(blkFile)
           /\ chain' = SubSeq(c, 1, mark[cursor + 1])
           /\ runtimeCheckpoints' = checkpointsDat'
           /\ \A i \in 1 .. Len(c) : CheckBlock(runtimeCheckpoints', c[i])
<1> DEFINE b == blkFile[cursor + 1]
<1>0. PICK c \in Seq(Block) : Sound(c) /\ LoadsPrefix(c)
  BY DEF LoadRecord, ChainInv
<1>1. PICK mark \in Marks(c) :
         /\ Sound(c) /\ Replays(c, mark) /\ cursor \in 0 .. Len(blkFile)
         /\ chain = SubSeq(c, 1, mark[cursor])
  BY <1>0 DEF LoadsPrefix
<1>2. /\ Len(c) \in Nat /\ Len(blkFile) \in Nat
      /\ cursor \in 0 .. Len(blkFile) /\ cursor + 1 \in 1 .. Len(blkFile)
      /\ cursor' = cursor + 1 /\ cursor + 1 \in 0 .. Len(blkFile)
      /\ AppendBlock(b) /\ blkFile' = blkFile
  BY <1>1, LenProperties DEF LoadRecord, TypeInv, TypeOK
<1>3. b \in Block
  BY <1>2, ElementOfSeq DEF TypeInv, TypeOK
<1>4. mark[cursor] \in 0 .. Len(c) /\ mark[cursor + 1] \in 0 .. Len(c)
  BY <1>2 DEF Marks
<1>5. Len(chain) = mark[cursor]
  BY <1>1, <1>4, SoundPrefix
<1>6. /\ chain' = SubSeq(c, 1, mark[cursor + 1])
      /\ runtimeCheckpoints' = checkpointsDat'
      /\ \A i \in 1 .. Len(c) : CheckBlock(runtimeCheckpoints', c[i])
  <2>1. CASE Index[b] = mark[cursor]
    <3>0. (cursor + 1) - 1 = cursor
      BY <1>2
    <3>e. mark[cursor + 1] = mark[cursor] + 1 /\ c[mark[cursor + 1]] = b
      BY <1>1, <1>2, <2>1, <3>0 DEF Replays
    <3>1. /\ mark[cursor + 1] = mark[cursor] + 1 /\ c[mark[cursor] + 1] = b
          /\ mark[cursor] + 1 \in 1 .. Len(c)
      BY <1>2, <1>4, <3>e
    <3>2. CheckBlock(runtimeCheckpoints, b)
      BY <1>1, <3>1 DEF Sound
    <3>3. chain' = Append(chain, b)
      BY <1>2, <1>5, <2>1, <3>2 DEF AppendBlock
    <3>4. Append(SubSeq(c, 1, mark[cursor]), c[mark[cursor] + 1])
            = SubSeq(c, 1, mark[cursor] + 1)
      BY <1>4, <3>1, PrefixGrows
    <3>5. /\ runtimeCheckpoints' = checkpointsDat'
          /\ runtimeCheckpoints' \in {runtimeCheckpoints, AddCheckpoint(runtimeCheckpoints, c[mark[cursor] + 1])}
      BY <1>2, <1>5, <2>1, <3>1, <3>2 DEF AppendBlock, ChainInv
    <3>6. \A i \in 1 .. Len(c) : CheckBlock(runtimeCheckpoints', c[i])
      BY <1>1, <3>1, <3>5, CheckpointAgrees DEF Sound
    <3> QED BY <1>1, <3>1, <3>3, <3>4, <3>5, <3>6
  <2>2. CASE Index[b] # mark[cursor]
    <3>1. mark[cursor + 1] = mark[cursor]
      BY <1>1, <1>2, <2>2 DEF Replays
    <3>2. UNCHANGED <<chain, runtimeCheckpoints, checkpointsDat>>
      BY <1>2, <1>5, <2>2 DEF AppendBlock
    <3> QED BY <1>1, <3>1, <3>2 DEF ChainInv, Sound
  <2> QED BY <2>1, <2>2
<1> QED BY <1>1, <1>2, <1>6 DEF LoadsTo

LEMMA ChainLoadRecord ==
  ASSUME TypeInv, ChainInv, LoadRecord
  PROVE  ChainInv'
<1>1. PICK c \in Seq(Block) : \E mark \in Marks(c) :
         /\ LoadsTo(c, mark) /\ cursor + 1 \in 0 .. Len(blkFile)
         /\ chain' = SubSeq(c, 1, mark[cursor + 1])
         /\ runtimeCheckpoints' = checkpointsDat'
         /\ \A i \in 1 .. Len(c) : CheckBlock(runtimeCheckpoints', c[i])
  BY RecordLoads
<1>2. PICK mark \in Marks(c) :
         /\ LoadsTo(c, mark) /\ cursor + 1 \in 0 .. Len(blkFile)
         /\ chain' = SubSeq(c, 1, mark[cursor + 1])
         /\ runtimeCheckpoints' = checkpointsDat'
         /\ \A i \in 1 .. Len(c) : CheckBlock(runtimeCheckpoints', c[i])
  BY <1>1
<1>3. Sound(c) /\ Replays(c, mark)
  BY <1>2 DEF LoadsTo
<1>4. mark[cursor + 1] \in 0 .. Len(c)
  BY <1>2 DEF Marks
<1>5. cursor' = cursor + 1 /\ blkFile' = blkFile
  BY DEF LoadRecord
<1>7. Sound(c)'
  BY <1>2, <1>3 DEF Sound, IsIndexed, IsLinked
<1>8. Sound(chain)'
  <2> DEFINE p == SubSeq(c, 1, mark[cursor + 1])
  <2>1. /\ Sound(p) /\ Len(p) = mark[cursor + 1]
        /\ \A i \in 1 .. mark[cursor + 1] : p[i] = c[i] /\ i \in 1 .. Len(c)
    BY <1>3, <1>4, SoundPrefix
  <2> HIDE DEF p
  <2>2. \A i \in 1 .. Len(p) : CheckBlock(runtimeCheckpoints', p[i])
    BY <1>2, <2>1
  <2>3. chain' = p
    BY <1>2 DEF p
  <2> QED BY <2>1, <2>2, <2>3 DEF Sound, IsIndexed, IsLinked
<1>9. LoadsPrefix(c)'
  <2>1. mark \in Marks(c)' /\ Replays(c, mark)'
    BY <1>3, <1>5 DEF Marks, Replays
  <2> QED BY <1>2, <1>5, <2>1 DEF LoadsPrefix
<1>10. /\ \A m \in Miners : MinerFollows(m)'
       /\ \A h \in Handlers : HandlerFollows(h)'
  BY DEF LoadRecord, TypeInv, Control, mining, handling, MinerFollows, HandlerFollows
<1>11. phase' = "loading"
  BY DEF LoadRecord
<1> QED BY <1>2, <1>7, <1>8, <1>9, <1>10, <1>11 DEF ChainInv

LEMMA ChainCreateGenesis ==
  ASSUME TypeInv, ChainInv, CreateGenesis
  PROVE  ChainInv'
<1>1. /\ chain' = <<Genesis>> /\ blkFile' = <<Genesis>> /\ phase' = "up"
      /\ runtimeCheckpoints' = AddCheckpoint(runtimeCheckpoints, Genesis)
      /\ checkpointsDat' = runtimeCheckpoints'
  BY DEF CreateGenesis
<1>2. CheckBlock(runtimeCheckpoints', Genesis)
  BY <1>1 DEF CheckBlock, AddCheckpoint
<1>3. Sound(chain)'
  BY <1>1, <1>2, BlockAssumption DEF Sound, IsIndexed, IsLinked
<1>4. PICK mark : mark = [i \in 0 .. 1 |-> i]
  OBVIOUS
<1>5. /\ mark \in [0 .. 1 -> 0 .. 1] /\ mark[0] = 0 /\ mark[1] = 1
      /\ \A i, j \in 0 .. 1 : i <= j => mark[i] <= mark[j]
  BY <1>4
<1>6. FileReplays(chain)'
  <2>1. mark \in Marks(chain)'
    BY <1>1, <1>5 DEF Marks
  <2>2. Replays(chain, mark)'
    BY <1>1, <1>5, BlockAssumption DEF Replays
  <2> QED BY <2>1, <2>2 DEF FileReplays
<1>7. /\ \A m \in Miners : MinerFollows(m)'
      /\ \A h \in Handlers : HandlerFollows(h)'
  BY DEF CreateGenesis, TypeInv, Control, mining, handling, MinerFollows, HandlerFollows
<1> QED BY <1>1, <1>3, <1>6, <1>7 DEF ChainInv

LEMMA ChainFinishLoad ==
  ASSUME TypeInv, ChainInv, FinishLoad
  PROVE  ChainInv'
<1>1. PICK c \in Seq(Block) : Sound(c) /\ LoadsPrefix(c)
  BY DEF FinishLoad, ChainInv
<1>2. PICK mark \in Marks(c) :
         /\ Replays(c, mark) /\ cursor \in 0 .. Len(blkFile)
         /\ chain = SubSeq(c, 1, mark[cursor])
  BY <1>1 DEF LoadsPrefix
<1>3. Len(blkFile) \in Nat /\ Len(c) \in Nat /\ cursor = Len(blkFile)
  BY LenProperties DEF FinishLoad, TypeInv, TypeOK
<1>4. mark[cursor] \in 0 .. Len(c) /\ \A i \in 0 .. Len(blkFile) : mark[i] \in 0 .. Len(c)
  BY <1>3 DEF Marks
<1>5. Len(chain) = mark[cursor] /\ \A i \in 1 .. Len(chain) : chain[i] = c[i]
  BY <1>1, <1>2, <1>4, SoundPrefix
<1>6. \A i \in 0 .. Len(blkFile) : mark[i] \in 0 .. Len(chain)
  BY <1>2, <1>3, <1>4, <1>5 DEF Replays
<1>7. mark \in Marks(chain)
  BY <1>6 DEF Marks
<1>8. Replays(chain, mark)
  <2>1. ASSUME NEW i \in 1 .. Len(blkFile), Index[blkFile[i]] = mark[i - 1]
        PROVE  chain[mark[i]] = blkFile[i]
    <3>1. i \in 0 .. Len(blkFile) /\ i - 1 \in 0 .. Len(blkFile)
      BY <1>3
    <3>2. mark[i] = mark[i - 1] + 1 /\ c[mark[i]] = blkFile[i]
      BY <1>2, <2>1 DEF Replays
    <3>3. mark[i] \in 1 .. Len(chain)
      BY <1>6, <3>1, <3>2
    <3> QED BY <1>5, <3>2, <3>3
  <2> QED BY <1>2, <2>1 DEF Replays
<1>9. FileReplays(chain)'
  BY <1>7, <1>8 DEF FinishLoad, shared, files, FileReplays, Marks, Replays
<1>10. Sound(chain)' /\ runtimeCheckpoints' = checkpointsDat' /\ phase' = "up"
  BY DEF FinishLoad, shared, files, ChainInv, Sound, IsIndexed, IsLinked, CheckBlock
<1>11. /\ \A m \in Miners : MinerFollows(m)'
       /\ \A h \in Handlers : HandlerFollows(h)'
  BY DEF FinishLoad, TypeInv, Control, mining, handling, MinerFollows, HandlerFollows
<1> QED BY <1>9, <1>10, <1>11 DEF ChainInv

(* A crash leaves the file: it rebuilds a prefix of the chain that was lost. *)
LEMMA ChainCrash ==
  ASSUME TypeInv, ChainInv, Crash
  PROVE  ChainInv'
<1>1. PICK c \in Seq(Block) : Sound(c) /\ FileReplays(c)
  <2>1. CASE phase = "up"
    BY <2>1 DEF ChainInv, TypeInv, TypeOK
  <2>2. CASE phase = "loading"
    BY <2>2 DEF ChainInv, LoadsPrefix, FileReplays
  <2> QED BY <2>1, <2>2 DEF TypeInv, TypeOK
<1>2. PICK mark \in Marks(c) : Replays(c, mark)
  BY <1>1 DEF FileReplays
<1>3. /\ chain' = << >> /\ cursor' = 0 /\ phase' = "loading"
      /\ blkFile' = blkFile /\ checkpointsDat' = checkpointsDat
      /\ runtimeCheckpoints' = runtimeCheckpoints
  BY DEF Crash, files, ChainInv
<1>4. /\ << >> \in Seq(Block) /\ Len(<< >>) = 0 /\ SubSeq(c, 1, 0) = << >>
      /\ Len(blkFile) \in Nat
  BY EmptySeq, SubSeqEmpty, LenProperties DEF TypeInv, TypeOK
<1>5. Sound(chain)'
  BY <1>3, <1>4 DEF Sound, IsIndexed, IsLinked
<1>6. Sound(c)'
  BY <1>1, <1>3 DEF Sound, IsIndexed, IsLinked
<1>7. LoadsPrefix(c)'
  <2>1. mark \in Marks(c)' /\ Replays(c, mark)'
    BY <1>2, <1>3 DEF Marks, Replays
  <2>2. chain' = SubSeq(c, 1, mark[0]) /\ 0 \in 0 .. Len(blkFile)
    BY <1>2, <1>3, <1>4 DEF Replays
  <2> QED BY <1>3, <2>1, <2>2 DEF LoadsPrefix
<1>8. /\ \A m \in Miners : MinerFollows(m)'
      /\ \A h \in Handlers : HandlerFollows(h)'
  BY DEF Crash, MinerFollows, HandlerFollows
<1> QED BY <1>3, <1>5, <1>6, <1>7, <1>8 DEF ChainInv

(* A block appended while the mutex is free leaves every waiting thread behind:
   what it read can no longer match the height. *)
LEMMA Outrun ==
  ASSUME TypeInv, lock = None, NEW b \in Block, chain' = Append(chain, b)
  PROVE  /\ \A m \in Miners :
              /\ MinerFollows(m) /\ UNCHANGED <<mpc[m], nextIndex[m], lastHash[m], newBlock[m]>>
              => MinerFollows(m)'
         /\ \A h \in Handlers :
              HandlerFollows(h) /\ UNCHANGED <<hpc[h], received[h]>> => HandlerFollows(h)'
<1>1. Len(chain) \in Nat /\ Len(chain') = Len(chain) + 1
  BY AppendProperties, LenProperties DEF TypeInv, TypeOK
<1>2. ASSUME NEW m \in Miners, MinerFollows(m),
             UNCHANGED <<mpc[m], nextIndex[m], lastHash[m], newBlock[m]>>
      PROVE  MinerFollows(m)'
  <2>1. nextIndex[m] \in Nat
    BY DEF TypeInv, TypeOK
  <2> QED BY <1>1, <1>2, <2>1, ThreadAssumption DEF MinerFollows
<1>3. ASSUME NEW h \in Handlers, HandlerFollows(h), UNCHANGED <<hpc[h], received[h]>>
      PROVE  HandlerFollows(h)'
  <2>1. hpc[h] = "add" => Index[received[h]] \in Nat
    BY BlockAssumption DEF TypeInv, Control
  <2> QED BY <1>1, <1>3, <2>1 DEF HandlerFollows
<1> QED BY <1>2, <1>3

LEMMA SameChain ==
  ASSUME ChainInv, UNCHANGED <<chain, runtimeCheckpoints, checkpointsDat, blkFile>>,
         phase = "up"
  PROVE  /\ Sound(chain)' /\ runtimeCheckpoints' = checkpointsDat'
         /\ FileReplays(chain)'
<1>1. Sound(chain)'
  BY DEF ChainInv, Sound, IsIndexed, IsLinked
<1>2. PICK mark \in Marks(chain) : Replays(chain, mark)
  BY DEF ChainInv, FileReplays
<1>3. mark \in Marks(chain)' /\ Replays(chain, mark)'
  BY <1>2 DEF Marks, Replays
<1> QED BY <1>1, <1>3 DEF ChainInv, FileReplays

LEMMA ChainMiner ==
  ASSUME TypeInv, ChainInv, NEW m \in Miners,
         MineRequest(m) \/ MineDirectly(m) \/ FindNonce(m) \/ MinerStep(m)
  PROVE  ChainInv'
<1>1. CASE Commit(m)
  <2> DEFINE b == newBlock[m]
  <2>1. /\ lock = None /\ nextIndex[m] = Len(chain) /\ b \in Block
        /\ CheckBlock(runtimeCheckpoints, b)
        /\ chain' = Append(chain, b) /\ blkFile' = Append(blkFile, b)
        /\ phase = "up" /\ chain # << >> /\ chain \in Seq(Block)
    BY <1>1 DEF Commit, MayCommit, Move, TypeInv, TypeOK, Control
  <2>2. Index[b] = Len(chain) /\ Prev[b] = Tip(chain)
    BY <1>1, <2>1 DEF Commit, Move, ChainInv, MinerFollows
  <2>3. UNCHANGED <<runtimeCheckpoints, checkpointsDat, phase>>
    BY <1>1 DEF Commit, process
  <2>4. Sound(chain)'
    <3>1. Sound(Append(chain, b))
      BY <2>1, <2>2, SoundAppend DEF ChainInv
    <3> HIDE DEF b
    <3> QED BY <2>1, <2>3, <3>1 DEF Sound, IsIndexed, IsLinked
  <2>5. FileReplays(chain)'
    BY <2>1, <2>2, ReplayCommit DEF ChainInv, TypeInv
  <2>6. \A n \in Miners : MinerFollows(n)'
    <3>1. \A n \in Miners \ {m} : MinerFollows(n)'
      BY <1>1, <2>1, Outrun DEF Commit, Move, ChainInv, TypeInv, TypeOK
    <3>2. Tip(chain)' = b
      BY <2>1, AppendProperties DEF Tip
    <3>3. MinerFollows(m)'
      BY <1>1, <3>2 DEF Commit, Move, MinerFollows, TypeInv, TypeOK
    <3> QED BY <3>1, <3>3
  <2>7. \A h \in Handlers : HandlerFollows(h)'
    BY <1>1, <2>1, Outrun DEF Commit, handling, ChainInv
  <2> QED BY <2>1, <2>3, <2>4, <2>5, <2>6, <2>7 DEF ChainInv
<1>2. CASE SealCheckpoint(m)
  <2>1. lock = m /\ newBlock[m] = chain[Len(chain)] /\ phase = "up" /\ chain # << >>
    BY <1>2 DEF SealCheckpoint, Move, ChainInv, MinerFollows, TypeInv, TypeOK, Control, Tip
  <2>2. chain' = chain /\ blkFile' = blkFile /\ phase' = "up"
    BY <1>2, <2>1 DEF SealCheckpoint, process
  <2>3. Len(chain) \in 1 .. Len(chain)
    BY <2>1, EmptySeq DEF TypeInv, TypeOK
  <2>4. /\ runtimeCheckpoints' = checkpointsDat'
        /\ runtimeCheckpoints' \in
             {runtimeCheckpoints, AddCheckpoint(runtimeCheckpoints, chain[Len(chain)])}
    BY <1>2, <2>1 DEF SealCheckpoint, ChainInv
  <2>5. \A i \in 1 .. Len(chain) : CheckBlock(runtimeCheckpoints', chain[i])
    BY <2>3, <2>4, CheckpointAgrees DEF ChainInv, Sound, TypeInv, TypeOK
  <2>6. Sound(chain)'
    BY <2>2, <2>5 DEF ChainInv, Sound, IsIndexed, IsLinked
  <2>7. FileReplays(chain)'
    BY <2>1, <2>2 DEF ChainInv, FileReplays, Marks, Replays
  <2>8. \A n \in Miners : MinerFollows(n)'
    BY <1>2, <2>1, <2>2 DEF SealCheckpoint, Move, ChainInv, MinerFollows, TypeInv, TypeOK
  <2>9. \A h \in Handlers : HandlerFollows(h)'
    BY <1>2 DEF SealCheckpoint, handling, ChainInv, HandlerFollows
  <2> QED BY <2>2, <2>4, <2>6, <2>7, <2>8, <2>9 DEF ChainInv
<1>3. CASE ~Commit(m) /\ ~SealCheckpoint(m)
  <2>1. UNCHANGED <<chain, runtimeCheckpoints, checkpointsDat, blkFile, lock>>
    BY <1>3 DEF MinerStep, MineRequest, MineDirectly, FindNonce, ReleaseFlag,
      TakeFlag, GiveUp, ReadIndex, ReadTip, RejectAddress, StartSearch,
      Interrupted, Discard, UpdateHash, StopMining, shared, files
  <2>2. UNCHANGED <<handling, process>>
    BY MinerFrame
  <2>3. \A n \in Miners \ {m} : MinerFollows(n)'
    <3>1. \A n \in Miners \ {m} :
            UNCHANGED <<mpc[n], nextIndex[n], lastHash[n], newBlock[n]>>
      BY <1>3 DEF MinerStep, MineRequest, MineDirectly, FindNonce, ReleaseFlag,
        TakeFlag, GiveUp, ReadIndex, ReadTip, RejectAddress, StartSearch,
        Interrupted, Discard, UpdateHash, StopMining, Move, TypeInv, TypeOK
    <3> QED BY <2>1, <3>1 DEF MinerFollows, ChainInv
  <2>4. MinerFollows(m)'
    <3> USE DEF Move, MinerFollows, ChainInv, TypeInv, TypeOK
    <3>1. CASE ReadIndex(m)
      BY <2>1, <3>1, LenProperties DEF ReadIndex
    <3>2. CASE ReadTip(m)
      BY <2>1, <3>2 DEF ReadTip
    <3>3. CASE FindNonce(m)
      BY <2>1, <3>3, BlockAssumption DEF FindNonce
    <3>4. CASE UpdateHash(m)
      BY <2>1, <3>4 DEF UpdateHash, mining
    <3>5. CASE StartSearch(m)
      BY <2>1, <3>5 DEF StartSearch
    <3>6. CASE \/ MineRequest(m) \/ ReleaseFlag(m) \/ MineDirectly(m) \/ TakeFlag(m)
               \/ GiveUp(m) \/ RejectAddress(m) \/ Interrupted(m) \/ Discard(m)
               \/ StopMining(m)
      <4>1. mpc'[m] \in {"idle", "spawned", "try", "index", "done"}
        BY <3>6 DEF MineRequest, ReleaseFlag, MineDirectly, TakeFlag, GiveUp,
          RejectAddress, Interrupted, Discard, StopMining
      <4> QED BY <4>1
    <3> QED BY <1>3, <3>1, <3>2, <3>3, <3>4, <3>5, <3>6 DEF MinerStep
  <2>5. \A h \in Handlers : HandlerFollows(h)'
    BY <2>1, <2>2 DEF ChainInv, handling, HandlerFollows
  <2>6. phase = "up" /\ phase' = "up"
    BY <1>3, <2>2 DEF process, MinerStep, MineRequest, MineDirectly, FindNonce,
      ReleaseFlag, TakeFlag, GiveUp, ReadIndex, ReadTip, RejectAddress,
      StartSearch, Interrupted, Discard, UpdateHash, StopMining, Move, TypeInv,
      TypeOK, Control
  <2> QED BY <2>1, <2>3, <2>4, <2>5, <2>6, SameChain DEF ChainInv
<1> QED BY <1>1, <1>2, <1>3

LEMMA ChainHandler ==
  ASSUME TypeInv, ChainInv, NEW h \in Handlers, ReceiveBlock(h) \/ HandlerStep(h)
  PROVE  ChainInv'
<1>1. /\ UNCHANGED <<mining, process, lock, blkFile>>
      /\ \A g \in Handlers \ {h} : UNCHANGED <<hpc[g], received[g]>>
  <2>1. \A g \in Handlers \ {h} : UNCHANGED <<hpc[g], received[g]>>
    BY DEF ReceiveBlock, HandlerStep, HandlerAdd, HandlerSave, HandlerInterrupt,
      Move, TypeInv, TypeOK
  <2> QED BY <2>1, HandlerFrame
<1>2. phase = "up" /\ phase' = "up" /\ chain # << >>
  BY <1>1 DEF process, ReceiveBlock, HandlerStep, HandlerAdd, HandlerSave,
    HandlerInterrupt, Move, TypeInv, TypeOK, Control
<1>3. CASE HandlerAdd(h)
  <2> DEFINE b == received[h]
  <2>1. /\ b \in Block /\ lock = None /\ hpc'[h] = "save"
        /\ Index[b] = Len(chain) => Prev[b] = Tip(chain)
    BY <1>3 DEF HandlerAdd, AddBlock, Move, ChainInv, HandlerFollows, TypeInv, TypeOK, Control
  <2>2. CASE UNCHANGED <<chain, runtimeCheckpoints, checkpointsDat>>
    <3>1. HandlerFollows(h)'
      BY <2>1 DEF HandlerFollows
    <3>2. \A g \in Handlers \ {h} : HandlerFollows(g)'
      BY <1>1, <2>2 DEF ChainInv, HandlerFollows
    <3>3. \A m \in Miners : MinerFollows(m)'
      BY <1>1, <2>2 DEF ChainInv, mining, MinerFollows
    <3> QED BY <1>1, <1>2, <2>2, <3>1, <3>2, <3>3, SameChain DEF ChainInv
  <2>3. CASE AppendBlock(b) /\ chain' = Append(chain, b)
    <3>1. Sound(chain)'
      BY <1>2, <2>1, <2>3, SoundAppendBlock DEF ChainInv, TypeInv
    <3>2. runtimeCheckpoints' = checkpointsDat'
      BY <2>3 DEF AppendBlock, ChainInv
    <3>3. FileReplays(chain)'
      BY <1>1, <1>2, <2>1, <2>3, FileReplaysLonger DEF ChainInv, TypeInv
    <3>4. \A n \in Miners : MinerFollows(n)'
      BY <1>1, <2>1, <2>3, Outrun DEF ChainInv, mining
    <3>5. \A g \in Handlers : HandlerFollows(g)'
      <4>1. \A g \in Handlers \ {h} : HandlerFollows(g)'
        BY <1>1, <2>1, <2>3, Outrun DEF ChainInv
      <4>2. HandlerFollows(h)'
        BY <2>1 DEF HandlerFollows
      <4> QED BY <4>1, <4>2
    <3> QED BY <1>2, <3>1, <3>2, <3>3, <3>4, <3>5 DEF ChainInv
  <2> QED BY <1>3, <2>2, <2>3 DEF HandlerAdd, AddBlock, AppendBlock
<1>4. CASE ReceiveBlock(h) \/ HandlerSave(h) \/ HandlerInterrupt(h)
  <2>1. UNCHANGED <<chain, runtimeCheckpoints, checkpointsDat>>
    BY <1>4 DEF ReceiveBlock, HandlerSave, HandlerInterrupt, shared, files
  <2>2. HandlerFollows(h)'
    <3>1. Len(chain) \in Nat
      BY LenProperties DEF TypeInv, TypeOK
    <3> QED BY <1>4, <2>1, <3>1 DEF ReceiveBlock, HandlerSave, HandlerInterrupt, Move,
          HandlerFollows, TypeInv, TypeOK
  <2>3. \A g \in Handlers \ {h} : HandlerFollows(g)'
    BY <1>1, <2>1 DEF ChainInv, HandlerFollows
  <2>4. \A m \in Miners : MinerFollows(m)'
    BY <1>1, <2>1 DEF ChainInv, mining, MinerFollows
  <2> QED BY <1>1, <1>2, <2>1, <2>2, <2>3, <2>4, SameChain DEF ChainInv
<1> QED BY <1>3, <1>4 DEF HandlerStep

LEMMA ChainNext ==
  ASSUME Syncers = {}
  PROVE  TypeInv /\ ChainInv /\ [Next]_vars => ChainInv'
<1> SUFFICES ASSUME TypeInv, ChainInv, [Next]_vars PROVE ChainInv'
  OBVIOUS
<1>1. CASE UNCHANGED vars
  <2>1. UNCHANGED <<chain, runtimeCheckpoints, lock, blkFile, checkpointsDat, phase,
                    cursor, mpc, nextIndex, lastHash, newBlock, hpc, received>>
    BY <1>1 DEF vars, shared, files, process, mining, handling
  <2>2. /\ \A m \in Miners : MinerFollows(m)'
        /\ \A h \in Handlers : HandlerFollows(h)'
    BY <2>1 DEF ChainInv, MinerFollows, HandlerFollows
  <2>3. CASE phase = "up"
    BY <2>1, <2>2, <2>3, SameChain DEF ChainInv
  <2>4. CASE phase = "loading"
    <3>1. PICK c \in Seq(Block) : Sound(c) /\ LoadsPrefix(c)
      BY <2>4 DEF ChainInv
    <3>2. PICK mark \in Marks(c) :
             /\ Replays(c, mark) /\ cursor \in 0 .. Len(blkFile)
             /\ chain = SubSeq(c, 1, mark[cursor])
      BY <3>1 DEF LoadsPrefix
    <3>3. mark \in Marks(c)' /\ Replays(c, mark)'
      BY <2>1, <3>2 DEF Marks, Replays
    <3>4. LoadsPrefix(c)'
      BY <2>1, <3>2, <3>3 DEF LoadsPrefix
    <3>5. Sound(c)' /\ Sound(chain)'
      BY <2>1, <3>1 DEF ChainInv, Sound, IsIndexed, IsLinked
    <3> QED BY <2>1, <2>2, <2>4, <3>4, <3>5 DEF ChainInv
  <2> QED BY <2>3, <2>4 DEF TypeInv, TypeOK
<1> QED
  BY <1>1, ChainLoadRecord, ChainCreateGenesis, ChainFinishLoad, ChainCrash,
     ChainMiner, ChainHandler DEF Next

(* The append-only node (no sync thread) keeps its chain hash-linked (Linked),
   whatever miners, POST /block handlers, crashes and restarts do. *)
THEOREM AppendedChainIsLinked ==
  ASSUME Syncers = {}
  PROVE  Spec => []Linked
<1>1. ChainInv => Linked
  BY DEF ChainInv, Sound, Linked
<1> QED BY <1>1, ChainInit, ChainNext, TypeInvariant, PTL DEF Spec

(* ... and no block of it ever disagrees with a checkpoint (CheckpointsHold; all
   its blocks are at their heights). *)
THEOREM AppendedChainKeepsCheckpoints ==
  ASSUME Syncers = {}
  PROVE  Spec => []CheckpointsHold
<1>1. ChainInv => CheckpointsHold
  BY DEF ChainInv, Sound, CheckpointsHold
<1> QED BY <1>1, ChainInit, ChainNext, TypeInvariant, PTL DEF Spec

------------------------------------------------------------------------------
(* The genesis block stays.  replaceChain compares the first blocks before it
   takes the mutex; that is enough because nothing else ever moves block 0. *)
GenesisInv ==
  /\ chain # << >> => chain[1] = Genesis
  /\ \A i \in 1 .. Len(blkFile) : Index[blkFile[i]] = 0 => blkFile[i] = Genesis
  /\ \A s \in Syncers : spc[s] = "replace" => peerBlocks[s][1] = Genesis

LEMMA GenesisAppend ==
  ASSUME TypeOK, chain # << >> => chain[1] = Genesis, NEW b \in Block, AppendBlock(b),
         Index[b] = 0 => b = Genesis
  PROVE  chain' # << >> => chain'[1] = Genesis
<1>1. CASE chain' = chain
  BY <1>1
<1>2. CASE chain' = Append(chain, b) /\ Index[b] = Len(chain)
  <2>1. CASE chain = << >>
    BY <1>2, <2>1, AppendProperties, EmptySeq DEF TypeOK
  <2>2. CASE chain # << >>
    <3>1. 1 \in 1 .. Len(chain)
      BY <2>2, EmptySeq DEF TypeOK
    <3> QED BY <1>2, <2>2, <3>1, AppendProperties DEF TypeOK
  <2> QED BY <2>1, <2>2
<1> QED BY <1>1, <1>2 DEF AppendBlock

LEMMA GenesisNext == TypeInv /\ HeightInv /\ GenesisInv /\ [Next]_vars => GenesisInv'
<1> SUFFICES ASSUME TypeInv, HeightInv, GenesisInv, [Next]_vars PROVE GenesisInv'
  OBVIOUS
<1> USE DEF GenesisInv
<1>1. CASE UNCHANGED <<chain, blkFile, syncing>>
  BY <1>1 DEF syncing
<1>2. CASE LoadRecord
  <2>1. /\ blkFile[cursor + 1] \in Block /\ cursor + 1 \in 1 .. Len(blkFile)
        /\ AppendBlock(blkFile[cursor + 1]) /\ UNCHANGED <<blkFile, syncing>>
    BY <1>2, ElementOfSeq, LenProperties DEF LoadRecord, TypeInv, TypeOK
  <2>2. chain' # << >> => chain'[1] = Genesis
    BY <2>1, GenesisAppend DEF TypeInv
  <2> QED BY <2>1, <2>2 DEF syncing
<1>3. CASE CreateGenesis
  BY <1>3 DEF CreateGenesis, syncing
<1>4. CASE Crash
  BY <1>4 DEF Crash, files
<1>5. ASSUME NEW m \in Miners,
             MineRequest(m) \/ MineDirectly(m) \/ FindNonce(m) \/ MinerStep(m)
      PROVE  GenesisInv'
  <2>1. CASE Commit(m)
    <3> DEFINE b == newBlock[m]
    <3>1. /\ b \in Block /\ chain \in Seq(Block) /\ blkFile \in Seq(Block)
          /\ chain # << >> /\ Len(chain) \in Nat \ {0}
          /\ chain' = Append(chain, b) /\ blkFile' = Append(blkFile, b)
      BY <2>1, EmptySeq DEF Commit, Move, TypeInv, TypeOK, Control
    <3>2. Index[b] # 0
      BY <2>1, <3>1 DEF Commit, Move, MayCommit, HeightInv
    <3>3. chain'[1] = Genesis
      BY <3>1, AppendProperties
    <3>4. \A i \in 1 .. Len(blkFile') : Index[blkFile'[i]] = 0 => blkFile'[i] = Genesis
      <4>1. /\ Len(blkFile) \in Nat /\ Len(blkFile') = Len(blkFile) + 1
            /\ blkFile'[Len(blkFile) + 1] = b
            /\ \A i \in 1 .. Len(blkFile) : blkFile'[i] = blkFile[i]
        BY <3>1, AppendProperties, LenProperties
      <4> HIDE DEF b
      <4> QED BY <3>2, <4>1
    <3> QED BY <1>5, <3>3, <3>4, MinerFrame DEF syncing
  <2>2. CASE ~Commit(m)
    <3>1. UNCHANGED <<chain, blkFile>>
      BY <1>5, <2>2 DEF MinerStep, MineRequest, MineDirectly, FindNonce,
        ReleaseFlag, TakeFlag, GiveUp, ReadIndex, ReadTip, RejectAddress,
        StartSearch, Interrupted, Discard, UpdateHash, SealCheckpoint,
        StopMining, shared, files
    <3> QED BY <1>1, <1>5, <3>1, MinerFrame
  <2> QED BY <2>1, <2>2
<1>6. ASSUME NEW b \in Block, AppendBlock(b), chain # << >>
      PROVE  chain' # << >> => chain'[1] = Genesis
  <2>1. CASE Index[b] = 0
    <3>1. Index[b] # Len(chain)
      BY <1>6, <2>1, EmptySeq DEF TypeInv, TypeOK
    <3> QED BY <1>6, <3>1 DEF AppendBlock
  <2> QED BY <1>6, <2>1, GenesisAppend DEF TypeInv
<1>7. ASSUME NEW h \in Handlers, ReceiveBlock(h) \/ HandlerStep(h)
      PROVE  GenesisInv'
  <2>1. CASE HandlerAdd(h)
    <3>1. received[h] \in Block /\ chain # << >>
      BY <2>1 DEF HandlerAdd, Move, TypeInv, TypeOK, Control
    <3>2. chain' # << >> => chain'[1] = Genesis
      BY <1>6, <2>1, <3>1 DEF HandlerAdd, AddBlock
    <3> QED BY <1>7, <3>2, HandlerFrame DEF syncing
  <2>2. CASE ReceiveBlock(h) \/ HandlerSave(h) \/ HandlerInterrupt(h)
    <3>1. chain' = chain
      BY <2>2 DEF ReceiveBlock, HandlerSave, HandlerInterrupt, shared
    <3> QED BY <1>1, <1>7, <3>1, HandlerFrame
  <2> QED BY <1>7, <2>1, <2>2 DEF HandlerStep
<1>8. ASSUME NEW s \in Syncers, CompareHeights(s) \/ SyncStep(s)
      PROVE  GenesisInv'
  <2>1. blkFile' = blkFile
    BY <1>8, SyncerFrame
  <2>2. spc[s] # "idle" => chain # << >>
    BY DEF TypeInv, TypeOK, Control
  <2>3. CASE ValidateChain(s)
    BY <2>1, <2>2, <2>3 DEF ValidateChain, AcceptsChain, shared, TypeInv, TypeOK
  <2>4. CASE ReplaceChain(s)
    BY <2>1, <2>4 DEF ReplaceChain, Move, TypeInv, TypeOK
  <2>5. CASE SyncAdd(s)
    <3>1. Head(peerBlocks[s]) \in Block /\ chain # << >>
      BY <2>2, <2>5, HeadTailProperties DEF SyncAdd, Move, TypeInv, TypeOK, Control
    <3>2. chain' # << >> => chain'[1] = Genesis
      BY <1>6, <2>5, <3>1 DEF SyncAdd, AddBlock
    <3> QED BY <2>1, <2>5, <3>2 DEF SyncAdd, Move, TypeInv, TypeOK
  <2>6. CASE \/ CompareHeights(s) \/ DownloadChain(s) \/ DumpChain(s)
             \/ FetchBatch(s) \/ NextOfBatch(s) \/ SyncSave(s) \/ EndOfBatch(s)
    <3>1. chain' = chain
      BY <2>6 DEF CompareHeights, DownloadChain, DumpChain, FetchBatch,
        NextOfBatch, SyncSave, EndOfBatch, shared
    <3>2. \A t \in Syncers : spc'[t] = "replace" =>
            spc[t] = "replace" /\ peerBlocks'[t] = peerBlocks[t]
      BY <2>6 DEF CompareHeights, DownloadChain, DumpChain, FetchBatch,
        NextOfBatch, SyncSave, EndOfBatch, Move, TypeInv, TypeOK
    <3> QED BY <2>1, <3>1, <3>2
  <2> QED BY <1>8, <2>3, <2>4, <2>5, <2>6 DEF SyncStep
<1>9. CASE FinishLoad
  BY <1>1, <1>9 DEF FinishLoad, shared, files
<1>10. CASE UNCHANGED vars
  BY <1>1, <1>10 DEF vars, shared, files
<1> QED BY <1>2, <1>3, <1>4, <1>5, <1>7, <1>8, <1>9, <1>10 DEF Next

(* No peer, whatever network it is of, replaces the genesis block
   (GenesisStays). *)
THEOREM GenesisIsNeverReplaced == Spec => []GenesisStays
<1>1. Init => GenesisInv
  BY EmptySeq DEF Init, GenesisInv
<1>2. TypeInv /\ GenesisInv => GenesisStays
  BY EmptySeq DEF GenesisInv, GenesisStays, TypeInv, TypeOK
<1> QED BY <1>1, <1>2, HeightInit, HeightNext, GenesisNext, TypeInvariant, PTL DEF Spec

------------------------------------------------------------------------------
(* blockchain.hash.  Between a commit and its hash update the miner holds the
   mutex; a crash there is the only way to leave the file uncovered.        *)
CoverInv ==
  /\ \A m \in Miners : mpc[m] \in {"seal", "checkpoint"} => lock = m
  /\ crashes = 0 => hashed = Len(blkFile) \/ \E m \in Miners : mpc[m] = "seal"
  /\ crashes = 0 /\ phase = "loading" => blkFile = << >>

LEMMA CoverNext == TypeInv /\ CoverInv /\ [Next]_vars => CoverInv'
<1> SUFFICES ASSUME TypeInv, CoverInv, [Next]_vars PROVE CoverInv'
  OBVIOUS
<1> USE DEF CoverInv
<1>1. CASE UNCHANGED <<mpc, lock, crashes, hashed, blkFile, phase>>
  BY <1>1
<1>2. CASE LoadRecord
  BY <1>2 DEF LoadRecord, mining
<1>3. CASE CreateGenesis
  <2>1. Len(<<Genesis>>) = 1
    OBVIOUS
  <2> QED BY <1>3, <2>1 DEF CreateGenesis, mining
<1>4. CASE FinishLoad
  BY <1>4 DEF FinishLoad, shared, files, mining
<1>5. CASE Crash
  BY <1>5 DEF Crash, TypeInv, TypeOK
<1>6. ASSUME NEW m \in Miners,
             MineRequest(m) \/ MineDirectly(m) \/ FindNonce(m) \/ MinerStep(m)
      PROVE  CoverInv'
  <2>0. UNCHANGED <<phase, crashes>>
    BY <1>6, MinerFrame DEF process
  <2>1. CASE Commit(m)
    BY <2>0, <2>1, ThreadAssumption DEF Commit, Move, TypeInv, TypeOK, Control
  <2>2. CASE UpdateHash(m)
    BY <2>0, <2>2 DEF UpdateHash, Move, shared, TypeInv, TypeOK
  <2>3. CASE SealCheckpoint(m)
    BY <2>0, <2>3 DEF SealCheckpoint, Move, TypeInv, TypeOK
  <2>4. CASE ~Commit(m) /\ ~UpdateHash(m) /\ ~SealCheckpoint(m)
    <3>1. UNCHANGED <<lock, hashed, blkFile>>
      BY <1>6, <2>4 DEF MinerStep, MineRequest, MineDirectly, FindNonce,
        ReleaseFlag, TakeFlag, GiveUp, ReadIndex, ReadTip, RejectAddress,
        StartSearch, Interrupted, Discard, StopMining, shared, files
    <3>2. /\ mpc[m] \notin {"seal", "checkpoint"}
          /\ mpc'[m] \notin {"seal", "checkpoint"}
          /\ \A n \in Miners \ {m} : mpc'[n] = mpc[n]
      BY <1>6, <2>4 DEF MinerStep, MineRequest, MineDirectly, FindNonce,
        ReleaseFlag, TakeFlag, GiveUp, ReadIndex, ReadTip, RejectAddress,
        StartSearch, Interrupted, Discard, StopMining, Move, TypeInv, TypeOK
    <3> QED BY <2>0, <3>1, <3>2
  <2> QED BY <2>1, <2>2, <2>3, <2>4
<1>7. CASE UNCHANGED vars
  BY <1>1, <1>7 DEF vars, shared, files, process, mining
<1> QED BY <1>1, <1>2, <1>3, <1>4, <1>5, <1>6, <1>7, HandlerFrame, SyncerFrame
        DEF Next, process, mining

(* Until the first crash blockchain.hash covers the whole file whenever no
   miner holds the mutex (HashCoversFile). *)
THEOREM HashFollowsFile == Spec => []HashCoversFile
<1>1. Init => CoverInv
  BY EmptySeq DEF Init, CoverInv
<1>2. CoverInv => HashCoversFile
  BY ThreadAssumption DEF CoverInv, HashCoversFile
<1> QED BY <1>1, <1>2, CoverNext, TypeInvariant, PTL DEF Spec

------------------------------------------------------------------------------
(* Halving blocks are checkpointed.  Without sync threads the new tip is the
   only block of its height, so its checkpoint displaces none of the older. *)
Sealed(b) ==
  \/ b \in checkpointsDat
  \/ \E m \in Miners : mpc[m] \in {"seal", "checkpoint"} /\ newBlock[m] = b

HalvingInv == \A i \in 1 .. Len(chain) : IsHalvingBlock(chain[i]) => Sealed(chain[i])

LEMMA HalvingAppendBlock ==
  ASSUME Syncers = {}, TypeInv, HeightInv, runtimeCheckpoints = checkpointsDat,
         HalvingInv, UNCHANGED mining, NEW b \in Block, AppendBlock(b)
  PROVE  HalvingInv'
<1>1. CASE UNCHANGED <<chain, runtimeCheckpoints, checkpointsDat>>
  BY <1>1 DEF HalvingInv, Sealed, mining
<1>2. CASE Index[b] = Len(chain) /\ chain' = Append(chain, b)
  <2>1. /\ Len(chain) \in Nat /\ Len(chain') = Len(chain) + 1
        /\ chain'[Len(chain) + 1] = b
        /\ \A i \in 1 .. Len(chain) : chain'[i] = chain[i]
    BY <1>2, AppendProperties, LenProperties DEF TypeInv, TypeOK
  <2>2. \A i \in 1 .. Len(chain) : chain[i] \in checkpointsDat => chain[i] \in checkpointsDat'
    <3>1. \A i \in 1 .. Len(chain) : Index[chain[i]] # Index[b]
      BY <1>2, <2>1 DEF HeightInv, IsIndexed
    <3> QED BY <1>2, <3>1 DEF AppendBlock, AddCheckpoint
  <2>3. IsHalvingBlock(b) => b \in checkpointsDat'
    BY <1>2, <2>1 DEF AppendBlock, AddCheckpoint
  <2>4. ASSUME NEW i \in 1 .. Len(chain'), NEW x, x = chain'[i], IsHalvingBlock(x)
        PROVE  Sealed(x)'
    <3>1. CASE i = Len(chain) + 1
      BY <2>1, <2>3, <2>4, <3>1 DEF Sealed
    <3>2. CASE i # Len(chain) + 1
      <4>1. i \in 1 .. Len(chain)
        BY <2>1, <3>2
      <4> QED BY <2>1, <2>2, <2>4, <4>1 DEF HalvingInv, Sealed, mining
    <3> QED BY <3>1, <3>2
  <2> QED BY <2>4 DEF HalvingInv, IsHalvingBlock, Sealed
<1> QED BY <1>1, <1>2 DEF AppendBlock

LEMMA HalvingNext ==
  ASSUME Syncers = {}
  PROVE  TypeInv /\ HeightInv /\ ChainInv /\ HalvingInv /\ [Next]_vars => HalvingInv'
<1> SUFFICES ASSUME TypeInv, HeightInv, ChainInv, HalvingInv, [Next]_vars PROVE HalvingInv'
  OBVIOUS
<1>1. CASE UNCHANGED <<chain, checkpointsDat, mining>>
  BY <1>1 DEF HalvingInv, Sealed, mining
<1>2. CASE LoadRecord
  <2>1. blkFile[cursor + 1] \in Block
    BY <1>2, ElementOfSeq, LenProperties DEF LoadRecord, TypeInv, TypeOK
  <2> QED BY <1>2, <2>1, HalvingAppendBlock DEF LoadRecord, ChainInv
<1>3. CASE CreateGenesis
  BY <1>3, BlockAssumption DEF CreateGenesis, HalvingInv, IsHalvingBlock
<1>4. CASE Crash
  BY <1>4, EmptySeq DEF Crash, HalvingInv
<1>5. ASSUME NEW m \in Miners,
             MineRequest(m) \/ MineDirectly(m) \/ FindNonce(m) \/ MinerStep(m)
      PROVE  HalvingInv'
  <2>1. CASE Commit(m)
    <3>1. /\ newBlock[m] \in Block /\ chain' = Append(chain, newBlock[m])
          /\ mpc'[m] = "seal" /\ UNCHANGED <<newBlock, checkpointsDat>>
          /\ \A n \in Miners \ {m} : mpc'[n] = mpc[n]
          /\ mpc[m] = "commit"
      BY <2>1 DEF Commit, Move, TypeInv, TypeOK, Control
    <3>2. /\ Len(chain) \in Nat /\ Len(chain') = Len(chain) + 1
          /\ chain'[Len(chain) + 1] = newBlock[m]
          /\ \A i \in 1 .. Len(chain) : chain'[i] = chain[i]
      BY <3>1, AppendProperties, LenProperties DEF TypeInv, TypeOK
    <3>3. \A i \in 1 .. Len(chain') : i \in 1 .. Len(chain) \/ chain'[i] = newBlock[m]
      BY <3>2
    <3>4. \A b : Sealed(b) => Sealed(b)'
      BY <3>1 DEF Sealed
    <3>5. \A b : b = newBlock[m] => Sealed(b)'
      BY <3>1 DEF Sealed
    <3>6. ASSUME NEW i \in 1 .. Len(chain'), NEW b, b = chain'[i], IsHalvingBlock(b)
          PROVE  Sealed(b)'
      <4>1. CASE i \in 1 .. Len(chain)
        BY <3>2, <3>4, <3>6, <4>1 DEF HalvingInv
      <4>2. CASE b = newBlock[m]
        BY <3>5, <4>2
      <4> QED BY <3>3, <3>6, <4>1, <4>2
    <3> QED BY <3>6 DEF HalvingInv, IsHalvingBlock, Sealed
  <2>2. CASE SealCheckpoint(m)
    <3>1. /\ newBlock[m] = chain[Len(chain)] /\ chain' = chain
          /\ newBlock' = newBlock /\ mpc'[m] = "done"
          /\ \A n \in Miners \ {m} : mpc'[n] = mpc[n]
      BY <2>2 DEF SealCheckpoint, Move, ChainInv, MinerFollows, Tip, TypeInv, TypeOK
    <3>2. IF IsHalvingBlock(newBlock[m])
          THEN checkpointsDat' = AddCheckpoint(checkpointsDat, newBlock[m])
          ELSE checkpointsDat' = checkpointsDat
      BY <2>2 DEF SealCheckpoint, ChainInv
    <3>3. ASSUME NEW i \in 1 .. Len(chain), IsHalvingBlock(chain[i]),
                 chain[i] # newBlock[m]
          PROVE  Sealed(chain[i])'
      <4>1. Index[chain[i]] # Index[newBlock[m]]
        <5>1. Len(chain) \in Nat /\ Len(chain) \in 1 .. Len(chain) /\ i # Len(chain)
          BY <3>1, <3>3, LenProperties DEF TypeInv, TypeOK
        <5> QED BY <3>1, <5>1 DEF HeightInv, IsIndexed
      <4>2. Sealed(chain[i])
        BY <3>3 DEF HalvingInv
      <4>3. chain[i] \in checkpointsDat => chain[i] \in checkpointsDat'
        BY <3>2, <4>1 DEF AddCheckpoint
      <4> QED BY <3>1, <3>3, <4>2, <4>3 DEF Sealed
    <3>4. IsHalvingBlock(newBlock[m]) => newBlock[m] \in checkpointsDat'
      BY <3>2 DEF AddCheckpoint
    <3> QED BY <3>1, <3>3, <3>4 DEF HalvingInv, Sealed, IsHalvingBlock
  <2>3. CASE ~Commit(m) /\ ~SealCheckpoint(m)
    <3>1. UNCHANGED <<chain, checkpointsDat>>
      BY <1>5, <2>3 DEF MinerStep, MineRequest, MineDirectly, FindNonce,
        ReleaseFlag, TakeFlag, GiveUp, ReadIndex, ReadTip, RejectAddress,
        StartSearch, Interrupted, Discard, UpdateHash, StopMining, shared, files
    <3>2. \A n \in Miners : mpc[n] \in {"seal", "checkpoint"} =>
            mpc'[n] \in {"seal", "checkpoint"} /\ newBlock'[n] = newBlock[n]
      BY <1>5, <2>3 DEF MinerStep, MineRequest, MineDirectly, FindNonce,
        ReleaseFlag, TakeFlag, GiveUp, ReadIndex, ReadTip, RejectAddress,
        StartSearch, Interrupted, Discard, UpdateHash, StopMining, Move, TypeInv, TypeOK
    <3> QED BY <3>1, <3>2 DEF HalvingInv, Sealed
  <2> QED BY <2>1, <2>2, <2>3
<1>6. ASSUME NEW h \in Handlers, ReceiveBlock(h) \/ HandlerStep(h)
      PROVE  HalvingInv'
  <2>1. CASE HandlerAdd(h) /\ AppendBlock(received[h])
    <3>1. received[h] \in Block
      BY <2>1 DEF HandlerAdd, Move, TypeInv, TypeOK, Control
    <3> QED BY <1>6, <2>1, <3>1, HandlerFrame, HalvingAppendBlock DEF ChainInv
  <2>2. CASE ~(HandlerAdd(h) /\ AppendBlock(received[h]))
    <3>1. UNCHANGED <<chain, checkpointsDat>>
      BY <1>6, <2>2 DEF HandlerStep, HandlerAdd, AddBlock, ReceiveBlock, HandlerSave,
        HandlerInterrupt, shared, files
    <3> QED BY <1>1, <1>6, <3>1, HandlerFrame
  <2> QED BY <2>1, <2>2
<1>7. CASE FinishLoad
  BY <1>1, <1>7 DEF FinishLoad, shared, files
<1>8. CASE UNCHANGED vars
  BY <1>1, <1>8 DEF vars, shared, files
<1> QED BY <1>2, <1>3, <1>4, <1>5, <1>6, <1>7, <1>8 DEF Next

(* On an append-only node every halving block is a checkpoint on disk once the
   mutex is free, wherever the process crashed before (HalvingIsDurable). *)
THEOREM AppendedHalvingIsDurable ==
  ASSUME Syncers = {}
  PROVE  Spec => []HalvingIsDurable
<1>1. Init => HalvingInv
  BY EmptySeq DEF Init, HalvingInv
<1>2. ChainInv /\ HalvingInv => HalvingIsDurable
  BY ThreadAssumption DEF ChainInv, MinerFollows, HalvingInv, Sealed, HalvingIsDurable
<1> QED BY <1>1, <1>2, HeightInit, HeightNext, ChainInit, ChainNext, HalvingNext,
        TypeInvariant, PTL DEF Spec

------------------------------------------------------------------------------
(* Whatever races, the chain begins with the genesis block of this network, and
   a block out of its place is one a peer served there (ChainNode!BlocksStay;
   replaceChain, blockchain.cpp:591-651). *)
THEOREM BlocksStayInPlace == Spec => []BlocksStay
<1> QED BY OnlyPeersMisplace, GenesisIsNeverReplaced, PTL DEF BlocksStay

(* Without sync threads the checkpoints on disk and the hash of the file keep
   up with the chain whenever the mutex is free (ChainNode!DiskFollowsChain;
   the end of mineBlock, blockchain.cpp:336-360). *)
THEOREM AppendedChainIsOnDisk ==
  ASSUME Syncers = {}
  PROVE  Spec => []DiskFollowsChain
<1> QED BY AppendedHalvingIsDurable, HashFollowsFile, PTL DEF DiskFollowsChain
------------------------------------------------------------------------------
(* A sync that nobody races.  replaceChain compares lengths and checkpoints
   before it takes the mutex; what it found is still so when it installs.   *)
LoneSync == Miners = {} /\ Handlers = {} /\ \A s, t \in Syncers : s = t

SyncInv ==
  /\ CheckpointsHold
  /\ \A s \in Syncers : spc[s] = "replace" => AcceptsChain(peerBlocks[s])

LEMMA CheckedAppendBlock ==
  ASSUME TypeInv, CheckpointsHold, NEW b \in Block, AppendBlock(b)
  PROVE  CheckpointsHold' /\ (chain' = chain \/ Len(chain') > Len(chain))
<1>1. /\ chain \in Seq(Block) /\ Len(chain) \in Nat
      /\ \A i \in 1 .. Len(chain) : chain[i] \in Block
  BY LenProperties, ElementOfSeq DEF TypeInv, TypeOK
<1>2. CASE chain' = chain /\ runtimeCheckpoints' = runtimeCheckpoints
  BY <1>2 DEF CheckpointsHold, CheckBlock, SitsAtHeight
<1>3. CASE /\ chain' = Append(chain, b)
           /\ Index[b] = Len(chain) /\ CheckBlock(runtimeCheckpoints, b)
           /\ \/ runtimeCheckpoints' = runtimeCheckpoints
              \/ runtimeCheckpoints' = AddCheckpoint(runtimeCheckpoints, b)
  <2>1. /\ Len(chain') = Len(chain) + 1 /\ chain'[Len(chain) + 1] = b
        /\ \A i \in 1 .. Len(chain) : chain'[i] = chain[i]
    BY <1>1, <1>3, AppendProperties
  <2>2. \A c \in runtimeCheckpoints' : c \in runtimeCheckpoints \/ c = b
    BY <1>3 DEF AddCheckpoint
  <2>3. ASSUME NEW i \in 1 .. Len(chain'), Index[chain'[i]] = i - 1,
               NEW c \in runtimeCheckpoints', Index[c] = Index[chain'[i]]
        PROVE  c = chain'[i]
    <3>1. CASE i = Len(chain) + 1
      BY <1>3, <2>1, <2>2, <2>3, <3>1 DEF CheckBlock
    <3>2. CASE i \in 1 .. Len(chain)
      <4>1. chain'[i] = chain[i] /\ Index[chain[i]] = i - 1
        BY <2>1, <2>3, <3>2
      <4>2. c \in runtimeCheckpoints
        BY <1>1, <1>3, <2>2, <2>3, <3>2, <4>1
      <4> QED BY <2>3, <3>2, <4>1, <4>2 DEF CheckpointsHold, CheckBlock, SitsAtHeight
    <3> QED BY <1>1, <2>1, <3>1, <3>2
  <2> QED BY <1>1, <2>1, <2>3 DEF CheckpointsHold, CheckBlock, SitsAtHeight
<1> QED BY <1>2, <1>3 DEF AppendBlock

LEMMA SyncNext ==
  ASSUME LoneSync, TypeInv, HeightInv, SyncInv, [Next]_vars
  PROVE  /\ SyncInv'
         /\ phase = "up" /\ phase' = "up" /\ chain' # chain => Len(chain') > Len(chain)
<1> USE DEF SyncInv
<1>1. CASE UNCHANGED <<chain, runtimeCheckpoints, syncing>>
  BY <1>1 DEF syncing, CheckpointsHold, CheckBlock, AcceptsChain
<1>2. CASE LoadRecord
  <2>1. blkFile[cursor + 1] \in Block /\ AppendBlock(blkFile[cursor + 1])
    BY <1>2, ElementOfSeq, LenProperties DEF LoadRecord, TypeInv, TypeOK
  <2>2. phase = "loading" /\ UNCHANGED <<spc, peerBlocks>>
    BY <1>2 DEF LoadRecord, syncing
  <2>3. \A s \in Syncers : spc'[s] # "replace"
    BY <2>2 DEF TypeInv, Control
  <2> QED BY <2>1, <2>2, <2>3, CheckedAppendBlock
<1>3. CASE CreateGenesis
  <2>1. /\ phase = "loading" /\ chain' = <<Genesis>> /\ spc' = spc
        /\ runtimeCheckpoints' = AddCheckpoint(runtimeCheckpoints, Genesis)
    BY <1>3 DEF CreateGenesis, syncing
  <2>2. CheckpointsHold'
    BY <2>1 DEF CheckpointsHold, CheckBlock, AddCheckpoint
  <2> QED BY <2>1, <2>2 DEF TypeInv, Control
<1>4. CASE Crash
  <2>1. chain' = << >> /\ phase' = "loading" /\ \A s \in Syncers : spc'[s] = "idle"
    BY <1>4 DEF Crash
  <2> QED BY <2>1, EmptySeq DEF CheckpointsHold
<1>5. ASSUME NEW s \in Syncers, CompareHeights(s) \/ SyncStep(s)
      PROVE  /\ SyncInv'
             /\ chain' # chain => Len(chain') > Len(chain)
  <2>0. \A t \in Syncers : t = s
    BY DEF LoneSync
  <2>1. CASE SyncAdd(s)
    <3>1. Head(peerBlocks[s]) \in Block
      BY <2>1, HeadTailProperties DEF SyncAdd, Move, TypeInv, TypeOK, Control
    <3>2. \/ AppendBlock(Head(peerBlocks[s]))
          \/ UNCHANGED <<chain, runtimeCheckpoints>>
      BY <2>1 DEF SyncAdd, AddBlock
    <3>3. CheckpointsHold' /\ (chain' = chain \/ Len(chain') > Len(chain))
      BY <3>1, <3>2, CheckedAppendBlock DEF CheckpointsHold, CheckBlock
    <3>4. spc'[s] = "save"
      BY <2>1 DEF SyncAdd, Move, TypeInv, TypeOK
    <3> QED BY <2>0, <3>3, <3>4
  <2>2. CASE ReplaceChain(s)
    <3>1. /\ spc[s] = "replace" /\ chain' = peerBlocks[s] /\ spc'[s] = "dump"
          /\ runtimeCheckpoints' = runtimeCheckpoints
      BY <2>2 DEF ReplaceChain, Move, TypeInv, TypeOK
    <3>2. AcceptsChain(peerBlocks[s])
      BY <3>1
    <3> QED BY <2>0, <3>1, <3>2 DEF AcceptsChain, CheckpointsHold, CheckBlock
  <2>3. CASE ~SyncAdd(s) /\ ~ReplaceChain(s)
    <3>1. UNCHANGED <<chain, runtimeCheckpoints>>
      BY <1>5, <2>3 DEF SyncStep, CompareHeights, DownloadChain, ValidateChain, DumpChain,
        FetchBatch, NextOfBatch, SyncSave, EndOfBatch, shared
    <3>2. spc'[s] = "replace" => peerBlocks'[s] = peerBlocks[s] /\ AcceptsChain(peerBlocks[s])
      BY <1>5, <2>3 DEF SyncStep, CompareHeights, DownloadChain, ValidateChain, DumpChain,
        FetchBatch, NextOfBatch, SyncSave, EndOfBatch, Move, TypeInv, TypeOK
    <3> QED BY <2>0, <3>1, <3>2 DEF CheckpointsHold, CheckBlock, AcceptsChain
  <2> QED BY <2>1, <2>2, <2>3
<1>6. CASE FinishLoad \/ UNCHANGED vars
  BY <1>1, <1>6 DEF FinishLoad, vars, shared
<1>7. Miners = {} /\ Handlers = {}
  BY DEF LoneSync
<1> QED BY <1>2, <1>3, <1>4, <1>5, <1>6, <1>7 DEF Next

LEMMA SyncInit == Init => SyncInv
  BY EmptySeq DEF Init, SyncInv, CheckpointsHold

(* Between restarts a sync that nobody races never shortens the chain nor
   replaces it by one of its length (ReorgGrows; replaceChain,
   blockchain.cpp:591-651). *)
THEOREM LoneSyncGrows ==
  ASSUME LoneSync
  PROVE  Spec => ReorgGrows
<1>1. TypeInv /\ HeightInv /\ SyncInv /\ [Next]_vars
        => [phase = "up" /\ phase' = "up" /\ chain' # chain => Len(chain') > Len(chain)]_vars
  BY SyncNext
<1>2. TypeInv /\ HeightInv /\ SyncInv /\ [Next]_vars => SyncInv'
  BY SyncNext
<1> QED BY <1>1, <1>2, SyncInit, HeightInit, HeightNext, TypeInvariant, PTL
        DEF Spec, ReorgGrows

(* ... and never installs or appends at its height a block that disagrees with a
   checkpoint (CheckpointsHold). *)
THEOREM LoneSyncKeepsCheckpoints ==
  ASSUME LoneSync
  PROVE  Spec => []CheckpointsHold
<1>1. TypeInv /\ HeightInv /\ SyncInv /\ [Next]_vars => SyncInv'
  BY SyncNext
<1>2. SyncInv => CheckpointsHold
  BY DEF SyncInv
<1> QED BY <1>1, <1>2, SyncInit, HeightInit, HeightNext, TypeInvariant, PTL DEF Spec

------------------------------------------------------------------------------
(* The node implements HashChain.  The abstract log is the chain, or while
   the constructor runs what the file rebuilds; the marks of ChainInv say
   what that is.                                                            *)

(* A set of naturals has a least element. *)
LEMMA NatHasLeast ==
  \A S \in SUBSET Nat : S # {} => \E x \in S : \A y \in S : x <= y
  <1> SUFFICES ASSUME NEW S \in SUBSET Nat, S # {}
               PROVE  \E x \in S : \A y \in S : x <= y
    OBVIOUS
  <1> DEFINE R == OpToRel(<, Nat)
  <1>1. IsWellFoundedOn(R, Nat)
    BY NatLessThanWellFounded, Zenon
  <1>2. ASSUME NEW x \in Nat, NEW y \in Nat, y < x PROVE <<y, x>> \in R
    BY <1>2 DEF OpToRel
  <1> HIDE DEF R
  <1>3. PICK x \in S : \A y \in S : ~ (<<y, x>> \in R)
    BY <1>1, WFMin
  <1>4. \A y \in S : x <= y
    <2> TAKE y \in S
    <2>1. ~(y < x)
      BY <1>2, <1>3
    <2> QED BY <2>1
  <1> QED BY <1>4

(* What ReplayOf does with a record of the file. *)
ReloadStep(c, i, file, cps) ==
  IF Index[file[i]] = Len(c) /\ CheckBlock(cps, file[i])
  THEN Append(c, file[i]) ELSE c

(* After i records the blocks are those that the marks say. *)
Rebuilt(run, i, file, c, mark) ==
  i <= Len(file) => run[i] = SubSeq(c, 1, mark[i])

Reload == INSTANCE Inductions
  WITH Op <- ReloadStep, Holds <- LAMBDA i, p, q : Rebuilt(p, i, q[1], q[2], q[3])

LEMMA ReloadGrounded == Reload!Grounded
  BY NatHasLeast DEF Reload!Grounded

LEMMA ReplayIsRun ==
  ASSUME NEW file, NEW cps
  PROVE  ReplayOf(file, cps) = Reload!Run(<< >>, Len(file), file, cps)[Len(file)]
  BY DEF ReplayOf, Reload!Run, Reload!IsRun, ReloadStep

LEMMA RunSteps ==
  ASSUME NEW n \in Nat, NEW file, NEW cps
  PROVE  /\ Reload!Run(<< >>, n, file, cps)[0] = << >>
         /\ \A i \in 1 .. n :
              Reload!Run(<< >>, n, file, cps)[i]
                = ReloadStep(Reload!Run(<< >>, n, file, cps)[i - 1], i, file, cps)
<1> DEFINE none == << >>
<1> HIDE DEF none
<1>1. /\ Reload!Run(none, n, file, cps)[0] = none
      /\ \A i \in 1 .. n :
           Reload!Run(none, n, file, cps)[i]
             = ReloadStep(Reload!Run(none, n, file, cps)[i - 1], i, file, cps)
  BY ReloadGrounded, Reload!Recursion
<1> QED BY <1>1 DEF none

(* What marks records of a file against a chain that agrees with the
   checkpoints also says what the file rebuilds. *)
LEMMA ReplayFollowsMarks ==
  ASSUME NEW file \in Seq(Block), NEW cps, NEW c \in Seq(Block),
         \A i \in 1 .. Len(c) : CheckBlock(cps, c[i]),
         NEW mark \in [0 .. Len(file) -> 0 .. Len(c)], mark[0] = 0,
         \A i \in 1 .. Len(file) :
           IF Index[file[i]] = mark[i - 1]
           THEN mark[i] = mark[i - 1] + 1 /\ c[mark[i]] = file[i]
           ELSE mark[i] = mark[i - 1]
  PROVE  ReplayOf(file, cps) = SubSeq(c, 1, mark[Len(file)])
<1> DEFINE run == Reload!Run(<< >>, Len(file), file, cps)
<1>1. Len(file) \in Nat /\ Len(c) \in Nat
  BY LenProperties
<1>2. /\ run[0] = << >>
      /\ \A i \in 1 .. Len(file) : run[i] = ReloadStep(run[i - 1], i, file, cps)
  BY <1>1, RunSteps
<1> HIDE DEF run
<1>3. Rebuilt(run, 0, file, c, mark)
  BY <1>2, SubSeqEmpty DEF Rebuilt
<1>4. ASSUME NEW i \in Nat, Rebuilt(run, i, file, c, mark), i + 1 <= Len(file)
      PROVE  run[i + 1] = SubSeq(c, 1, mark[i + 1])
  <2>1. /\ i \in 0 .. Len(file) /\ i + 1 \in 1 .. Len(file) /\ i + 1 - 1 = i
        /\ i + 1 \in 0 .. Len(file)
    BY <1>1, <1>4
  <2>2. mark[i] \in 0 .. Len(c) /\ mark[i + 1] \in 0 .. Len(c)
    BY <2>1
  <2>3. run[i] = SubSeq(c, 1, mark[i]) /\ run[i + 1] = ReloadStep(run[i], i + 1, file, cps)
    BY <1>2, <1>4, <2>1 DEF Rebuilt
  <2>4. IF Index[file[i + 1]] = mark[i]
        THEN mark[i + 1] = mark[i] + 1 /\ c[mark[i + 1]] = file[i + 1]
        ELSE mark[i + 1] = mark[i]
    BY <2>1
  <2>5. Len(SubSeq(c, 1, mark[i])) = mark[i]
    BY <1>1, <2>2, PrefixLength
  <2>6. CASE Index[file[i + 1]] = mark[i]
    <3>1. mark[i] + 1 \in 1 .. Len(c) /\ mark[i] \in Nat
      BY <2>2, <2>4, <2>6
    <3>2. CheckBlock(cps, file[i + 1])
      BY <2>4, <2>6, <3>1
    <3>3. run[i + 1] = Append(SubSeq(c, 1, mark[i]), c[mark[i] + 1])
      BY <2>3, <2>4, <2>5, <2>6, <3>2 DEF ReloadStep
    <3> QED BY <2>4, <2>6, <3>1, <3>3, PrefixGrows
  <2>7. CASE Index[file[i + 1]] # mark[i]
    BY <2>3, <2>4, <2>5, <2>7 DEF ReloadStep
  <2> QED BY <2>6, <2>7
<1>5. \A i \in Nat : Rebuilt(run, i, file, c, mark)
  <2> DEFINE p == <<file, c, mark>>
  <2>1. p[1] = file /\ p[2] = c /\ p[3] = mark
    OBVIOUS
  <2> HIDE DEF p
  <2>2. Rebuilt(run, 0, p[1], p[2], p[3])
    BY <1>3, <2>1
  <2>3. \A i \in Nat : Rebuilt(run, i, p[1], p[2], p[3]) => Rebuilt(run, i + 1, p[1], p[2], p[3])
    BY <1>4, <2>1 DEF Rebuilt
  <2>4. \A i \in Nat : Rebuilt(run, i, p[1], p[2], p[3])
    BY <2>2, <2>3, ReloadGrounded, Reload!Induction
  <2> QED BY <2>1, <2>4
<1>6. run[Len(file)] = SubSeq(c, 1, mark[Len(file)])
  BY <1>1, <1>5 DEF Rebuilt
<1> QED BY <1>6, ReplayIsRun DEF run

(* The marks of a chain that agrees with the checkpoints on disk, applied to
   the state. *)
LEMMA ReplayedIsPrefix ==
  ASSUME TypeOK, NEW c \in Seq(Block), NEW mark \in Marks(c), Replays(c, mark),
         \A i \in 1 .. Len(c) : CheckBlock(checkpointsDat, c[i])
  PROVE  Replayed = SubSeq(c, 1, mark[Len(blkFile)])
  BY ReplayFollowsMarks DEF TypeOK, Marks, Replays, Replayed

(* While the constructor runs the file rebuilds one and the same chain. *)
LEMMA LoadStutters ==
  ASSUME TypeInv, ChainInv, LoadRecord
  PROVE  Replayed' = Replayed /\ phase = "loading" /\ phase' = "loading"
<1>1. PICK c \in Seq(Block) : \E mark \in Marks(c) :
         /\ LoadsTo(c, mark) /\ cursor + 1 \in 0 .. Len(blkFile)
         /\ chain' = SubSeq(c, 1, mark[cursor + 1])
         /\ runtimeCheckpoints' = checkpointsDat'
         /\ \A i \in 1 .. Len(c) : CheckBlock(runtimeCheckpoints', c[i])
  BY RecordLoads
<1>2. PICK mark \in Marks(c) :
         /\ Sound(c) /\ Replays(c, mark)
         /\ \A i \in 1 .. Len(c) : CheckBlock(checkpointsDat', c[i])
  BY <1>1 DEF LoadsTo
<1>3. Replayed = SubSeq(c, 1, mark[Len(blkFile)])
  BY <1>2, ReplayedIsPrefix DEF TypeInv, ChainInv, Sound
<1>4. ReplayOf(blkFile, checkpointsDat') = SubSeq(c, 1, mark[Len(blkFile)])
  BY <1>2, ReplayFollowsMarks DEF TypeInv, TypeOK, Marks, Replays
<1>5. blkFile' = blkFile
  BY DEF LoadRecord
<1>6. Replayed' = ReplayOf(blkFile, checkpointsDat')
  BY <1>5 DEF Replayed
<1> QED BY <1>3, <1>4, <1>6 DEF LoadRecord

(* Once the file is read the chain is what it rebuilds. *)
LEMMA LoadedIsReplayed ==
  ASSUME TypeInv, ChainInv, phase = "loading", cursor = Len(blkFile)
  PROVE  Replayed = chain
<1>1. PICK c \in Seq(Block) : Sound(c) /\ LoadsPrefix(c)
  BY DEF ChainInv
<1>2. PICK mark \in Marks(c) : Replays(c, mark) /\ chain = SubSeq(c, 1, mark[cursor])
  BY <1>1 DEF LoadsPrefix
<1> QED BY <1>1, <1>2, ReplayedIsPrefix DEF TypeInv, ChainInv, Sound

(* A node that is up would come back with a prefix of its chain. *)
LEMMA ReplayedForgets ==
  ASSUME TypeInv, ChainInv, phase = "up"
  PROVE  \E k \in 0 .. Len(chain) : Replayed = SubSeq(chain, 1, k)
<1>1. PICK mark \in Marks(chain) : Replays(chain, mark)
  BY DEF ChainInv, FileReplays
<1>2. chain \in Seq(Block) /\ Len(blkFile) \in 0 .. Len(blkFile)
  BY LenProperties DEF TypeInv, TypeOK
<1>3. Replayed = SubSeq(chain, 1, mark[Len(blkFile)])
  BY <1>1, <1>2, ReplayedIsPrefix DEF TypeInv, ChainInv, Sound
<1>4. mark[Len(blkFile)] \in 0 .. Len(chain)
  BY <1>2 DEF Marks
<1> QED BY <1>3, <1>4

(* The abstract log of HashChain. *)
Log == IF phase = "up" THEN chain ELSE Replayed

LEMMA PromiseInit == Init => Log = << >>
<1> SUFFICES ASSUME Init PROVE Replayed = << >>
  BY DEF Init, Log
<1>1. TypeInv /\ ChainInv
  BY TypeInit, ChainInit
<1> QED BY <1>1, LoadedIsReplayed, EmptySeq DEF Init

(* The two steps of HashChain, on the abstract log. *)
Extends(b) ==
  /\ Index[b] = Len(Log)
  /\ IF Log = << >> THEN b = Genesis ELSE Prev[b] = Log[Len(Log)]
  /\ Log' = Append(Log, b)

Forgets == \E k \in 0 .. Len(Log) : Log' = SubSeq(Log, 1, k)

LEMMA PromiseProcess ==
  ASSUME TypeInv, ChainInv, LoadRecord \/ CreateGenesis \/ FinishLoad \/ Crash
  PROVE  (\E b \in Block : Extends(b)) \/ Forgets \/ Log' = Log
<1>1. CASE LoadRecord
  BY <1>1, LoadStutters DEF Log
<1>2. CASE CreateGenesis
  <2>1. Log = << >> /\ Len(Log) = 0
    BY <1>2, LoadedIsReplayed, EmptySeq DEF CreateGenesis, Log
  <2>2. Log' = <<Genesis>> /\ Append(<< >>, Genesis) = <<Genesis>>
    BY <1>2 DEF CreateGenesis, Log
  <2>3. Extends(Genesis)
    BY <2>1, <2>2, BlockAssumption DEF Extends
  <2> QED BY <2>3, BlockAssumption
<1>3. CASE FinishLoad
  <2>1. Log = chain /\ Log' = chain'
    BY <1>3, LoadedIsReplayed DEF FinishLoad, Log
  <2> QED BY <1>3, <2>1 DEF FinishLoad, shared
<1>4. CASE Crash
  <2>1. blkFile' = blkFile /\ checkpointsDat' = checkpointsDat /\ phase' = "loading"
    BY <1>4 DEF Crash, files
  <2>2. Log' = Replayed
    BY <2>1 DEF Log, Replayed
  <2>3. CASE phase = "up"
    BY <2>2, <2>3, ReplayedForgets DEF Forgets, Log
  <2>4. CASE phase # "up"
    BY <2>2, <2>4 DEF Log
  <2> QED BY <2>3, <2>4
<1> QED BY <1>1, <1>2, <1>3, <1>4

LEMMA PromiseMiner ==
  ASSUME TypeInv, ChainInv, NEW m \in Miners,
         MineRequest(m) \/ MineDirectly(m) \/ FindNonce(m) \/ MinerStep(m)
  PROVE  (\E b \in Block : Extends(b)) \/ Log' = Log
<1>1. phase = "up" /\ phase' = "up" /\ chain # << >>
  BY MinerFrame DEF process, MinerStep, MineRequest, MineDirectly, FindNonce,
    ReleaseFlag, TakeFlag, GiveUp, ReadIndex, ReadTip, RejectAddress,
    StartSearch, Interrupted, Discard, Commit, UpdateHash, SealCheckpoint,
    StopMining, Move, TypeInv, TypeOK, Control
<1>2. Log = chain /\ Log' = chain'
  BY <1>1 DEF Log
<1>3. CASE Commit(m)
  <2>1. /\ newBlock[m] \in Block /\ nextIndex[m] = Len(chain)
        /\ chain' = Append(chain, newBlock[m])
    BY <1>3 DEF Commit, MayCommit, Move, TypeInv, TypeOK, Control
  <2>2. Index[newBlock[m]] = Len(chain) /\ Prev[newBlock[m]] = Tip(chain)
    BY <1>3, <2>1 DEF Commit, Move, ChainInv, MinerFollows
  <2> QED BY <1>1, <1>2, <2>1, <2>2 DEF Extends, Tip
<1>4. CASE ~Commit(m)
  <2>1. chain' = chain
    BY <1>4 DEF MinerStep, MineRequest, MineDirectly, FindNonce, ReleaseFlag,
      TakeFlag, GiveUp, ReadIndex, ReadTip, RejectAddress, StartSearch,
      Interrupted, Discard, UpdateHash, SealCheckpoint, StopMining, shared
  <2> QED BY <1>2, <2>1
<1> QED BY <1>3, <1>4

LEMMA PromiseHandler ==
  ASSUME TypeInv, ChainInv, NEW h \in Handlers, ReceiveBlock(h) \/ HandlerStep(h)
  PROVE  (\E b \in Block : Extends(b)) \/ Log' = Log
<1>1. phase = "up" /\ phase' = "up" /\ chain # << >>
  BY HandlerFrame DEF process, ReceiveBlock, HandlerStep, HandlerAdd, HandlerSave,
    HandlerInterrupt, Move, TypeInv, TypeOK, Control
<1>2. Log = chain /\ Log' = chain'
  BY <1>1 DEF Log
<1>3. CASE HandlerAdd(h)
  <2> DEFINE b == received[h]
  <2>1. b \in Block /\ (Index[b] = Len(chain) => Prev[b] = Tip(chain))
    BY <1>3 DEF HandlerAdd, Move, ChainInv, HandlerFollows, TypeInv, TypeOK, Control
  <2>2. chain' = chain \/ (Index[b] = Len(chain) /\ chain' = Append(chain, b))
    BY <1>3 DEF HandlerAdd, AddBlock, AppendBlock
  <2> HIDE DEF b
  <2> QED BY <1>1, <1>2, <2>1, <2>2 DEF Extends, Tip
<1>4. CASE ReceiveBlock(h) \/ HandlerSave(h) \/ HandlerInterrupt(h)
  <2>1. chain' = chain
    BY <1>4 DEF ReceiveBlock, HandlerSave, HandlerInterrupt, shared
  <2> QED BY <1>2, <2>1
<1> QED BY <1>3, <1>4 DEF HandlerStep

LEMMA PromiseNext ==
  ASSUME Syncers = {}, TypeInv, ChainInv, [Next]_vars
  PROVE  (\E b \in Block : Extends(b)) \/ Forgets \/ Log' = Log
<1>1. CASE UNCHANGED vars
  BY <1>1 DEF vars, shared, files, process, Log, Replayed
<1> QED BY <1>1, PromiseProcess, PromiseMiner, PromiseHandler DEF Next

(* A node without sync threads implements HashChain: miners and POST /block
   append linked blocks at the tip one at a time, and a crash, whatever it
   interrupts, takes the node back to an earlier chain of its own
   (ImplementsHashChain). *)
THEOREM AppendingNodeKeepsPromise ==
  ASSUME Syncers = {}
  PROVE  Spec => ImplementsHashChain
<1>1. Init => Promise!Init
  BY PromiseInit DEF Promise!Init, Log
<1>2. TypeInv /\ ChainInv /\ [Next]_vars => [Promise!Next]_(Log)
  <2> SUFFICES ASSUME TypeInv, ChainInv, [Next]_vars PROVE [Promise!Next]_(Log)
    OBVIOUS
  <2>1. CASE \E b \in Block : Extends(b)
    BY <2>1 DEF Extends, Log, Promise!Next, Promise!Extend
  <2>2. CASE Forgets
    BY <2>2 DEF Forgets, Log, Promise!Next, Promise!Forget
  <2> QED BY <2>1, <2>2, PromiseNext
<1>3. Spec => Promise!Init /\ [][Promise!Next]_(Log)
  BY <1>1, <1>2, ChainInit, ChainNext, TypeInvariant, PTL DEF Spec
<1> QED BY <1>3, PTL DEF ImplementsHashChain, Promise!Spec, Log

=============================================================================

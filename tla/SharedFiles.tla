------------------------------ MODULE SharedFiles ------------------------------
(***************************************************************************)
(* Several processes over one data directory: a running node, and the      *)
(* command line ./mazechain mine that main.cpp:529 names as the way to     *)
(* mine.  Each has its own Blockchain, checkpoints and mutex in memory;    *)
(* they share blk00000.dat, to which each appends what it mines,           *)
(* checkpoints.dat, which each overwrites, and blockchain.dat, which only  *)
(* a node with peers writes and only the command line reads.               *)
(*                                                                         *)
(* A block is the sequence of the makers of the chain it ends: its length  *)
(* is block.index, its Front the block prevHash names, << >> the genesis.  *)
(* What the threads of one process do to each other is ChainNode's; here a *)
(* process mines and receives one block at a time, and reads a file in one *)
(* step.  It saves its checkpoints in two: the file is emptied when it is  *)
(* opened and has its lines when it is closed, which other processes and a *)
(* stop may come between.                                                  *)
(***************************************************************************)
EXTENDS Integers, Sequences, SequencesExt

CONSTANTS
  TheNode,      \* the process that serves the routes
  Commands,     \* the command line processes
  Peer,         \* the maker of blocks that come from peers
  HalvingEvery, \* IsHalvingBlock: 10000 in the code
  TopHeight, MaxRecords, MaxReceived, MaxLaunches  \* bounds on heights, on the two
                \* files of blocks, and on starts

Processes == {TheNode} \cup Commands

ASSUME SharedAssumption ==
  /\ Peer \notin Processes /\ TheNode \notin Commands
  /\ HalvingEvery \in Nat \ {0}
  /\ TopHeight \in Nat /\ MaxRecords \in Nat \ {0}
  /\ MaxReceived \in Nat /\ MaxLaunches \in Nat

VARIABLES
  held,       \* Blockchain::chain of each process
  marks,      \* Checkpoints::runtimeCheckpoints of each process
  saves,      \* the maps SaveCheckpoints has still to write, in their order
  writing,    \* whether the first of them has its file open
  doing,      \* "off", "starting", "empty", "sealing", "reading", "up", "marking"
              \* or "storing"
  blkRecords, \* data/blocks/blk00000.dat
  datRecords, \* data/blockchain.dat
  markFile,   \* what LoadCheckpoints would make of data/checkpoints.dat
  launches,   \* number of starts so far
  alone,      \* history: no two processes at a time, no chain from blockchain.dat
  clashed,    \* history: a block of a peer, two processes in the first start of all
              \* or saving at a time, or two halving blocks of one height or at one time
  cutOff      \* history: a stop in a save, or a start in one

files      == <<blkRecords, datRecords>>
history    == <<launches, alone, clashed, cutOff>>
sharedVars == <<held, marks, saves, writing, doing, files, markFile, history>>

IsHalving(b)    == Len(b) > 0 /\ Len(b) % HalvingEvery = 0
Passes(b, m)    == \A mark \in m : Len(mark) = Len(b) => mark = b
Marked(b, m)    == IF IsHalving(b) THEN m \cup {b} ELSE m
Contradicts(b)  == /\ IsHalving(b)
                   /\ \/ \E p \in Processes : doing[p] = "marking"
                      \/ \E other \in Range(blkRecords) \cup UNION Range(marks) :
                           Len(other) = Len(b) /\ other # b
IsLinked(c)     == \A i \in 2 .. Len(c) : Front(c[i]) = c[i - 1]

(* Block b on top, with its checkpoint and the save of it if b halves.     *)
WithBlock(state, b) ==
  [chain |-> Append(state.chain, b),
   marks |-> Marked(b, state.marks),
   saves |-> IF IsHalving(b) THEN Append(state.saves, Marked(b, state.marks)) ELSE state.saves]

(* Mutation: a record is taken only on top of the block it names.          *)
ReadRecordLinked(state, b) ==
  IF Len(b) = Len(state.chain) /\ Passes(b, state.marks)
     /\ (b # << >> => Front(b) = Last(state.chain))
  THEN WithBlock(state, b)
  ELSE state

(* Mutation: whatever the file holds is taken in the order it is there.    *)
ReadRecordUnchecked(state, b) == WithBlock(state, b)

(* addBlock for a block from disk: index and checkpoint, nothing else.     *)
ReadRecord(state, b) ==
  IF Len(b) = Len(state.chain) /\ Passes(b, state.marks) THEN WithBlock(state, b) ELSE state

Replay(records, known) ==
  FoldLeft(ReadRecord, [chain |-> << >>, marks |-> known, saves |-> << >>], records)

------------------------------------------------------------------------------
(* Saving the checkpoints                                                  *)

(* Process p is at w, and not in SaveCheckpoints.                          *)
Stands(p, w) == doing[p] = w /\ saves[p] = << >>

ClashOver(p, maps) == maps # << >> /\ \E q \in Processes \ {p} : saves[q] # << >>

(* Process p has these maps to write before it goes on.                    *)
ToSave(p, maps) ==
  /\ saves' = [saves EXCEPT ![p] = maps]
  /\ clashed' = (clashed \/ ClashOver(p, maps))

(* SaveCheckpoints opens the file, which empties it ...                    *)
OpenSave(p) ==
  /\ saves[p] # << >> /\ ~writing[p]
  /\ writing' = [writing EXCEPT ![p] = TRUE]
  /\ markFile' = {}
  /\ UNCHANGED <<held, marks, saves, doing, files, history>>

(* ... and writes the map from its start when it closes it, over what      *)
(* another process may have written since.  Lines of that may be left      *)
(* behind the new ones; LoadCheckpoints takes the last of a height.  A     *)
(* line cut in two is left out, as is a map longer than a stream's buffer. *)
CloseSave(p) ==
  /\ writing[p]
  /\ \E rest \in SUBSET markFile :
       markFile' = rest \cup {m \in Head(saves[p]) : \A r \in rest : Len(r) # Len(m)}
  /\ saves' = [saves EXCEPT ![p] = Tail(@)]
  /\ writing' = [writing EXCEPT ![p] = FALSE]
  /\ UNCHANGED <<held, marks, doing, files, history>>

------------------------------------------------------------------------------
(* Start and stop of a process                                             *)

NobodyRuns     == \A p \in Processes : doing[p] = "off"
FirstStartRuns == ~NobodyRuns /\ blkRecords = << >>
SomeoneSaves   == \E p \in Processes : saves[p] # << >>

(* Mutation: the checkpoints of the file are not loaded.                   *)
LaunchUnmarked(p) ==
  /\ doing[p] = "off" /\ launches < MaxLaunches
  /\ doing' = [doing EXCEPT ![p] = "starting"]
  /\ launches' = launches + 1
  /\ alone' = (alone /\ NobodyRuns) /\ clashed' = (clashed \/ FirstStartRuns)
  /\ cutOff' = (cutOff \/ SomeoneSaves)
  /\ UNCHANGED <<marks, held, saves, writing, files, markFile>>

(* LoadCheckpoints                                                         *)
Launch(p) ==
  /\ doing[p] = "off" /\ launches < MaxLaunches
  /\ marks' = [marks EXCEPT ![p] = markFile]
  /\ doing' = [doing EXCEPT ![p] = "starting"]
  /\ launches' = launches + 1
  /\ alone' = (alone /\ NobodyRuns) /\ clashed' = (clashed \/ FirstStartRuns)
  /\ cutOff' = (cutOff \/ SomeoneSaves)
  /\ UNCHANGED <<held, saves, writing, files, markFile>>

Started(p) == IF p = TheNode THEN "up" ELSE "reading"

(* loadChain over blk00000.dat; each halving block on the way is           *)
(* checkpointed and the file of checkpoints written anew.                  *)
ReadBlocks(p) ==
  LET read == Replay(blkRecords, marks[p])
  IN /\ Stands(p, "starting")
     /\ held' = [held EXCEPT ![p] = read.chain]
     /\ marks' = [marks EXCEPT ![p] = read.marks]
     /\ ToSave(p, read.saves)
     /\ doing' = [doing EXCEPT ![p] = IF read.chain = << >> THEN "empty" ELSE Started(p)]
     /\ UNCHANGED <<writing, files, markFile, launches, alone, cutOff>>

(* No block was read: the genesis, whose checkpoint is saved first ...     *)
MakeGenesis(p) ==
  /\ Stands(p, "empty")
  /\ held' = [held EXCEPT ![p] = << << >> >>]
  /\ marks' = [marks EXCEPT ![p] = @ \cup {<< >>}]
  /\ ToSave(p, <<marks[p] \cup {<< >>}>>)
  /\ doing' = [doing EXCEPT ![p] = "sealing"]
  /\ UNCHANGED <<writing, files, markFile, launches, alone, cutOff>>

(* ... and which saveChain then writes over whatever the file holds by now. *)
KeepGenesis(p) ==
  /\ Stands(p, "sealing")
  /\ blkRecords' = << << >> >>
  /\ doing' = [doing EXCEPT ![p] = Started(p)]
  /\ UNCHANGED <<held, marks, saves, writing, datRecords, markFile, history>>

(* The command line then loads blockchain.dat in place of what it has, if  *)
(* there is such a file.                                                   *)
ReadDump(p) ==
  LET read == Replay(datRecords, marks[p])
  IN /\ Stands(p, "reading")
     /\ IF datRecords = << >>
        THEN UNCHANGED <<held, marks, saves, alone, clashed>>
        ELSE /\ held' = [held EXCEPT ![p] = read.chain]
             /\ marks' = [marks EXCEPT ![p] = read.marks]
             /\ ToSave(p, read.saves)
             /\ alone' = FALSE
     /\ doing' = [doing EXCEPT ![p] = "up"]
     /\ UNCHANGED <<writing, files, markFile, launches, cutOff>>

(* It ends, is stopped or is killed.                                       *)
Exit(p) ==
  /\ doing[p] # "off"
  /\ doing' = [doing EXCEPT ![p] = "off"]
  /\ held' = [held EXCEPT ![p] = << >>]
  /\ marks' = [marks EXCEPT ![p] = {}]
  /\ saves' = [saves EXCEPT ![p] = << >>]
  /\ writing' = [writing EXCEPT ![p] = FALSE]
  /\ cutOff' = (cutOff \/ saves[p] # << >>)
  /\ UNCHANGED <<files, markFile, launches, alone, clashed>>

------------------------------------------------------------------------------
(* Blocks                                                                  *)

Tip(p) == Last(held[p])

(* mineBlock, up to the append to blk00000.dat.  A chain without blocks,   *)
(* which ReadDump can leave, has no back() to read: undefined.             *)
Mine(p) ==
  LET b == Append(Tip(p), p)
  IN /\ Stands(p, "up") /\ held[p] # << >>
     /\ Len(b) <= TopHeight /\ Len(blkRecords) < MaxRecords
     /\ Passes(b, marks[p])
     /\ held' = [held EXCEPT ![p] = Append(@, b)]
     /\ blkRecords' = Append(blkRecords, b)
     /\ doing' = [doing EXCEPT ![p] = IF IsHalving(b) THEN "marking" ELSE "up"]
     /\ clashed' = (clashed \/ Contradicts(b))
     /\ UNCHANGED <<marks, saves, writing, datRecords, markFile, launches, alone, cutOff>>

(* The checkpoint of the halving block just mined.                         *)
MarkHalving(p) ==
  /\ Stands(p, "marking")
  /\ marks' = [marks EXCEPT ![p] = @ \cup {Tip(p)}]
  /\ ToSave(p, <<marks[p] \cup {Tip(p)}>>)
  /\ doing' = [doing EXCEPT ![p] = "up"]
  /\ UNCHANGED <<held, writing, files, markFile, launches, alone, cutOff>>

(* A block of a peer reaches the node and is taken, and its checkpoint     *)
(* saved if it halves; or it contradicts a checkpoint.                     *)
Receive ==
  LET b     == Append(Tip(TheNode), Peer)
      after == WithBlock([chain |-> held[TheNode], marks |-> marks[TheNode], saves |-> << >>], b)
  IN /\ Stands(TheNode, "up") /\ Len(b) <= TopHeight /\ Len(datRecords) < MaxReceived
     /\ IF Passes(b, marks[TheNode])
        THEN /\ held' = [held EXCEPT ![TheNode] = after.chain]
             /\ marks' = [marks EXCEPT ![TheNode] = after.marks]
             /\ saves' = [saves EXCEPT ![TheNode] = after.saves]
             /\ doing' = [doing EXCEPT ![TheNode] = "storing"]
             /\ UNCHANGED datRecords
        ELSE /\ datRecords' \in {Append(datRecords, b), held[TheNode]}
             /\ UNCHANGED <<held, marks, saves, doing>>
     /\ clashed' = TRUE
     /\ UNCHANGED <<writing, blkRecords, markFile, launches, alone, cutOff>>

(* Then it goes to blockchain.dat: appended by POST /block, which saves it *)
(* whether addBlock took it or not, or with the whole chain dumped there,  *)
(* by a synchronisation.                                                   *)
StoreReceived ==
  /\ Stands(TheNode, "storing")
  /\ datRecords' \in {Append(datRecords, Tip(TheNode)), held[TheNode]}
  /\ doing' = [doing EXCEPT ![TheNode] = "up"]
  /\ UNCHANGED <<held, marks, saves, writing, blkRecords, markFile, history>>

SharedInit ==
  /\ held = [p \in Processes |-> << >>] /\ marks = [p \in Processes |-> {}]
  /\ saves = [p \in Processes |-> << >>] /\ writing = [p \in Processes |-> FALSE]
  /\ doing = [p \in Processes |-> "off"]
  /\ blkRecords = << >> /\ datRecords = << >> /\ markFile = {}
  /\ launches = 0 /\ alone = TRUE /\ clashed = FALSE /\ cutOff = FALSE

SharedNext ==
  \/ \E p \in Processes :
       \/ Launch(p) \/ ReadBlocks(p) \/ MakeGenesis(p) \/ KeepGenesis(p) \/ ReadDump(p)
       \/ Mine(p) \/ MarkHalving(p) \/ OpenSave(p) \/ CloseSave(p) \/ Exit(p)
  \/ Receive \/ StoreReceived

SharedSpec == SharedInit /\ [][SharedNext]_sharedVars

------------------------------------------------------------------------------
(* Properties                                                              *)

(* The type invariant: a chain holds one block per height, from the genesis,
   and checkpoints one block per height; a file is open only to be written. *)
SharedTypeOK ==
  /\ \A p \in Processes :
       /\ \A i \in 1 .. Len(held[p]) : Len(held[p][i]) = i - 1
       /\ \A m, n \in marks[p] : Len(m) = Len(n) => m = n
       /\ \A i \in 1 .. Len(saves[p]) : saves[p][i] \subseteq marks[p]
       /\ writing[p] => saves[p] # << >>
  /\ doing \in [Processes -> {"off", "starting", "empty", "sealing", "reading", "up",
                              "marking", "storing"}]
  /\ writing \in [Processes -> BOOLEAN]
  /\ Len(blkRecords) <= MaxRecords /\ Len(datRecords) <= TopHeight + MaxReceived + 1
  /\ launches \in 0 .. MaxLaunches /\ alone \in BOOLEAN /\ clashed \in BOOLEAN
  /\ cutOff \in BOOLEAN

(* What the loader makes of blk00000.dat is a chain, each block on the one it
   names, although it compares heights only (storage.cpp:243, blockchain.cpp:367):
   as long as the processes run one after the other and build on that file,
   also over stops between any two steps and blocks of peers that are not in
   it. *)
AloneIsLinked == alone => IsLinked(Replay(blkRecords, markFile).chain)

(* Without blocks of peers nobody loses height: what the next start reads is
   as high as the chain of every process that runs now and has written its
   genesis, however their appends to the one file interleave
   (blockchain.cpp:339), and also when a stop in a save has emptied the
   checkpoints.  Whose blocks they are is another matter. *)
HeightsSurvive ==
  ~clashed => \A p \in Processes :
    doing[p] # "sealing" => Len(held[p]) <= Len(Replay(blkRecords, markFile).chain)

(* The checkpoints that are in the file, or that a process is about to write. *)
Kept == markFile \cup UNION {UNION Range(saves[p]) : p \in Processes}

(* A checkpoint that was saved stays in the file, or among those that its
   writer is about to put there again, although every process writes the whole
   of it from its own map (checkpoints.cpp:25); as long as nobody stops or
   starts in the middle of that, when the file is empty. *)
CheckpointsKept ==
  [][~clashed' /\ ~cutOff' => Kept \subseteq Kept']_sharedVars

(* What several processes leave in the files starts the next one: as a linked
   chain if they took turns, at full height even if they did not. *)
FilesSurvive == AloneIsLinked /\ HeightsSurvive
==============================================================================

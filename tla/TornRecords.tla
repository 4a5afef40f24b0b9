------------------------------ MODULE TornRecords ------------------------------
(***************************************************************************)
(* blk00000.dat under a process that may be cut off while it writes        *)
(* (storage.cpp).  saveBlockToDisk appends a block, a record of fields     *)
(* whose lengths it holds itself; nothing marks where a record ends.       *)
(* loadChain reads records until the bytes run out and tests only the read *)
(* of an index, so what it makes of a record that was cut, and of all      *)
(* bytes behind it, is undefined: nothing, blocks of any content, or an    *)
(* exception that ends the process.                                        *)
(*                                                                         *)
(* A block is its hash, a number, 0 that of the genesis; Garbage is one    *)
(* nobody made.  A record that was cut behind its hash may give a block    *)
(* with that hash and other contents: no hash is computed again.           *)
(* Other threads, other processes and later checkpoints are ChainNode's    *)
(* and SharedFiles'.                                                       *)
(***************************************************************************)
EXTENDS Integers, Sequences, SequencesExt, FiniteSetsExt

CONSTANTS
  Garbage,    \* a block read from bytes nobody wrote as a block
  MaxGarbage, \* bound on the blocks that are read behind a cut
  MaxMade,    \* bound on the blocks mined
  MaxCuts     \* bound on the stops of the process

ASSUME TearAssumption ==
  /\ Garbage \notin Nat /\ MaxGarbage \in Nat /\ MaxMade \in Nat /\ MaxCuts \in Nat

VARIABLES
  entries,   \* blk00000.dat: [block, whole] of each record, whole unless it was cut
  sealed,    \* checkpoints.dat holds the genesis
  memory,    \* Blockchain::chain
  life,      \* "off", "reading", "empty", "sealed", "up"
  made,      \* number of blocks mined so far
  cuts

tornVars == <<entries, sealed, memory, life, made, cuts>>

(* The blocks of the records before the first that was cut.                *)
Cut     == {i \in DOMAIN entries : ~entries[i].whole}
Legible == LET n == IF Cut = {} THEN Len(entries) ELSE Min(Cut) - 1
           IN  [i \in 1 .. n |-> entries[i].block]

(* Behind the first cut anything may be read, but addBlock takes nothing of *)
(* another hash as block 0 once the genesis is sealed.                     *)
Recovered ==
  {Legible \o more : more \in
     {rest \in UNION {[1 .. n -> {0, Garbage}] : n \in 0 .. MaxGarbage} :
        /\ Cut = {} => rest = << >>
        /\ \A i \in DOMAIN rest : rest[i] = 0 => i = 1 /\ Legible = << >>
        /\ Legible = << >> /\ sealed /\ rest # << >> => rest[1] = 0}}

------------------------------------------------------------------------------
Boot ==
  /\ life = "off" /\ life' = "reading"
  /\ UNCHANGED <<entries, sealed, memory, made, cuts>>

(* loadChain, each record through addBlock.                                *)
ReadAll ==
  /\ life = "reading"
  /\ memory' \in Recovered
  /\ life' = IF memory' = << >> THEN "empty" ELSE "up"
  /\ UNCHANGED <<entries, sealed, made, cuts>>

(* A length that was never written: std::string throws.                    *)
ReadFails ==
  /\ life = "reading" /\ Cut # {} /\ cuts < MaxCuts
  /\ life' = "off" /\ cuts' = cuts + 1
  /\ UNCHANGED <<entries, sealed, memory, made>>

(* Mutation: the checkpoint is kept in memory only.                        *)
SealGenesisInMemory ==
  /\ life = "empty"
  /\ life' = "sealed"
  /\ UNCHANGED <<entries, sealed, memory, made, cuts>>

(* No block was read: the genesis is made and its checkpoint saved.        *)
SealGenesis ==
  /\ life = "empty"
  /\ sealed' = TRUE /\ life' = "sealed"
  /\ UNCHANGED <<entries, memory, made, cuts>>

WriteGenesis ==
  /\ life = "sealed" /\ life' = "up"
  /\ memory' = <<0>> /\ entries' = <<[block |-> 0, whole |-> TRUE]>>
  /\ UNCHANGED <<sealed, made, cuts>>

(* Mutation: the file is opened to be written, not to be appended to.      *)
MineRecordAlone ==
  /\ life = "up" /\ made < MaxMade
  /\ made' = made + 1
  /\ memory' = Append(memory, made')
  /\ entries' = <<[block |-> made', whole |-> TRUE]>>
  /\ UNCHANGED <<sealed, life, cuts>>

MineRecord ==
  /\ life = "up" /\ made < MaxMade
  /\ made' = made + 1
  /\ memory' = Append(memory, made')
  /\ entries' = Append(entries, [block |-> made', whole |-> TRUE])
  /\ UNCHANGED <<sealed, life, cuts>>

(* The process ends, also in the middle of a record.                       *)
Break ==
  /\ life # "off" /\ cuts < MaxCuts
  /\ life' = "off" /\ memory' = << >> /\ cuts' = cuts + 1
  /\ \/ UNCHANGED <<entries, made>>
     \/ life = "sealed" /\ entries' \in {<< >>, <<[block |-> 0, whole |-> FALSE]>>} /\ UNCHANGED made
     \/ /\ life = "up" /\ made < MaxMade /\ made' = made + 1
        /\ entries' = Append(entries, [block |-> made', whole |-> FALSE])
  /\ UNCHANGED sealed

TornInit ==
  /\ entries = << >> /\ sealed = FALSE /\ memory = << >>
  /\ life = "off" /\ made = 0 /\ cuts = 0

TornNext ==
  \/ Boot \/ ReadAll \/ ReadFails \/ SealGenesis \/ WriteGenesis \/ MineRecord \/ Break

TornSpec == TornInit /\ [][TornNext]_tornVars

------------------------------------------------------------------------------
(* Properties                                                              *)

(* A cut costs nothing that was written before it: a process that is up holds
   the blocks of all records before the first cut, in their order, and
   exactly these when no record was ever cut (storage.cpp:205). *)
WholeRecordsSurvive ==
  life = "up" => IsPrefix(Legible, memory) /\ (Cut = {} => memory = Legible)

(* No process runs on a genesis of another hash, also when the very first
   write was cut: the checkpoint is on disk before the file is
   (blockchain.cpp:103), so that of what is left of the record only the
   genesis itself passes, and if nothing passes the file is made anew. *)
GenesisIsMadeAnew == life = "up" => memory[1] = 0

(* A start after any number of cuts resumes what is whole, from the genesis. *)
RecordsSurvive == WholeRecordsSurvive /\ GenesisIsMadeAnew
==============================================================================

--------------------------------- MODULE Rules ---------------------------------
(***************************************************************************)
(* The components whose questions are of safety alone: the rules on time,  *)
(* the script machine, the Merkle trees, the files that processes share or *)
(* leave cut off, and the small stores that workers share.  They have no   *)
(* variable in common, so every joint behaviour projects to the behaviours *)
(* of each; focus is the one a behaviour of this module exercises.         *)
(***************************************************************************)
EXTENDS BlockTiming, ScriptVM, MerkleProofs, SharedFiles, TornRecords, WorkerStores

VARIABLE focus

allVars == <<vars, vmVars, merkleVars, sharedVars, tornVars, storeVars, focus>>

RulesInit ==
  /\ focus \in {"time", "script", "merkle", "files", "records", "stores"}
  /\ Init /\ SharedInit /\ TornInit /\ StoreInit
  /\ VMInit(IF focus = "script" THEN Spends ELSE {CHOOSE s \in Spends : TRUE})
  /\ MerkleInit(IF focus = "merkle" THEN 1 .. MaxLeaves ELSE {1})

RulesNext ==
  /\ \/ focus = "time"    /\ Next
        /\ UNCHANGED <<vmVars, merkleVars, sharedVars, tornVars, storeVars>>
     \/ focus = "script"  /\ VMNext
        /\ UNCHANGED <<vars, merkleVars, sharedVars, tornVars, storeVars>>
     \/ focus = "merkle"  /\ MerkleNext
        /\ UNCHANGED <<vars, vmVars, sharedVars, tornVars, storeVars>>
     \/ focus = "files"   /\ SharedNext
        /\ UNCHANGED <<vars, vmVars, merkleVars, tornVars, storeVars>>
     \/ focus = "records" /\ TornNext
        /\ UNCHANGED <<vars, vmVars, merkleVars, sharedVars, storeVars>>
     \/ focus = "stores"  /\ StoreNext
        /\ UNCHANGED <<vars, vmVars, merkleVars, sharedVars, tornVars>>
  /\ UNCHANGED focus

RulesSpec == RulesInit /\ [][RulesNext]_allVars

------------------------------------------------------------------------------
(* The type invariants of the components that have variables of many shapes. *)
RulesTypeOK == TypeOK /\ VMTypeOK /\ SharedTypeOK
==============================================================================

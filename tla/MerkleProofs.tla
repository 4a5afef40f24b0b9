----------------------------- MODULE MerkleProofs -----------------------------
(***************************************************************************)
(* Merkle roots and proofs (include/merkle_proof.h) behind the routes      *)
(* /merkle/root, /merkle/proof and /merkle/verify.  generateProof and      *)
(* calcMerkleRoot run the same loop over the layers of the tree; one step  *)
(* is one turn of it.                                                      *)
(*                                                                         *)
(* Hashes do not collide: combine(l, r) is the pair itself.                *)
(***************************************************************************)
EXTENDS Naturals, Sequences, SequencesExt

CONSTANT MaxLeaves   \* bound on the number of transactions of a block

ASSUME MerkleAssumption == MaxLeaves \in Nat \ {0}

VARIABLES
  txids,      \* the transactions
  leaf,       \* proof.txIndex, counted from 0
  layer, idx, \* the loop of generateProof
  path        \* proof.path: [hash, isRight]

merkleVars == <<txids, leaf, layer, idx, path>>

Leaf(i) == <<"tx", i>>

(* Mutation: the left hash goes in twice.                                  *)
CombineLeft(l, r) == <<"both", l, l>>

Combine(l, r) == <<"both", l, r>>

(* Mutation: the first hash fills up a layer, not the last.                *)
EvenFromStart(l) == IF Len(l) % 2 = 1 THEN <<l[1]>> \o l ELSE l

(* A layer of odd length repeats its last hash.                            *)
Even(l) == IF Len(l) % 2 = 1 THEN Append(l, Last(l)) ELSE l

Above(l) == [i \in 1 .. Len(l) \div 2 |-> Combine(l[2 * i - 1], l[2 * i])]

(* Mutation: the side is that of the leaf in the first layer.              *)
SideOfLeaf(i) == leaf % 2 = 0

IsLeft(i) == i % 2 = 0
Sibling(i) == IF i % 2 = 0 THEN i + 1 ELSE i - 1

(* Climb one layer; the root is reached when one hash is left.             *)
Climb ==
  /\ Len(layer) > 1
  /\ path' = Append(path, [hash |-> Even(layer)[Sibling(idx) + 1], isRight |-> IsLeft(idx)])
  /\ layer' = Above(Even(layer))
  /\ idx' = idx \div 2
  /\ UNCHANGED <<txids, leaf>>

(* isValid and spvVerify: fold the path over the hash of the transaction.  *)
Up(current, n) ==
  IF n.isRight THEN Combine(current, n.hash) ELSE Combine(n.hash, current)

RootFrom(txid, nodes) == FoldLeft(Up, txid, nodes)

MerkleInit(lengths) ==
  /\ \E n \in lengths : txids = [i \in 1 .. n |-> Leaf(i)]
  /\ leaf \in 0 .. Len(txids) - 1
  /\ layer = txids /\ idx = leaf /\ path = << >>

MerkleNext == Climb

MerkleSpec == MerkleInit(1 .. MaxLeaves) /\ [][MerkleNext]_merkleVars

------------------------------------------------------------------------------
(* Reference and properties                                                *)

(* The tree defined from above: node j of height h, where what a layer lacks
   is its last node again; and how many leaves a full tree has. *)
Width[h \in 0 .. MaxLeaves] ==
  IF h = 0 THEN Len(txids) ELSE (Width[h - 1] + 1) \div 2
At(h, j) == IF j < Width[h] THEN j ELSE Width[h] - 1
Node[h \in 0 .. MaxLeaves] ==
  IF h = 0 THEN [j \in 0 .. MaxLeaves |-> Leaf(At(0, j) + 1)]
  ELSE [j \in 0 .. MaxLeaves |->
          Combine(Node[h - 1][2 * At(h, j)], Node[h - 1][2 * At(h, j) + 1])]
Full[h \in 0 .. MaxLeaves] == IF h = 0 THEN 1 ELSE 2 * Full[h - 1]

(* After each turn the proof so far leads from the transaction to the hash the
   loop stands on, and the layers are those of the reference tree: what
   /merkle/proof returns is accepted by /merkle/verify, for lists of odd
   lengths at any layer too. *)
ProofLeadsToRoot ==
  /\ RootFrom(txids[leaf + 1], path) = layer[idx + 1]
  /\ \A j \in 0 .. Len(layer) - 1 : layer[j + 1] = Node[Len(path)][j]

(* A proof is accepted for its own transaction only, and with as many hashes
   as the tree is high. *)
ProofIsForOne ==
  Len(layer) = 1 =>
    /\ \A t \in ToSet(txids) \ {txids[leaf + 1]} : RootFrom(t, path) # layer[1]
    /\ Len(path) > 0 => Full[Len(path) - 1] < Len(txids) /\ Len(txids) <= Full[Len(path)]

(* The proofs the node serves are those of the tree, for one leaf each. *)
ProofsAreSound == ProofLeadsToRoot /\ ProofIsForOne
==============================================================================

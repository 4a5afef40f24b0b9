----------------------------- MODULE MCChainNode -----------------------------
(***************************************************************************)
(* Finite block universes for ChainNode.  A hash is the header it commits  *)
(* to: <<index, previous hash, maker>>, so two headers never share a hash  *)
(* and any block that a miner of this node ("own") or of a peer ("peer")   *)
(* could find up to the top height exists.                                 *)
(***************************************************************************)
EXTENDS ChainNode

MCGenesis == <<0, None, "genesis">>

Children(parents, makers) == {<<p[1] + 1, p, w>> : p \in parents, w \in makers}

Height1 == Children({MCGenesis}, {"own", "peer"})
Height2 == Children(Height1, {"own", "peer"})
Height3 == Children(Height2, {"own", "peer"})

(* What a miner builds when the tip moved between its two unlocked reads.  *)
Skewed(tips) == {<<b[1], b, "own">> : b \in tips}

(* A short chain of another network.                                       *)
OtherGenesis == <<0, None, "other">>
OtherChain == <<OtherGenesis, <<1, OtherGenesis, "other">>, <<2, <<1, OtherGenesis, "other">>, "other">> >>

(* A chain that leaves out a number: its second block has that of the third. *)
Jumped == <<2, MCGenesis, "peer">>
OnJumped == {<<2, Jumped, w>> : w \in {"own", "peer"}} \cup {<<3, <<2, Jumped, w>>, "own">> : w \in {"own", "peer"}}
JumpingBranch == <<MCGenesis, Jumped, <<2, Jumped, "peer">> >>

UpTo2 == {MCGenesis} \cup Height1 \cup Height2 \cup Skewed(Height1 \cup Height2)
UpTo3 == {MCGenesis} \cup {OtherChain[i] : i \in 1 .. 3} \cup Height1 \cup Height2 \cup Height3
           \cup Skewed(Height1 \cup Height2 \cup Height3)
           \cup {Jumped} \cup OnJumped

MadeBy(blocks, w) == {b \in blocks : b[3] = w}
IndexIn(blocks) == [b \in blocks |-> b[1]]
PrevIn(blocks) == [b \in blocks |-> b[2]]

Own2 == MadeBy(UpTo2, "own")
Own3 == MadeBy(UpTo3, "own")
Index2 == IndexIn(UpTo2)
Index3 == IndexIn(UpTo3)
Prev2 == PrevIn(UpTo2)
Prev3 == PrevIn(UpTo3)
(* What peers may serve: the prefixes of two branches.                     *)
PrefixesOf(c) == {SubSeq(c, 1, k) : k \in 1 .. Len(c)}
Grow(c, w) == Append(c, <<Len(c), c[Len(c)], w>>)
PeerBranch == Grow(Grow(Grow(<<MCGenesis>>, "peer"), "peer"), "peer")
MixedBranch == Grow(Grow(Grow(<<MCGenesis>>, "own"), "peer"), "peer")
PeerServes == PrefixesOf(PeerBranch)
(* One peer whose chain does not change while the node talks to it.        *)
SteadyPeer == {SubSeq(PeerBranch, 1, 3)}
TwoNetworks == {SubSeq(PeerBranch, 1, 2), PeerBranch, OtherChain}
TwoBranches == PrefixesOf(PeerBranch) \cup PrefixesOf(MixedBranch)
TwoBranchesAndJump == TwoBranches \cup PrefixesOf(JumpingBranch)
AllKinds == TwoBranches \cup {JumpingBranch, OtherChain}
(* The third block of one branch is too large, or dated too far ahead.     *)
MCSuspect == {PeerBranch[3]}
==============================================================================

------------------------------ MODULE PeerNetwork ------------------------------
(***************************************************************************)
(* The two halves of src/p2p.cpp: what a synchronisation does to the chain *)
(* of one node (ChainNode) and how the lists of peers grow between nodes   *)
(* (Gossip).  They meet in sync_with_peers, where Gossip's round takes     *)
(* either outcome of the visit that ChainNode models, and share no         *)
(* variable; focus is the half a behaviour of this module exercises.       *)
(***************************************************************************)
EXTENDS ChainNode, Gossip

VARIABLE focus

networkVars == <<vars, gossipVars, focus>>

NetworkInit == focus \in {"chain", "lists"} /\ Init /\ GossipInit

NetworkNext ==
  /\ \/ focus = "chain" /\ Next       /\ UNCHANGED gossipVars
     \/ focus = "lists" /\ GossipNext /\ UNCHANGED vars
  /\ UNCHANGED focus

NetworkFairness ==
  LET mine(action) == focus = "lists" /\ action /\ UNCHANGED <<vars, focus>>
  IN /\ \A n \in Nodes : WF_networkVars(mine(Bootstrap(n)))
     /\ \A t \in Threads : WF_networkVars(mine(Round(t))) /\ WF_networkVars(mine(Answering(t)))
     /\ \A w \in Servers : WF_networkVars(mine(Saving(w)))

NetworkSpec == NetworkInit /\ [][NetworkNext]_networkVars /\ NetworkFairness

------------------------------------------------------------------------------
(* Every round of a node comes to its end, also when an exchange is lost or a
   list grows under the loop (p2p.cpp:251, 376): an answer adds URLs ahead of
   the cursor or behind it, never the same one twice. *)
EveryRoundEnds == focus = "lists" => RoundEnds
==============================================================================

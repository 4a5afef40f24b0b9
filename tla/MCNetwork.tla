------------------------------- MODULE MCNetwork -------------------------------
(***************************************************************************)
(* One node alone with its peers' chains; three nodes of which the third   *)
(* is up already, the first has heard of the two others, may time out and  *)
(* restart, and has the third added or removed by hand, and the third is   *)
(* told of the second.                                                     *)
(***************************************************************************)
EXTENDS MCChainNode, PeerNetwork

MCListed == [n \in Nodes |-> IF n = 1 THEN {2, 3} ELSE {}]
MCChosen == {<<1, 3>>, <<3, 2>>}
==============================================================================

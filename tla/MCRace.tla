-------------------------------- MODULE MCRace --------------------------------
(***************************************************************************)
(* A miner and a sync thread inside; outside two miners, one of them with  *)
(* a clock that is sometimes wrong.                                        *)
(***************************************************************************)
EXTENDS MCChainNode, NodeAndMiners
==============================================================================

------------------------------ MODULE MCServices ------------------------------
(***************************************************************************)
(* A stream, a page, two workers; proposals ask for no signature, for one, *)
(* or for two.                                                             *)
(***************************************************************************)
EXTENDS Services

CONSTANTS first, second
MCTxid == {first, second}
MCThreshold == {0, 1, 2}
==============================================================================

------------------------------ MODULE HashChain ------------------------------
(***************************************************************************)
(* What a MazeChain node promises about its chain, with every thread, file *)
(* and lock taken away: a log that starts at the genesis block, to which   *)
(* blocks are appended one at a time, each naming the block before it, and *)
(* of which a restart may lose a suffix.  ChainNode implements it when no  *)
(* sync thread reorganises the chain (see ChainNode and its runs).         *)
(*                                                                         *)
(* A block is identified by its hash.  The hash commits to the header      *)
(* (src/src/block.cpp, toHashString), so the index and the previous hash   *)
(* are functions of the block.                                             *)
(***************************************************************************)
EXTENDS Naturals, Sequences

CONSTANTS
  Block,    \* block hashes
  Genesis,  \* the hash of the genesis block
  Index,    \* Index[b]: the height b was built for
  Prev      \* Prev[b]: the hash b was built on

VARIABLE log

(* The links isChainValid (blockchain.cpp) walks: block i names block i-1. *)
IsLinked(c) == \A i \in 2 .. Len(c) : Prev[c[i]] = c[i - 1]

Init == log = << >>

(* A block enters only at its own height and only on the block it names.   *)
Extend == \E b \in Block :
  /\ Index[b] = Len(log)
  /\ IF log = << >> THEN b = Genesis ELSE Prev[b] = log[Len(log)]
  /\ log' = Append(log, b)

(* A restart may forget the newest blocks, never rewrite the older ones.   *)
Forget == \E k \in 0 .. Len(log) : log' = SubSeq(log, 1, k)

Next == Extend \/ Forget

Spec == Init /\ [][Next]_log
==============================================================================

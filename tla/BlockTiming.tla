------------------------------ MODULE BlockTiming ------------------------------
(***************************************************************************)
(* The rules on time: the difficulty of the next block (difficulty.h,      *)
(* Blockchain::adjustDifficulty) and the median of the last timestamps     *)
(* (Blockchain::getMedianTimePast, addBlock).                              *)
(*                                                                         *)
(* adjustDifficulty is called without a lock by mineBlock and by the block *)
(* templates, with the lock by addBlock.  It takes the height and the floor *)
(* of its era into locals, computes from the chain and the field as they   *)
(* are by then, stores the field, and compares it with the floor once more. *)
(***************************************************************************)
EXTENDS Integers, Sequences, FiniteSets

CONSTANTS
  EraLength,    \* 10000 blocks
  Window,       \* blocks between two adjustments: 100
  TargetTime,   \* 600 seconds
  MedianWindow, \* MEDIAN_TIME_WINDOW: 11
  Templates,    \* the HTTP workers that make block templates
  Gaps,         \* time between a block and the one before, as its maker dates it
  MaxHeight,    \* bound on the height of the chain
  MaxDifficulty \* bound on what repeated adjustments of one height make of it

ASSUME TimingAssumption ==
  /\ EraLength \in Nat \ {0} /\ Window \in Nat \ {0}
  /\ TargetTime \in Nat /\ MedianWindow \in Nat \ {0}
  /\ Templates \cap {"miner", "adder"} = {}
  /\ Gaps \subseteq Int /\ MaxHeight \in Nat /\ MaxDifficulty \in Nat

VARIABLES
  times,      \* the timestamps of the chain
  difficulty, \* Blockchain::difficulty
  mpc,        \* program counter of the miner
  nextIndex,  \* mineBlock's nextIndex
  target,     \* the difficulty its search runs with
  at,         \* where each call of adjustDifficulty stands
  height,     \* its nextHeight
  value,      \* what it computed and has not stored yet
  arrived,    \* the timestamp of the block in addBlock
  overrun     \* history: since the miner stored its own adjustment, another call
              \* stored one that it had begun in an earlier era

(* The threads that adjust.  "adder" is whichever thread is in addBlock: it *)
(* holds g_blockchain_mutex until it leaves.                               *)
Callers == Templates \cup {"miner", "adder"}
Locked  == at["adder"] # "out"

mining    == <<mpc, nextIndex, target>>
adjusting == <<at, height, value>>
vars      == <<times, difficulty, mining, adjusting, arrived, overrun>>

------------------------------------------------------------------------------
EraFloor(h) == IF h < EraLength THEN 4 ELSE IF h < 2 * EraLength THEN 5
               ELSE IF h < 3 * EraLength THEN 8 ELSE 9
EraCap(h)   == IF h < EraLength THEN 6 ELSE IF h < 2 * EraLength THEN 7 ELSE 9999

Clamp(d, h) == IF d < EraFloor(h) THEN EraFloor(h)
               ELSE IF d > EraCap(h) THEN EraCap(h) ELSE d

(* calculate_next_difficulty: an adjustment when h is a multiple of Window. *)
NextDifficulty(h, d, last, start) ==
  LET actual   == last - start
      expected == Window * TargetTime
  IN  IF h % Window # 0 \/ actual <= 0 \/ actual = expected THEN Clamp(d, h)
      ELSE IF actual < expected THEN Clamp(d + 1, h) ELSE Clamp(d - 1, h)

(* What adjustDifficulty computes for height h when it finds chain c and    *)
(* field d.                                                                *)
Adjusted(h, c, d) ==
  IF Len(c) > Window THEN NextDifficulty(h, d, c[Len(c)], c[Len(c) - Window + 1])
  ELSE EraFloor(h)

(* The element at position n/2 of the last n timestamps, sorted.           *)
MedianTimePast(c) ==
  LET n     == IF Len(c) < MedianWindow THEN Len(c) ELSE MedianWindow
      last  == Len(c) - n + 1 .. Len(c)
      rank  == n \div 2
  IN  IF c = << >> THEN 0
      ELSE CHOOSE t \in {c[i] : i \in last} :
             /\ Cardinality({i \in last : c[i] < t}) <= rank
             /\ Cardinality({i \in last : c[i] <= t}) > rank

------------------------------------------------------------------------------
(* Blockchain::adjustDifficulty                                            *)

MayCall(c) == at[c] = "out" /\ (c = "miner" => mpc = "adjust") /\ c # "adder"

(* A template (GET /getblocktemplate, /mining/template) is answered with what *)
(* the field holds by then, the other callers go on.                       *)
End(c) == IF c \in Templates THEN "out" ELSE "done"

Goto(c, place) ==
  /\ at' = [at EXCEPT ![c] = place]
  /\ height' = [height EXCEPT ![c] = IF place = "out" THEN 0 ELSE @]

(* Mutation: the height and its era are those of the tip.                  *)
ReadSizeOfTip(c) ==
  /\ MayCall(c)
  /\ at' = [at EXCEPT ![c] = "sized"] /\ height' = [height EXCEPT ![c] = Len(times) - 1]
  /\ UNCHANGED <<times, difficulty, mining, value, arrived, overrun>>

(* The height of the next block, and with it the floor of its era.         *)
ReadSize(c) ==
  /\ MayCall(c)
  /\ at' = [at EXCEPT ![c] = "sized"] /\ height' = [height EXCEPT ![c] = Len(times)]
  /\ UNCHANGED <<times, difficulty, mining, value, arrived, overrun>>

Compute(c) ==
  /\ at[c] = "sized" /\ Adjusted(height[c], times, difficulty) <= MaxDifficulty
  /\ Goto(c, "computed")
  /\ value' = [value EXCEPT ![c] = Adjusted(height[c], times, difficulty)]
  /\ UNCHANGED <<times, difficulty, mining, arrived, overrun>>

(* A write of the field.  The miner's own makes good what came before.     *)
Put(c, d) ==
  /\ difficulty' = d
  /\ overrun' = (c # "miner" /\ (overrun \/ EraFloor(height[c]) < EraFloor(Len(times))))

Store(c) ==
  /\ at[c] = "computed" /\ Goto(c, "stored")
  /\ Put(c, value[c])
  /\ value' = [value EXCEPT ![c] = 0]
  /\ UNCHANGED <<times, mining, arrived>>

(* The last comparison reads the field again; its store is a later access. *)
Check(c) ==
  /\ at[c] = "stored"
  /\ Goto(c, IF difficulty < EraFloor(height[c]) THEN "low" ELSE End(c))
  /\ UNCHANGED <<times, difficulty, mining, value, arrived, overrun>>

Raise(c) ==
  /\ at[c] = "low" /\ Goto(c, End(c))
  /\ Put(c, EraFloor(height[c]))
  /\ UNCHANGED <<times, mining, value, arrived>>

(* The call returns to c.                                                  *)
Return(c) == at[c] = "done" /\ Goto(c, "out") /\ UNCHANGED value

------------------------------------------------------------------------------
(* Blockchain::mineBlock                                                   *)

(* Mutation: the height of the tip.                                        *)
ReadHeightOfTip ==
  /\ mpc = "idle" /\ Len(times) <= MaxHeight
  /\ mpc' = "adjust" /\ nextIndex' = Len(times) - 1
  /\ UNCHANGED <<times, difficulty, target, adjusting, arrived, overrun>>

ReadHeight ==
  /\ mpc = "idle" /\ Len(times) <= MaxHeight
  /\ mpc' = "adjust" /\ nextIndex' = Len(times)
  /\ UNCHANGED <<times, difficulty, target, adjusting, arrived, overrun>>

(* The search takes the difficulty of this moment.                         *)
StartSearch ==
  /\ mpc = "adjust" /\ Return("miner")
  /\ target' = difficulty
  /\ mpc' = "search"
  /\ UNCHANGED <<times, difficulty, nextIndex, arrived, overrun>>

(* The locals of mineBlock go out of scope.                                *)
EndMining == mpc' = "idle" /\ nextIndex' = 0 /\ target' = 0

(* An invalid address.                                                     *)
RefuseAddress ==
  /\ mpc = "adjust" /\ Return("miner") /\ EndMining
  /\ UNCHANGED <<times, difficulty, arrived, overrun>>

(* An interrupt, or a height that has changed.                             *)
StopSearch ==
  /\ mpc = "search" /\ EndMining
  /\ UNCHANGED <<times, difficulty, adjusting, arrived, overrun>>

(* The block is dated by the node's own clock when the search begins; it is *)
(* pushed only when the chain is still as long as it was.                  *)
Commit ==
  /\ mpc = "search" /\ ~Locked /\ nextIndex = Len(times)
  /\ \E g \in Gaps : times' = Append(times, times[Len(times)] + g)
  /\ EndMining
  /\ UNCHANGED <<difficulty, adjusting, arrived, overrun>>

------------------------------------------------------------------------------
(* Blockchain::addBlock for a block from the network.  It takes the mutex, *)
(* compares the timestamp with the median and adjusts; under the mutex the *)
(* size of the chain stays what it was.                                    *)

(* Mutation: a block as old as the median is accepted.                     *)
AddBlockUndated ==
  /\ ~Locked /\ Len(times) <= MaxHeight
  /\ \E g \in Gaps :
       LET t == times[Len(times)] + g
       IN  arrived' = t
  /\ at' = [at EXCEPT !["adder"] = "sized"]
  /\ height' = [height EXCEPT !["adder"] = Len(times)]
  /\ UNCHANGED <<times, difficulty, mining, value, overrun>>

AddBlock ==
  /\ ~Locked /\ Len(times) <= MaxHeight
  /\ \E g \in Gaps :
       LET t == times[Len(times)] + g
       IN  t > MedianTimePast(times) /\ arrived' = t
  /\ at' = [at EXCEPT !["adder"] = "sized"]
  /\ height' = [height EXCEPT !["adder"] = Len(times)]
  /\ UNCHANGED <<times, difficulty, mining, value, overrun>>

PushBlock ==
  /\ Return("adder")
  /\ times' = Append(times, arrived) /\ arrived' = 0
  /\ UNCHANGED <<difficulty, mining, overrun>>

(* A checkpoint refuses the block: the field stays adjusted.               *)
RefuseBlock ==
  /\ Return("adder") /\ arrived' = 0
  /\ UNCHANGED <<times, difficulty, mining, overrun>>

Init ==
  /\ times = <<0>> /\ difficulty = 4
  /\ mpc = "idle" /\ nextIndex = 0 /\ target = 0
  /\ at = [c \in Callers |-> "out"]
  /\ height = [c \in Callers |-> 0] /\ value = [c \in Callers |-> 0]
  /\ arrived = 0 /\ overrun = FALSE

Next ==
  \/ \E c \in Callers :
       ReadSize(c) \/ Compute(c) \/ Store(c) \/ Check(c) \/ Raise(c)
  \/ ReadHeight \/ StartSearch \/ RefuseAddress \/ StopSearch \/ Commit
  \/ AddBlock \/ PushBlock \/ RefuseBlock

Spec == Init /\ [][Next]_vars

------------------------------------------------------------------------------
(* Properties                                                              *)

(* The type invariant. *)
TypeOK ==
  /\ times \in Seq(Int) /\ difficulty \in Int
  /\ mpc \in {"idle", "adjust", "search"}
  /\ nextIndex \in Nat /\ target \in Int
  /\ at \in [Callers -> {"out", "sized", "computed", "stored", "low", "done"}]
  /\ height \in [Callers -> Nat] /\ value \in [Callers -> Int]
  /\ arrived \in Int /\ overrun \in BOOLEAN
  /\ mpc # "idle" => nextIndex > 0

(* A search never runs below the floor of the era of its block
   (difficulty.h:20, "Jamais cai abaixo do piso da Era vigente"), although
   addBlock and the templates overwrite the difficulty at any moment between the
   one at which mineBlock reads the height and the one at which it reads the
   difficulty.  One order of steps breaks it, and no other: a template that began
   before the chain entered the era stores its result behind the miner's own. *)
SearchAboveFloor == mpc = "search" => target >= EraFloor(nextIndex)

SearchKeepsFloor == [][StartSearch /\ ~overrun => SearchAboveFloor']_vars

(* A block from the network never takes the median back, also when blocks of
   this node, which are not compared with it, lie in the window: what addBlock
   refused as too old stays too old. *)
MedianAdvances == [][PushBlock => MedianTimePast(times') >= MedianTimePast(times)]_vars

(* Every block is younger than the median before it (blockchain.cpp:575,
   "Blocos com timestamp <= MTP sao rejeitados"). *)
NoBlockBehindMedian ==
  \A n \in 2 .. Len(times) : times[n] > MedianTimePast(SubSeq(times, 1, n - 1))

(* The difficulty of a search depends on the chain alone: it is what a node
   that took the same blocks one by one computes (difficulty.h:19, "Ajuste
   dinamico a cada 100 blocos"). *)
Computed ==
  LET upTo[n \in 1 .. Len(times)] ==
        IF n = 1 THEN 4 ELSE Adjusted(n - 1, SubSeq(times, 1, n - 1), upTo[n - 1])
  IN  upTo[Len(times)]

AdjustedOncePerBlock ==
  mpc = "search" /\ nextIndex = Len(times) => target = Adjusted(nextIndex, times, Computed)

(* Blocks that come exactly at the target leave the difficulty alone
   (difficulty.h:57-61: it rises for blocks that come too fast). *)
OnTargetIsKept ==
  \A n \in 2 .. Len(times) :
    /\ n % Window = 0
    /\ \A i \in 2 .. n : times[i] - times[i - 1] = TargetTime
    /\ EraFloor(n) = EraFloor(n - 1)
    => Adjusted(n, SubSeq(times, 1, n), EraFloor(n)) = EraFloor(n)
==============================================================================

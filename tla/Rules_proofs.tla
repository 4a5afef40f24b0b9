------------------------------ MODULE Rules_proofs ------------------------------
(***************************************************************************)
(* Proofs about the components of Rules: the floor of the difficulty and   *)
(* the median of the timestamps, what a start makes of cut records, the    *)
(* two small stores of the workers, the files that several processes       *)
(* share, the script machine, and the Merkle trees.                        *)
(***************************************************************************)
EXTENDS Rules, SequenceTheorems, FiniteSetTheorems, WellFoundedInduction, TLAPS

(* Every non-empty set of naturals has a least element.                    *)
LEMMA NatHasLeast ==
  \A S \in SUBSET Nat : S # {} => \E x \in S : \A y \in S : x <= y
  <1> SUFFICES ASSUME NEW S \in SUBSET Nat, S # {}
               PROVE  \E x \in S : \A y \in S : x <= y
    OBVIOUS
  <1> DEFINE R == OpToRel(<, Nat)
  <1>1. IsWellFoundedOn(R, Nat)
    BY NatLessThanWellFounded, Zenon
  <1>2. ASSUME NEW x \in Nat, NEW y \in Nat, y < x PROVE <<y, x>> \in R
    BY <1>2 DEF OpToRel
  <1> HIDE DEF R
  <1>3. PICK x \in S : \A y \in S : ~ (<<y, x>> \in R)
    BY <1>1, WFMin
  <1>4. \A y \in S : x <= y
    <2> TAKE y \in S
    <2>1. ~(y < x)
      BY <1>2, <1>3
    <2> QED BY <2>1
  <1> QED BY <1>4

------------------------------------------------------------------------------
(* The floor of the difficulty, for every length of an era, every window   *)
(* and every clock.                                                        *)

LEMMA EraFloorMonotone ==
  ASSUME NEW a \in Nat, NEW b \in Nat, a <= b
  PROVE  EraFloor(a) \in Nat /\ EraFloor(a) <= EraFloor(b)
BY TimingAssumption DEF EraFloor

LEMMA ClampAboveFloor ==
  ASSUME NEW d \in Int, NEW h \in Nat
  PROVE  Clamp(d, h) \in Int /\ Clamp(d, h) >= EraFloor(h)
BY TimingAssumption DEF Clamp, EraFloor, EraCap

(* What adjustDifficulty computes is never below the floor of the era it   *)
(* looked up, whatever chain and field it finds by then.                   *)
LEMMA AdjustedAboveFloor ==
  ASSUME NEW h \in Nat, NEW c \in Seq(Int), NEW d \in Int
  PROVE  Adjusted(h, c, d) \in Int /\ Adjusted(h, c, d) >= EraFloor(h)
<1>1. EraFloor(h) \in Nat
  BY EraFloorMonotone
<1>2. NextDifficulty(h, d, c[Len(c)], c[Len(c) - Window + 1]) \in
        {Clamp(d, h), Clamp(d + 1, h), Clamp(d - 1, h)}
  BY DEF NextDifficulty
<1>3. \A e \in {d, d + 1, d - 1} : Clamp(e, h) \in Int /\ Clamp(e, h) >= EraFloor(h)
  <2>1. \A e \in {d, d + 1, d - 1} : e \in Int
    OBVIOUS
  <2>2. QED
    BY <2>1, ClampAboveFloor
<1>4. QED
  BY <1>1, <1>2, <1>3 DEF Adjusted

(* Each call: the height it read is not ahead of the chain, and what it is *)
(* about to store is not below the floor of that height.                   *)
CallInv ==
  \A c \in Callers :
    /\ at[c] # "out" => height[c] <= Len(times)
    /\ at[c] = "computed" => value[c] >= EraFloor(height[c])

(* The block in addBlock: the chain is as long as when it was compared.    *)
AddInv == Locked => arrived > MedianTimePast(times) /\ height["adder"] = Len(times)

(* The miner: the height it read is not ahead of the one it adjusts for,   *)
(* and once it has stored, only an overrun takes the field below its floor. *)
FloorInv ==
  /\ mpc # "idle" => nextIndex <= Len(times)
  /\ at["miner"] # "out" => mpc = "adjust" /\ nextIndex <= height["miner"]
  /\ at["miner"] \in {"stored", "low", "done"} /\ ~overrun => difficulty >= EraFloor(nextIndex)

IInv == TypeOK /\ Len(times) >= 1 /\ CallInv /\ AddInv /\ FloorInv

LEMMA InitIInv == Init => IInv
<1> SUFFICES ASSUME Init PROVE IInv
  OBVIOUS
<1>1. times \in Seq(Int) /\ Len(times) = 1
  BY DEF Init
<1>2. \A c \in Callers : at[c] = "out"
  BY DEF Init
<1>3. "miner" \in Callers /\ "adder" \in Callers
  BY DEF Callers
<1>4. TypeOK
  <2>1. times \in Seq(Int) /\ difficulty \in Int /\ mpc = "idle" /\ nextIndex = 0
    BY <1>1 DEF Init
  <2>2. /\ at \in [Callers -> {"out", "sized", "computed", "stored", "low", "done"}]
        /\ height \in [Callers -> Nat] /\ value \in [Callers -> Int]
    BY DEF Init
  <2>3. target \in Int /\ arrived \in Int /\ overrun \in BOOLEAN
    <3>1. target \in Int /\ arrived \in Int
      BY DEF Init
    <3>2. overrun \in BOOLEAN
      BY Zenon DEF Init
    <3> QED BY Zenon, <3>1, <3>2
  <2> QED BY <2>1, <2>2, <2>3 DEF TypeOK
<1>5. CallInv /\ AddInv /\ FloorInv
  BY <1>2, <1>3 DEF CallInv, AddInv, FloorInv, Locked, Init
<1> QED BY <1>1, <1>4, <1>5 DEF IInv

(* The step of a call inside adjustDifficulty leaves chain and miner alone. *)
Inside(c) == ReadSize(c) \/ Compute(c) \/ Store(c) \/ Check(c) \/ Raise(c)

LEMMA InsideKeeps ==
  ASSUME IInv, NEW c \in Callers, Inside(c)
  PROVE  IInv'
<1>t. /\ times \in Seq(Int) /\ difficulty \in Int /\ nextIndex \in Nat
      /\ mpc \in {"idle", "adjust", "search"} /\ target \in Int
      /\ at \in [Callers -> {"out", "sized", "computed", "stored", "low", "done"}]
      /\ height \in [Callers -> Nat] /\ value \in [Callers -> Int]
      /\ arrived \in Int /\ overrun \in BOOLEAN /\ Len(times) \in Nat
      /\ mpc # "idle" => nextIndex > 0
  BY DEF IInv, TypeOK
<1>m. "miner" \in Callers /\ "adder" \in Callers
  BY DEF Callers
<1>u. UNCHANGED <<times, mpc, nextIndex, target, arrived>>
  BY DEF Inside, ReadSize, Compute, Store, Check, Raise, mining
<1>e. End(c) \in {"out", "done"}
  BY DEF End
<1>a. /\ Adjusted(height[c], times, difficulty) \in Int
      /\ Adjusted(height[c], times, difficulty) >= EraFloor(height[c])
  BY <1>t, AdjustedAboveFloor
<1>f. /\ \A h \in Nat : EraFloor(h) \in Nat
      /\ \A g, h \in Nat : g <= h => EraFloor(g) <= EraFloor(h)
  BY EraFloorMonotone
<1>1. TypeOK'
  <2>1. CASE ReadSize(c)
    BY <2>1, <1>t, <1>u DEF ReadSize, TypeOK
  <2>2. CASE Compute(c)
    BY <2>2, <1>t, <1>u, <1>a DEF Compute, Goto, TypeOK
  <2>3. CASE Store(c)
    BY <2>3, <1>t, <1>u DEF Store, Put, Goto, TypeOK
  <2>4. CASE Check(c)
    BY <2>4, <1>t, <1>u, <1>e DEF Check, Goto, TypeOK
  <2>5. CASE Raise(c)
    <3>1. EraFloor(height[c]) \in Int
      BY <1>t, <1>f
    <3> QED BY <2>5, <3>1, <1>t, <1>u, <1>e DEF Raise, Put, Goto, TypeOK
  <2> QED BY <2>1, <2>2, <2>3, <2>4, <2>5 DEF Inside
<1>2. CallInv'
  <2> SUFFICES ASSUME NEW b \in Callers
               PROVE  /\ at'[b] # "out" => height'[b] <= Len(times)
                      /\ at'[b] = "computed" => value'[b] >= EraFloor(height'[b])
    BY <1>u DEF CallInv
  <2>0. /\ at[b] # "out" => height[b] <= Len(times)
        /\ at[b] = "computed" => value[b] >= EraFloor(height[b])
    BY DEF IInv, CallInv
  <2>1. CASE ReadSize(c)
    BY <2>1, <2>0, <1>t DEF ReadSize
  <2>2. CASE Compute(c)
    BY <2>2, <2>0, <1>t, <1>a DEF Compute, Goto
  <2>3. CASE Store(c)
    BY <2>3, <2>0, <1>t DEF Store, Goto
  <2>4. CASE Check(c)
    BY <2>4, <2>0, <1>t, <1>e DEF Check, Goto
  <2>5. CASE Raise(c)
    BY <2>5, <2>0, <1>t, <1>e DEF Raise, Goto
  <2> QED BY <2>1, <2>2, <2>3, <2>4, <2>5 DEF Inside
<1>3. AddInv'
  <2>1. at'["adder"] # "out" => at["adder"] # "out" /\ height'["adder"] = height["adder"]
    <3>1. CASE ReadSize(c)
      BY <3>1, <1>t, <1>m DEF ReadSize, MayCall
    <3>2. CASE Compute(c)
      BY <3>2, <1>t, <1>m DEF Compute, Goto
    <3>3. CASE Store(c)
      BY <3>3, <1>t, <1>m DEF Store, Goto
    <3>4. CASE Check(c)
      BY <3>4, <1>t, <1>m DEF Check, Goto
    <3>5. CASE Raise(c)
      BY <3>5, <1>t, <1>m DEF Raise, Goto
    <3> QED BY <3>1, <3>2, <3>3, <3>4, <3>5 DEF Inside
  <2>2. MedianTimePast(times)' = MedianTimePast(times) /\ Len(times)' = Len(times)
    BY <1>u
  <2> QED BY <2>1, <2>2, <1>u DEF AddInv, Locked, IInv
<1>4. FloorInv'
  <2>0. /\ mpc # "idle" => nextIndex <= Len(times)
        /\ at["miner"] # "out" => mpc = "adjust" /\ nextIndex <= height["miner"]
        /\ at["miner"] \in {"stored", "low", "done"} /\ ~overrun => difficulty >= EraFloor(nextIndex)
    BY DEF IInv, FloorInv
  <2>1. at'["miner"] # "out" => mpc = "adjust" /\ nextIndex <= height'["miner"]
    <3>1. CASE ReadSize(c)
      BY <3>1, <2>0, <1>t, <1>m DEF ReadSize, MayCall
    <3>2. CASE Compute(c)
      BY <3>2, <2>0, <1>t, <1>m DEF Compute, Goto
    <3>3. CASE Store(c)
      BY <3>3, <2>0, <1>t, <1>m DEF Store, Goto
    <3>4. CASE Check(c)
      BY <3>4, <2>0, <1>t, <1>m DEF Check, Goto
    <3>5. CASE Raise(c)
      BY <3>5, <2>0, <1>t, <1>m DEF Raise, Goto
    <3> QED BY <3>1, <3>2, <3>3, <3>4, <3>5 DEF Inside
  <2>2. ASSUME NEW d \in Int, d >= EraFloor(height[c]), Put(c, d), at[c] # "out",
               at["miner"] # "out", ~overrun'
        PROVE  difficulty' >= EraFloor(nextIndex)
    <3>1. nextIndex <= height["miner"] /\ nextIndex <= Len(times) /\ height[c] \in Nat /\ height["miner"] \in Nat
      BY <2>0, <2>2, <1>t, <1>m
    <3>2. CASE c = "miner"
      <4>1. EraFloor(nextIndex) <= EraFloor(height[c])
        BY <3>1, <3>2, <1>t, <1>f
      <4> QED BY <4>1, <2>2, <3>1, <1>t, <1>f DEF Put
    <3>3. CASE c # "miner"
      <4>1. ~(EraFloor(height[c]) < EraFloor(Len(times)))
        BY <3>3, <2>2 DEF Put
      <4>2. EraFloor(nextIndex) <= EraFloor(Len(times))
        BY <3>1, <1>t, <1>f
      <4>3. EraFloor(nextIndex) \in Nat /\ EraFloor(Len(times)) \in Nat /\ EraFloor(height[c]) \in Nat
        BY <3>1, <1>t, <1>f
      <4> QED BY <4>1, <4>2, <4>3, <2>2 DEF Put
    <3> QED BY <3>2, <3>3
  <2>3. at'["miner"] \in {"stored", "low", "done"} /\ ~overrun' => difficulty' >= EraFloor(nextIndex)
    <3>1. CASE ReadSize(c)
      BY <3>1, <2>0, <1>t, <1>m DEF ReadSize
    <3>2. CASE Compute(c)
      BY <3>2, <2>0, <1>t, <1>m DEF Compute, Goto
    <3>3. CASE Store(c)
      <4>1. value[c] \in Int /\ value[c] >= EraFloor(height[c]) /\ at[c] # "out"
        BY <3>3, <1>t DEF Store, IInv, CallInv
      <4>2. at'["miner"] # "out" => at["miner"] # "out"
        BY <3>3, <1>t, <1>m DEF Store, Goto
      <4> QED BY <3>3, <4>1, <4>2, <2>2 DEF Store
    <3>4. CASE Check(c)
      BY <3>4, <2>0, <1>t, <1>m DEF Check, Goto
    <3>5. CASE Raise(c)
      <4>1. EraFloor(height[c]) \in Int /\ EraFloor(height[c]) >= EraFloor(height[c]) /\ at[c] # "out"
        BY <3>5, <1>t, <1>f DEF Raise
      <4>2. at'["miner"] # "out" => at["miner"] # "out"
        BY <3>5, <1>t, <1>m DEF Raise, Goto
      <4> QED BY <3>5, <4>1, <4>2, <2>2 DEF Raise
    <3> QED BY <3>1, <3>2, <3>3, <3>4, <3>5 DEF Inside
  <2> QED BY <2>0, <2>1, <2>3, <1>u DEF FloorInv
<1> QED BY <1>1, <1>2, <1>3, <1>4, <1>u DEF IInv

(* A block that is pushed, by whichever thread, or a caller that goes on.  *)
LEMMA StepIInv == IInv /\ [Next]_vars => IInv'
<1> SUFFICES ASSUME IInv, [Next]_vars PROVE IInv'
  OBVIOUS
<1>t. /\ times \in Seq(Int) /\ difficulty \in Int /\ nextIndex \in Nat
      /\ mpc \in {"idle", "adjust", "search"} /\ target \in Int
      /\ at \in [Callers -> {"out", "sized", "computed", "stored", "low", "done"}]
      /\ height \in [Callers -> Nat] /\ value \in [Callers -> Int]
      /\ arrived \in Int /\ overrun \in BOOLEAN /\ Len(times) \in Nat /\ Len(times) >= 1
      /\ mpc # "idle" => nextIndex > 0
  BY DEF IInv, TypeOK
<1>m. "miner" \in Callers /\ "adder" \in Callers
  BY DEF Callers
<1>g. \A g \in Gaps : times[Len(times)] + g \in Int
  BY <1>t, TimingAssumption
<1>p. \A t \in Int : /\ Append(times, t) \in Seq(Int) /\ Len(Append(times, t)) = Len(times) + 1
  BY <1>t
<1>i. /\ \A c \in Callers : /\ at[c] # "out" => height[c] <= Len(times)
                            /\ at[c] = "computed" => value[c] >= EraFloor(height[c])
      /\ at["adder"] # "out" => arrived > MedianTimePast(times) /\ height["adder"] = Len(times)
      /\ mpc # "idle" => nextIndex <= Len(times)
      /\ at["miner"] # "out" => mpc = "adjust" /\ nextIndex <= height["miner"]
      /\ at["miner"] \in {"stored", "low", "done"} /\ ~overrun => difficulty >= EraFloor(nextIndex)
  BY DEF IInv, CallInv, AddInv, FloorInv, Locked
<1>r. ASSUME NEW c \in Callers, Return(c)
      PROVE  /\ at' \in [Callers -> {"out", "sized", "computed", "stored", "low", "done"}]
             /\ height' \in [Callers -> Nat] /\ value' = value
             /\ at'[c] = "out"
             /\ \A b \in Callers \ {c} : at'[b] = at[b] /\ height'[b] = height[b]
  BY <1>r, <1>t DEF Return, Goto
<1>1. CASE \E c \in Callers :
             ReadSize(c) \/ Compute(c) \/ Store(c) \/ Check(c) \/ Raise(c)
  BY <1>1, InsideKeeps DEF Inside
<1>2. CASE ReadHeight
  <2>1. /\ at' = at /\ height' = height /\ value' = value /\ times' = times /\ arrived' = arrived
        /\ difficulty' = difficulty /\ overrun' = overrun /\ target' = target
        /\ mpc = "idle" /\ mpc' = "adjust" /\ nextIndex' = Len(times)
    BY <1>2 DEF ReadHeight, adjusting
  <2>2. TypeOK'
    BY <2>1, <1>t DEF TypeOK
  <2>3. CallInv' /\ AddInv' /\ FloorInv'
    BY <2>1, <1>i, <1>t, <1>m DEF CallInv, AddInv, FloorInv, Locked
  <2> QED BY <2>1, <2>2, <2>3, <1>t DEF IInv
<1>3. CASE StartSearch \/ RefuseAddress
  <2>1. /\ Return("miner") /\ times' = times /\ arrived' = arrived
        /\ difficulty' = difficulty /\ overrun' = overrun
        /\ mpc' \in {"idle", "search"} /\ target' \in Int /\ nextIndex' \in {0, nextIndex}
        /\ mpc = "adjust" /\ (mpc' = "search" => nextIndex' = nextIndex)
    BY <1>3, <1>t DEF StartSearch, RefuseAddress, EndMining
  <2>2. TypeOK'
    BY <2>1, <1>r, <1>t, <1>m DEF TypeOK
  <2>3. CallInv' /\ AddInv' /\ FloorInv'
    BY <2>1, <1>r, <1>i, <1>t, <1>m DEF CallInv, AddInv, FloorInv, Locked
  <2> QED BY <2>1, <2>2, <2>3, <1>t DEF IInv
<1>4. CASE StopSearch
  <2>1. /\ at' = at /\ height' = height /\ value' = value /\ times' = times /\ arrived' = arrived
        /\ difficulty' = difficulty /\ overrun' = overrun /\ target' = 0
        /\ mpc = "search" /\ mpc' = "idle" /\ nextIndex' = 0
    BY <1>4 DEF StopSearch, EndMining, adjusting
  <2>2. TypeOK'
    BY <2>1, <1>t DEF TypeOK
  <2>3. CallInv' /\ AddInv' /\ FloorInv'
    BY <2>1, <1>i, <1>t, <1>m DEF CallInv, AddInv, FloorInv, Locked
  <2> QED BY <2>1, <2>2, <2>3, <1>t DEF IInv
<1>5. CASE Commit
  <2>1. /\ at' = at /\ height' = height /\ value' = value /\ arrived' = arrived
        /\ difficulty' = difficulty /\ overrun' = overrun /\ target' = 0
        /\ mpc = "search" /\ mpc' = "idle" /\ nextIndex' = 0 /\ at["adder"] = "out"
    BY <1>5 DEF Commit, EndMining, adjusting, Locked
  <2>2. PICK g \in Gaps : times' = Append(times, times[Len(times)] + g)
    BY <1>5 DEF Commit
  <2>3. times' \in Seq(Int) /\ Len(times') = Len(times) + 1
    BY <2>2, <1>g, <1>p
  <2>4. TypeOK'
    BY <2>1, <2>3, <1>t DEF TypeOK
  <2>5. \A c \in Callers : at[c] # "out" => height[c] <= Len(times')
    BY <2>3, <1>i, <1>t
  <2>6. CallInv' /\ AddInv' /\ FloorInv'
    BY <2>1, <2>5, <1>i, <1>t, <1>m DEF CallInv, AddInv, FloorInv, Locked
  <2> QED BY <2>3, <2>4, <2>6, <1>t DEF IInv
<1>6. CASE AddBlock
  <2>1. /\ at' = [at EXCEPT !["adder"] = "sized"] /\ height' = [height EXCEPT !["adder"] = Len(times)]
        /\ value' = value /\ times' = times /\ difficulty' = difficulty /\ overrun' = overrun
        /\ mpc' = mpc /\ nextIndex' = nextIndex /\ target' = target
        /\ arrived' \in Int /\ arrived' > MedianTimePast(times)
    BY <1>6, <1>g DEF AddBlock, mining
  <2>2. TypeOK'
    BY <2>1, <1>t DEF TypeOK
  <2>3. CallInv'
    BY <2>1, <1>i, <1>t, <1>m DEF CallInv
  <2>4. AddInv'
    BY <2>1, <1>t, <1>m DEF AddInv, Locked
  <2>5. FloorInv'
    BY <2>1, <1>i, <1>t, <1>m DEF FloorInv
  <2> QED BY <2>1, <2>2, <2>3, <2>4, <2>5, <1>t DEF IInv
<1>7. CASE PushBlock \/ RefuseBlock
  <2>1. /\ Return("adder") /\ arrived' = 0
        /\ difficulty' = difficulty /\ overrun' = overrun
        /\ mpc' = mpc /\ nextIndex' = nextIndex /\ target' = target
        /\ times' = times \/ times' = Append(times, arrived)
    BY <1>7 DEF PushBlock, RefuseBlock, mining
  <2>2. times' \in Seq(Int) /\ Len(times') \in Nat /\ Len(times') >= Len(times)
    <3>1. CASE times' = times
      BY <3>1, <1>t
    <3>2. CASE times' = Append(times, arrived)
      <4>1. times' \in Seq(Int) /\ Len(times') = Len(times) + 1
        BY <3>2, <1>p, <1>t
      <4> QED BY <4>1, <1>t
    <3> QED BY <2>1, <3>1, <3>2
  <2>3. TypeOK'
    BY <2>1, <2>2, <1>r, <1>t, <1>m DEF TypeOK
  <2>4. CallInv'
    <3> SUFFICES ASSUME NEW c \in Callers
                 PROVE  /\ at'[c] # "out" => height'[c] <= Len(times')
                        /\ at'[c] = "computed" => value'[c] >= EraFloor(height'[c])
      BY DEF CallInv
    <3>1. CASE c = "adder"
      BY <3>1, <2>1, <1>r, <1>m
    <3>2. CASE c # "adder"
      <4>1. at'[c] = at[c] /\ height'[c] = height[c] /\ value' = value
        BY <3>2, <2>1, <1>r, <1>m
      <4> QED BY <4>1, <2>2, <1>i, <1>t
    <3> QED BY <3>1, <3>2
  <2>5. AddInv'
    BY <2>1, <1>r, <1>m DEF AddInv, Locked
  <2>6. FloorInv'
    <3>1. at'["miner"] = at["miner"] /\ height'["miner"] = height["miner"]
      BY <2>1, <1>r, <1>m
    <3> QED BY <3>1, <2>1, <2>2, <1>i, <1>t DEF FloorInv
  <2> QED BY <2>2, <2>3, <2>4, <2>5, <2>6, <1>t DEF IInv
<1>8. CASE UNCHANGED vars
  <2>1. TypeOK'
    BY <1>8, <1>t DEF vars, mining, adjusting, TypeOK
  <2>2. CallInv' /\ AddInv' /\ FloorInv'
    BY <1>8, <1>i DEF vars, mining, adjusting, CallInv, AddInv, FloorInv, Locked
  <2> QED BY <1>8, <2>1, <2>2 DEF vars, IInv
<1>9. QED
  BY <1>1, <1>2, <1>3, <1>4, <1>5, <1>6, <1>7, <1>8 DEF Next

(* The state of the timing rules keeps its types. *)
THEOREM TimingTypeCorrect == Spec => []TypeOK
<1>1. IInv => TypeOK
  BY DEF IInv
<1>2. QED
  BY <1>1, InitIInv, StepIInv, PTL DEF Spec

(* A search starts at or above the floor of the era of its block
   (difficulty.h:20), whatever the templates and the network do to the
   difficulty meanwhile, step by step, unless a call that began in an earlier
   era stored behind the miner's own. *)
THEOREM SearchesKeepFloor == Spec => SearchKeepsFloor
<1>1. IInv /\ [Next]_vars => [StartSearch /\ ~overrun => SearchAboveFloor']_vars
  <2> SUFFICES ASSUME IInv, StartSearch, ~overrun PROVE SearchAboveFloor'
    OBVIOUS
  <2>1. difficulty >= EraFloor(nextIndex)
    BY DEF StartSearch, Return, IInv, FloorInv
  <2>2. target' = difficulty /\ nextIndex' = nextIndex
    BY DEF StartSearch
  <2> QED BY <2>1, <2>2 DEF SearchAboveFloor
<1> QED BY <1>1, InitIInv, StepIInv, PTL DEF Spec, SearchKeepsFloor

------------------------------------------------------------------------------
(* The median, for every window and every chain.                           *)

Upto(c, A, t)  == {i \in A : c[i] <= t}
Below(c, A, t) == {i \in A : c[i] < t}

LEMMA PartsAreFinite ==
  ASSUME NEW A, IsFiniteSet(A), NEW c, NEW t
  PROVE  /\ IsFiniteSet(Upto(c, A, t)) /\ IsFiniteSet(Below(c, A, t))
         /\ Cardinality(Upto(c, A, t)) \in Nat /\ Cardinality(Below(c, A, t)) \in Nat
         /\ Cardinality(A) \in Nat
         /\ Cardinality(Upto(c, A, t)) <= Cardinality(A)
  <1>1. Upto(c, A, t) \subseteq A /\ Below(c, A, t) \subseteq A
    BY DEF Upto, Below
  <1> QED BY <1>1, FS_Subset, FS_CardinalityType

LEMMA OneMoreIn ==
  ASSUME NEW V, IsFiniteSet(V), NEW U, U \subseteq V, NEW x \in V, x \notin U
  PROVE  Cardinality(U) < Cardinality(V)
  <1>1. U \subseteq V \ {x} /\ IsFiniteSet(V \ {x}) /\ Cardinality(V \ {x}) = Cardinality(V) - 1
    BY FS_RemoveElement
  <1>2. Cardinality(U) <= Cardinality(V \ {x}) /\ IsFiniteSet(U)
    BY <1>1, FS_Subset
  <1> QED BY <1>1, <1>2, FS_CardinalityType

(* Of finitely many times one is the latest.                               *)
LEMMA OneIsLatest ==
  ASSUME NEW A, IsFiniteSet(A), A # {}, NEW c, \A i \in A : c[i] \in Int
  PROVE  \E i \in A : \A j \in A : c[j] <= c[i]
  <1> DEFINE k(i) == Cardinality(Upto(c, A, c[i]))
             N == Cardinality(A)
             S == {N - k(i) : i \in A}
  <1>1. N \in Nat /\ \A i \in A : k(i) \in Nat /\ k(i) <= N
    BY PartsAreFinite
  <1>2. S \in SUBSET Nat /\ S # {}
    <2> HIDE DEF k, N
    <2> QED BY <1>1
  <1>3. PICK x \in S : \A y \in S : x <= y
    <2> HIDE DEF S
    <2> QED BY <1>2, NatHasLeast
  <1>4. PICK i \in A : x = N - k(i)
    BY <1>3
  <1>5. ASSUME NEW j \in A PROVE k(j) <= k(i)
    <2>1. N - k(j) \in S /\ N - k(i) <= N - k(j)
      BY <1>3, <1>4
    <2> HIDE DEF k, N
    <2> QED BY <1>1, <2>1
  <1>6. ASSUME NEW j \in A, ~(c[j] <= c[i]) PROVE FALSE
    <2> DEFINE U == Upto(c, A, c[i])
               V == Upto(c, A, c[j])
    <2>1. c[i] \in Int /\ c[j] \in Int /\ c[i] < c[j]
      BY <1>6
    <2>2. U \subseteq V /\ j \in V /\ j \notin U
      BY <2>1 DEF Upto
    <2>3. IsFiniteSet(V)
      BY PartsAreFinite
    <2> HIDE DEF U, V
    <2>4. U # V
      BY <2>2
    <2>5. Cardinality(U) < Cardinality(V)
      BY <2>2, <2>3, OneMoreIn
    <2> QED BY <1>1, <1>5, <2>5 DEF U, V
  <1> QED BY <1>6

(* t is the element at a rank of the times at A.                           *)
AtRank(c, A, rank, t) ==
  /\ Cardinality({i \in A : c[i] < t}) <= rank
  /\ Cardinality({i \in A : c[i] <= t}) > rank

LEMMA RankIsTaken ==
  ASSUME NEW A, IsFiniteSet(A), NEW c, \A i \in A : c[i] \in Int,
         NEW rank \in Nat, rank < Cardinality(A)
  PROVE  \E t \in {c[i] : i \in A} : AtRank(c, A, rank, t)
  <1> DEFINE k(i) == Cardinality(Upto(c, A, c[i]))
             B == {i \in A : k(i) > rank}
             S == {k(i) : i \in B}
  <1>1. \A i \in A : k(i) \in Nat
    BY PartsAreFinite
  <1>2. Cardinality(A) \in Nat /\ A # {}
    BY FS_CardinalityType, FS_EmptySet
  <1>3. PICK l \in A : \A j \in A : c[j] <= c[l]
    BY <1>2, OneIsLatest
  <1>4. Upto(c, A, c[l]) = A
    BY <1>3 DEF Upto
  <1>5. l \in B
    BY <1>4
  <1> HIDE DEF k
  <1>6. S \in SUBSET Nat /\ S # {}
    BY <1>1, <1>5
  <1>7. PICK x \in S : \A y \in S : x <= y
    <2> HIDE DEF S
    <2> QED BY <1>6, NatHasLeast
  <1>8. PICK i \in B : x = k(i)
    BY <1>7
  <1>9. \A j \in B : k(i) <= k(j)
    BY <1>7, <1>8
  <1> DEFINE D == Below(c, A, c[i])
  <1>10. Cardinality(D) <= rank
    <2> SUFFICES ASSUME ~(Cardinality(D) <= rank) PROVE FALSE
      OBVIOUS
    <2>1. IsFiniteSet(D) /\ Cardinality(D) \in Nat /\ D \subseteq A
      BY PartsAreFinite DEF Below
    <2>2. D # {}
      BY <2>1, FS_EmptySet
    <2> HIDE DEF D
    <2>3. PICK m \in D : \A j \in D : c[j] <= c[m]
      BY <2>1, <2>2, OneIsLatest
    <2> DEFINE U == Upto(c, A, c[m])
               V == Upto(c, A, c[i])
    <2>4. D \subseteq U
      BY <2>1, <2>3 DEF Upto
    <2>5. m \in A /\ c[m] \in Int /\ c[i] \in Int /\ c[m] < c[i]
      BY <2>1, <2>3 DEF D, Below
    <2>6. U \subseteq V /\ i \in V /\ i \notin U
      BY <2>5 DEF Upto
    <2>7. IsFiniteSet(U) /\ IsFiniteSet(V)
      BY PartsAreFinite
    <2>8. k(m) = Cardinality(U) /\ k(i) = Cardinality(V)
      BY DEF k
    <2> HIDE DEF U, V
    <2>9. Cardinality(U) < Cardinality(V)
      BY <2>6, <2>7, OneMoreIn
    <2>10. Cardinality(D) <= Cardinality(U)
      BY <2>4, <2>7, FS_Subset
    <2>11. k(m) > rank /\ k(m) < k(i)
      BY <1>1, <2>1, <2>5, <2>8, <2>9, <2>10
    <2>12. m \in B
      BY <2>5, <2>11
    <2> QED BY <1>1, <1>9, <2>5, <2>11, <2>12
  <1>11. AtRank(c, A, rank, c[i])
    BY <1>8, <1>10 DEF AtRank, k, Upto, Below
  <1> QED BY <1>8, <1>11

LastOf(c) ==
  LET n == IF Len(c) < MedianWindow THEN Len(c) ELSE MedianWindow
  IN  Len(c) - n + 1 .. Len(c)

RankOf(c) ==
  (IF Len(c) < MedianWindow THEN Len(c) ELSE MedianWindow) \div 2

LEMMA MedianIs ==
  ASSUME NEW c \in Seq(Int), c # << >>
  PROVE  /\ MedianTimePast(c) \in Int
         /\ AtRank(c, LastOf(c), RankOf(c), MedianTimePast(c))
         /\ IsFiniteSet(LastOf(c)) /\ RankOf(c) \in Nat
  <1> DEFINE n == IF Len(c) < MedianWindow THEN Len(c) ELSE MedianWindow
             A == LastOf(c)
  <1>1. Len(c) \in Nat /\ Len(c) > 0 /\ n \in Nat \ {0} /\ n <= Len(c)
    BY TimingAssumption
  <1>2. A = Len(c) - n + 1 .. Len(c) /\ RankOf(c) = n \div 2
    BY DEF LastOf, RankOf
  <1> HIDE DEF n, A
  <1>3. IsFiniteSet(A) /\ Cardinality(A) = n
    <2> DEFINE a == Len(c) - n + 1
    <2>1. a \in Int /\ Len(c) \in Int /\ a <= Len(c) /\ Len(c) - a + 1 = n
      BY <1>1
    <2> HIDE DEF a
    <2> QED BY <1>2, <2>1, FS_Interval DEF a
  <1>4. RankOf(c) \in Nat /\ RankOf(c) < n
    BY <1>1, <1>2
  <1>5. \A i \in A : c[i] \in Int
    BY <1>1, <1>2
  <1>6. \E t \in {c[i] : i \in A} : AtRank(c, A, RankOf(c), t)
    BY <1>3, <1>4, <1>5, RankIsTaken
  <1>7. MedianTimePast(c) = CHOOSE t \in {c[i] : i \in A} : AtRank(c, A, RankOf(c), t)
    BY <1>2 DEF MedianTimePast, AtRank, n
  <1>8. MedianTimePast(c) \in {c[i] : i \in A} /\ AtRank(c, A, RankOf(c), MedianTimePast(c))
    BY <1>6, <1>7
  <1> QED BY <1>3, <1>4, <1>5, <1>8 DEF A

LEMMA LaterKeepsMedian ==
  ASSUME NEW c \in Seq(Int), c # << >>, NEW t \in Int, t > MedianTimePast(c)
  PROVE  MedianTimePast(Append(c, t)) >= MedianTimePast(c)
  <1> DEFINE d == Append(c, t)
             m == MedianTimePast(c)
             z == MedianTimePast(d)
  <1>1. /\ d \in Seq(Int) /\ d # << >> /\ Len(d) = Len(c) + 1 /\ d[Len(c) + 1] = t
        /\ Len(c) \in Nat /\ \A i \in 1 .. Len(c) : d[i] = c[i]
    BY AppendProperties
  <1> HIDE DEF d
  <1>2. m \in Int /\ AtRank(c, LastOf(c), RankOf(c), m) /\ IsFiniteSet(LastOf(c)) /\ RankOf(c) \in Nat
    BY MedianIs
  <1>3. z \in Int /\ AtRank(d, LastOf(d), RankOf(d), z) /\ IsFiniteSet(LastOf(d)) /\ RankOf(d) \in Nat
    BY <1>1, MedianIs
  <1>4. /\ RankOf(c) <= RankOf(d)
        /\ LastOf(d) \subseteq LastOf(c) \cup {Len(c) + 1} /\ LastOf(c) \subseteq 1 .. Len(c)
    <2> DEFINE n == Len(c)
               a == IF n < MedianWindow THEN n ELSE MedianWindow
               b == IF n + 1 < MedianWindow THEN n + 1 ELSE MedianWindow
    <2>1. n \in Nat /\ MedianWindow \in Nat \ {0}
      BY <1>1, TimingAssumption
    <2>2. RankOf(c) = a \div 2 /\ LastOf(c) = n - a + 1 .. n
      BY DEF RankOf, LastOf
    <2>a. Len(d) = n + 1
      BY <1>1
    <2> HIDE DEF n
    <2>3. RankOf(d) = b \div 2 /\ LastOf(d) = n + 1 - b + 1 .. n + 1
      <3> DEFINE l == Len(d)
      <3>1. /\ RankOf(d) = (IF l < MedianWindow THEN l ELSE MedianWindow) \div 2
            /\ LastOf(d) = l - (IF l < MedianWindow THEN l ELSE MedianWindow) + 1 .. l
        BY DEF RankOf, LastOf
      <3> HIDE DEF l
      <3>2. l = n + 1
        BY <2>a DEF l
      <3>3. b = IF l < MedianWindow THEN l ELSE MedianWindow
        BY <3>2
      <3> HIDE DEF b
      <3> QED BY <2>1, <3>1, <3>2, <3>3
    <2>4. a \in Nat /\ b \in Nat /\ a <= b /\ b <= a + 1 /\ a <= n
      BY <2>1
    <2> HIDE DEF a, b
    <2>5. a \div 2 <= b \div 2
      BY <2>4
    <2>6. n + 1 - b + 1 >= n - a + 1
      BY <2>1, <2>4
    <2>7. LastOf(d) \subseteq LastOf(c) \cup {n + 1} /\ LastOf(c) \subseteq 1 .. n
      BY <2>1, <2>2, <2>3, <2>4, <2>6
    <2> QED BY <2>2, <2>3, <2>5, <2>7 DEF n
  <1> SUFFICES ASSUME z < m PROVE FALSE
    BY <1>2, <1>3 DEF d
  <1> HIDE DEF m, z
  <1> DEFINE U == Upto(d, LastOf(d), z)
             V == Below(c, LastOf(c), m)
  <1>6. ASSUME NEW i \in U PROVE i \in V
    <2>1. i \in LastOf(d) /\ d[i] <= z
      BY DEF Upto
    <2>2. i # Len(c) + 1
      BY <1>1, <1>2, <1>3, <2>1 DEF m
    <2>3. i \in LastOf(c) /\ i \in 1 .. Len(c)
      BY <1>4, <2>1, <2>2
    <2>4. c[i] = d[i] /\ c[i] \in Int
      BY <1>1, <2>3
    <2>5. c[i] < m
      BY <1>2, <1>3, <2>1, <2>4
    <2> QED BY <2>3, <2>5 DEF Below
  <1>7. Cardinality(U) > RankOf(d) /\ Cardinality(V) <= RankOf(c)
    BY <1>2, <1>3 DEF AtRank, Upto, Below
  <1>8. IsFiniteSet(V) /\ Cardinality(U) \in Nat /\ Cardinality(V) \in Nat
    BY <1>2, <1>3, PartsAreFinite
  <1> HIDE DEF U, V
  <1>9. Cardinality(U) <= Cardinality(V)
    BY <1>6, <1>8, FS_Subset
  <1> QED BY <1>2, <1>3, <1>4, <1>7, <1>8, <1>9

(* MedianAdvances, for every window and every clock: a block from the network
   is later than the median, so it can not push times below it into the window
   (getMedianTimePast and addBlock, blockchain.cpp). *)
THEOREM MedianStays == Spec => MedianAdvances
  <1>1. IInv /\ [Next]_vars => (PushBlock => MedianTimePast(times') >= MedianTimePast(times))
    <2> SUFFICES ASSUME IInv, PushBlock PROVE MedianTimePast(times') >= MedianTimePast(times)
      OBVIOUS
    <2>1. times \in Seq(Int) /\ times # << >> /\ arrived \in Int
      BY DEF IInv, TypeOK
    <2>2. arrived > MedianTimePast(times) /\ times' = Append(times, arrived)
      BY DEF PushBlock, Return, IInv, AddInv, Locked
    <2>3. MedianTimePast(Append(times, arrived)) >= MedianTimePast(times)
      BY <2>1, <2>2, LaterKeepsMedian
    <2> QED BY <2>2, <2>3
  <1>2. IInv /\ [Next]_vars => [PushBlock => MedianTimePast(times') >= MedianTimePast(times)]_vars
    BY <1>1
  <1> QED BY <1>2, InitIInv, StepIInv, PTL DEF Spec, MedianAdvances

------------------------------------------------------------------------------
(* What a start makes of a file whose records were cut, for any number of  *)
(* blocks, stops and blocks read out of garbage.                           *)

Entry == [block : Nat, whole : BOOLEAN]
Blocks == Nat \cup {Garbage}

(* Cut and Legible of any file.                                            *)
CutOf(e) == {i \in DOMAIN e : ~e[i].whole}
LegibleOf(e) ==
  LET n == IF CutOf(e) = {} THEN Len(e) ELSE Min(CutOf(e)) - 1
  IN  [i \in 1 .. n |-> e[i].block]

(* s begins t, block by block.                                             *)
Begins(s, t) == Len(s) <= Len(t) /\ \A i \in 1 .. Len(s) : s[i] = t[i]

------------------------------------------------------------------------------
LEMMA LeastOfNats ==
  ASSUME NEW S \in SUBSET Nat, S # {}
  PROVE  Min(S) \in S /\ \A y \in S : Min(S) <= y
  BY NatHasLeast, Zenon DEF Min

(* The legible part is a sequence of blocks that ends before the first cut. *)
LEMMA LegiblePart ==
  ASSUME NEW e \in Seq(Entry)
  PROVE  /\ LegibleOf(e) \in Seq(Nat) /\ Len(LegibleOf(e)) <= Len(e)
         /\ \A i \in 1 .. Len(LegibleOf(e)) : LegibleOf(e)[i] = e[i].block
         /\ CutOf(e) = {} => Len(LegibleOf(e)) = Len(e)
         /\ CutOf(e) # {} => /\ Len(LegibleOf(e)) + 1 \in CutOf(e)
                             /\ \A j \in CutOf(e) : Len(LegibleOf(e)) < j
  <1> DEFINE n == IF CutOf(e) = {} THEN Len(e) ELSE Min(CutOf(e)) - 1
  <1>1. CutOf(e) \in SUBSET Nat /\ CutOf(e) \subseteq 1 .. Len(e)
    BY DEF CutOf
  <1>2. /\ n \in Nat /\ n <= Len(e)
        /\ CutOf(e) # {} => n + 1 \in CutOf(e) /\ \A j \in CutOf(e) : n < j
    <2>1. CASE CutOf(e) = {}
      BY <2>1
    <2>2. CASE CutOf(e) # {}
      <3>1. Min(CutOf(e)) \in CutOf(e) /\ \A j \in CutOf(e) : Min(CutOf(e)) <= j
        BY <1>1, <2>2, LeastOfNats
      <3>2. n = Min(CutOf(e)) - 1
        BY <2>2
      <3> HIDE DEF n
      <3> QED BY <1>1, <2>2, <3>1, <3>2
    <2> QED BY <2>1, <2>2
  <1>3. CutOf(e) = {} => n = Len(e)
    OBVIOUS
  <1>4. LegibleOf(e) = [i \in 1 .. n |-> e[i].block]
    BY DEF LegibleOf
  <1> HIDE DEF n
  <1>5. \A i \in 1 .. n : e[i] \in Entry /\ e[i].block \in Nat
    <2>1. \A x \in Entry : x.block \in Nat
      BY DEF Entry
    <2>2. \A i \in 1 .. n : e[i] \in Entry
      BY <1>2
    <2> QED BY <2>1, <2>2
  <1>6. LegibleOf(e) \in Seq(Nat) /\ Len(LegibleOf(e)) = n
    BY <1>2, <1>4, <1>5
  <1>7. \A i \in 1 .. n : LegibleOf(e)[i] = e[i].block
    BY <1>4
  <1> QED BY <1>2, <1>3, <1>6, <1>7

LEMMA PrefixFromBegins ==
  ASSUME NEW s \in Seq(Blocks), NEW t \in Seq(Blocks), Begins(s, t)
  PROVE  IsPrefix(s, t)
  <1>1. Len(SubSeq(s, 1, Len(s))) = Len(s) /\ Len(SubSeq(t, 1, Len(s))) = Len(s)
    BY DEF Begins
  <1>2. \A i \in 1 .. Len(s) : SubSeq(s, 1, Len(s))[i] = SubSeq(t, 1, Len(s))[i]
    BY DEF Begins
  <1>3. SubSeq(s, 1, Len(s)) = SubSeq(t, 1, Len(s))
    BY <1>1, <1>2 DEF Begins
  <1> QED BY <1>3 DEF IsPrefix, Begins

------------------------------------------------------------------------------
TornTypes ==
  /\ entries \in Seq(Entry) /\ memory \in Seq(Blocks)
  /\ sealed \in BOOLEAN /\ made \in Nat
  /\ life \in {"off", "reading", "empty", "sealed", "up"}

(* The checkpoint of the genesis is on disk before the file is, and block 0 *)
(* is the first of the file, cut or not.                                   *)
SealedFirst ==
  /\ ~sealed => entries = << >> /\ life \in {"off", "reading", "empty"}
  /\ entries # << >> => entries[1].block = 0

(* A process that is up has a genesis, a file, and the legible part of it.  *)
Resumed ==
  life = "up" =>
    /\ entries # << >> /\ memory # << >> /\ memory[1] = 0
    /\ Begins(LegibleOf(entries), memory)
    /\ CutOf(entries) = {} => memory = LegibleOf(entries)

TornInv == TornTypes /\ SealedFirst /\ Resumed

LEMMA OfEntries == Cut = CutOf(entries) /\ Legible = LegibleOf(entries)
  BY DEF Cut, CutOf, Legible, LegibleOf

LEMMA TornStart == TornInit => TornInv
  <1> SUFFICES ASSUME TornInit PROVE TornInv
    OBVIOUS
  <1>1. << >> \in Seq(Entry) /\ << >> \in Seq(Blocks)
    BY EmptySeq
  <1>2. TornTypes
    BY <1>1 DEF TornInit, TornTypes
  <1>3. SealedFirst /\ Resumed
    BY DEF TornInit, SealedFirst, Resumed
  <1> QED BY <1>2, <1>3 DEF TornInv

(* What the loader takes begins with the legible part and has the genesis   *)
(* first, if it is anything at all.                                        *)
LEMMA ReadIsSound ==
  ASSUME TornInv, NEW read \in Recovered
  PROVE  /\ read \in Seq(Blocks)
         /\ read # << >> => entries # << >> /\ read[1] = 0
         /\ Begins(LegibleOf(entries), read)
         /\ CutOf(entries) = {} => read = LegibleOf(entries)
  <1> DEFINE L == LegibleOf(entries)
  <1>1. PICK n \in 0 .. MaxGarbage : \E rest \in [1 .. n -> {0, Garbage}] :
          /\ read = L \o rest
          /\ CutOf(entries) = {} => rest = << >>
          /\ L = << >> /\ sealed /\ rest # << >> => rest[1] = 0
    BY OfEntries, Zenon DEF Recovered
  <1>2. PICK rest \in [1 .. n -> {0, Garbage}] :
          /\ read = L \o rest
          /\ CutOf(entries) = {} => rest = << >>
          /\ L = << >> /\ sealed /\ rest # << >> => rest[1] = 0
    BY <1>1
  <1>3. rest \in Seq(Blocks)
    BY TearAssumption DEF Blocks
  <1>4. /\ L \in Seq(Nat) /\ L \in Seq(Blocks) /\ Len(L) <= Len(entries)
        /\ \A i \in 1 .. Len(L) : L[i] = entries[i].block
        /\ CutOf(entries) = {} => Len(L) = Len(entries)
    BY LegiblePart DEF TornInv, TornTypes, Blocks
  <1> HIDE DEF L
  <1>5. read \in Seq(Blocks) /\ Begins(L, read)
    BY <1>2, <1>3, <1>4 DEF Begins
  <1>6. CutOf(entries) = {} => read = L
    BY <1>2, <1>3, <1>4
  <1>7. ASSUME read # << >> PROVE entries # << >> /\ read[1] = 0
    <2>1. CASE L # << >>
      <3>2. Len(L) # 0 /\ Len(L) \in Nat
        BY <1>4, <2>1
      <3>4. entries # << >> /\ L[1] = entries[1].block
        BY <1>4, <3>2 DEF TornInv, TornTypes
      <3>1. L[1] = 0
        BY <3>4 DEF TornInv, SealedFirst
      <3>3. read[1] = L[1]
        <4>1. 1 \in 1 .. Len(L)
          BY <3>2
        <4> QED BY <1>5, <4>1 DEF Begins
      <3> QED BY <3>1, <3>3, <3>4
    <2>2. CASE L = << >>
      <3>1. read = rest
        BY <1>2, <1>3, <2>2
      <3>2. entries # << >>
        <4> SUFFICES ASSUME entries = << >> PROVE FALSE
          OBVIOUS
        <4>1. CutOf(entries) = {}
          BY DEF CutOf
        <4> QED BY <4>1, <1>2, <1>7, <3>1
      <3>3. sealed
        BY <3>2 DEF TornInv, SealedFirst, TornTypes
      <3> QED BY <1>2, <1>7, <2>2, <3>1, <3>2, <3>3
    <2> QED BY <2>1, <2>2
  <1> QED BY <1>5, <1>6, <1>7 DEF L

(* A record appended to the file lengthens the legible part, unless it      *)
(* stands behind a cut.                                                    *)
LEMMA LegibleGrows ==
  ASSUME NEW e \in Seq(Entry), NEW b \in Nat
  PROVE  LET f == Append(e, [block |-> b, whole |-> TRUE]) IN
         /\ f \in Seq(Entry) /\ CutOf(f) = CutOf(e)
         /\ LegibleOf(f) = IF CutOf(e) = {} THEN Append(LegibleOf(e), b) ELSE LegibleOf(e)
  <1> DEFINE new == [block |-> b, whole |-> TRUE]
             f   == Append(e, new)
  <1>1. new \in Entry /\ new.whole /\ new.block = b
    BY DEF Entry
  <1> HIDE DEF new
  <1>2. f \in Seq(Entry) /\ Len(f) = Len(e) + 1 /\ f[Len(e) + 1] = new
        /\ \A i \in 1 .. Len(e) : f[i] = e[i]
    BY <1>1
  <1>3. CutOf(f) = CutOf(e)
    BY <1>1, <1>2 DEF CutOf
  <1> HIDE DEF f
  <1> DEFINE L == LegibleOf(e)
             M == LegibleOf(f)
  <1>a. /\ L \in Seq(Nat) /\ Len(L) <= Len(e)
        /\ \A i \in 1 .. Len(L) : L[i] = e[i].block
        /\ CutOf(e) = {} => Len(L) = Len(e)
        /\ CutOf(e) # {} => Len(L) + 1 \in CutOf(e) /\ \A j \in CutOf(e) : Len(L) < j
    BY LegiblePart
  <1>b. /\ M \in Seq(Nat) /\ Len(M) <= Len(f)
        /\ \A i \in 1 .. Len(M) : M[i] = f[i].block
        /\ CutOf(f) = {} => Len(M) = Len(f)
        /\ CutOf(f) # {} => Len(M) + 1 \in CutOf(f) /\ \A j \in CutOf(f) : Len(M) < j
    BY <1>2, LegiblePart
  <1> HIDE DEF L, M
  <1>4. CASE CutOf(e) = {}
    <2>1. Len(M) = Len(e) + 1 /\ Len(L) = Len(e)
      BY <1>2, <1>3, <1>4, <1>a, <1>b
    <2>2. Append(L, b) \in Seq(Nat) /\ Len(Append(L, b)) = Len(M)
      BY <1>a, <2>1
    <2>3. \A i \in 1 .. Len(M) : M[i] = Append(L, b)[i]
      BY <1>1, <1>2, <1>a, <1>b, <2>1
    <2>4. M = Append(L, b)
      BY <1>b, <2>2, <2>3, SeqEqual
    <2> QED BY <1>2, <1>3, <1>4, <2>4 DEF f, new, L, M
  <1>5. CASE CutOf(e) # {}
    <2>1. Len(M) = Len(L)
      BY <1>3, <1>5, <1>a, <1>b
    <2>2. ASSUME NEW i \in 1 .. Len(M) PROVE M[i] = L[i]
      <3>1. i \in 1 .. Len(L) /\ i \in 1 .. Len(e)
        BY <1>a, <2>1
      <3>2. M[i] = f[i].block /\ L[i] = e[i].block /\ f[i] = e[i]
        BY <1>2, <1>a, <1>b, <3>1
      <3> QED BY <3>2
    <2>3. M = L
      BY <1>a, <1>b, <2>1, <2>2, SeqEqual
    <2> QED BY <1>2, <1>3, <1>5, <2>3 DEF f, new, L, M
  <1> QED BY <1>4, <1>5

LEMMA TornStep == TornInv /\ [TornNext]_tornVars => TornInv'
  <1> SUFFICES ASSUME TornInv, [TornNext]_tornVars PROVE TornInv'
    OBVIOUS
  <1> USE DEF TornInv
  <1>1. CASE Boot
    BY <1>1 DEF Boot, TornTypes, SealedFirst, Resumed
  <1>2. CASE ReadAll
    <2>1. /\ memory' \in Recovered /\ life' \in {"empty", "up"}
          /\ life' = "up" => memory' # << >>
          /\ life = "reading" /\ UNCHANGED <<entries, sealed, made>>
      BY <1>2 DEF ReadAll
    <2>2. /\ memory' \in Seq(Blocks) /\ Begins(LegibleOf(entries), memory')
          /\ memory' # << >> => entries # << >> /\ memory'[1] = 0
          /\ CutOf(entries) = {} => memory' = LegibleOf(entries)
      BY <2>1, ReadIsSound
    <2>3. entries # << >> => sealed
      BY DEF SealedFirst, TornTypes
    <2>4. Resumed'
      BY <2>1, <2>2 DEF Resumed
    <2> QED BY <2>1, <2>2, <2>3, <2>4 DEF TornTypes, SealedFirst
  <1>3. CASE ReadFails
    BY <1>3 DEF ReadFails, TornTypes, SealedFirst, Resumed
  <1>4. CASE SealGenesis
    BY <1>4 DEF SealGenesis, TornTypes, SealedFirst, Resumed
  <1>5. CASE WriteGenesis
    <2> DEFINE first == [block |-> 0, whole |-> TRUE]
    <2>1. first \in Entry /\ first.block = 0 /\ first.whole
      BY DEF Entry
    <2>2. /\ life' = "up" /\ sealed /\ memory' = <<0>> /\ entries' = <<first>>
          /\ UNCHANGED <<sealed, made>>
      BY <1>5 DEF WriteGenesis, SealedFirst, TornTypes
    <2> HIDE DEF first
    <2>3. entries' \in Seq(Entry) /\ Len(entries') = 1 /\ entries'[1] = first
      BY <2>1, <2>2
    <2>4. CutOf(entries') = {}
      BY <2>1, <2>3 DEF CutOf
    <2>5. LegibleOf(entries') = <<0>>
      <3>1. /\ LegibleOf(entries') \in Seq(Nat) /\ Len(LegibleOf(entries')) = 1
            /\ LegibleOf(entries')[1] = 0
        BY <2>1, <2>3, <2>4, LegiblePart
      <3> QED BY <3>1
    <2>6. memory' \in Seq(Blocks) /\ memory' # << >> /\ memory'[1] = 0
      BY <2>2 DEF Blocks
    <2>7. Resumed'
      <3>1. Begins(LegibleOf(entries'), memory') /\ memory' = LegibleOf(entries')
        BY <2>2, <2>5 DEF Begins
      <3>2. entries' # << >>
        BY <2>3
      <3> QED BY <2>6, <3>1, <3>2 DEF Resumed
    <2> QED BY <2>1, <2>2, <2>3, <2>6, <2>7 DEF TornTypes, SealedFirst
  <1>6. CASE MineRecord
    <2> DEFINE f == Append(entries, [block |-> made', whole |-> TRUE])
    <2>1. /\ life = "up" /\ made' = made + 1 /\ memory' = Append(memory, made')
          /\ entries' = f /\ UNCHANGED <<sealed, life>>
      BY <1>6 DEF MineRecord
    <2>2. made' \in Nat /\ made' \in Blocks
      BY <2>1 DEF TornTypes, Blocks
    <2>3. /\ f \in Seq(Entry) /\ CutOf(f) = CutOf(entries)
          /\ LegibleOf(f) = IF CutOf(entries) = {} THEN Append(LegibleOf(entries), made')
                            ELSE LegibleOf(entries)
      BY <2>2, LegibleGrows DEF TornTypes
    <2>4. f # << >> /\ f[1] = entries[1] /\ entries # << >>
      BY <2>1, <2>2 DEF TornTypes, Resumed, Entry
    <2>5. LegibleOf(entries) \in Seq(Nat)
      BY LegiblePart DEF TornTypes
    <2> HIDE DEF f
    <2>6. Resumed'
      <3>1. CASE CutOf(entries) = {}
        <4>1. memory' = LegibleOf(entries')
          BY <2>1, <2>3, <3>1 DEF Resumed
        <4>2. memory' # << >> /\ memory'[1] = 0 /\ memory' \in Seq(Blocks)
          BY <2>1, <2>2 DEF Resumed, TornTypes
        <4>3. entries' # << >>
          BY <2>1, <2>4
        <4>4. Begins(LegibleOf(entries'), memory')
          BY <4>1, <4>2 DEF Begins
        <4> QED BY <4>1, <4>2, <4>3, <4>4 DEF Resumed
      <3>2. CASE CutOf(entries) # {}
        <4>1. LegibleOf(entries') = LegibleOf(entries) /\ CutOf(entries') # {}
          BY <2>1, <2>3, <3>2
        <4>2. memory' # << >> /\ memory'[1] = 0 /\ Begins(LegibleOf(entries), memory')
          BY <2>1, <2>2, <2>5 DEF Resumed, TornTypes, Begins
        <4>3. entries' # << >>
          BY <2>1, <2>4
        <4> QED BY <4>1, <4>2, <4>3 DEF Resumed
      <3> QED BY <3>1, <3>2
    <2>7. TornTypes'
      BY <2>1, <2>2, <2>3 DEF TornTypes
    <2>8. SealedFirst'
      BY <2>1, <2>4 DEF SealedFirst, TornTypes
    <2> QED BY <2>6, <2>7, <2>8
  <1>7. CASE Break
    <2>1. life' = "off" /\ memory' = << >> /\ UNCHANGED sealed
      BY <1>7 DEF Break
    <2>2. CASE UNCHANGED <<entries, made>>
      BY <2>1, <2>2 DEF TornTypes, SealedFirst, Resumed
    <2>3. CASE life = "sealed" /\ entries' \in {<< >>, <<[block |-> 0, whole |-> FALSE]>>}
               /\ UNCHANGED made
      <3> DEFINE cut == [block |-> 0, whole |-> FALSE]
      <3>1. cut \in Entry /\ cut.block = 0
        BY DEF Entry
      <3>2. entries' \in {<< >>, <<cut>>}
        BY <2>3
      <3> HIDE DEF cut
      <3>3. entries' \in Seq(Entry) /\ (entries' # << >> => entries'[1].block = 0)
        <4>1. CASE entries' = << >>
          BY <4>1, EmptySeq
        <4>2. CASE entries' = <<cut>>
          BY <4>2, <3>1
        <4> QED BY <3>2, <4>1, <4>2
      <3>4. sealed
        BY <2>3 DEF SealedFirst, TornTypes
      <3>5. memory' \in Seq(Blocks)
        BY <2>1
      <3> QED BY <2>1, <2>3, <3>3, <3>4, <3>5 DEF TornTypes, SealedFirst, Resumed
    <2>4. CASE life = "up" /\ made' = made + 1
               /\ entries' = Append(entries, [block |-> made', whole |-> FALSE])
      <3> DEFINE new == [block |-> made', whole |-> FALSE]
      <3>1. made' \in Nat /\ new \in Entry
        BY <2>4 DEF TornTypes, Entry
      <3>2. entries' = Append(entries, new)
        BY <2>4
      <3> HIDE DEF new
      <3>3. entries' \in Seq(Entry) /\ entries'[1] = entries[1] /\ entries # << >>
        BY <2>4, <3>1, <3>2 DEF TornTypes, Resumed
      <3> QED BY <2>1, <2>4, <3>1, <3>3 DEF TornTypes, SealedFirst, Resumed
    <2> QED BY <1>7, <2>2, <2>3, <2>4 DEF Break
  <1>8. CASE UNCHANGED tornVars
    BY <1>8 DEF tornVars, TornTypes, SealedFirst, Resumed
  <1> QED
    BY <1>1, <1>2, <1>3, <1>4, <1>5, <1>6, <1>7, <1>8 DEF TornNext

------------------------------------------------------------------------------
(* Wherever a process is cut off, and whatever the loader makes of the      *)
(* remains, the next process has what was whole, from the genesis of this   *)
(* network on (TornRecords!RecordsSurvive; storage.cpp:198-257).            *)
THEOREM WholeRecordsComeBack == TornSpec => []RecordsSurvive
  <1>1. ASSUME TornInv PROVE RecordsSurvive
    <2>1. ASSUME life = "up" PROVE IsPrefix(Legible, memory)
      <3>1. LegibleOf(entries) \in Seq(Blocks) /\ memory \in Seq(Blocks)
        BY <1>1, LegiblePart DEF TornInv, TornTypes, Blocks
      <3>2. Begins(LegibleOf(entries), memory)
        BY <1>1, <2>1 DEF TornInv, Resumed
      <3> QED BY <3>1, <3>2, PrefixFromBegins, OfEntries
    <2> QED
      BY <1>1, <2>1, OfEntries
      DEF TornInv, Resumed, RecordsSurvive, WholeRecordsSurvive, GenesisIsMadeAnew
  <1> QED BY <1>1, TornStart, TornStep, PTL DEF TornSpec

------------------------------------------------------------------------------
(* No label is lost between two starts, and no template repeats an extra   *)
(* nonce, for any number of workers, addresses and requests.               *)

Stage == {"idle", "save", "write", "hex", "id", "reply"}

Desk == [at : Stage, address : Addresses \cup {NoLabel}, floor : Nat, hex : Nat, id : Nat]

StoreTypes ==
  /\ labels \in [Addresses -> Labels \cup {NoLabel}]
  /\ labelFile \in [Addresses -> Labels \cup {NoLabel}]
  /\ labelMutex \subseteq Desks
  /\ extraNonce1 \in Nat /\ highest \in Nat /\ calls \in Nat /\ stops \in Nat
  /\ desk \in [Desks -> Desk]

(* The counter never wraps, and whoever is on the way to an answer took its *)
(* number after the floor of its request was passed.                       *)
Climbing ==
  /\ highest <= extraNonce1 /\ extraNonce1 <= calls /\ calls <= MaxCalls
  /\ \A w \in Desks :
       /\ desk[w].at = "hex"   => desk[w].floor < extraNonce1
       /\ desk[w].at = "id"    => desk[w].floor < desk[w].hex /\ desk[w].hex <= extraNonce1
       /\ desk[w].at = "reply" =>
            /\ desk[w].floor < desk[w].hex /\ desk[w].hex <= desk[w].id
            /\ desk[w].id <= extraNonce1

StoreInv == StoreTypes /\ Climbing /\ LabelsAreSaved

------------------------------------------------------------------------------
LEMMA LargerOfTwo ==
  ASSUME NEW a \in Nat, NEW b \in Nat PROVE Max({a, b}) \in {a, b} /\ Max({a, b}) >= a /\ Max({a, b}) >= b
  <1> DEFINE P(x) == x \in {a, b} /\ \A y \in {a, b} : x >= y
  <1>1. P(a) \/ P(b)
    OBVIOUS
  <1>2. PICK x : P(x)
    BY <1>1
  <1>3. P(CHOOSE z : P(z))
    BY <1>2
  <1>4. Max({a, b}) = CHOOSE z \in {a, b} : \A y \in {a, b} : z >= y
    BY DEF Max
  <1>5. Max({a, b}) \in {a, b} /\ \A y \in {a, b} : Max({a, b}) >= y
    BY <1>2, <1>4
  <1> QED BY <1>5

LEMMA NoWrap ==
  ASSUME NEW n \in Nat, n < NonceRange PROVE n % NonceRange = n
  BY StoreAssumption

Hexed(d, n)    == [d EXCEPT !.at = "id", !.hex = n]
Numbered(d, n) == [d EXCEPT !.at = "reply", !.id = n]

LEMMA DeskFields ==
  ASSUME NEW d \in Desk, NEW n \in Nat
  PROVE  /\ Hexed(d, n) \in Desk /\ Hexed(d, n).at = "id"
         /\ Hexed(d, n).hex = n /\ Hexed(d, n).floor = d.floor
         /\ Numbered(d, n) \in Desk /\ Numbered(d, n).at = "reply"
         /\ Numbered(d, n).id = n /\ Numbered(d, n).floor = d.floor
         /\ Numbered(d, n).hex = d.hex
         /\ d.floor \in Nat /\ d.hex \in Nat /\ d.id \in Nat
  BY DEF Desk, Stage, Hexed, Numbered

LEMMA StoreStarts == StoreInit => StoreInv
  BY StoreAssumption
  DEF StoreInit, StoreInv, StoreTypes, Climbing, LabelsAreSaved, Desk, Stage, Idle, NoLabels

LEMMA StoreStep == StoreInv /\ [StoreNext]_storeVars => StoreInv'
  <1> SUFFICES ASSUME StoreInv, [StoreNext]_storeVars PROVE StoreInv'
    OBVIOUS
  <1> USE StoreAssumption DEF StoreInv, StoreTypes, Climbing, LabelsAreSaved
  <1>0. \A w \in Desks : /\ desk[w] \in Desk
                         /\ desk[w].floor \in Nat /\ desk[w].hex \in Nat /\ desk[w].id \in Nat
    BY DeskFields
  <1>1. ASSUME NEW w \in Desks, NEW a \in Addresses, NEW l \in Labels, SetLabel(w, a, l)
        PROVE  StoreInv'
    <2> DEFINE new == [Idle EXCEPT !.at = "save", !.address = a]
    <2>0. new \in Desk /\ new.at = "save" /\ new.address = a
      BY DEF Idle, Desk, Stage
    <2>1. /\ desk[w].at = "idle" /\ calls' = calls + 1 /\ calls' <= MaxCalls
          /\ labels' = [labels EXCEPT ![a] = l] /\ labelMutex = {}
          /\ desk' = [desk EXCEPT ![w] = new]
          /\ UNCHANGED <<labelFile, labelMutex, extraNonce1, highest, stops>>
      BY <1>1 DEF SetLabel, Call
    <2>2. desk'[w] = new /\ \A v \in Desks \ {w} : desk'[v] = desk[v]
      BY <2>1
    <2> HIDE DEF new
    <2>3. StoreTypes'
      BY <2>0, <2>1
    <2>4. Climbing'
      BY <1>0, <2>0, <2>1, <2>2
    <2>5. LabelsAreSaved'
      BY <2>0, <2>1, <2>2
    <2> QED BY <2>3, <2>4, <2>5
  <1>2. ASSUME NEW w \in Desks, OpenLabels(w) PROVE StoreInv'
    BY <1>2 DEF OpenLabels, Turn, NoLabels, Desk, Stage
  <1>3. ASSUME NEW w \in Desks, WriteLabels(w) PROVE StoreInv'
    BY <1>3 DEF WriteLabels, Idle, Desk, Stage
  <1>4. ASSUME NEW w \in Desks, NextExtraNonce(w) PROVE StoreInv'
    <2>1. extraNonce1' = extraNonce1 + 1
      BY <1>4, NoWrap DEF NextExtraNonce, Call
    <2> DEFINE new == [Idle EXCEPT !.at = "hex", !.floor = highest]
    <2>0. new \in Desk /\ new.at = "hex" /\ new.floor = highest
      BY DEF Idle, Desk, Stage
    <2>2. /\ desk[w].at = "idle" /\ calls' = calls + 1 /\ calls' <= MaxCalls
          /\ desk' = [desk EXCEPT ![w] = new]
          /\ UNCHANGED <<labels, labelFile, labelMutex, highest, stops>>
      BY <1>4 DEF NextExtraNonce, Call
    <2>3. desk'[w] = new /\ \A v \in Desks \ {w} : desk'[v] = desk[v]
      BY <2>2
    <2> HIDE DEF new
    <2>4. StoreTypes'
      BY <2>0, <2>1, <2>2
    <2>5. Climbing'
      BY <1>0, <2>0, <2>1, <2>2, <2>3
    <2>6. LabelsAreSaved'
      BY <2>0, <2>2, <2>3
    <2> QED BY <2>4, <2>5, <2>6
  <1>5. ASSUME NEW w \in Desks, LoadHex(w) PROVE StoreInv'
    <2> DEFINE new == Hexed(desk[w], extraNonce1)
    <2>0. /\ new \in Desk /\ new.at = "id" /\ new.hex = extraNonce1
          /\ new.floor = desk[w].floor
      BY <1>0, DeskFields
    <2>1. /\ desk[w].at = "hex" /\ desk' = [desk EXCEPT ![w] = new]
          /\ UNCHANGED <<labels, labelFile, labelMutex, extraNonce1, highest, calls, stops>>
      BY <1>5 DEF LoadHex, Hexed
    <2>2. desk'[w] = new /\ \A v \in Desks \ {w} : desk'[v] = desk[v]
      BY <2>1
    <2> HIDE DEF new
    <2>3. StoreTypes'
      BY <2>0, <2>1
    <2>4. Climbing'
      BY <1>0, <2>0, <2>1, <2>2
    <2>5. LabelsAreSaved'
      BY <2>0, <2>1, <2>2
    <2> QED BY <2>3, <2>4, <2>5
  <1>6. ASSUME NEW w \in Desks, LoadId(w) PROVE StoreInv'
    <2> DEFINE new == Numbered(desk[w], extraNonce1)
    <2>0. /\ new \in Desk /\ new.at = "reply" /\ new.id = extraNonce1
          /\ new.floor = desk[w].floor /\ new.hex = desk[w].hex
      BY <1>0, DeskFields
    <2>1. /\ desk[w].at = "id" /\ desk' = [desk EXCEPT ![w] = new]
          /\ UNCHANGED <<labels, labelFile, labelMutex, extraNonce1, highest, calls, stops>>
      BY <1>6 DEF LoadId, Numbered
    <2>2. desk'[w] = new /\ \A v \in Desks \ {w} : desk'[v] = desk[v]
      BY <2>1
    <2> HIDE DEF new
    <2>3. StoreTypes'
      BY <2>0, <2>1
    <2>4. Climbing'
      BY <1>0, <2>0, <2>1, <2>2
    <2>5. LabelsAreSaved'
      BY <2>0, <2>1, <2>2
    <2> QED BY <2>3, <2>4, <2>5
  <1>7. ASSUME NEW w \in Desks, SendTemplate(w) PROVE StoreInv'
    <2>1. highest' \in {highest, desk[w].id}
      BY <1>0, <1>7, LargerOfTwo DEF SendTemplate, Desk
    <2> QED BY <1>7, <2>1 DEF SendTemplate, Idle, Desk, Stage
  <1>8. CASE RestartStores
    BY <1>8 DEF RestartStores, Idle, NoLabels, Desk, Stage
  <1>9. CASE UNCHANGED storeVars
    BY <1>9 DEF storeVars
  <1> QED
    BY <1>1, <1>2, <1>3, <1>4, <1>5, <1>6, <1>7, <1>8, <1>9 DEF StoreNext

------------------------------------------------------------------------------
(* However setLabel and saveLabels of any number of requests interleave,   *)
(* the labels file is behind the labels only where a save is under way.    *)
THEOREM NoLabelIsForgotten == StoreSpec => []LabelsAreSaved
  <1>1. StoreInv => LabelsAreSaved
    BY DEF StoreInv
  <1> QED BY <1>1, StoreStarts, StoreStep, PTL DEF StoreSpec

(* A template never carries an extra nonce that was answered before its    *)
(* request came in.                                                        *)
THEOREM NoExtraNonceReturns == StoreSpec => []TemplateIsFresh
  <1>1. StoreInv => TemplateIsFresh
    BY DEF StoreInv, Climbing, TemplateIsFresh
  <1> QED BY <1>1, StoreStarts, StoreStep, PTL DEF StoreSpec

(* Both together (WorkerStores!StoresAreSafe), for any number of workers and
   addresses (main.cpp:2072, 2317). *)
THEOREM StoresStaySafe == StoreSpec => []StoresAreSafe
  <1> QED BY NoLabelIsForgotten, NoExtraNonceReturns, PTL DEF StoresAreSafe

------------------------------------------------------------------------------
(* Files that processes share.                                             *)

(* A block is what its makers made, one after the other.                   *)
Made == Seq(Processes \cup {Peer})

Heights(c)      == \A i \in 1 .. Len(c) : Len(c[i]) = i - 1
OnePerHeight(m) == \A x, y \in m : Len(x) = Len(y) => x = y

(* What a process has to write are parts of the checkpoints m it has by     *)
(* then, all of them in the end.                                           *)
Queued(s, m) == s \in Seq(SUBSET m) /\ (s # << >> => s[Len(s)] = m)

(* What addBlock makes of blocks of S and the checkpoints K: one block per  *)
(* height, and a checkpoint for each that halves, saved with the known.    *)
Sound(state, K, S) ==
  /\ state.chain \in Seq(S) /\ Heights(state.chain) /\ OnePerHeight(state.marks)
  /\ state.marks =
       K \cup {state.chain[i] : i \in {j \in 1 .. Len(state.chain) : IsHalving(state.chain[j])}}
  /\ Queued(state.saves, state.marks)
  /\ \A i \in 1 .. Len(state.saves) : K \subseteq state.saves[i]

LEMMA QueueGrows ==
  ASSUME NEW m, NEW n, m \subseteq n, NEW s, Queued(s, m)
  PROVE  /\ Queued(Append(s, n), n) /\ Len(Append(s, n)) = Len(s) + 1 /\ Len(s) \in Nat
         /\ Append(s, n)[Len(s) + 1] = n
         /\ \A i \in 1 .. Len(s) : Append(s, n)[i] = s[i]
  <1>1. s \in Seq(SUBSET m)
    BY DEF Queued
  <1>2. s \in Seq(SUBSET n) /\ n \in SUBSET n /\ Len(s) \in Nat
    BY <1>1
  <1>3. /\ Append(s, n) \in Seq(SUBSET n) /\ Len(Append(s, n)) = Len(s) + 1
        /\ Append(s, n)[Len(s) + 1] = n
        /\ \A i \in 1 .. Len(s) : Append(s, n)[i] = s[i]
    BY <1>2, AppendProperties
  <1> QED BY <1>2, <1>3 DEF Queued

LEMMA ReadKeeps ==
  ASSUME NEW S \in SUBSET Made, NEW K, NEW state, NEW b \in S, Sound(state, K, S)
  PROVE  /\ Sound(ReadRecord(state, b), K, S)
         /\ Begins(state.chain, ReadRecord(state, b).chain)
  <1> DEFINE c == state.chain
             m == state.marks
  <1>1. c \in Seq(S) /\ Heights(c) /\ OnePerHeight(m) /\ Len(c) \in Nat
    BY DEF Sound
  <1>2. CASE ~(Len(b) = Len(c) /\ Passes(b, m))
    <2>1. ReadRecord(state, b) = state
      BY <1>2 DEF ReadRecord, WithBlock
    <2>2. Begins(c, c)
      BY <1>1 DEF Begins
    <2> QED BY <2>1, <2>2
  <1>3. CASE Len(b) = Len(c) /\ Passes(b, m)
    <2> DEFINE d == Append(c, b)
               n == Len(c) + 1
    <2>1. /\ ReadRecord(state, b).chain = d /\ ReadRecord(state, b).marks = Marked(b, m)
          /\ ReadRecord(state, b).saves =
               IF IsHalving(b) THEN Append(state.saves, Marked(b, m)) ELSE state.saves
      BY <1>3 DEF ReadRecord, WithBlock
    <2>2. /\ d \in Seq(S) /\ Len(d) = n /\ d[n] = b
          /\ \A i \in 1 .. Len(c) : d[i] = c[i]
      BY <1>1, AppendProperties
    <2> HIDE DEF d, c, m
    <2>3. Heights(d)
      <3> SUFFICES ASSUME NEW i \in 1 .. n PROVE Len(d[i]) = i - 1
        BY <2>2 DEF Heights
      <3>1. CASE i = n
        BY <1>1, <1>3, <2>2, <3>1
      <3>2. CASE i # n
        <4>1. i \in 1 .. Len(c)
          BY <1>1, <3>2
        <4> QED BY <1>1, <2>2, <4>1 DEF Heights
      <3> QED BY <3>1, <3>2
    <2>4. OnePerHeight(Marked(b, m))
      BY <1>1, <1>3 DEF OnePerHeight, Marked, Passes
    <2> DEFINE Of(s) == {s[i] : i \in {j \in 1 .. Len(s) : IsHalving(s[j])}}
    <2>5. Of(d) = IF IsHalving(b) THEN Of(c) \cup {b} ELSE Of(c)
      <3>1. \A i \in 1 .. n : i = n \/ i \in 1 .. Len(c)
        BY <1>1
      <3>2. n \in 1 .. n /\ 1 .. Len(c) \subseteq 1 .. n
        BY <1>1
      <3>3. Of(c) \subseteq Of(d)
        BY <2>2, <3>2
      <3>4. IsHalving(b) => b \in Of(d)
        BY <2>2, <3>2
      <3>5. Of(d) \subseteq Of(c) \cup {b}
        BY <2>2, <3>1
      <3>6. ~IsHalving(b) => Of(d) \subseteq Of(c)
        BY <2>2, <3>1
      <3> HIDE DEF Of
      <3> QED BY <3>3, <3>4, <3>5, <3>6
    <2>6. m = K \cup Of(c)
      BY DEF Sound, c, m
    <2>7. Marked(b, m) = K \cup Of(d)
      <3> HIDE DEF Of
      <3> QED BY <2>5, <2>6 DEF Marked
    <2>8. Begins(c, d)
      BY <1>1, <2>2 DEF Begins
    <2>9. /\ Queued(ReadRecord(state, b).saves, Marked(b, m))
          /\ \A i \in 1 .. Len(ReadRecord(state, b).saves) :
               K \subseteq ReadRecord(state, b).saves[i]
      <3> DEFINE q == state.saves
                 w == Marked(b, m)
      <3>1. Queued(q, m) /\ (\A i \in 1 .. Len(q) : K \subseteq q[i]) /\ K \subseteq m
        BY DEF Sound, m
      <3>2. m \subseteq w /\ (~IsHalving(b) => w = m)
        BY DEF Marked
      <3> HIDE DEF q, w
      <3>3. CASE IsHalving(b)
        <4>1. /\ Queued(Append(q, w), w) /\ Len(Append(q, w)) = Len(q) + 1 /\ Len(q) \in Nat
              /\ Append(q, w)[Len(q) + 1] = w
              /\ \A i \in 1 .. Len(q) : Append(q, w)[i] = q[i]
          BY <3>1, <3>2, QueueGrows
        <4>2. \A i \in 1 .. Len(q) + 1 : i = Len(q) + 1 \/ i \in 1 .. Len(q)
          BY <4>1
        <4>3. \A i \in 1 .. Len(Append(q, w)) : K \subseteq Append(q, w)[i]
          BY <3>1, <3>2, <4>1, <4>2
        <4>4. ReadRecord(state, b).saves = Append(q, w)
          BY <2>1, <3>3 DEF q, w
        <4> QED BY <4>1, <4>3, <4>4 DEF w
      <3>4. CASE ~IsHalving(b)
        <4>1. ReadRecord(state, b).saves = q
          BY <2>1, <3>4 DEF q
        <4> QED BY <3>1, <3>2, <3>4, <4>1 DEF w
      <3> QED BY <3>3, <3>4
    <2> HIDE DEF n
    <2> QED BY <2>1, <2>2, <2>3, <2>4, <2>7, <2>8, <2>9 DEF Sound, c
  <1> QED BY <1>2, <1>3

(* The loader, record by record.                                           *)
ReadStep(state, b, p, q) == ReadRecord(state, b)

(* A checkpoint the chain does not contradict.                             *)
Agrees(m, c) == Len(m) < Len(c) => c[Len(m) + 1] = m

First(n, file) == SubSeq(file, 1, n)

LEMMA FirstIs ==
  ASSUME NEW file \in Seq(Made)
  PROVE  /\ First(0, file) = << >> /\ First(Len(file), file) = file
         /\ \A n \in Nat : n < Len(file) =>
              /\ First(n, file) \in Seq(Made) /\ file[n + 1] \in Made
              /\ First(n + 1, file) = Append(First(n, file), file[n + 1])
  <1>1. First(0, file) = << >> /\ First(Len(file), file) = file
    BY DEF First
  <1>2. ASSUME NEW n \in Nat, n < Len(file)
        PROVE  /\ First(n, file) \in Seq(Made) /\ file[n + 1] \in Made
               /\ First(n + 1, file) = Append(First(n, file), file[n + 1])
    <2> DEFINE f == SubSeq(file, 1, n)
               b == file[n + 1]
               g == SubSeq(file, 1, n + 1)
    <2>1. /\ Len(g) = n + 1 /\ g \in Seq(Made) /\ \A i \in 1 .. n + 1 : g[i] = file[i]
          /\ Len(f) = n /\ f \in Seq(Made) /\ \A i \in 1 .. n : f[i] = file[i]
      BY <1>2
    <2>2. b \in Made /\ g[n + 1] = b
      BY <1>2, <2>1
    <2> HIDE DEF f, b, g
    <2>3. /\ Append(f, b) \in Seq(Made) /\ Len(Append(f, b)) = n + 1
          /\ Append(f, b)[n + 1] = b /\ \A i \in 1 .. n : Append(f, b)[i] = f[i]
      BY <2>1, <2>2, AppendProperties
    <2>4. \A i \in 1 .. n + 1 : Append(f, b)[i] = g[i]
      <3> TAKE i \in 1 .. n + 1
      <3>1. i = n + 1 \/ i \in 1 .. n
        OBVIOUS
      <3> QED BY <2>1, <2>2, <2>3, <3>1
    <2>5. Append(f, b) = g
      BY <2>1, <2>3, <2>4, SeqEqual
    <2> QED BY <2>1, <2>2, <2>5 DEF First, f, g, b
  <1> QED BY <1>1, <1>2

(* What n records make of the checkpoints K; and that checkpoints which do  *)
(* not contradict the chain do not change it.                              *)
Unmoved(one, both, more) ==
  (\A m \in more : Agrees(m, one.chain))
    => both.chain = one.chain /\ both.marks = one.marks \cup more

ReplayGood(n, file, K, more) ==
  n <= Len(file) =>
    /\ Sound(Replay(First(n, file), K), K, Range(file))
    /\ Unmoved(Replay(First(n, file), K), Replay(First(n, file), K \cup more), more)

Loads == INSTANCE Inductions
  WITH Op <- ReadStep, Holds <- LAMBDA n, p, q : ReplayGood(n, p, q[1], q[2])

LEMMA LoadsGrounded == Loads!Grounded
  BY NatHasLeast DEF Loads!Grounded

LEMMA ReplayIsFold ==
  ASSUME NEW file, NEW K
  PROVE  Replay(file, K) = Loads!Fold([chain |-> << >>, marks |-> K, saves |-> << >>], file, 0, 0)
  BY DEF Replay, Loads!Fold, FoldLeft, MapThenFoldSet, Loads!MapThenFoldSet,
         Max, Loads!Greatest, ReadStep

LEMMA ReplayNone ==
  ASSUME NEW K
  PROVE  Replay(<< >>, K) = [chain |-> << >>, marks |-> K, saves |-> << >>]
  BY ReplayIsFold, Loads!FoldEmpty

(* One more record is read last.                                           *)
LEMMA ReplayAppend ==
  ASSUME NEW file \in Seq(Made), NEW K, NEW b \in Made
  PROVE  Replay(Append(file, b), K) = ReadRecord(Replay(file, K), b)
  <1> DEFINE base == [chain |-> << >>, marks |-> K, saves |-> << >>]
             longer == Append(file, b)
  <1>1. Replay(file, K) = Loads!Fold(base, file, 0, 0)
    BY ReplayIsFold
  <1>2. Replay(longer, K) = Loads!Fold(base, longer, 0, 0)
    BY ReplayIsFold
  <1> HIDE DEF base
  <1>3. Loads!Fold(base, Append(file, b), 0, 0) = ReadStep(Loads!Fold(base, file, 0, 0), b, 0, 0)
    BY LoadsGrounded, Loads!FoldAppend
  <1> QED BY <1>1, <1>2, <1>3 DEF ReadStep

LEMMA ReplayIs ==
  ASSUME NEW file \in Seq(Made), NEW K \in SUBSET Made, OnePerHeight(K), NEW more
  PROVE  /\ Sound(Replay(file, K), K, Range(file))
         /\ (\A m \in more : Agrees(m, Replay(file, K).chain))
              => Replay(file, K \cup more).chain = Replay(file, K).chain
  <1> DEFINE u == <<K, more>>
             Good(n) == ReplayGood(n, file, K, more)
  <1>0. Range(file) \in SUBSET Made /\ Len(file) \in Nat
    BY DEF Range
  <1>1. Good(0)
    <2>1. /\ Replay(First(0, file), K) = [chain |-> << >>, marks |-> K, saves |-> << >>]
          /\ Replay(First(0, file), K \cup more) = [chain |-> << >>, marks |-> K \cup more, saves |-> << >>]
      BY FirstIs, ReplayNone
    <2>2. Sound([chain |-> << >>, marks |-> K, saves |-> << >>], K, Range(file))
      BY DEF Sound, Heights, Queued
    <2>3. Unmoved([chain |-> << >>, marks |-> K, saves |-> << >>], [chain |-> << >>, marks |-> K \cup more, saves |-> << >>], more)
      BY DEF Unmoved
    <2> QED BY <2>1, <2>2, <2>3 DEF ReplayGood
  <1>2. ASSUME NEW n \in Nat, Good(n) PROVE Good(n + 1)
    <2> SUFFICES ASSUME n + 1 <= Len(file) PROVE Good(n + 1)
      BY DEF ReplayGood
    <2> DEFINE f == First(n, file)
               b == file[n + 1]
               one == Replay(f, K)
               both == Replay(f, K \cup more)
               next == ReadRecord(one, b)
    <2>1. f \in Seq(Made) /\ b \in Made /\ b \in Range(file)
      BY <1>0, FirstIs DEF Range
    <2>2. First(n + 1, file) = Append(f, b)
      BY <1>0, FirstIs
    <2> HIDE DEF f, b
    <2>3. /\ Replay(First(n + 1, file), K) = next
          /\ Replay(First(n + 1, file), K \cup more) = ReadRecord(both, b)
      <3>1. /\ Replay(Append(f, b), K) = next
            /\ Replay(Append(f, b), K \cup more) = ReadRecord(both, b)
        BY <2>1, ReplayAppend
      <3> QED BY <2>2, <3>1
    <2>4. Sound(one, K, Range(file)) /\ Unmoved(one, both, more)
      BY <1>0, <1>2 DEF ReplayGood, f
    <2> HIDE DEF one, both, b
    <2>5. Sound(next, K, Range(file)) /\ Begins(one.chain, next.chain)
      BY <1>0, <2>1, <2>4, ReadKeeps
    <2>6. ASSUME \A m \in more : Agrees(m, next.chain)
          PROVE  /\ ReadRecord(both, b).chain = next.chain
                 /\ ReadRecord(both, b).marks = next.marks \cup more
      <3>1. one.chain \in Seq(Range(file)) /\ Len(one.chain) \in Nat
        BY <2>4 DEF Sound
      <3>2. \A m \in more : Agrees(m, one.chain)
        <4> TAKE m \in more
        <4>1. Agrees(m, next.chain)
          BY <2>6
        <4> SUFFICES ASSUME Len(m) < Len(one.chain) PROVE one.chain[Len(m) + 1] = m
          BY DEF Agrees
        <4>2. Len(one.chain) <= Len(next.chain) /\ Len(m) + 1 \in 1 .. Len(one.chain)
          BY <2>5, <3>1 DEF Begins
        <4>3. next.chain[Len(m) + 1] = m
          BY <2>5, <4>1, <4>2 DEF Agrees, Sound
        <4> QED BY <2>5, <4>2, <4>3 DEF Begins
      <3>3. both.chain = one.chain /\ both.marks = one.marks \cup more
        BY <2>4, <3>2 DEF Unmoved
      <3>4. CASE Len(b) = Len(one.chain) /\ Passes(b, one.marks)
        <4>1. next.chain = Append(one.chain, b) /\ next.marks = Marked(b, one.marks)
          BY <3>4 DEF ReadRecord, WithBlock
        <4>2. Len(next.chain) = Len(b) + 1 /\ next.chain[Len(b) + 1] = b
          BY <2>1, <3>1, <3>4, <4>1, AppendProperties
        <4>3. \A m \in more : Len(m) = Len(b) => m = b
          BY <2>6, <3>1, <3>4, <4>2 DEF Agrees
        <4>4. Passes(b, both.marks)
          BY <3>3, <3>4, <4>3 DEF Passes
        <4> QED BY <3>3, <3>4, <4>1, <4>4 DEF ReadRecord, WithBlock, Marked
      <3>5. CASE ~(Len(b) = Len(one.chain) /\ Passes(b, one.marks))
        <4>1. next = one
          BY <3>5 DEF ReadRecord, WithBlock
        <4>2. ~(Len(b) = Len(both.chain) /\ Passes(b, both.marks))
          BY <3>3, <3>5 DEF Passes
        <4>3. ReadRecord(both, b) = both
          BY <4>2 DEF ReadRecord, WithBlock
        <4> QED BY <3>3, <4>1, <4>3
      <3> QED BY <3>4, <3>5
    <2>7. Unmoved(next, ReadRecord(both, b), more)
      BY <2>6 DEF Unmoved
    <2> QED BY <2>3, <2>5, <2>7 DEF ReplayGood
  <1>3. u[1] = K /\ u[2] = more
    OBVIOUS
  <1> HIDE DEF u
  <1>4. \A n \in Nat : ReplayGood(n, file, u[1], u[2])
    <2>1. ReplayGood(0, file, u[1], u[2])
      BY <1>1, <1>3
    <2>2. \A n \in Nat : ReplayGood(n, file, u[1], u[2]) => ReplayGood(n + 1, file, u[1], u[2])
      BY <1>2, <1>3
    <2> QED BY <2>1, <2>2, LoadsGrounded, Loads!Induction
  <1>5. ReplayGood(Len(file), file, K, more)
    BY <1>0, <1>3, <1>4
  <1>6. First(Len(file), file) = file
    BY FirstIs
  <1> QED BY <1>0, <1>5, <1>6 DEF ReplayGood, Unmoved

------------------------------------------------------------------------------
(* What the next start makes of the file of blocks, checkpoints apart.      *)
Restored == Replay(blkRecords, {}).chain

Places == {"off", "starting", "empty", "sealing", "reading", "up", "marking", "storing"}

(* The memory of a process: chain c, checkpoints m, the saves s it has      *)
(* still to do, whether the first of them is under way, and where it is.    *)
Fits(p, c, m, s, w, d) ==
  /\ c \in Seq(Made) /\ Heights(c) /\ Len(c) <= TopHeight + 1
  /\ m \in SUBSET Made /\ OnePerHeight(m)
  /\ Queued(s, m) /\ w \in BOOLEAN /\ (w => s # << >>)
  /\ d \in Places /\ (d = "off" => s = << >>)
  /\ d = "marking" => c # << >> /\ Passes(Last(c), m)
  /\ d = "sealing" => c = << << >> >> /\ << >> \in m
  /\ p = TheNode => d # "reading" /\ (d \in {"up", "storing"} => c # << >>)

ProcessesFit ==
  /\ held \in [Processes -> Seq(Made)] /\ marks \in [Processes -> SUBSET Made]
  /\ saves \in [Processes -> Seq(SUBSET Made)] /\ writing \in [Processes -> BOOLEAN]
  /\ doing \in [Processes -> Places]
  /\ \A p \in Processes : Fits(p, held[p], marks[p], saves[p], writing[p], doing[p])

Low(file) == \A i \in DOMAIN file : Len(file[i]) <= TopHeight

FilesFit ==
  /\ blkRecords \in Seq(Made) /\ Len(blkRecords) <= MaxRecords /\ Low(blkRecords)
  /\ datRecords \in Seq(Made) /\ Low(datRecords)
  /\ Len(datRecords) <= TopHeight + MaxReceived + 1
  /\ markFile \in SUBSET Made /\ OnePerHeight(markFile)

HistoryFits ==
  /\ launches \in 0 .. MaxLaunches /\ alone \in BOOLEAN
  /\ clashed \in BOOLEAN /\ cutOff \in BOOLEAN
  /\ doing[TheNode] = "storing" => Len(datRecords) < MaxReceived

SharedInv == ProcessesFit /\ FilesFit /\ HistoryFits

Mining(p) == doing[p] \in {"reading", "up", "marking", "storing"}

(* Nobody runs next to another, and no checkpoint contradicts the file of   *)
(* blocks.                                                                 *)
TakesTurns ==
  /\ \A p, q \in Processes : doing[p] # "off" /\ doing[q] # "off" => p = q
  /\ IsLinked(Restored) /\ \A m \in markFile : Agrees(m, Restored)
  /\ \A p \in Processes : doing[p] # "off" =>
       markFile \subseteq marks[p] /\ \A m \in marks[p] : Agrees(m, Restored)
  /\ \A p \in Processes : Mining(p) => Begins(Restored, held[p])

AloneInv == alone => TakesTurns

(* The first start of all, up to the genesis.                              *)
FirstStart ==
  /\ markFile \subseteq {<< >>} /\ blkRecords = << >>
  /\ \A p \in Processes :
       /\ doing[p] \in {"off", "starting", "empty", "sealing"} /\ marks[p] \subseteq {<< >>}
       /\ doing[p] # "sealing" => held[p] = << >> /\ saves[p] = << >>
       /\ doing[p] = "sealing" /\ saves[p] = << >> => << >> \in markFile
  /\ \A p, q \in Processes : doing[p] # "off" /\ doing[q] # "off" => p = q

(* From then on whoever runs has read a file, or will.                     *)
FromFile ==
  /\ blkRecords # << >>
  /\ \A p \in Processes : doing[p] \notin {"empty", "sealing"}

(* As long as no save was cut off, the genesis is among the checkpoints,    *)
(* and who writes the file over has what it held.                          *)
Whole ==
  /\ SomeoneSaves \/ << >> \in markFile
  /\ \A p \in Processes :
       /\ doing[p] # "off" => << >> \in marks[p]
       /\ \A i \in 1 .. Len(saves[p]) : << >> \in saves[p][i]
       /\ saves[p] # << >> => markFile \subseteq marks[p]

Known(m) == m = << >> \/ (IsHalving(m) /\ m \in Range(blkRecords))

(* One halving block per height, and checkpoints of those only.            *)
OneHalving ==
  /\ \A r, s \in Range(blkRecords) : IsHalving(r) /\ Len(r) = Len(s) => r = s
  /\ \A m \in markFile : Known(m)
  /\ \A p \in Processes : \A m \in marks[p] : Known(m)

NoneLost ==
  /\ \A r \in Range(blkRecords) : Len(r) < Len(Restored)
  /\ \A p \in Processes :
       /\ Len(held[p]) <= Len(Restored)
       /\ \A i \in 1 .. Len(held[p]) : held[p][i] \in Range(blkRecords)

(* Nobody else makes the blocks of a process, which has a checkpoint for    *)
(* each halving block of its chain, but the one it is about to mark.        *)
OwnHalvings(p) ==
  /\ Mining(p) =>
       /\ \A r \in Range(blkRecords) : Len(r) >= Len(held[p]) => Last(r) # p
       /\ \A i \in 1 .. Len(held[p]) :
            IsHalving(held[p][i]) /\ ~(doing[p] = "marking" /\ i = Len(held[p]))
              => held[p][i] \in marks[p]
  /\ doing[p] = "marking" =>
       /\ IsHalving(Tip(p))
       /\ \A r \in Range(blkRecords) : IsHalving(r) => Len(r) <= Len(Tip(p))

(* The invariant once a file was read, its parts at hand.                   *)
Settled ==
  /\ FromFile /\ (~cutOff => Whole)
  /\ OneHalving /\ NoneLost /\ \A p \in Processes : OwnHalvings(p)

OnlyMined == datRecords = << >> /\ doing[TheNode] # "storing"

(* One process saves at a time, over a file it has emptied.                 *)
OneSaver ==
  /\ \A p, q \in Processes : saves[p] # << >> /\ saves[q] # << >> => p = q
  /\ \A p \in Processes : writing[p] => markFile = {}

MinedInv == ~clashed => OnlyMined /\ OneSaver /\ (FirstStart \/ Settled)

------------------------------------------------------------------------------
(* What the records of a file make of checkpoints, with the sets named.     *)
LEMMA ReplayFacts ==
  ASSUME NEW file \in Seq(Made), NEW K \in SUBSET Made, OnePerHeight(K)
  PROVE  LET c == Replay(file, K).chain
             m == Replay(file, K).marks
             s == Replay(file, K).saves
         IN /\ c \in Seq(Made) /\ Heights(c)
            /\ \A i \in 1 .. Len(c) : c[i] \in Range(file)
            /\ m \in SUBSET Made /\ K \subseteq m /\ OnePerHeight(m)
            /\ \A x \in m : x \in K \/ \E i \in 1 .. Len(c) : x = c[i] /\ IsHalving(x)
            /\ \A i \in 1 .. Len(c) : IsHalving(c[i]) => c[i] \in m
            /\ Queued(s, m) /\ \A i \in 1 .. Len(s) : K \subseteq s[i]
  <1> DEFINE c == Replay(file, K).chain
             m == Replay(file, K).marks
             s == Replay(file, K).saves
  <1>1. Sound(Replay(file, K), K, Range(file))
    BY ReplayIs
  <1>2. Range(file) \subseteq Made
    BY DEF Range
  <1>3. /\ c \in Seq(Range(file)) /\ Heights(c) /\ OnePerHeight(m)
        /\ m = K \cup {c[i] : i \in {j \in 1 .. Len(c) : IsHalving(c[j])}}
        /\ Queued(s, m) /\ \A i \in 1 .. Len(s) : K \subseteq s[i]
    BY <1>1 DEF Sound
  <1> HIDE DEF c, m, s
  <1>4. c \in Seq(Made) /\ \A i \in 1 .. Len(c) : c[i] \in Range(file) /\ c[i] \in Made
    <2>1. DOMAIN c = 1 .. Len(c) /\ \A i \in 1 .. Len(c) : c[i] \in Range(file)
      BY <1>3
    <2>2. \A i \in 1 .. Len(c) : c[i] \in Made
      BY <1>2, <2>1
    <2>3. c \in Seq(Made)
      BY <1>2, <1>3
    <2> QED BY <2>1, <2>2, <2>3
  <1>5. /\ m \in SUBSET Made /\ K \subseteq m
        /\ \A x \in m : x \in K \/ \E i \in 1 .. Len(c) : x = c[i] /\ IsHalving(x)
        /\ \A i \in 1 .. Len(c) : IsHalving(c[i]) => c[i] \in m
    BY <1>3, <1>4
  <1> QED BY <1>3, <1>4, <1>5 DEF c, m, s

(* The length of a chain made of records below the bound.                   *)
LEMMA ReplayBounds ==
  ASSUME NEW file \in Seq(Made), NEW K \in SUBSET Made, OnePerHeight(K),
         Low(file)
  PROVE  /\ Len(Replay(file, K).chain) <= TopHeight + 1
         /\ \A i \in 1 .. Len(Replay(file, K).chain) :
              Len(Replay(file, K).chain[i]) <= TopHeight
  <1> DEFINE c == Replay(file, K).chain
  <1>1. c \in Seq(Made) /\ Heights(c) /\ \A i \in 1 .. Len(c) : c[i] \in Range(file)
    BY ReplayFacts
  <1> HIDE DEF c
  <1>2. \A i \in 1 .. Len(c) : Len(c[i]) <= TopHeight
    BY <1>1 DEF Range, Low
  <1>3. Len(c) <= TopHeight + 1
    <2>1. CASE c = << >>
      BY <2>1, SharedAssumption
    <2>2. CASE c # << >>
      <3>1. Len(c) \in 1 .. Len(c) /\ Len(c) \in Nat
        BY <1>1, <2>2
      <3>2. Len(c[Len(c)]) = Len(c) - 1 /\ Len(c[Len(c)]) <= TopHeight
        BY <1>1, <1>2, <3>1 DEF Heights
      <3> QED BY <3>1, <3>2, SharedAssumption
    <2> QED BY <2>1, <2>2
  <1> QED BY <1>2, <1>3 DEF c

(* A block made on the tip of a process.                                   *)
LEMMA NewBlock ==
  ASSUME NEW c \in Seq(Made), c # << >>, Heights(c), NEW maker \in Processes \cup {Peer}
  PROVE  LET b == Append(Last(c), maker) IN
         /\ b \in Made /\ Len(b) = Len(c) /\ Front(b) = Last(c) /\ Last(b) = maker
         /\ Len(Last(c)) = Len(c) - 1 /\ Last(c) \in Made
  <1> DEFINE s == c[Len(c)]
             b == Append(s, maker)
             n == Len(s)
  <1>1. Len(c) \in 1 .. Len(c) /\ Len(c) \in Nat
    OBVIOUS
  <1>2. s \in Made /\ n = Len(c) - 1 /\ n \in Nat
    <2>1. s \in Made
      BY <1>1
    <2>2. n = Len(c) - 1
      BY <1>1 DEF Heights
    <2> QED BY <1>1, <2>1, <2>2 DEF Made
  <1> HIDE DEF s
  <1>3. /\ b \in Made /\ Len(b) = n + 1 /\ b[n + 1] = maker
        /\ \A i \in 1 .. n : b[i] = s[i]
    BY <1>2, AppendProperties DEF Made
  <1> HIDE DEF b
  <1>4. SubSeq(b, 1, n) = s
    <2>1. /\ SubSeq(b, 1, n) \in Made /\ Len(SubSeq(b, 1, n)) = n
          /\ \A i \in 1 .. n : SubSeq(b, 1, n)[i] = b[i]
      BY <1>2, <1>3 DEF Made
    <2> QED BY <1>2, <1>3, <2>1, SeqEqual DEF Made
  <1>5. Len(b) - 1 = n
    BY <1>2, <1>3
  <1>6. Front(b) = s /\ Last(b) = maker
    BY <1>3, <1>4, <1>5 DEF Front, Last
  <1> QED BY <1>1, <1>2, <1>3, <1>6 DEF b, s, Last

(* A chain with a block at its height on top is one.                        *)
LEMMA ChainGrows ==
  ASSUME NEW c \in Seq(Made), Heights(c), NEW b \in Made, Len(b) = Len(c), Len(b) <= TopHeight
  PROVE  LET d == Append(c, b) IN
         /\ d \in Seq(Made) /\ Len(d) = Len(c) + 1 /\ Heights(d) /\ d # << >>
         /\ Last(d) = b /\ Len(d) <= TopHeight + 1
         /\ \A i \in 1 .. Len(c) : d[i] = c[i]
  <1> DEFINE d == Append(c, b)
             n == Len(c) + 1
  <1>1. /\ d \in Seq(Made) /\ Len(d) = n /\ d[n] = b /\ \A i \in 1 .. Len(c) : d[i] = c[i]
        /\ Len(c) \in Nat
    BY AppendProperties
  <1> HIDE DEF d
  <1>2. ASSUME NEW i \in 1 .. n PROVE Len(d[i]) = i - 1
    <2>1. CASE i = n
      BY <1>1, <2>1
    <2>2. CASE i # n
      <3>1. i \in 1 .. Len(c)
        BY <1>1, <2>2
      <3> QED BY <1>1, <3>1 DEF Heights
    <2> QED BY <2>1, <2>2
  <1>3. Heights(d) /\ Last(d) = b /\ d # << >>
    BY <1>1, <1>2 DEF Heights, Last
  <1>4. n <= TopHeight + 1
    BY <1>1, SharedAssumption
  <1> QED BY <1>1, <1>3, <1>4 DEF d

LEMMA FileGrows ==
  ASSUME NEW file \in Seq(Made), NEW b \in Made, NEW n \in Nat, Len(file) < n,
         Len(b) <= TopHeight, Low(file)
  PROVE  /\ Append(file, b) \in Seq(Made) /\ Len(Append(file, b)) <= n
         /\ Low(Append(file, b))
  <1>1. /\ Append(file, b) \in Seq(Made) /\ Len(Append(file, b)) = Len(file) + 1
        /\ Append(file, b)[Len(file) + 1] = b
        /\ \A i \in 1 .. Len(file) : Append(file, b)[i] = file[i]
        /\ Len(file) \in Nat
    BY AppendProperties
  <1>2. \A i \in DOMAIN Append(file, b) : i \in 1 .. Len(file) \/ i = Len(file) + 1
    BY <1>1
  <1> QED BY <1>1, <1>2 DEF Low

LEMMA HeightsBound ==
  ASSUME NEW c \in Seq(Made), Heights(c), Len(c) <= TopHeight + 1
  PROVE  Low(c)
  <1> SUFFICES ASSUME NEW i \in DOMAIN c PROVE Len(c[i]) <= TopHeight
    BY DEF Low
  <1>1. i \in 1 .. Len(c) /\ Len(c) \in Nat
    OBVIOUS
  <1>2. Len(c[i]) = i - 1
    BY <1>1 DEF Heights
  <1> QED BY <1>1, <1>2, SharedAssumption

LEMMA QueueIsTyped ==
  ASSUME NEW m \in SUBSET Made, NEW s, Queued(s, m)
  PROVE  /\ s \in Seq(SUBSET Made) /\ Len(s) \in Nat /\ DOMAIN s = 1 .. Len(s)
         /\ \A i \in 1 .. Len(s) : s[i] \subseteq m
  <1>1. s \in Seq(SUBSET m)
    BY DEF Queued
  <1>2. \A i \in 1 .. Len(s) : s[i] \in SUBSET m
    BY <1>1
  <1>3. s \in Seq(SUBSET Made)
    BY <1>1
  <1> QED BY <1>1, <1>2, <1>3

LEMMA SharedStarts == SharedInit => SharedInv
  <1> SUFFICES ASSUME SharedInit PROVE SharedInv
    OBVIOUS
  <1> USE DEF SharedInit
  <1>1. << >> \in Seq(Made) /\ << >> \in Seq(SUBSET Made) /\ Heights(<< >>)
    BY DEF Heights
  <1>2. ProcessesFit
    <2>1. Queued(<< >>, {}) /\ OnePerHeight({}) /\ Len(<< >>) <= TopHeight + 1
      BY SharedAssumption DEF Queued, OnePerHeight
    <2>2. \A p \in Processes : Fits(p, << >>, {}, << >>, FALSE, "off")
      BY <1>1, <2>1 DEF Fits, Places
    <2> QED BY <1>1, <2>2 DEF ProcessesFit, Places
  <1>3. FilesFit
    <2>1. Low(<< >>) /\ OnePerHeight({}) /\ Len(<< >>) = 0
      BY DEF Low, OnePerHeight
    <2> QED BY <1>1, <2>1, SharedAssumption DEF FilesFit
  <1>4. HistoryFits
    <2>1. launches \in 0 .. MaxLaunches
      BY SharedAssumption
    <2>2. alone \in BOOLEAN /\ clashed \in BOOLEAN /\ cutOff \in BOOLEAN
      OBVIOUS
    <2>3. doing[TheNode] # "storing"
      BY DEF Processes
    <2> QED BY <2>1, <2>2, <2>3 DEF HistoryFits
  <1> QED BY <1>2, <1>3, <1>4 DEF SharedInv

(* A process takes a memory that fits.                                     *)
Becomes(p, c, m, s, w, d) ==
  /\ held' = [held EXCEPT ![p] = c] /\ marks' = [marks EXCEPT ![p] = m]
  /\ saves' = [saves EXCEPT ![p] = s] /\ writing' = [writing EXCEPT ![p] = w]
  /\ doing' = [doing EXCEPT ![p] = d]

LEMMA ProcessChanges ==
  ASSUME ProcessesFit, NEW p \in Processes, NEW c, NEW m, NEW s, NEW w, NEW d,
         Fits(p, c, m, s, w, d), Becomes(p, c, m, s, w, d)
  PROVE  ProcessesFit'
  <1>1. /\ c \in Seq(Made) /\ m \in SUBSET Made /\ w \in BOOLEAN /\ d \in Places
        /\ s \in Seq(SUBSET Made)
    BY QueueIsTyped DEF Fits
  <1>2. /\ held' \in [Processes -> Seq(Made)] /\ marks' \in [Processes -> SUBSET Made]
        /\ saves' \in [Processes -> Seq(SUBSET Made)] /\ writing' \in [Processes -> BOOLEAN]
        /\ doing' \in [Processes -> Places]
    BY <1>1 DEF ProcessesFit, Becomes
  <1>3. ASSUME NEW q \in Processes
        PROVE  Fits(q, held'[q], marks'[q], saves'[q], writing'[q], doing'[q])
    <2>1. CASE q = p
      <3>1. held'[q] = c /\ marks'[q] = m /\ saves'[q] = s /\ writing'[q] = w /\ doing'[q] = d
        BY <2>1 DEF ProcessesFit, Becomes
      <3> QED BY <2>1, <3>1
    <2>2. CASE q # p
      <3>1. /\ held'[q] = held[q] /\ marks'[q] = marks[q] /\ saves'[q] = saves[q]
            /\ writing'[q] = writing[q] /\ doing'[q] = doing[q]
        BY <2>2 DEF ProcessesFit, Becomes
      <3>2. Fits(q, held[q], marks[q], saves[q], writing[q], doing[q])
        BY DEF ProcessesFit
      <3> QED BY <3>1, <3>2
    <2> QED BY <2>1, <2>2
  <1> QED BY <1>2, <1>3 DEF ProcessesFit, Fits

LEMMA SharedStep == SharedInv /\ [SharedNext]_sharedVars => SharedInv'
  <1> SUFFICES ASSUME SharedInv, [SharedNext]_sharedVars PROVE SharedInv'
    OBVIOUS
  <1>0. ProcessesFit /\ FilesFit /\ HistoryFits /\ TheNode \in Processes /\ TopHeight \in Nat
    BY SharedAssumption DEF SharedInv, Processes
  <1>a. \A p \in Processes :
          /\ Fits(p, held[p], marks[p], saves[p], writing[p], doing[p])
          /\ held = [held EXCEPT ![p] = held[p]] /\ marks = [marks EXCEPT ![p] = marks[p]]
          /\ saves = [saves EXCEPT ![p] = saves[p]]
          /\ writing = [writing EXCEPT ![p] = writing[p]]
          /\ doing = [doing EXCEPT ![p] = doing[p]]
    BY <1>0 DEF ProcessesFit
  <1>b. Heights(<< >>) /\ << >> \in Seq(Made) /\ Len(<< >>) = 0 /\ OnePerHeight({})
        /\ \A m : Queued(<< >>, m)
    BY DEF Heights, OnePerHeight, Queued
  <1>c. HistoryFits'
    <2>1. launches' \in 0 .. MaxLaunches
      <3>1. ASSUME NEW p \in Processes, Launch(p)
            PROVE  launches < MaxLaunches /\ launches' = launches + 1
        BY <3>1 DEF Launch
      <3>2. ASSUME NEW p \in Processes,
                   \/ ReadBlocks(p) \/ MakeGenesis(p) \/ KeepGenesis(p) \/ ReadDump(p)
                   \/ Mine(p) \/ MarkHalving(p) \/ OpenSave(p) \/ CloseSave(p) \/ Exit(p)
            PROVE  launches' = launches
        BY <3>2 DEF ReadBlocks, MakeGenesis, KeepGenesis, ReadDump, Mine, MarkHalving,
           OpenSave, CloseSave, Exit, history
      <3>3. ASSUME Receive \/ StoreReceived \/ UNCHANGED sharedVars PROVE launches' = launches
        BY <3>3 DEF Receive, StoreReceived, sharedVars, history
      <3>4. launches' = launches \/ (launches < MaxLaunches /\ launches' = launches + 1)
        BY <3>1, <3>2, <3>3 DEF SharedNext
      <3>5. launches \in 0 .. MaxLaunches
        BY <1>0 DEF HistoryFits
      <3> QED BY <3>4, <3>5, SharedAssumption
    <2>2. doing'[TheNode] = "storing" => Len(datRecords') < MaxReceived
      <3>0. /\ doing \in [Processes -> Places] /\ TheNode \in Processes
            /\ doing[TheNode] = "storing" => Len(datRecords) < MaxReceived
        BY <1>0 DEF HistoryFits, ProcessesFit
      <3>1. ASSUME NEW p \in Processes,
                   NEW d \in {"starting", "empty", "sealing", "reading", "up", "marking", "off"},
                   doing' = [doing EXCEPT ![p] = d] \/ doing' = doing, UNCHANGED datRecords
            PROVE  doing'[TheNode] = "storing" => Len(datRecords') < MaxReceived
        BY <3>0, <3>1
      <3>2. ASSUME NEW p \in Processes,
                   \/ Launch(p) \/ ReadBlocks(p) \/ MakeGenesis(p) \/ KeepGenesis(p)
                   \/ ReadDump(p) \/ Mine(p) \/ MarkHalving(p) \/ OpenSave(p)
                   \/ CloseSave(p) \/ Exit(p)
            PROVE  doing'[TheNode] = "storing" => Len(datRecords') < MaxReceived
        <4>1. UNCHANGED datRecords
          BY <3>2 DEF Launch, ReadBlocks, MakeGenesis, KeepGenesis, ReadDump, Mine, MarkHalving,
             OpenSave, CloseSave, Exit, files
        <4>2. ASSUME Launch(p) \/ MakeGenesis(p) \/ ReadDump(p) \/ MarkHalving(p) \/ Exit(p)
              PROVE  \/ doing' = [doing EXCEPT ![p] = "starting"]
                     \/ doing' = [doing EXCEPT ![p] = "sealing"]
                     \/ doing' = [doing EXCEPT ![p] = "up"]
                     \/ doing' = [doing EXCEPT ![p] = "off"]
          BY <4>2 DEF Launch, MakeGenesis, ReadDump, MarkHalving, Exit
        <4>3. ASSUME ReadBlocks(p) \/ KeepGenesis(p) \/ Mine(p)
              PROVE  \/ doing' = [doing EXCEPT ![p] = "empty"]
                     \/ doing' = [doing EXCEPT ![p] = "reading"]
                     \/ doing' = [doing EXCEPT ![p] = "up"]
                     \/ doing' = [doing EXCEPT ![p] = "marking"]
          BY <4>3 DEF ReadBlocks, KeepGenesis, Mine, Started
        <4>4. ASSUME OpenSave(p) \/ CloseSave(p) PROVE doing' = doing
          BY <4>4 DEF OpenSave, CloseSave
        <4>5. \/ doing' = doing
              \/ \E d \in {"starting", "empty", "sealing", "reading", "up", "marking", "off"} :
                   doing' = [doing EXCEPT ![p] = d]
          BY <3>2, <4>2, <4>3, <4>4
        <4> QED BY <3>1, <4>1, <4>5
      <3>3. ASSUME Receive PROVE doing'[TheNode] = "storing" => Len(datRecords') < MaxReceived
        BY <3>0, <3>3 DEF Receive, Stands
      <3>4. ASSUME StoreReceived PROVE doing'[TheNode] # "storing"
        BY <3>0, <3>4 DEF StoreReceived
      <3>5. ASSUME UNCHANGED sharedVars
            PROVE  doing'[TheNode] = "storing" => Len(datRecords') < MaxReceived
        BY <3>0, <3>5 DEF sharedVars, files
      <3> QED BY <3>2, <3>3, <3>4, <3>5 DEF SharedNext
    <2> USE DEF SharedNext, Launch, ReadBlocks, MakeGenesis, KeepGenesis, ReadDump, Mine,
            MarkHalving, OpenSave, CloseSave, Exit, Receive, StoreReceived, sharedVars,
            history, files, ToSave
    <2>3. alone' \in BOOLEAN
      BY <1>0, Zenon DEF HistoryFits
    <2>4. clashed' \in BOOLEAN
      BY <1>0, Zenon DEF HistoryFits
    <2>5. cutOff' \in BOOLEAN
      BY <1>0, Zenon DEF HistoryFits
    <2> QED BY <2>1, <2>2, <2>3, <2>4, <2>5 DEF HistoryFits
  <1>d. UNCHANGED <<files, markFile>> => FilesFit'
    BY <1>0 DEF FilesFit, files, Low
  <1>e. ASSUME NEW p \in Processes, NEW s
        PROVE  ToSave(p, s) => saves' = [saves EXCEPT ![p] = s]
    BY DEF ToSave
  (* What fits does not depend on the place, but for the places named.       *)
  <1>f. ASSUME NEW p \in Processes, NEW d \in Places, d \notin {"marking", "sealing", "off"},
               p = TheNode => d # "reading" /\ (d \in {"up", "storing"} => held[p] # << >>)
        PROVE  Fits(p, held[p], marks[p], saves[p], writing[p], d)
    BY <1>a, <1>f DEF Fits
  <1>g. ASSUME NEW p \in Processes, saves[p] = << >> PROVE ~writing[p]
    BY <1>a, <1>g DEF Fits
  <1>1. ASSUME NEW p \in Processes, Launch(p) PROVE SharedInv'
    <2>1. Fits(p, held[p], markFile, saves[p], writing[p], "starting")
      <3>1. saves[p] = << >>
        BY <1>1, <1>a DEF Launch, Fits
      <3> QED BY <1>0, <1>a, <1>b, <3>1 DEF Fits, FilesFit, Places
    <2>2. /\ marks' = [marks EXCEPT ![p] = markFile] /\ doing' = [doing EXCEPT ![p] = "starting"]
          /\ UNCHANGED <<held, saves, writing, files, markFile>>
      BY <1>1 DEF Launch
    <2>3. ProcessesFit'
      <3>1. Becomes(p, held[p], markFile, saves[p], writing[p], "starting")
        BY <1>a, <2>2 DEF Becomes
      <3> QED BY <1>0, <2>1, <3>1, ProcessChanges
    <2> QED BY <1>c, <1>d, <2>2, <2>3 DEF SharedInv
  (* A file of blocks is read, and what it halves is to be saved.            *)
  <1>h. ASSUME NEW p \in Processes, NEW file \in Seq(Made), Low(file), saves[p] = << >>,
               NEW d \in Places, d \notin {"marking", "sealing", "off", "storing"},
               p = TheNode =>
                 d # "reading" /\ (d = "up" => Replay(file, marks[p]).chain # << >>)
        PROVE  Fits(p, Replay(file, marks[p]).chain, Replay(file, marks[p]).marks,
                    Replay(file, marks[p]).saves, writing[p], d)
    <2> DEFINE read == Replay(file, marks[p])
    <2>1. marks[p] \in SUBSET Made /\ OnePerHeight(marks[p]) /\ writing[p] = FALSE
      BY <1>a, <1>g, <1>h DEF Fits
    <2>2. /\ read.chain \in Seq(Made) /\ Heights(read.chain)
          /\ read.marks \in SUBSET Made /\ OnePerHeight(read.marks)
          /\ Queued(read.saves, read.marks)
      BY <2>1, ReplayFacts
    <2>3. Len(read.chain) <= TopHeight + 1
      BY <1>h, <2>1, ReplayBounds
    <2>4. p = TheNode => d # "reading" /\ (d \in {"up", "storing"} => read.chain # << >>)
      BY <1>h
    <2> HIDE DEF read
    <2>5. Fits(p, read.chain, read.marks, read.saves, writing[p], d)
      BY <1>h, <2>1, <2>2, <2>3, <2>4 DEF Fits
    <2> QED BY <2>5 DEF read
  <1>2. ASSUME NEW p \in Processes, ReadBlocks(p) PROVE SharedInv'
    <2> DEFINE read == Replay(blkRecords, marks[p])
               d    == IF read.chain = << >> THEN "empty" ELSE Started(p)
    <2>1. /\ held' = [held EXCEPT ![p] = read.chain] /\ marks' = [marks EXCEPT ![p] = read.marks]
          /\ saves' = [saves EXCEPT ![p] = read.saves]
          /\ doing' = [doing EXCEPT ![p] = d] /\ saves[p] = << >>
          /\ UNCHANGED <<writing, files, markFile>>
      BY <1>2 DEF ReadBlocks, Stands, ToSave
    <2>2. /\ d \in Places /\ d \notin {"marking", "sealing", "off", "storing"}
          /\ p = TheNode => d # "reading" /\ (d = "up" => read.chain # << >>)
      BY DEF Started, Places
    <2>3. blkRecords \in Seq(Made) /\ Low(blkRecords)
      BY <1>0 DEF FilesFit
    <2> HIDE DEF d
    <2>4. Fits(p, read.chain, read.marks, read.saves, writing[p], d)
      BY <1>h, <2>1, <2>2, <2>3
    <2> HIDE DEF read
    <2>5. ProcessesFit'
      <3>1. Becomes(p, read.chain, read.marks, read.saves, writing[p], d)
        BY <1>a, <2>1 DEF Becomes
      <3> QED BY <1>0, <2>4, <3>1, ProcessChanges
    <2> QED BY <1>c, <1>d, <2>1, <2>5 DEF SharedInv
  <1>3. ASSUME NEW p \in Processes, MakeGenesis(p) PROVE SharedInv'
    <2> DEFINE none == << >>
               c == <<none>>
               m == marks[p] \cup {none}
               s == <<m>>
    <2>1. /\ held' = [held EXCEPT ![p] = c] /\ marks' = [marks EXCEPT ![p] = m]
          /\ saves' = [saves EXCEPT ![p] = s]
          /\ doing' = [doing EXCEPT ![p] = "sealing"] /\ saves[p] = << >>
          /\ UNCHANGED <<writing, files, markFile>>
      BY <1>0, <1>3 DEF MakeGenesis, Stands, ToSave, ProcessesFit
    <2>2. none \in Made /\ Len(none) = 0
      BY DEF Made
    <2>3. /\ c \in Seq(Made) /\ Heights(c) /\ Len(c) <= TopHeight + 1
          /\ c = << << >> >>
      <3>1. c \in Seq(Made) /\ Heights(c) /\ Len(c) = 1
        BY <2>2 DEF Heights
      <3> QED BY <1>0, <3>1
    <2>4. m \in SUBSET Made /\ OnePerHeight(m) /\ << >> \in m
      <3>1. \A x \in Made : Len(x) = 0 => x = none
        BY DEF Made
      <3>2. marks[p] \in SUBSET Made /\ OnePerHeight(marks[p])
        BY <1>a DEF Fits
      <3>3. \A x, y \in m : Len(x) = Len(y) => x = y
        BY <2>2, <3>1, <3>2 DEF OnePerHeight
      <3> QED BY <2>2, <3>2, <3>3 DEF OnePerHeight
    <2> HIDE DEF c, m, none
    <2>5. Queued(s, m) /\ s # << >>
      BY DEF Queued
    <2> HIDE DEF s
    <2>6. Fits(p, c, m, s, writing[p], "sealing")
      <3>1. writing[p] = FALSE
        BY <1>a, <1>g, <2>1 DEF Fits
      <3> QED BY <1>0, <2>3, <2>4, <2>5, <3>1 DEF Fits, Places
    <2>7. ProcessesFit'
      <3>1. Becomes(p, c, m, s, writing[p], "sealing")
        BY <1>a, <2>1 DEF Becomes
      <3> QED BY <1>0, <2>6, <3>1, ProcessChanges
    <2> QED BY <1>c, <1>d, <2>1, <2>7 DEF SharedInv
  <1>4. ASSUME NEW p \in Processes, KeepGenesis(p) PROVE SharedInv'
    <2> DEFINE c == << << >> >>
    <2>1. /\ blkRecords' = c /\ doing' = [doing EXCEPT ![p] = Started(p)]
          /\ doing[p] = "sealing"
          /\ UNCHANGED <<held, marks, saves, writing, datRecords, markFile>>
      BY <1>4 DEF KeepGenesis, Stands
    <2>2. held[p] = c /\ held[p] # << >>
      BY <1>a, <2>1 DEF Fits
    <2>3. /\ Started(p) \in Places /\ Started(p) \notin {"marking", "sealing", "off"}
          /\ p = TheNode => Started(p) # "reading"
      BY DEF Started, Places
    <2>4. Fits(p, held[p], marks[p], saves[p], writing[p], Started(p))
      BY <1>f, <2>2, <2>3
    <2>5. ProcessesFit'
      <3>1. Becomes(p, held[p], marks[p], saves[p], writing[p], Started(p))
        BY <1>a, <2>1 DEF Becomes
      <3> QED BY <1>0, <2>4, <3>1, ProcessChanges
    <2>6. c \in Seq(Made) /\ Len(c) <= MaxRecords /\ Low(c)
      <3>1. c \in Seq(Made) /\ Heights(c) /\ Len(c) <= TopHeight + 1
        BY <1>a, <2>2 DEF Fits
      <3>2. Low(c)
        BY <3>1, HeightsBound
      <3>3. Len(c) = 1
        OBVIOUS
      <3> QED BY <3>1, <3>2, <3>3, SharedAssumption
    <2> HIDE DEF c
    <2>7. FilesFit'
      BY <1>0, <2>1, <2>6 DEF FilesFit
    <2> QED BY <1>c, <2>5, <2>7 DEF SharedInv
  <1>5. ASSUME NEW p \in Processes, ReadDump(p) PROVE SharedInv'
    <2> DEFINE read == Replay(datRecords, marks[p])
    <2>1. /\ doing[p] = "reading" /\ saves[p] = << >> /\ doing' = [doing EXCEPT ![p] = "up"]
          /\ UNCHANGED <<writing, files, markFile>>
      BY <1>5 DEF ReadDump, Stands
    <2>2. p # TheNode
      BY <1>a, <2>1 DEF Fits
    <2>3. CASE datRecords = << >>
      <3>1. UNCHANGED <<held, marks, saves>>
        BY <1>5, <2>3 DEF ReadDump
      <3>2. Fits(p, held[p], marks[p], saves[p], writing[p], "up")
        BY <1>f, <2>2 DEF Places
      <3>3. ProcessesFit'
        <4>1. Becomes(p, held[p], marks[p], saves[p], writing[p], "up")
          BY <1>a, <2>1, <3>1 DEF Becomes
        <4> QED BY <1>0, <3>2, <4>1, ProcessChanges
      <3> QED BY <1>c, <1>d, <2>1, <3>3 DEF SharedInv
    <2>4. CASE datRecords # << >>
      <3>1. /\ held' = [held EXCEPT ![p] = read.chain]
            /\ marks' = [marks EXCEPT ![p] = read.marks]
            /\ saves' = [saves EXCEPT ![p] = read.saves]
        BY <1>5, <2>4 DEF ReadDump, ToSave
      <3>2. datRecords \in Seq(Made) /\ Low(datRecords)
        BY <1>0 DEF FilesFit
      <3>3. Fits(p, read.chain, read.marks, read.saves, writing[p], "up")
        BY <1>h, <2>1, <2>2, <3>2 DEF Places
      <3> HIDE DEF read
      <3>4. ProcessesFit'
        <4>1. Becomes(p, read.chain, read.marks, read.saves, writing[p], "up")
          BY <1>a, <2>1, <3>1 DEF Becomes
        <4> QED BY <1>0, <3>3, <4>1, ProcessChanges
      <3> QED BY <1>c, <1>d, <2>1, <3>4 DEF SharedInv
    <2> QED BY <2>3, <2>4
  <1>6. ASSUME NEW p \in Processes, Exit(p) PROVE SharedInv'
    <2> DEFINE none == << >>
    <2>1. /\ held' = [held EXCEPT ![p] = none] /\ marks' = [marks EXCEPT ![p] = {}]
          /\ saves' = [saves EXCEPT ![p] = none] /\ writing' = [writing EXCEPT ![p] = FALSE]
          /\ doing' = [doing EXCEPT ![p] = "off"] /\ UNCHANGED <<files, markFile>>
      BY <1>6 DEF Exit
    <2>2. Fits(p, none, {}, none, FALSE, "off")
      BY <1>0, <1>b DEF Fits, Places
    <2> HIDE DEF none
    <2>3. ProcessesFit'
      <3>1. Becomes(p, none, {}, none, FALSE, "off")
        BY <2>1 DEF Becomes
      <3> QED BY <1>0, <2>2, <3>1, ProcessChanges
    <2> QED BY <1>c, <1>d, <2>1, <2>3 DEF SharedInv
  <1>7. ASSUME NEW p \in Processes, Mine(p) PROVE SharedInv'
    <2> DEFINE b == Append(Tip(p), p)
               c == Append(held[p], b)
               d == IF IsHalving(b) THEN "marking" ELSE "up"
    <2>1. /\ held' = [held EXCEPT ![p] = c] /\ doing' = [doing EXCEPT ![p] = d]
          /\ blkRecords' = Append(blkRecords, b)
          /\ UNCHANGED <<marks, saves, writing, datRecords, markFile>>
          /\ held[p] # << >> /\ Len(b) <= TopHeight /\ Len(blkRecords) < MaxRecords
          /\ Passes(b, marks[p]) /\ saves[p] = << >>
      BY <1>7 DEF Mine, Stands
    <2>2. held[p] \in Seq(Made) /\ Heights(held[p])
      BY <1>a DEF Fits
    <2>3. b \in Made /\ Len(b) = Len(held[p])
      BY <2>1, <2>2, NewBlock DEF Tip
    <2>4. d \in {"marking", "up"}
      OBVIOUS
    <2> HIDE DEF b, d
    <2>5. /\ c \in Seq(Made) /\ Heights(c) /\ c # << >> /\ Last(c) = b
          /\ Len(c) <= TopHeight + 1
      BY <1>0, <2>1, <2>2, <2>3, ChainGrows
    <2> HIDE DEF c
    <2>6. Fits(p, c, marks[p], saves[p], writing[p], d)
      BY <1>a, <2>1, <2>4, <2>5 DEF Fits, Places
    <2>7. ProcessesFit'
      <3>1. Becomes(p, c, marks[p], saves[p], writing[p], d)
        BY <1>a, <2>1 DEF Becomes
      <3> QED BY <1>0, <2>6, <3>1, ProcessChanges
    <2>8. /\ blkRecords' \in Seq(Made) /\ Len(blkRecords') <= MaxRecords /\ Low(blkRecords')
      BY <1>0, <2>1, <2>3, FileGrows, SharedAssumption DEF FilesFit
    <2>9. FilesFit'
      BY <1>0, <2>1, <2>8 DEF FilesFit
    <2> QED BY <1>c, <2>7, <2>9 DEF SharedInv
  <1>8. ASSUME NEW p \in Processes, MarkHalving(p) PROVE SharedInv'
    <2> DEFINE m == marks[p] \cup {Tip(p)}
               s == <<m>>
    <2>1. /\ marks' = [marks EXCEPT ![p] = m] /\ saves' = [saves EXCEPT ![p] = s]
          /\ doing' = [doing EXCEPT ![p] = "up"] /\ doing[p] = "marking" /\ saves[p] = << >>
          /\ UNCHANGED <<held, writing, files, markFile>>
      BY <1>0, <1>8 DEF MarkHalving, Stands, ToSave, ProcessesFit
    <2>2. /\ held[p] # << >> /\ Passes(Tip(p), marks[p]) /\ Tip(p) \in Made
          /\ marks[p] \in SUBSET Made /\ OnePerHeight(marks[p]) /\ writing[p] = FALSE
      <3>1. /\ held[p] # << >> /\ Passes(Tip(p), marks[p]) /\ held[p] \in Seq(Made)
            /\ Heights(held[p]) /\ marks[p] \in SUBSET Made /\ OnePerHeight(marks[p])
            /\ writing[p] = FALSE
        BY <1>a, <1>g, <2>1 DEF Fits, Tip
      <3>2. Tip(p) \in Made
        BY <3>1, NewBlock DEF Tip
      <3> QED BY <3>1, <3>2
    <2>3. m \in SUBSET Made /\ OnePerHeight(m)
      BY <2>2 DEF OnePerHeight, Passes
    <2> HIDE DEF m
    <2>4. Queued(s, m)
      BY DEF Queued
    <2> HIDE DEF s
    <2>5. Fits(p, held[p], m, s, writing[p], "up")
      BY <1>a, <2>2, <2>3, <2>4 DEF Fits, Places
    <2>6. ProcessesFit'
      <3>1. Becomes(p, held[p], m, s, writing[p], "up")
        BY <1>a, <2>1 DEF Becomes
      <3> QED BY <1>0, <2>5, <3>1, ProcessChanges
    <2> QED BY <1>c, <1>d, <2>1, <2>6 DEF SharedInv
  <1>9. ASSUME NEW p \in Processes, OpenSave(p) PROVE SharedInv'
    <2>1. /\ writing' = [writing EXCEPT ![p] = TRUE] /\ saves[p] # << >> /\ markFile' = {}
          /\ UNCHANGED <<held, marks, saves, doing, files>>
      BY <1>9 DEF OpenSave
    <2>2. Fits(p, held[p], marks[p], saves[p], TRUE, doing[p])
      BY <1>a, <2>1 DEF Fits
    <2>3. ProcessesFit'
      <3>1. Becomes(p, held[p], marks[p], saves[p], TRUE, doing[p])
        BY <1>a, <2>1 DEF Becomes
      <3> QED BY <1>0, <2>2, <3>1, ProcessChanges
    <2>4. FilesFit'
      BY <1>0, <1>b, <2>1 DEF FilesFit, files, Low
    <2> QED BY <1>c, <2>3, <2>4 DEF SharedInv
  <1>10. ASSUME NEW p \in Processes, CloseSave(p) PROVE SharedInv'
    <2> DEFINE s == saves[p]
               m == marks[p]
    <2>1. PICK rest \in SUBSET markFile :
            markFile' = rest \cup {x \in Head(s) : \A r \in rest : Len(r) # Len(x)}
      BY <1>10 DEF CloseSave
    <2>2. /\ writing[p] /\ saves' = [saves EXCEPT ![p] = Tail(s)]
          /\ writing' = [writing EXCEPT ![p] = FALSE]
          /\ UNCHANGED <<held, marks, doing, files>>
      BY <1>0, <1>10 DEF CloseSave, ProcessesFit
    <2>3. /\ s # << >> /\ Queued(s, m) /\ m \in SUBSET Made /\ OnePerHeight(m)
      BY <1>a, <2>2 DEF Fits
    <2>4. Queued(Tail(s), m) /\ Head(s) \subseteq m
      <3> HIDE DEF s, m
      <3>1. s \in Seq(SUBSET m) /\ s[Len(s)] = m /\ Len(s) \in Nat \ {0}
        BY <2>3 DEF Queued
      <3>2. /\ Tail(s) \in Seq(SUBSET m) /\ Len(Tail(s)) = Len(s) - 1
            /\ \A i \in 1 .. Len(s) - 1 : Tail(s)[i] = s[i + 1]
            /\ Head(s) = s[1] /\ s[1] \in SUBSET m
        BY <2>3, <3>1, HeadTailProperties
      <3>3. ASSUME Tail(s) # << >> PROVE Tail(s)[Len(Tail(s))] = m
        <4>1. Len(s) - 1 \in 1 .. Len(s) - 1 /\ (Len(s) - 1) + 1 = Len(s)
          BY <3>1, <3>2, <3>3
        <4> QED BY <3>1, <3>2, <4>1
      <3> QED BY <3>2, <3>3 DEF Queued
    <2> HIDE DEF s, m
    <2>5. Fits(p, held[p], marks[p], Tail(s), FALSE, doing[p])
      <3>1. doing[p] # "off"
        BY <1>a, <2>3 DEF Fits, s
      <3> QED BY <1>a, <2>4, <3>1 DEF Fits, m
    <2>6. ProcessesFit'
      <3>1. Becomes(p, held[p], marks[p], Tail(s), FALSE, doing[p])
        BY <1>a, <2>2 DEF Becomes
      <3> QED BY <1>0, <2>5, <3>1, ProcessChanges
    <2>7. markFile' \in SUBSET Made /\ OnePerHeight(markFile')
      <3>1. rest \subseteq Made /\ OnePerHeight(rest)
        BY <1>0 DEF FilesFit, OnePerHeight
      <3>2. \A x \in markFile' : x \in rest \/ (x \in m /\ \A r \in rest : Len(r) # Len(x))
        BY <2>1, <2>4
      <3> QED BY <2>3, <3>1, <3>2 DEF OnePerHeight
    <2>8. FilesFit'
      BY <1>0, <2>2, <2>7 DEF FilesFit, files, Low
    <2> QED BY <1>c, <2>6, <2>8 DEF SharedInv
  (* What a block of a peer leaves in blockchain.dat.                        *)
  <1>i. ASSUME NEW b \in Made, Len(b) <= TopHeight, Len(datRecords) < MaxReceived,
               datRecords' \in {Append(datRecords, b), held[TheNode]},
               UNCHANGED <<blkRecords, markFile>>
        PROVE  FilesFit'
    <2>1. CASE datRecords' = Append(datRecords, b)
      <3>1. /\ datRecords' \in Seq(Made) /\ Len(datRecords') <= MaxReceived /\ Low(datRecords')
        BY <1>0, <1>i, <2>1, FileGrows, SharedAssumption DEF FilesFit
      <3>2. Len(datRecords') <= TopHeight + MaxReceived + 1
        BY <3>1, SharedAssumption
      <3> QED BY <1>0, <1>i, <3>1, <3>2 DEF FilesFit, Low
    <2>2. CASE datRecords' = held[TheNode]
      <3>1. held[TheNode] \in Seq(Made) /\ Heights(held[TheNode]) /\ Len(held[TheNode]) <= TopHeight + 1
        BY <1>0, <1>a DEF Fits
      <3>2. Low(held[TheNode])
        BY <3>1, HeightsBound
      <3>3. Len(held[TheNode]) <= TopHeight + MaxReceived + 1
        BY <3>1, SharedAssumption
      <3> QED BY <1>0, <1>i, <2>2, <3>1, <3>2, <3>3 DEF FilesFit, Low
    <2> QED BY <1>i, <2>1, <2>2
  <1>11. CASE Receive
    <2> DEFINE p     == TheNode
               b     == Append(Tip(p), Peer)
               after == WithBlock([chain |-> held[p], marks |-> marks[p], saves |-> << >>], b)
    <2>1. /\ doing[p] = "up" /\ saves[p] = << >> /\ Len(b) <= TopHeight
          /\ Len(datRecords) < MaxReceived /\ UNCHANGED <<writing, blkRecords, markFile>>
      BY <1>11 DEF Receive, Stands
    <2>2. /\ held[p] # << >> /\ held[p] \in Seq(Made) /\ Heights(held[p])
          /\ marks[p] \in SUBSET Made /\ OnePerHeight(marks[p]) /\ writing[p] = FALSE
      BY <1>0, <1>a, <1>g, <2>1 DEF Fits
    <2>3. b \in Made /\ Len(b) = Len(held[p])
      BY <2>2, NewBlock DEF Tip
    <2> HIDE DEF b
    <2>4. CASE ~Passes(b, marks[p])
      <3>1. UNCHANGED <<held, marks, saves, doing>> /\ datRecords' \in {Append(datRecords, b), held[p]}
        BY <1>11, <2>4 DEF Receive, b
      <3>2. FilesFit'
        BY <1>i, <2>1, <2>3, <3>1
      <3>3. ProcessesFit'
        BY <1>0, <2>1, <3>1 DEF ProcessesFit, Fits
      <3> QED BY <1>c, <3>2, <3>3 DEF SharedInv
    <2>5. CASE Passes(b, marks[p])
      <3>1. /\ held' = [held EXCEPT ![p] = after.chain] /\ marks' = [marks EXCEPT ![p] = after.marks]
            /\ saves' = [saves EXCEPT ![p] = after.saves]
            /\ doing' = [doing EXCEPT ![p] = "storing"] /\ UNCHANGED datRecords
        BY <1>11, <2>5 DEF Receive, b
      <3>2. /\ after.chain = Append(held[p], b) /\ after.marks = Marked(b, marks[p])
            /\ after.saves = IF IsHalving(b) THEN Append(<< >>, Marked(b, marks[p])) ELSE << >>
        BY DEF WithBlock
      <3> HIDE DEF after
      <3>3. /\ after.chain \in Seq(Made) /\ Heights(after.chain) /\ after.chain # << >>
            /\ Len(after.chain) <= TopHeight + 1
        BY <1>0, <2>1, <2>2, <2>3, <3>2, ChainGrows
      <3>4. after.marks \in SUBSET Made /\ OnePerHeight(after.marks)
        BY <2>2, <2>3, <2>5, <3>2 DEF Marked, OnePerHeight, Passes
      <3>5. Queued(after.saves, after.marks)
        <4> DEFINE m == after.marks
        <4>1. Queued(<< >>, m)
          BY <1>b
        <4> HIDE DEF m
        <4>2. Queued(Append(<< >>, m), m)
          BY <4>1, QueueGrows
        <4> QED BY <1>b, <3>2, <4>2 DEF m
      <3>6. Fits(p, after.chain, after.marks, after.saves, writing[p], "storing")
        BY <2>2, <3>3, <3>4, <3>5 DEF Fits, Places
      <3>7. ProcessesFit'
        <4>1. Becomes(p, after.chain, after.marks, after.saves, writing[p], "storing")
          BY <1>0, <1>a, <2>1, <3>1 DEF Becomes
        <4> QED BY <1>0, <3>6, <4>1, ProcessChanges
      <3>8. FilesFit'
        BY <1>d, <2>1, <3>1 DEF files
      <3> QED BY <1>c, <3>7, <3>8 DEF SharedInv
    <2> QED BY <2>4, <2>5
  <1>12. CASE StoreReceived
    <2> DEFINE p == TheNode
    <2>1. /\ doing[p] = "storing" /\ doing' = [doing EXCEPT ![p] = "up"]
          /\ datRecords' \in {Append(datRecords, Tip(p)), held[p]}
          /\ UNCHANGED <<held, marks, saves, writing, blkRecords, markFile>>
      BY <1>12 DEF StoreReceived, Stands
    <2>2. held[p] # << >> /\ held[p] \in Seq(Made) /\ Heights(held[p]) /\ Len(held[p]) <= TopHeight + 1
      BY <1>0, <1>a, <2>1 DEF Fits
    <2>3. Fits(p, held[p], marks[p], saves[p], writing[p], "up")
      BY <1>0, <1>f, <2>2 DEF Places
    <2>4. ProcessesFit'
      <3>1. Becomes(p, held[p], marks[p], saves[p], writing[p], "up")
        BY <1>0, <1>a, <2>1 DEF Becomes
      <3> QED BY <1>0, <2>3, <3>1, ProcessChanges
    <2>5. Tip(p) \in Made /\ Len(Tip(p)) <= TopHeight /\ Len(datRecords) < MaxReceived
      <3> HIDE DEF p
      <3>1. Tip(p) \in Made /\ Len(Tip(p)) = Len(held[p]) - 1 /\ Len(held[p]) \in Nat
        <4> DEFINE c == held[p]
        <4>1. c \in Seq(Made) /\ c # << >> /\ Heights(c)
          BY <2>2
        <4>2. Tip(p) = c[Len(c)]
          BY DEF Tip, Last
        <4> HIDE DEF c
        <4>3. Len(c) \in 1 .. Len(c) /\ Len(c) \in Nat
          BY <4>1
        <4>4. c[Len(c)] \in Made
          BY <4>1, <4>3
        <4>5. Len(c[Len(c)]) = Len(c) - 1
          BY <4>1, <4>3 DEF Heights
        <4> QED BY <4>2, <4>3, <4>4, <4>5 DEF c
      <3> QED BY <1>0, <2>1, <2>2, <3>1 DEF HistoryFits, p
    <2>6. FilesFit'
      BY <1>i, <2>1, <2>5
    <2> QED BY <1>c, <2>4, <2>6 DEF SharedInv
  <1>13. CASE UNCHANGED sharedVars
    <2>1. UNCHANGED <<held, marks, saves, writing, doing, files, markFile>>
      BY <1>13 DEF sharedVars
    <2>2. ProcessesFit'
      BY <1>0, <2>1 DEF ProcessesFit, Fits
    <2> QED BY <1>c, <1>d, <2>1, <2>2 DEF SharedInv
  <1> QED
    BY <1>1, <1>2, <1>3, <1>4, <1>5, <1>6, <1>7, <1>8, <1>9, <1>10, <1>11, <1>12, <1>13
    DEF SharedNext

LEMMA SharedIsTyped == SharedInv => SharedTypeOK
  <1> SUFFICES ASSUME SharedInv PROVE SharedTypeOK
    OBVIOUS
  <1>1. ASSUME NEW p \in Processes
        PROVE  /\ \A i \in 1 .. Len(held[p]) : Len(held[p][i]) = i - 1
               /\ \A m, n \in marks[p] : Len(m) = Len(n) => m = n
               /\ \A i \in 1 .. Len(saves[p]) : saves[p][i] \subseteq marks[p]
               /\ writing[p] => saves[p] # << >>
    <2>1. Fits(p, held[p], marks[p], saves[p], writing[p], doing[p])
      BY DEF SharedInv, ProcessesFit
    <2>2. \A i \in 1 .. Len(saves[p]) : saves[p][i] \subseteq marks[p]
      BY <2>1, QueueIsTyped DEF Fits
    <2> QED BY <2>1, <2>2 DEF Fits, Heights, OnePerHeight
  <1> QED BY <1>1 DEF SharedInv, ProcessesFit, FilesFit, HistoryFits, Places, SharedTypeOK

------------------------------------------------------------------------------
(* What the invariant says of a process and of the files, at hand.          *)
LEMMA ProcessIs ==
  ASSUME SharedInv, NEW p \in Processes
  PROVE  /\ held[p] \in Seq(Made) /\ Heights(held[p]) /\ Len(held[p]) \in Nat
         /\ marks[p] \in SUBSET Made /\ OnePerHeight(marks[p])
         /\ Len(saves[p]) \in Nat /\ DOMAIN saves[p] = 1 .. Len(saves[p])
         /\ \A i \in 1 .. Len(saves[p]) : saves[p][i] \subseteq marks[p]
         /\ saves[p] # << >> => saves[p][Len(saves[p])] = marks[p]
         /\ doing[p] \in Places /\ (writing[p] => saves[p] # << >>)
         /\ doing[p] = "off" => saves[p] = << >>
         /\ doing[p] = "marking" => held[p] # << >> /\ Passes(Tip(p), marks[p])
         /\ doing[p] = "sealing" => held[p] = << << >> >> /\ << >> \in marks[p]
         /\ p = TheNode /\ doing[p] \in {"up", "storing"} => held[p] # << >>
  <1>1. Fits(p, held[p], marks[p], saves[p], writing[p], doing[p])
    BY DEF SharedInv, ProcessesFit
  <1>2. /\ Len(saves[p]) \in Nat /\ DOMAIN saves[p] = 1 .. Len(saves[p])
        /\ \A i \in 1 .. Len(saves[p]) : saves[p][i] \subseteq marks[p]
    BY <1>1, QueueIsTyped DEF Fits
  <1> QED BY <1>1, <1>2 DEF Fits, Queued, Tip

LEMMA FilesAre ==
  ASSUME SharedInv
  PROVE  /\ blkRecords \in Seq(Made) /\ Len(blkRecords) \in Nat
         /\ markFile \in SUBSET Made /\ OnePerHeight(markFile)
         /\ Restored \in Seq(Made) /\ Heights(Restored) /\ Len(Restored) \in Nat
         /\ \A i \in 1 .. Len(Restored) : Restored[i] \in Range(blkRecords)
         /\ DOMAIN held = Processes /\ DOMAIN marks = Processes /\ DOMAIN doing = Processes
         /\ DOMAIN saves = Processes /\ DOMAIN writing = Processes /\ TheNode \in Processes
  <1>1. /\ blkRecords \in Seq(Made) /\ Len(blkRecords) \in Nat
        /\ markFile \in SUBSET Made /\ OnePerHeight(markFile)
    BY DEF SharedInv, FilesFit
  <1>2. {} \in SUBSET Made /\ OnePerHeight({})
    BY DEF OnePerHeight
  <1>3. /\ Restored \in Seq(Made) /\ Heights(Restored)
        /\ \A i \in 1 .. Len(Restored) : Restored[i] \in Range(blkRecords)
    BY <1>1, <1>2, ReplayFacts DEF Restored
  <1> QED BY <1>1, <1>3 DEF SharedInv, ProcessesFit, Processes

(* Checkpoints that do not contradict the blocks of a file change nothing   *)
(* when it is read.                                                        *)
LEMMA AgreeingRead ==
  ASSUME NEW file \in Seq(Made), NEW K \in SUBSET Made,
         \A m \in K : Agrees(m, Replay(file, {}).chain)
  PROVE  Replay(file, K).chain = Replay(file, {}).chain
  <1>1. {} \in SUBSET Made /\ OnePerHeight({}) /\ {} \cup K = K
    BY DEF OnePerHeight
  <1>2. Replay(file, {} \cup K).chain = Replay(file, {}).chain
    BY <1>1, ReplayIs
  <1> QED BY <1>1, <1>2

(* The file of checkpoints when a save is done.                            *)
LEMMA SaveCloses ==
  ASSUME SharedInv, NEW p \in Processes, CloseSave(p)
  PROVE  /\ saves[p] # << >> /\ 1 \in 1 .. Len(saves[p]) /\ saves[p][1] \subseteq marks[p]
         /\ \A x \in markFile' : x \in markFile \/ x \in saves[p][1]
         /\ markFile = {} => markFile' = saves[p][1]
         /\ Len(saves'[p]) = Len(saves[p]) - 1
         /\ \A i \in 1 .. Len(saves'[p]) : i + 1 \in 1 .. Len(saves[p]) /\ saves'[p][i] = saves[p][i + 1]
         /\ \A q \in Processes \ {p} : saves'[q] = saves[q] /\ writing'[q] = writing[q]
         /\ ~writing'[p] /\ UNCHANGED <<held, marks, doing, files, history>>
  <1> DEFINE s == saves[p]
  <1>1. /\ writing[p] /\ saves' = [saves EXCEPT ![p] = Tail(s)]
        /\ writing' = [writing EXCEPT ![p] = FALSE]
        /\ UNCHANGED <<held, marks, doing, files, history>>
    BY FilesAre DEF CloseSave
  <1>2. PICK rest \in SUBSET markFile :
          markFile' = rest \cup {m \in Head(s) : \A r \in rest : Len(r) # Len(m)}
    BY DEF CloseSave
  <1>3. s # << >> /\ s \in Seq(SUBSET Made) /\ \A i \in 1 .. Len(s) : s[i] \subseteq marks[p]
    <2>1. s \in Seq(SUBSET Made)
      BY DEF SharedInv, ProcessesFit
    <2> QED BY <1>1, <2>1, ProcessIs
  <1>4. /\ saves'[p] = Tail(s) /\ writing'[p] = FALSE
        /\ \A q \in Processes \ {p} : saves'[q] = saves[q] /\ writing'[q] = writing[q]
    BY <1>1, FilesAre
  <1> HIDE DEF s
  <1>5. /\ Len(s) \in Nat \ {0} /\ Head(s) = s[1] /\ Len(Tail(s)) = Len(s) - 1
        /\ \A i \in 1 .. Len(s) - 1 : Tail(s)[i] = s[i + 1]
    BY <1>3, HeadTailProperties
  <1>6. 1 \in 1 .. Len(s) /\ \A i \in 1 .. Len(s) - 1 : i + 1 \in 1 .. Len(s)
    BY <1>5
  <1>7. \A x \in markFile' : x \in markFile \/ x \in s[1]
    BY <1>2, <1>5
  <1>8. markFile = {} => markFile' = s[1]
    BY <1>2, <1>5
  <1> QED BY <1>1, <1>3, <1>4, <1>5, <1>6, <1>7, <1>8 DEF s

------------------------------------------------------------------------------
(* Processes that take turns.                                              *)

LEMMA AloneStarts == SharedInit => AloneInv
  <1> SUFFICES ASSUME SharedInit PROVE TakesTurns
    BY DEF AloneInv
  <1>1. Restored = << >>
    BY ReplayNone DEF Restored, SharedInit
  <1>2. IsLinked(Restored)
    BY <1>1 DEF IsLinked
  <1> QED BY <1>2 DEF TakesTurns, SharedInit, Mining

(* The chain a block lengthens stays linked.                               *)
LEMMA LinkGrows ==
  ASSUME NEW c \in Seq(Made), IsLinked(c), NEW b \in Made, c # << >> => Front(b) = Last(c)
  PROVE  IsLinked(Append(c, b))
  <1> DEFINE d == Append(c, b)
             n == Len(c)
  <1>1. /\ n \in Nat /\ Len(d) = n + 1 /\ d[n + 1] = b /\ \A i \in 1 .. n : d[i] = c[i]
    BY AppendProperties
  <1> HIDE DEF d
  <1>2. ASSUME NEW i \in 2 .. n + 1 PROVE Front(d[i]) = d[i - 1]
    <2>1. CASE i = n + 1
      <3>1. n \in 1 .. n /\ c # << >> /\ i - 1 = n
        BY <1>1, <2>1
      <3> QED BY <1>1, <2>1, <3>1 DEF Last
    <2>2. CASE i # n + 1
      <3>1. i \in 2 .. n /\ i \in 1 .. n /\ i - 1 \in 1 .. n
        BY <1>1, <2>2
      <3> QED BY <1>1, <3>1 DEF IsLinked
    <2> QED BY <2>1, <2>2
  <1> QED BY <1>1, <1>2 DEF IsLinked, d

LEMMA GenesisRestored ==
  ASSUME NEW m \in SUBSET Made
  PROVE  Replay(<< << >> >>, m).chain = << << >> >>
  <1> DEFINE none == << >>
             c == <<none>>
  <1>1. c = Append(none, none) /\ none \in Made /\ none \in Seq(Made) /\ Len(none) = 0
    BY DEF Made
  <1>2. \A x \in m : Len(x) = Len(none) => x = none
    BY DEF Made
  <1>3. Replay(none, m) = [chain |-> none, marks |-> m, saves |-> none]
    BY ReplayNone
  <1>4. Replay(c, m) = ReadRecord([chain |-> none, marks |-> m, saves |-> none], none)
    <2> HIDE DEF none, c
    <2>1. Replay(Append(none, none), m) = ReadRecord(Replay(none, m), none)
      BY <1>1, ReplayAppend
    <2> QED BY <1>1, <1>3, <2>1
  <1>5. Passes(none, m)
    BY <1>2 DEF Passes
  <1>6. ReadRecord([chain |-> none, marks |-> m, saves |-> none], none)
          = WithBlock([chain |-> none, marks |-> m, saves |-> none], none)
    BY <1>5 DEF ReadRecord
  <1>7. Replay(c, m).chain = c
    <2> HIDE DEF none, c
    <2> QED BY <1>1, <1>4, <1>6 DEF WithBlock
  <1> QED BY <1>7

(* A checkpoint of the genesis, and of a block of a chain, agrees with it.  *)
LEMMA OwnAgree ==
  ASSUME NEW c \in Seq(Made), Heights(c)
  PROVE  Agrees(<< >>, c) /\ \A i \in 1 .. Len(c) : Agrees(c[i], c)
  <1>1. ASSUME Len(<< >>) < Len(c) PROVE c[Len(<< >>) + 1] = << >>
    <2>1. 1 \in 1 .. Len(c)
      BY <1>1
    <2>2. Len(c[1]) = 0 /\ c[1] \in Made
      BY <2>1 DEF Heights
    <2>3. c[1] = << >>
      BY <2>2 DEF Made
    <2> QED BY <2>3
  <1>2. ASSUME NEW i \in 1 .. Len(c) PROVE Agrees(c[i], c)
    <2>1. Len(c[i]) = i - 1 /\ (i - 1) + 1 = i
      BY DEF Heights
    <2> QED BY <2>1 DEF Agrees
  <1> QED BY <1>1, <1>2 DEF Agrees

LEMMA AloneStep == SharedInv /\ AloneInv /\ [SharedNext]_sharedVars => AloneInv'
  <1> SUFFICES ASSUME SharedInv, AloneInv, [SharedNext]_sharedVars, alone'
               PROVE  TakesTurns'
    BY DEF AloneInv
  <1>0. /\ blkRecords \in Seq(Made) /\ markFile \in SUBSET Made
        /\ Restored \in Seq(Made) /\ Heights(Restored) /\ Len(Restored) \in Nat
        /\ DOMAIN held = Processes /\ DOMAIN marks = Processes /\ DOMAIN doing = Processes
        /\ DOMAIN saves = Processes /\ TheNode \in Processes
    BY FilesAre
  <1>a. \A p \in Processes :
          held[p] \in Seq(Made) /\ Heights(held[p]) /\ Len(held[p]) \in Nat /\ marks[p] \in SUBSET Made
    BY ProcessIs
  <1>b. alone
    BY DEF SharedNext, Launch, ReadBlocks, MakeGenesis, KeepGenesis, ReadDump, Mine, MarkHalving,
           OpenSave, CloseSave, Exit, Receive, StoreReceived, sharedVars, history
  <1>c. TakesTurns
    BY <1>b DEF AloneInv
  <1>d. /\ \A p, q \in Processes : doing[p] # "off" /\ doing[q] # "off" => p = q
        /\ IsLinked(Restored) /\ \A m \in markFile : Agrees(m, Restored)
        /\ \A p \in Processes : doing[p] # "off" =>
             markFile \subseteq marks[p] /\ \A m \in marks[p] : Agrees(m, Restored)
        /\ \A p \in Processes : Mining(p) => Begins(Restored, held[p])
    BY <1>c DEF TakesTurns
  <1>e. UNCHANGED blkRecords => Restored' = Restored
    BY DEF Restored
  (* Where one process runs, what it does concerns it and the file.          *)
  <1>f. ASSUME NEW p \in Processes,
               \A q \in Processes \ {p} : doing'[q] = "off",
               IsLinked(Restored'), \A m \in markFile' : Agrees(m, Restored'),
               doing'[p] # "off" =>
                 markFile' \subseteq marks'[p] /\ \A m \in marks'[p] : Agrees(m, Restored'),
               Mining(p)' => Begins(Restored', held'[p])
        PROVE  TakesTurns'
    BY <1>f DEF TakesTurns, Mining
  <1>g. ASSUME NEW p \in Processes, doing[p] # "off",
               \A q \in Processes \ {p} : doing'[q] = doing[q]
        PROVE  \A q \in Processes \ {p} : doing'[q] = "off"
    BY <1>d, <1>g
  (* A step that leaves the blocks and the chain of who runs.                *)
  <1>h. ASSUME NEW p \in Processes, doing[p] # "off",
               \A q \in Processes \ {p} : doing'[q] = doing[q],
               UNCHANGED blkRecords, Mining(p)' => Mining(p) /\ held'[p] = held[p],
               markFile' \subseteq marks[p] \/ UNCHANGED markFile,
               marks[p] \subseteq marks'[p] \/ doing'[p] = "off",
               doing'[p] # "off" =>
                 \A m \in marks'[p] : m \in marks[p] \/ Agrees(m, Restored)
        PROVE  TakesTurns'
    <2>1. Restored' = Restored /\ \A q \in Processes \ {p} : doing'[q] = "off"
      BY <1>e, <1>g, <1>h
    <2>2. \A m \in markFile' : Agrees(m, Restored)
      BY <1>d, <1>h
    <2>3. Mining(p)' => Begins(Restored, held'[p])
      BY <1>d, <1>h
    <2>4. doing'[p] # "off" =>
            markFile' \subseteq marks'[p] /\ \A m \in marks'[p] : Agrees(m, Restored)
      BY <1>d, <1>h
    <2>5. IsLinked(Restored')
      BY <1>d, <2>1
    <2> QED BY <1>f, <2>1, <2>2, <2>3, <2>4, <2>5
  <1>1. ASSUME NEW p \in Processes, Launch(p) PROVE TakesTurns'
    <2>1. /\ \A q \in Processes : doing[q] = "off"
          /\ \A q \in Processes \ {p} : doing'[q] = doing[q]
          /\ doing'[p] = "starting" /\ marks'[p] = markFile
          /\ UNCHANGED <<blkRecords, markFile>>
      BY <1>0, <1>1 DEF Launch, NobodyRuns, files
    <2>2. Restored' = Restored /\ ~Mining(p)'
      BY <1>e, <2>1 DEF Mining
    <2> QED BY <1>d, <1>f, <2>1, <2>2
  <1>2. ASSUME NEW p \in Processes, ReadBlocks(p) PROVE TakesTurns'
    <2> DEFINE read == Replay(blkRecords, marks[p])
    <2>1. /\ doing[p] = "starting" /\ held'[p] = read.chain /\ marks'[p] = read.marks
          /\ \A q \in Processes \ {p} : doing'[q] = doing[q]
          /\ UNCHANGED <<blkRecords, markFile>>
      BY <1>0, <1>2 DEF ReadBlocks, Stands, files
    <2>2. \A m \in marks[p] : Agrees(m, Restored)
      BY <1>d, <2>1
    <2>3. read.chain = Restored
      BY <1>0, <1>a, <2>2, AgreeingRead DEF Restored
    <2>4. /\ marks[p] \subseteq read.marks
          /\ \A x \in read.marks :
               x \in marks[p] \/ \E i \in 1 .. Len(read.chain) : x = read.chain[i]
      <3> DEFINE K == marks[p]
      <3>1. K \in SUBSET Made /\ OnePerHeight(K)
        BY ProcessIs
      <3> HIDE DEF K
      <3>2. /\ K \subseteq Replay(blkRecords, K).marks
            /\ \A x \in Replay(blkRecords, K).marks :
                 x \in K \/ \E i \in 1 .. Len(Replay(blkRecords, K).chain) :
                              x = Replay(blkRecords, K).chain[i]
        BY <1>0, <3>1, ReplayFacts
      <3> QED BY <3>2 DEF K
    <2> HIDE DEF read
    <2>5. \A m \in read.marks : Agrees(m, Restored)
      BY <1>0, <2>2, <2>3, <2>4, OwnAgree
    <2>6. markFile \subseteq marks[p]
      BY <1>d, <2>1
    <2>7. Restored' = Restored /\ IsLinked(Restored') /\ Begins(Restored, held'[p])
      BY <1>0, <1>d, <1>e, <2>1, <2>3 DEF Begins
    <2>8. \A q \in Processes \ {p} : doing'[q] = "off"
      BY <1>g, <2>1
    <2> QED BY <1>d, <1>f, <2>1, <2>4, <2>5, <2>6, <2>7, <2>8
  <1>3. ASSUME NEW p \in Processes, MakeGenesis(p) PROVE TakesTurns'
    <2>1. /\ doing[p] = "empty" /\ doing'[p] = "sealing" /\ marks'[p] = marks[p] \cup {<< >>}
          /\ \A q \in Processes \ {p} : doing'[q] = doing[q]
          /\ UNCHANGED <<blkRecords, markFile>>
      BY <1>0, <1>3 DEF MakeGenesis, Stands, files
    <2>2. Agrees(<< >>, Restored)
      BY <1>0, OwnAgree
    <2>3. ~Mining(p)' /\ \A m \in marks'[p] : m \in marks[p] \/ Agrees(m, Restored)
      BY <2>1, <2>2 DEF Mining
    <2> QED BY <1>h, <2>1, <2>3
  <1>4. ASSUME NEW p \in Processes, KeepGenesis(p) PROVE TakesTurns'
    <2> DEFINE c == << << >> >>
    <2>1. /\ doing[p] = "sealing" /\ blkRecords' = c
          /\ \A q \in Processes \ {p} : doing'[q] = doing[q]
          /\ UNCHANGED <<held, marks, markFile>>
      BY <1>0, <1>4 DEF KeepGenesis, Stands
    <2>2. held[p] = c /\ markFile \subseteq marks[p] /\ marks[p] \in SUBSET Made
      BY <1>d, <2>1, ProcessIs
    <2>3. Restored' = c
      <3>1. Replay(c, {}).chain = c
        BY GenesisRestored
      <3> HIDE DEF c
      <3> QED BY <2>1, <3>1 DEF Restored
    <2>4. Len(c) = 1 /\ c[1] = << >> /\ IsLinked(c) /\ Begins(c, c)
      BY DEF IsLinked, Begins
    <2>5. \A m \in marks[p] : Agrees(m, c)
      <3> SUFFICES ASSUME NEW m \in marks[p], Len(m) < Len(c) PROVE c[Len(m) + 1] = m
        BY DEF Agrees
      <3>1. m \in Made /\ Len(m) \in Nat
        BY <2>2 DEF Made
      <3>2. Len(m) = 0 /\ Len(m) + 1 = 1
        BY <2>4, <3>1
      <3>3. m = << >>
        BY <3>1, <3>2 DEF Made
      <3> HIDE DEF c
      <3> QED BY <2>4, <3>2, <3>3
    <2> HIDE DEF c
    <2>6. \A q \in Processes \ {p} : doing'[q] = "off"
      BY <1>g, <2>1
    <2> QED BY <1>f, <2>1, <2>2, <2>3, <2>4, <2>5, <2>6
  <1>5. ASSUME NEW p \in Processes, ReadDump(p) PROVE TakesTurns'
    <2>1. /\ doing[p] = "reading" /\ doing'[p] = "up"
          /\ \A q \in Processes \ {p} : doing'[q] = doing[q]
          /\ UNCHANGED <<held, marks, markFile, blkRecords>>
      BY <1>0, <1>5 DEF ReadDump, Stands, files
    <2> QED BY <1>h, <2>1 DEF Mining
  <1>6. ASSUME NEW p \in Processes, Exit(p) PROVE TakesTurns'
    <2>1. /\ doing[p] # "off" /\ doing'[p] = "off"
          /\ \A q \in Processes \ {p} : doing'[q] = doing[q]
          /\ UNCHANGED <<markFile, blkRecords>>
      BY <1>0, <1>6 DEF Exit, files
    <2> QED BY <1>h, <2>1 DEF Mining
  <1>7. ASSUME NEW p \in Processes, Mine(p) PROVE TakesTurns'
    <2> DEFINE b == Append(Tip(p), p)
    <2>1. /\ doing[p] = "up" /\ held[p] # << >> /\ doing'[p] # "off"
          /\ \A q \in Processes \ {p} : doing'[q] = doing[q]
          /\ held'[p] = Append(held[p], b) /\ blkRecords' = Append(blkRecords, b)
          /\ Passes(b, marks[p]) /\ UNCHANGED <<marks, markFile>>
      BY <1>0, <1>7 DEF Mine, Stands
    <2>2. b \in Made /\ Len(b) = Len(held[p]) /\ Front(b) = Last(held[p])
      BY <1>a, <2>1, NewBlock DEF Tip
    <2> HIDE DEF b
    <2>3. /\ Begins(Restored, held[p]) /\ markFile \subseteq marks[p]
          /\ \A m \in marks[p] : Agrees(m, Restored)
      BY <1>d, <2>1 DEF Mining
    <2> DEFINE was == Replay(blkRecords, {})
    <2>4. Restored' = ReadRecord(was, b).chain /\ was.chain = Restored
      <3>1. Replay(Append(blkRecords, b), {}) = ReadRecord(was, b)
        BY <1>0, <2>2, ReplayAppend
      <3> HIDE DEF was
      <3>2. Restored' = ReadRecord(was, b).chain
        BY <2>1, <3>1 DEF Restored
      <3> QED BY <3>2 DEF was, Restored
    <2> HIDE DEF was
    <2>5. /\ Len(held'[p]) = Len(held[p]) + 1 /\ held'[p][Len(held[p]) + 1] = b
          /\ \A i \in 1 .. Len(held[p]) : held'[p][i] = held[p][i]
      BY <1>a, <2>1, <2>2, AppendProperties
    <2>6. \A q \in Processes \ {p} : doing'[q] = "off"
      BY <1>g, <2>1
    <2>7. CASE ~(Len(b) = Len(was.chain) /\ Passes(b, was.marks))
      <3>1. Restored' = Restored
        BY <2>4, <2>7 DEF ReadRecord
      <3>2. Begins(Restored', held'[p])
        <4>1. /\ Len(Restored) \in Nat /\ Len(held[p]) \in Nat /\ Len(Restored) <= Len(held[p])
              /\ \A i \in 1 .. Len(Restored) : Restored[i] = held[p][i]
          BY <1>0, <1>a, <2>3 DEF Begins
        <4>2. Len(Restored) <= Len(held'[p])
          BY <2>5, <4>1
        <4>3. \A i \in 1 .. Len(Restored) : i \in 1 .. Len(held[p])
          BY <4>1
        <4>4. \A i \in 1 .. Len(Restored) : Restored[i] = held'[p][i]
          BY <2>5, <4>1, <4>3
        <4> QED BY <3>1, <4>2, <4>4 DEF Begins
      <3> QED BY <1>d, <1>f, <2>1, <2>3, <2>6, <3>1, <3>2
    <2>8. CASE Len(b) = Len(was.chain) /\ Passes(b, was.marks)
      <3>1. Restored' = Append(Restored, b) /\ Len(Restored) = Len(held[p])
        BY <2>2, <2>4, <2>8 DEF ReadRecord, WithBlock
      <3>2. Restored # << >> => Front(b) = Last(Restored)
        <4>1. Restored # << >> => Len(Restored) \in 1 .. Len(Restored)
          BY <1>0
        <4> QED BY <2>2, <2>3, <3>1, <4>1 DEF Begins, Last
      <3>3. IsLinked(Restored')
        BY <1>0, <1>d, <2>2, <3>1, <3>2, LinkGrows
      <3>4. /\ Len(Append(Restored, b)) = Len(Restored) + 1
            /\ Append(Restored, b)[Len(Restored) + 1] = b
            /\ \A i \in 1 .. Len(Restored) : Append(Restored, b)[i] = Restored[i]
        BY <1>0, <2>2, AppendProperties
      <3>5. Begins(Restored', held'[p])
        <4>1. \A i \in 1 .. Len(held[p]) + 1 : i \in 1 .. Len(held[p]) \/ i = Len(held[p]) + 1
          BY <1>a
        <4> QED BY <1>a, <2>3, <2>5, <3>1, <3>4, <4>1 DEF Begins
      <3>6. \A m \in marks[p] : Agrees(m, Restored')
        <4> SUFFICES ASSUME NEW m \in marks[p], Len(m) < Len(Restored')
                     PROVE  Restored'[Len(m) + 1] = m
          BY DEF Agrees
        <4>1. Len(m) \in Nat
          BY <1>a DEF Made
        <4>2. CASE Len(m) = Len(Restored)
          <5>1. m = b
            BY <2>1, <2>2, <3>1, <4>2 DEF Passes
          <5> QED BY <3>1, <3>4, <4>2, <5>1
        <4>3. CASE Len(m) # Len(Restored)
          <5>1. Len(m) < Len(Restored) /\ Len(m) + 1 \in 1 .. Len(Restored)
            BY <1>0, <3>1, <3>4, <4>1, <4>3
          <5>2. Restored[Len(m) + 1] = m
            BY <2>3, <5>1 DEF Agrees
          <5> QED BY <3>1, <3>4, <5>1, <5>2
        <4> QED BY <4>2, <4>3
      <3> QED BY <1>f, <2>1, <2>3, <2>6, <3>3, <3>5, <3>6
    <2> QED BY <2>7, <2>8
  <1>8. ASSUME NEW p \in Processes, MarkHalving(p) PROVE TakesTurns'
    <2>1. /\ doing[p] = "marking" /\ doing'[p] = "up"
          /\ \A q \in Processes \ {p} : doing'[q] = doing[q]
          /\ marks'[p] = marks[p] \cup {Tip(p)} /\ UNCHANGED <<held, blkRecords, markFile>>
      BY <1>0, <1>8 DEF MarkHalving, Stands, files
    <2>2. Begins(Restored, held[p])
      BY <1>d, <2>1 DEF Mining
    <2>3. Agrees(Tip(p), Restored)
      <3>1. held[p] # << >> /\ held[p] \in Seq(Made) /\ Heights(held[p])
        BY <2>1, ProcessIs
      <3>2. Len(held[p]) \in 1 .. Len(held[p]) /\ Tip(p) = held[p][Len(held[p])]
        BY <3>1 DEF Tip, Last
      <3>3. Agrees(Tip(p), held[p]) /\ Len(Tip(p)) = Len(held[p]) - 1
        BY <3>1, <3>2, OwnAgree DEF Heights
      <3> SUFFICES ASSUME Len(Tip(p)) < Len(Restored)
                   PROVE  Restored[Len(Tip(p)) + 1] = Tip(p)
        BY DEF Agrees
      <3>4. Len(Tip(p)) + 1 = Len(held[p]) /\ Len(held[p]) \in 1 .. Len(Restored)
        BY <1>0, <1>a, <3>2, <3>3
      <3> QED BY <2>2, <3>2, <3>4 DEF Begins
    <2>4. \A m \in marks'[p] : m \in marks[p] \/ Agrees(m, Restored)
      BY <2>1, <2>3
    <2> QED BY <1>h, <2>1, <2>4 DEF Mining
  <1>9. ASSUME NEW p \in Processes, OpenSave(p) PROVE TakesTurns'
    <2>1. doing[p] # "off"
      BY <1>9, ProcessIs DEF OpenSave
    <2>2. markFile' = {} /\ UNCHANGED <<held, marks, doing, blkRecords>>
      BY <1>9 DEF OpenSave, files
    <2> QED BY <1>h, <2>1, <2>2 DEF Mining
  <1>10. ASSUME NEW p \in Processes, CloseSave(p) PROVE TakesTurns'
    <2>1. /\ saves[p] # << >> /\ saves[p][1] \subseteq marks[p]
          /\ \A x \in markFile' : x \in markFile \/ x \in saves[p][1]
          /\ UNCHANGED <<held, marks, doing, files>>
      BY <1>10, SaveCloses
    <2>2. doing[p] # "off"
      BY <2>1, ProcessIs
    <2>3. markFile' \subseteq marks[p]
      BY <1>d, <2>1, <2>2
    <2> QED BY <1>h, <2>1, <2>2, <2>3 DEF Mining, files
  <1>11. CASE Receive
    <2> DEFINE p     == TheNode
               b     == Append(Tip(p), Peer)
               after == WithBlock([chain |-> held[p], marks |-> marks[p], saves |-> << >>], b)
    <2>1. doing[p] = "up" /\ p \in Processes /\ UNCHANGED <<blkRecords, markFile>>
      BY <1>0, <1>11 DEF Receive, Stands
    <2>2. /\ held[p] # << >> /\ held[p] \in Seq(Made) /\ Heights(held[p]) /\ Len(held[p]) \in Nat
          /\ Begins(Restored, held[p]) /\ markFile \subseteq marks[p]
          /\ \A m \in marks[p] : Agrees(m, Restored)
      BY <1>d, <2>1, ProcessIs DEF Mining
    <2>3. b \in Made /\ Len(b) = Len(held[p])
      BY <2>2, NewBlock DEF Tip
    <2>4. CASE ~Passes(b, marks[p])
      <3>1. UNCHANGED <<held, marks, doing>>
        BY <1>11, <2>4 DEF Receive
      <3> HIDE DEF p
      <3> QED BY <1>h, <2>1, <3>1 DEF Mining
    <2>5. CASE Passes(b, marks[p])
      <3>1. /\ held'[p] = after.chain /\ marks'[p] = after.marks /\ doing'[p] = "storing"
            /\ \A q \in Processes \ {p} : doing'[q] = doing[q]
        BY <1>0, <1>11, <2>5 DEF Receive
      <3>2. after.chain = Append(held[p], b) /\ after.marks = Marked(b, marks[p])
        BY DEF WithBlock
      <3> HIDE DEF after, b, p
      <3>3. /\ \A i \in 1 .. Len(held[p]) : held'[p][i] = held[p][i]
            /\ Len(held'[p]) = Len(held[p]) + 1
        BY <2>2, <2>3, <3>1, <3>2, AppendProperties
      <3>4. Begins(Restored, held'[p])
        BY <1>0, <2>2, <3>3 DEF Begins
      <3>5. Agrees(b, Restored)
        BY <1>0, <2>2, <2>3 DEF Agrees, Begins
      <3>6. marks[p] \subseteq marks'[p] /\ \A m \in marks'[p] : Agrees(m, Restored)
        BY <2>2, <3>1, <3>2, <3>5 DEF Marked
      <3>7. Restored' = Restored /\ \A q \in Processes \ {p} : doing'[q] = "off"
        BY <1>e, <1>g, <2>1, <3>1
      <3>8. IsLinked(Restored') /\ \A m \in markFile' : Agrees(m, Restored')
        BY <1>d, <2>1, <3>7
      <3> QED BY <1>f, <2>1, <2>2, <3>4, <3>6, <3>7, <3>8
    <2> QED BY <2>4, <2>5
  <1>12. CASE StoreReceived
    <2>1. /\ doing[TheNode] = "storing" /\ doing'[TheNode] = "up" /\ TheNode \in Processes
          /\ \A q \in Processes \ {TheNode} : doing'[q] = doing[q]
          /\ UNCHANGED <<held, marks, markFile, blkRecords>>
      BY <1>0, <1>12 DEF StoreReceived, Stands
    <2> QED BY <1>h, <2>1 DEF Mining
  <1>13. CASE UNCHANGED sharedVars
    BY <1>13, <1>d, <1>e DEF sharedVars, files, TakesTurns, Mining
  <1> QED
    BY <1>1, <1>2, <1>3, <1>4, <1>5, <1>6, <1>7, <1>8, <1>9, <1>10, <1>11, <1>12, <1>13
    DEF SharedNext

------------------------------------------------------------------------------
(* Blocks that are all mined.                                              *)

(* The blocks of a file with one more.                                     *)
LEMMA RangeGrows ==
  ASSUME NEW file \in Seq(Made), NEW b \in Made
  PROVE  Range(Append(file, b)) = Range(file) \cup {b}
  <1> DEFINE g == Append(file, b)
  <1>1. /\ Len(g) = Len(file) + 1 /\ g[Len(file) + 1] = b /\ Len(file) \in Nat
        /\ \A i \in 1 .. Len(file) : g[i] = file[i]
        /\ g \in Seq(Made)
    BY AppendProperties
  <1> HIDE DEF g
  <1>2. DOMAIN g = 1 .. Len(file) + 1 /\ DOMAIN file = 1 .. Len(file)
    BY <1>1 DEF g
  <1>3. \A i \in 1 .. Len(file) + 1 : i \in 1 .. Len(file) \/ i = Len(file) + 1
    BY <1>1
  <1>4. Range(g) \subseteq Range(file) \cup {b}
    BY <1>1, <1>2, <1>3 DEF Range, g
  <1>5. Range(file) \subseteq Range(g)
    <2>1. \A i \in 1 .. Len(file) : i \in 1 .. Len(file) + 1
      BY <1>1
    <2> QED BY <1>1, <1>2, <2>1 DEF Range, g
  <1>6. b \in Range(g)
    BY <1>1, <1>2 DEF Range, g
  <1> QED BY <1>4, <1>5, <1>6 DEF g

LEMMA SameHeightHalves ==
  ASSUME NEW a, NEW b, Len(a) = Len(b)
  PROVE  IsHalving(a) <=> IsHalving(b)
  BY DEF IsHalving

(* Checkpoints of the blocks of the file change nothing when it is read.    *)
LEMMA KnownAgree ==
  ASSUME SharedInv, OneHalving, NEW m \in Made, Known(m)
  PROVE  Agrees(m, Restored)
  <1> DEFINE c == Restored
             h == Len(m) + 1
  <1>2. c \in Seq(Made) /\ Heights(c) /\ \A i \in 1 .. Len(c) : c[i] \in Range(blkRecords)
    BY FilesAre
  <1> HIDE DEF c
  <1> SUFFICES ASSUME Len(m) < Len(c) PROVE c[h] = m
    BY DEF Agrees, c
  <1>3. h \in 1 .. Len(c) /\ Len(m) \in Nat
    BY <1>2 DEF Made
  <1>4. Len(c[h]) = Len(m) /\ c[h] \in Range(blkRecords) /\ c[h] \in Made
    <2>1. Len(c[h]) = h - 1
      BY <1>2, <1>3 DEF Heights
    <2>2. h - 1 = Len(m)
      BY <1>3
    <2> QED BY <1>2, <1>3, <2>1, <2>2
  <1> HIDE DEF h
  <1>5. CASE m = << >>
    <2>1. Len(c[h]) = 0
      BY <1>4, <1>5
    <2> QED BY <1>4, <1>5, <2>1 DEF Made
  <1>6. CASE IsHalving(m) /\ m \in Range(blkRecords)
    BY <1>4, <1>6 DEF OneHalving
  <1> QED BY <1>5, <1>6 DEF Known

LEMMA SameRestored ==
  ASSUME SharedInv, OneHalving, NEW K \in SUBSET Made, \A m \in K : Known(m)
  PROVE  Replay(blkRecords, K).chain = Restored
  <1>1. blkRecords \in Seq(Made) /\ \A m \in K : Agrees(m, Restored)
    BY FilesAre, KnownAgree
  <1> QED BY <1>1, AgreeingRead DEF Restored

(* What a process reads back holds a checkpoint for each in the file.       *)
LEMMA ReadKnows ==
  ASSUME SharedInv, Settled, Whole, NEW p \in Processes, doing[p] # "off"
  PROVE  markFile \subseteq Replay(blkRecords, marks[p]).marks
  <1> DEFINE K == marks[p]
             c == Replay(blkRecords, K).chain
             m == Replay(blkRecords, K).marks
  <1>1. << >> \in K /\ K \in SUBSET Made /\ OnePerHeight(K) /\ \A y \in K : Known(y)
    BY ProcessIs DEF Settled, OneHalving, Whole
  <1>2. blkRecords \in Seq(Made) /\ markFile \in SUBSET Made /\ OneHalving /\ NoneLost
    BY FilesAre DEF Settled
  <1>3. c = Restored
    BY <1>1, <1>2, SameRestored
  <1> HIDE DEF K
  <1>4. c \in Seq(Made) /\ K \subseteq m /\ \A i \in 1 .. Len(c) : IsHalving(c[i]) => c[i] \in m
    BY <1>1, <1>2, ReplayFacts
  <1> HIDE DEF c, m
  <1>5. ASSUME NEW x \in markFile PROVE x \in m
    <2>1. Known(x) /\ x \in Made /\ Len(x) \in Nat
      BY <1>2, <1>5 DEF OneHalving, Made
    <2>2. CASE x = << >>
      BY <1>1, <1>4, <2>2
    <2>3. CASE IsHalving(x) /\ x \in Range(blkRecords)
      <3>1. Len(x) < Len(c) /\ Agrees(x, c)
        BY <1>2, <1>3, <2>1, <2>3, KnownAgree DEF NoneLost
      <3>2. c[Len(x) + 1] = x /\ Len(x) + 1 \in 1 .. Len(c)
        BY <1>4, <2>1, <3>1 DEF Agrees
      <3> QED BY <1>4, <2>3, <3>2
    <2> QED BY <2>1, <2>2, <2>3 DEF Known
  <1> QED BY <1>5 DEF m, K

(* So does the map of who has mined the highest halving block.             *)
LEMMA MarkKnows ==
  ASSUME SharedInv, Settled, Whole, NEW p \in Processes, doing[p] = "marking"
  PROVE  markFile \subseteq marks[p] \cup {Tip(p)}
  <1> DEFINE c == held[p]
  <1>1. c \in Seq(Made) /\ Heights(c) /\ c # << >> /\ Tip(p) = c[Len(c)]
    BY ProcessIs DEF Tip, Last
  <1>2. OneHalving /\ NoneLost /\ OwnHalvings(p) /\ << >> \in marks[p] /\ markFile \in SUBSET Made
    BY FilesAre DEF Settled, Whole
  <1>3. /\ \A r \in Range(blkRecords) : IsHalving(r) => Len(r) <= Len(Tip(p))
        /\ \A i \in 1 .. Len(c) : c[i] \in Range(blkRecords)
        /\ \A i \in 1 .. Len(c) : IsHalving(c[i]) /\ i # Len(c) => c[i] \in marks[p]
    BY <1>2 DEF NoneLost, OwnHalvings, Mining
  <1> HIDE DEF c
  <1>4. Len(c) \in 1 .. Len(c)
    BY <1>1
  <1>5. Len(Tip(p)) = Len(c) - 1
    BY <1>1, <1>4 DEF Heights
  <1>6. ASSUME NEW x \in markFile PROVE x \in marks[p] \cup {Tip(p)}
    <2> DEFINE h == Len(x) + 1
    <2>1. Known(x) /\ x \in Made /\ Len(x) \in Nat
      BY <1>2, <1>6 DEF OneHalving, Made
    <2>2. CASE x = << >>
      BY <1>2, <2>2
    <2>3. CASE IsHalving(x) /\ x \in Range(blkRecords)
      <3>1. h \in 1 .. Len(c) /\ h - 1 = Len(x)
        BY <1>1, <1>3, <1>5, <2>1, <2>3
      <3>2. Len(c[h]) = Len(x)
        BY <1>1, <3>1 DEF Heights
      <3> HIDE DEF h
      <3>3. c[h] = x
        BY <1>2, <1>3, <2>3, <3>1, <3>2 DEF OneHalving
      <3>4. CASE h = Len(c)
        BY <1>1, <3>3, <3>4
      <3>5. CASE h # Len(c)
        BY <1>3, <2>3, <3>1, <3>3, <3>5
      <3> QED BY <3>4, <3>5
    <2> QED BY <2>1, <2>2, <2>3 DEF Known
  <1> QED BY <1>6

LEMMA MinedStarts == SharedInit => MinedInv
  BY DEF SharedInit, MinedInv, FirstStart, OnlyMined, OneSaver, Processes

(* A block that a process mines while no two halvings clash: it is new at   *)
(* its height if it halves, and no higher one halves.                      *)
LEMMA HalvingIsFirst ==
  ASSUME SharedInv, Settled, NEW p \in Processes, Mining(p), held[p] # << >>,
         NEW b \in Made, Len(b) = Len(held[p]), Last(b) = p, IsHalving(b), ~Contradicts(b),
         NEW r \in Range(blkRecords), IsHalving(r)
  PROVE  Len(r) < Len(b)
  <1>1. /\ blkRecords \in Seq(Made) /\ held[p] \in Seq(Made)
        /\ Restored \in Seq(Made) /\ Heights(Restored)
        /\ \A i \in 1 .. Len(Restored) : Restored[i] \in Range(blkRecords)
    BY FilesAre, ProcessIs
  <1>2. r \in Made /\ Len(r) \in Nat /\ Len(b) \in Nat /\ Len(Restored) \in Nat
    BY <1>1 DEF Range, Made
  <1> SUFFICES ASSUME Len(r) >= Len(b) PROVE FALSE
    BY <1>2
  <1>3. Len(r) < Len(Restored)
    BY DEF Settled, NoneLost
  <1> DEFINE h == Len(b) + 1
             x == Restored[h]
  <1>4. h \in 1 .. Len(Restored) /\ h - 1 = Len(b)
    BY <1>2, <1>3
  <1>5. x \in Range(blkRecords) /\ Len(x) = Len(b)
    <2>1. Len(x) = h - 1
      BY <1>1, <1>4 DEF Heights
    <2> QED BY <1>1, <1>4, <2>1
  <1> HIDE DEF x, h
  <1>6. x = b
    BY <1>5 DEF Contradicts
  <1>7. Last(x) # p
    BY <1>2, <1>5 DEF Settled, OwnHalvings
  <1> QED BY <1>6, <1>7

(* A step after which all blocks are still mined ones, and none clashed.     *)
LEMMA MinedOnly ==
  ASSUME SharedInv, MinedInv, [SharedNext]_sharedVars, ~clashed'
  PROVE  /\ ~clashed /\ OnlyMined /\ OneSaver /\ (FirstStart \/ Settled)
         /\ ~Receive /\ ~StoreReceived
  <1>1. ~Receive
    BY DEF Receive
  <1>2. clashed \in BOOLEAN
    BY DEF SharedInv, HistoryFits
  <1>3. ~clashed
    BY <1>1, <1>2 DEF SharedNext, Launch, ReadBlocks, MakeGenesis, KeepGenesis, ReadDump, ToSave, Mine,
                MarkHalving, OpenSave, CloseSave, Exit, StoreReceived, sharedVars, history
  <1>4. OnlyMined /\ OneSaver /\ (FirstStart \/ Settled)
    BY <1>3 DEF MinedInv
  <1>5. ~StoreReceived
    BY <1>4 DEF StoreReceived, Stands, OnlyMined
  <1> QED BY <1>1, <1>3, <1>4, <1>5

(* Only one process has something to save, and over an emptied file, after  *)
(* any step: and the node stores no block of a peer.                       *)
LEMMA SaversStep ==
  ASSUME SharedInv, MinedInv, [SharedNext]_sharedVars, ~clashed'
  PROVE  OnlyMined' /\ OneSaver'
  <1>0. /\ ~clashed /\ OnlyMined /\ OneSaver /\ ~Receive /\ ~StoreReceived
        /\ TheNode \in Processes /\ DOMAIN saves = Processes /\ DOMAIN doing = Processes
        /\ DOMAIN writing = Processes
    BY MinedOnly, FilesAre
  <1>1. /\ \A p, q \in Processes : saves[p] # << >> /\ saves[q] # << >> => p = q
        /\ \A p \in Processes : writing[p] => markFile = {}
        /\ datRecords = << >> /\ doing[TheNode] # "storing"
    BY <1>0 DEF OneSaver, OnlyMined
  <1>2. OnlyMined'
    <2>1. ASSUME NEW p \in Processes,
                 Launch(p) \/ ReadBlocks(p) \/ MakeGenesis(p) \/ KeepGenesis(p) \/ ReadDump(p)
          PROVE  datRecords' = << >> /\ doing'[TheNode] # "storing"
      BY <1>0, <1>1, <2>1 DEF Launch, ReadBlocks, MakeGenesis, KeepGenesis, ReadDump, files, Started
    <2>2. ASSUME NEW p \in Processes,
                 Mine(p) \/ MarkHalving(p) \/ OpenSave(p) \/ CloseSave(p) \/ Exit(p)
          PROVE  datRecords' = << >> /\ doing'[TheNode] # "storing"
      BY <1>0, <1>1, <2>2 DEF Mine, MarkHalving, OpenSave, CloseSave, Exit, files
    <2>3. ASSUME UNCHANGED sharedVars PROVE datRecords' = << >> /\ doing'[TheNode] # "storing"
      BY <1>1, <2>3 DEF sharedVars, files
    <2> QED BY <1>0, <2>1, <2>2, <2>3 DEF SharedNext, OnlyMined
  (* What a process has to save before it goes on.                           *)
  <1>3. ASSUME NEW p \in Processes, saves[p] = << >>, NEW maps, ToSave(p, maps),
               UNCHANGED <<writing, markFile>>
        PROVE  OneSaver'
    <2>1. /\ saves'[p] = maps /\ \A q \in Processes \ {p} : saves'[q] = saves[q]
          /\ ~ClashOver(p, maps)
      BY <1>0, <1>3 DEF ToSave
    <2>2. maps # << >> => \A q \in Processes \ {p} : saves[q] = << >>
      BY <2>1 DEF ClashOver
    <2>3. \A q, r \in Processes : saves'[q] # << >> /\ saves'[r] # << >> => q = r
      BY <1>1, <2>1, <2>2
    <2>4. \A q \in Processes : writing'[q] => markFile' = {}
      BY <1>1, <1>3
    <2> QED BY <2>3, <2>4 DEF OneSaver
  (* Steps that have nothing to do with saves.                               *)
  <1>4. ASSUME UNCHANGED <<saves, writing, markFile>> PROVE OneSaver'
    BY <1>0, <1>4 DEF OneSaver
  <1>5. ASSUME NEW p \in Processes, Launch(p) \/ KeepGenesis(p) \/ Mine(p) PROVE OneSaver'
    <2>1. UNCHANGED <<saves, writing, markFile>>
      BY <1>5 DEF Launch, KeepGenesis, Mine
    <2> QED BY <1>4, <2>1
  <1>6. ASSUME NEW p \in Processes, ReadBlocks(p) PROVE OneSaver'
    <2>1. /\ saves[p] = << >> /\ ToSave(p, Replay(blkRecords, marks[p]).saves)
          /\ UNCHANGED <<writing, markFile>>
      BY <1>6 DEF ReadBlocks, Stands
    <2> QED BY <1>3, <2>1
  <1>7. ASSUME NEW p \in Processes, MakeGenesis(p) PROVE OneSaver'
    <2>1. /\ saves[p] = << >> /\ ToSave(p, <<marks[p] \cup {<< >>}>>)
          /\ UNCHANGED <<writing, markFile>>
      BY <1>7 DEF MakeGenesis, Stands
    <2> QED BY <1>3, <2>1
  <1>8. ASSUME NEW p \in Processes, MarkHalving(p) PROVE OneSaver'
    <2>1. /\ saves[p] = << >> /\ ToSave(p, <<marks[p] \cup {Tip(p)}>>)
          /\ UNCHANGED <<writing, markFile>>
      BY <1>8 DEF MarkHalving, Stands
    <2> QED BY <1>3, <2>1
  <1>9. ASSUME NEW p \in Processes, ReadDump(p) PROVE OneSaver'
    <2>1. UNCHANGED <<saves, writing, markFile>>
      BY <1>1, <1>9 DEF ReadDump
    <2> QED BY <1>4, <2>1
  <1>10. ASSUME NEW p \in Processes, Exit(p) PROVE OneSaver'
    <2>1. /\ saves'[p] = << >> /\ \A q \in Processes \ {p} : saves'[q] = saves[q]
          /\ writing'[p] = FALSE /\ \A q \in Processes \ {p} : writing'[q] = writing[q]
          /\ UNCHANGED markFile
      BY <1>0, <1>10 DEF Exit
    <2>2. \A q, r \in Processes : saves'[q] # << >> /\ saves'[r] # << >> => q = r
      BY <1>1, <2>1
    <2>3. \A q \in Processes : writing'[q] => markFile' = {}
      BY <1>1, <2>1
    <2> QED BY <2>2, <2>3 DEF OneSaver
  <1>11. ASSUME NEW p \in Processes, OpenSave(p) PROVE OneSaver'
    <2>1. UNCHANGED saves /\ markFile' = {}
      BY <1>11 DEF OpenSave
    <2> QED BY <1>1, <2>1 DEF OneSaver
  <1>12. ASSUME NEW p \in Processes, CloseSave(p) PROVE OneSaver'
    <2>1. /\ saves[p] # << >> /\ ~writing'[p]
          /\ \A q \in Processes \ {p} : saves'[q] = saves[q] /\ writing'[q] = writing[q]
      BY <1>12, SaveCloses
    <2>2. \A q \in Processes \ {p} : saves[q] = << >> /\ ~writing[q]
      <3> SUFFICES ASSUME NEW q \in Processes \ {p} PROVE saves[q] = << >> /\ ~writing[q]
        OBVIOUS
      <3>1. saves[q] = << >>
        BY <1>1, <2>1
      <3>2. writing[q] => saves[q] # << >>
        BY ProcessIs
      <3> QED BY <3>1, <3>2
    <2>3. \A q, r \in Processes : saves'[q] # << >> /\ saves'[r] # << >> => q = r
      BY <2>1, <2>2
    <2>4. \A q \in Processes : ~writing'[q]
      BY <2>1, <2>2
    <2> QED BY <2>3, <2>4 DEF OneSaver
  <1>13. ASSUME UNCHANGED sharedVars PROVE OneSaver'
    <2>1. UNCHANGED <<saves, writing, markFile>>
      BY <1>13 DEF sharedVars
    <2> QED BY <1>4, <2>1
  <1>14. OneSaver'
    BY <1>0, <1>5, <1>6, <1>7, <1>8, <1>9, <1>10, <1>11, <1>12, <1>13 DEF SharedNext
  <1> QED BY <1>2, <1>14

LEMMA MinedStep == SharedInv /\ MinedInv /\ [SharedNext]_sharedVars => MinedInv'
  <1> SUFFICES ASSUME SharedInv, MinedInv, [SharedNext]_sharedVars, ~clashed'
               PROVE  FirstStart' \/ Settled'
    BY SaversStep DEF MinedInv
  <1>0. /\ blkRecords \in Seq(Made) /\ Len(blkRecords) \in Nat
        /\ markFile \in SUBSET Made /\ OnePerHeight(markFile)
        /\ Restored \in Seq(Made) /\ Heights(Restored) /\ Len(Restored) \in Nat
        /\ \A i \in 1 .. Len(Restored) : Restored[i] \in Range(blkRecords)
        /\ DOMAIN held = Processes /\ DOMAIN marks = Processes /\ DOMAIN doing = Processes
        /\ DOMAIN saves = Processes /\ DOMAIN writing = Processes
    BY FilesAre
  <1>a. \A p \in Processes :
          /\ held[p] \in Seq(Made) /\ Heights(held[p]) /\ Len(held[p]) \in Nat
          /\ marks[p] \in SUBSET Made /\ OnePerHeight(marks[p])
          /\ (writing[p] => saves[p] # << >>) /\ (doing[p] = "off" => saves[p] = << >>)
          /\ \A i \in 1 .. Len(saves[p]) : saves[p][i] \subseteq marks[p]
    BY ProcessIs
  <1>b. ~clashed /\ OnlyMined /\ OneSaver /\ ~Receive /\ ~StoreReceived
    BY MinedOnly
  <1>c. FirstStart \/ Settled
    BY MinedOnly
  <1>d. UNCHANGED blkRecords => Restored' = Restored
    BY DEF Restored
  <1>e. ~cutOff' => ~cutOff
    BY DEF SharedNext, Launch, ReadBlocks, MakeGenesis, KeepGenesis, ReadDump, Mine,
       MarkHalving, OpenSave, CloseSave, Exit, Receive, StoreReceived, sharedVars, history
  (* The step of a process that leaves the blocks of the file.               *)
  <1>h. ASSUME Settled, NEW p \in Processes, UNCHANGED blkRecords,
               \A q \in Processes \ {p} :
                 doing'[q] = doing[q] /\ marks'[q] = marks[q] /\ held'[q] = held[q],
               doing'[p] \notin {"empty", "sealing"},
               held'[p] = held[p] \/ held'[p] = << >> \/ held'[p] = Restored,
               \A x \in marks'[p] : Known(x), \A x \in markFile' : Known(x),
               OwnHalvings(p)', ~cutOff' => Whole'
        PROVE  Settled'
    <2>1. Restored' = Restored
      BY <1>d, <1>h
    <2>2. FromFile'
      BY <1>h DEF Settled, FromFile
    <2>3. OneHalving'
      <3>1. ASSUME NEW q \in Processes, NEW x \in marks'[q] PROVE Known(x)
        BY <1>h, <3>1 DEF Settled, OneHalving
      <3> QED BY <1>h, <3>1 DEF Settled, OneHalving, Known
    <2>4. NoneLost'
      <3>1. ASSUME NEW q \in Processes
            PROVE  /\ Len(held'[q]) <= Len(Restored)
                   /\ \A i \in 1 .. Len(held'[q]) : held'[q][i] \in Range(blkRecords)
        <4>1. CASE held'[q] = held[q]
          BY <1>h, <4>1 DEF Settled, NoneLost
        <4>2. CASE held'[q] = << >>
          BY <1>0, <4>2
        <4>3. CASE held'[q] = Restored
          BY <1>0, <4>3
        <4> QED BY <1>h, <4>1, <4>2, <4>3
      <3> QED BY <1>h, <2>1, <3>1 DEF Settled, NoneLost
    <2>5. ASSUME NEW q \in Processes PROVE OwnHalvings(q)'
      <3>1. CASE q = p
        BY <1>h, <3>1
      <3>2. CASE q # p
        BY <1>h, <3>2 DEF Settled, OwnHalvings, Mining, Tip
      <3> QED BY <3>1, <3>2
    <2> QED BY <1>h, <2>2, <2>3, <2>4, <2>5 DEF Settled
  <1>1. ASSUME NEW p \in Processes, Launch(p) PROVE FirstStart' \/ Settled'
    <2>1. /\ doing[p] = "off" /\ doing'[p] = "starting" /\ marks'[p] = markFile
          /\ \A q \in Processes \ {p} : doing'[q] = doing[q] /\ marks'[q] = marks[q]
          /\ UNCHANGED <<held, saves, blkRecords, markFile>> /\ ~FirstStartRuns
          /\ (~cutOff' => ~SomeoneSaves)
      BY <1>0, <1>1 DEF Launch, files
    <2>2. CASE FirstStart
      <3>1. \A q \in Processes : doing[q] = "off"
        BY <2>1, <2>2 DEF FirstStart, FirstStartRuns, NobodyRuns
      <3> QED BY <2>1, <2>2, <3>1 DEF FirstStart
    <2>3. CASE Settled
      <3>1. ASSUME ~cutOff' PROVE Whole'
        <4>1. Whole /\ ~SomeoneSaves
          BY <1>e, <2>1, <2>3, <3>1 DEF Settled
        <4>2. << >> \in markFile /\ \A q \in Processes : saves'[q] = << >>
          BY <2>1, <4>1 DEF Whole, SomeoneSaves
        <4>3. \A q \in Processes : doing'[q] # "off" => << >> \in marks'[q]
          BY <2>1, <4>1, <4>2 DEF Whole
        <4> QED BY <2>1, <4>2, <4>3 DEF Whole
      <3>2. OwnHalvings(p)'
        BY <2>1 DEF OwnHalvings, Mining
      <3>3. \A x \in markFile : Known(x)
        BY <2>3 DEF Settled, OneHalving
      <3> QED BY <1>h, <2>1, <2>3, <3>1, <3>2, <3>3
    <2> QED BY <1>c, <2>2, <2>3
  <1>2. ASSUME NEW p \in Processes, ReadBlocks(p) PROVE FirstStart' \/ Settled'
    <2> DEFINE K == marks[p]
               read == Replay(blkRecords, K)
               c == read.chain
               m == read.marks
               s == read.saves
    <2>1. /\ doing[p] = "starting" /\ saves[p] = << >>
          /\ held'[p] = c /\ marks'[p] = m /\ saves'[p] = s
          /\ doing'[p] = IF c = << >> THEN "empty" ELSE Started(p)
          /\ \A q \in Processes \ {p} :
               /\ doing'[q] = doing[q] /\ marks'[q] = marks[q] /\ held'[q] = held[q]
               /\ saves'[q] = saves[q]
          /\ UNCHANGED <<blkRecords, markFile>>
          /\ ~ClashOver(p, s)
      BY <1>0, <1>2 DEF ReadBlocks, Stands, ToSave, files
    <2>2. CASE FirstStart
      <3>1. read = [chain |-> << >>, marks |-> K, saves |-> << >>] /\ K \subseteq {<< >>}
        BY <2>2, ReplayNone DEF FirstStart
      <3> HIDE DEF read
      <3>2. c = << >> /\ m \subseteq {<< >>} /\ s = << >>
        BY <3>1
      <3> HIDE DEF K, c, m, s
      <3> QED BY <2>1, <2>2, <3>2 DEF FirstStart
    <2>3. CASE Settled
      <3>1. /\ OneHalving /\ NoneLost /\ FromFile /\ K \in SUBSET Made /\ OnePerHeight(K)
            /\ \A x \in K : Known(x)
        BY <1>a, <2>3 DEF Settled, OneHalving
      <3>2. c = Restored
        BY <3>1, SameRestored
      <3> HIDE DEF K
      <3>3. /\ K \subseteq m
            /\ \A x \in m : x \in K \/ \E i \in 1 .. Len(c) : x = c[i] /\ IsHalving(x)
            /\ \A i \in 1 .. Len(c) : IsHalving(c[i]) => c[i] \in m
            /\ Queued(s, m) /\ \A i \in 1 .. Len(s) : K \subseteq s[i]
        BY <1>0, <3>1, ReplayFacts
      <3> HIDE DEF read, c, m, s
      <3>4. \A x \in m : Known(x)
        BY <1>0, <3>1, <3>2, <3>3 DEF Known
      <3>5. c # << >> /\ doing'[p] = Started(p)
        <4>1. blkRecords[1] \in Range(blkRecords) /\ blkRecords[1] \in Made
          BY <1>0, <3>1 DEF FromFile, Range
        <4>2. Len(blkRecords[1]) < Len(Restored) /\ Len(blkRecords[1]) \in Nat
          BY <3>1, <4>1 DEF NoneLost, Made
        <4> QED BY <2>1, <3>2, <4>2
      <3>6. OwnHalvings(p)'
        <4>1. doing'[p] # "marking"
          BY <3>5 DEF Started
        <4>2. \A r \in Range(blkRecords) : ~(Len(r) >= Len(c))
          <5>1. \A r \in Range(blkRecords) : Len(r) < Len(c) /\ Len(r) \in Nat
            BY <1>0, <3>1, <3>2 DEF NoneLost, Range, Made
          <5> QED BY <1>0, <3>2, <5>1
        <4> QED BY <2>1, <3>3, <4>1, <4>2 DEF OwnHalvings
      <3>7. ASSUME ~cutOff' PROVE Whole'
        <4>1. Whole
          BY <1>e, <2>3, <3>7 DEF Settled
        <4>2. << >> \in K /\ markFile \subseteq m
          BY <2>1, <2>3, <4>1, ReadKnows DEF Whole, K, m, read
        <4>3. (\E q \in Processes : saves'[q] # << >>) \/ << >> \in markFile
          BY <2>1, <4>1 DEF Whole, SomeoneSaves
        <4>4. ASSUME NEW q \in Processes
              PROVE  /\ doing'[q] # "off" => << >> \in marks'[q]
                     /\ \A i \in 1 .. Len(saves'[q]) : << >> \in saves'[q][i]
                     /\ saves'[q] # << >> => markFile \subseteq marks'[q]
          <5>1. CASE q = p
            BY <2>1, <3>3, <4>2, <5>1
          <5>2. CASE q # p
            BY <2>1, <4>1, <5>2 DEF Whole
          <5> QED BY <5>1, <5>2
        <4> QED BY <2>1, <4>3, <4>4 DEF Whole, SomeoneSaves
      <3>8. doing'[p] \notin {"empty", "sealing"}
        BY <3>5 DEF Started
      <3>9. \A x \in markFile' : Known(x)
        BY <2>1, <3>1 DEF OneHalving
      <3> QED BY <1>h, <2>1, <2>3, <3>2, <3>4, <3>6, <3>7, <3>8, <3>9
    <2> QED BY <1>c, <2>2, <2>3
  <1>3. ASSUME NEW p \in Processes, MakeGenesis(p) PROVE FirstStart' \/ Settled'
    <2> DEFINE m == marks[p] \cup {<< >>}
               s == <<m>>
    <2>1. /\ doing[p] = "empty" /\ doing'[p] = "sealing" /\ marks'[p] = m /\ saves'[p] = s
          /\ \A q \in Processes \ {p} :
               /\ doing'[q] = doing[q] /\ marks'[q] = marks[q] /\ held'[q] = held[q]
               /\ saves'[q] = saves[q]
          /\ UNCHANGED <<blkRecords, markFile>>
      BY <1>0, <1>3 DEF MakeGenesis, Stands, ToSave, files
    <2>2. FirstStart
      BY <1>c, <2>1 DEF Settled, FromFile
    <2>3. m \subseteq {<< >>} /\ s # << >>
      BY <2>2 DEF FirstStart
    <2> HIDE DEF m, s
    <2> QED BY <2>1, <2>2, <2>3 DEF FirstStart
  <1>4. ASSUME NEW p \in Processes, KeepGenesis(p) PROVE FirstStart' \/ Settled'
    <2> DEFINE none == << >>
               c == <<none>>
    <2>1. /\ doing[p] = "sealing" /\ saves[p] = << >> /\ blkRecords' = c
          /\ doing'[p] = Started(p) /\ \A q \in Processes \ {p} : doing'[q] = doing[q]
          /\ UNCHANGED <<held, marks, saves, markFile>>
      BY <1>0, <1>4 DEF KeepGenesis, Stands
    <2>2. FirstStart /\ held[p] = c /\ << >> \in marks[p]
      BY <1>c, <2>1, ProcessIs DEF Settled, FromFile
    <2>3. /\ \A q \in Processes \ {p} : doing'[q] = "off" /\ held'[q] = << >> /\ saves'[q] = << >>
          /\ \A q \in Processes : \A x \in marks'[q] : x = << >>
          /\ \A x \in markFile' : x = << >>
          /\ << >> \in markFile'
      BY <2>1, <2>2 DEF FirstStart
    <2>4. Restored' = c
      <3>1. Replay(c, {}).chain = c
        BY GenesisRestored
      <3> HIDE DEF c
      <3> QED BY <2>1, <3>1 DEF Restored
    <2>5. /\ Len(c) = 1 /\ Range(c) = {none} /\ c # << >> /\ Len(none) = 0
          /\ \A i \in 1 .. Len(c) : c[i] = none
      BY DEF Range
    <2>6. ~IsHalving(none)
      BY DEF IsHalving
    <2> HIDE DEF c
    <2>7. FromFile'
      BY <2>1, <2>3, <2>5 DEF FromFile, Started
    <2>8. OneHalving'
      BY <2>1, <2>3, <2>5 DEF OneHalving, Known
    <2>9. NoneLost'
      <3>1. ASSUME NEW q \in Processes
            PROVE  Len(held'[q]) <= Len(c) /\ \A i \in 1 .. Len(held'[q]) : held'[q][i] \in Range(c)
        <4>1. CASE q = p
          <5>1. Len(c) <= Len(c) /\ \A i \in 1 .. Len(c) : c[i] \in Range(c)
            BY <2>5
          <5> QED BY <2>1, <2>2, <4>1, <5>1
        <4>2. CASE q # p
          BY <2>3, <2>5, <4>2
        <4> QED BY <4>1, <4>2
      <3> QED BY <2>1, <2>4, <2>5, <3>1 DEF NoneLost
    <2>10. ASSUME NEW q \in Processes PROVE OwnHalvings(q)'
      <3>1. CASE q = p
        <4>1. doing'[p] # "marking"
          BY <2>1 DEF Started
        <4> QED BY <2>1, <2>2, <2>5, <2>6, <3>1, <4>1 DEF OwnHalvings
      <3>2. CASE q # p
        BY <2>3, <3>2 DEF OwnHalvings, Mining
      <3> QED BY <3>1, <3>2
    <2>11. Whole'
      <3>1. ASSUME NEW q \in Processes
            PROVE  saves'[q] = << >> /\ (doing'[q] # "off" => << >> \in marks'[q])
        BY <2>1, <2>2, <2>3
      <3> QED BY <2>3, <3>1 DEF Whole
    <2> QED BY <2>7, <2>8, <2>9, <2>10, <2>11 DEF Settled
  <1>5. ASSUME NEW p \in Processes, ReadDump(p) PROVE FirstStart' \/ Settled'
    <2>1. /\ doing[p] = "reading" /\ doing'[p] = "up"
          /\ \A q \in Processes \ {p} : doing'[q] = doing[q]
          /\ UNCHANGED <<held, marks, saves, markFile, blkRecords>>
      BY <1>0, <1>5, <1>b DEF ReadDump, Stands, OnlyMined, files
    <2>2. Settled
      BY <1>c, <2>1 DEF FirstStart
    <2>3. OwnHalvings(p)'
      BY <2>1, <2>2 DEF Settled, OwnHalvings, Mining, Tip
    <2>4. ASSUME ~cutOff' PROVE Whole'
      <3>1. Whole
        BY <1>e, <2>2, <2>4 DEF Settled
      <3> QED BY <2>1, <3>1 DEF Whole, SomeoneSaves
    <2>5. (\A x \in marks'[p] : Known(x)) /\ \A x \in markFile' : Known(x)
      BY <2>1, <2>2 DEF Settled, OneHalving
    <2> QED BY <1>h, <2>1, <2>2, <2>3, <2>4, <2>5
  <1>6. ASSUME NEW p \in Processes, Exit(p) PROVE FirstStart' \/ Settled'
    <2>1. /\ doing'[p] = "off" /\ held'[p] = << >> /\ marks'[p] = {} /\ saves'[p] = << >>
          /\ \A q \in Processes \ {p} :
               /\ doing'[q] = doing[q] /\ marks'[q] = marks[q] /\ held'[q] = held[q]
               /\ saves'[q] = saves[q]
          /\ UNCHANGED <<markFile, blkRecords>> /\ (~cutOff' => saves[p] = << >>)
      BY <1>0, <1>6 DEF Exit, files
    <2>2. CASE FirstStart
      BY <2>1, <2>2 DEF FirstStart
    <2>3. CASE Settled
      <3>1. ASSUME ~cutOff' PROVE Whole'
        <4>1. Whole /\ \A q \in Processes : saves'[q] = saves[q]
          BY <1>e, <2>1, <2>3, <3>1 DEF Settled
        <4>2. (\E q \in Processes : saves'[q] # << >>) \/ << >> \in markFile
          BY <4>1 DEF Whole, SomeoneSaves
        <4>3. ASSUME NEW q \in Processes
              PROVE  /\ doing'[q] # "off" => << >> \in marks'[q]
                     /\ \A i \in 1 .. Len(saves'[q]) : << >> \in saves'[q][i]
                     /\ saves'[q] # << >> => markFile \subseteq marks'[q]
          <5>1. CASE q = p
            BY <2>1, <5>1
          <5>2. CASE q # p
            BY <2>1, <4>1, <5>2 DEF Whole
          <5> QED BY <5>1, <5>2
        <4> QED BY <2>1, <4>2, <4>3 DEF Whole, SomeoneSaves
      <3>2. OwnHalvings(p)'
        BY <2>1 DEF OwnHalvings, Mining
      <3>3. \A x \in markFile' : Known(x)
        BY <2>1, <2>3 DEF Settled, OneHalving
      <3> QED BY <1>h, <2>1, <2>3, <3>1, <3>2, <3>3
    <2> QED BY <1>c, <2>2, <2>3
  <1>7. ASSUME NEW p \in Processes, Mine(p) PROVE FirstStart' \/ Settled'
    <2> DEFINE b   == Append(Tip(p), p)
               c   == held[p]
               was == Replay(blkRecords, {})
    <2>1. /\ doing[p] = "up" /\ c # << >> /\ ~Contradicts(b)
          /\ doing'[p] = IF IsHalving(b) THEN "marking" ELSE "up"
          /\ held'[p] = Append(c, b)
          /\ \A q \in Processes \ {p} : doing'[q] = doing[q] /\ held'[q] = held[q]
          /\ blkRecords' = Append(blkRecords, b) /\ UNCHANGED <<marks, saves, markFile>>
      BY <1>0, <1>7 DEF Mine, Stands
    <2>2. Settled /\ FromFile /\ OneHalving /\ NoneLost /\ Mining(p)
      BY <1>c, <2>1 DEF FirstStart, Settled, Mining
    <2>3. /\ b \in Made /\ Len(b) = Len(c) /\ Last(b) = p /\ Len(c) \in Nat /\ Len(b) # 0
          /\ c \in Seq(Made)
      <3>1. b \in Made /\ Len(b) = Len(c) /\ Last(b) = p /\ c \in Seq(Made)
        BY <1>a, <2>1, NewBlock DEF Tip
      <3> QED BY <2>1, <3>1
    <2>4. /\ Range(blkRecords') = Range(blkRecords) \cup {b} /\ blkRecords' # << >>
          /\ \A r \in Range(blkRecords) : r \in Made /\ Len(r) \in Nat
      <3>1. Range(Append(blkRecords, b)) = Range(blkRecords) \cup {b}
        BY <1>0, <2>3, RangeGrows
      <3>2. Len(Append(blkRecords, b)) = Len(blkRecords) + 1 /\ Len(blkRecords) \in Nat
        BY <1>0, <2>3, AppendProperties
      <3>3. \A r \in Range(blkRecords) : r \in Made /\ Len(r) \in Nat
        BY <1>0 DEF Range, Made
      <3> HIDE DEF b
      <3>4. Append(blkRecords, b) # << >>
        BY <3>2
      <3> QED BY <2>1, <3>1, <3>3, <3>4
    <2>5. /\ Len(held'[p]) = Len(c) + 1 /\ held'[p][Len(c) + 1] = b
          /\ \A i \in 1 .. Len(c) : held'[p][i] = c[i]
          /\ \A i \in 1 .. Len(c) + 1 : i \in 1 .. Len(c) \/ i = Len(c) + 1
      <3> HIDE DEF b, c
      <3>1. /\ Len(Append(c, b)) = Len(c) + 1 /\ Append(c, b)[Len(c) + 1] = b
            /\ \A i \in 1 .. Len(c) : Append(c, b)[i] = c[i]
        BY <2>3, AppendProperties
      <3>2. \A i \in 1 .. Len(c) + 1 : i \in 1 .. Len(c) \/ i = Len(c) + 1
        BY <2>3
      <3> QED BY <2>1, <3>1, <3>2
    <2>6. Restored' = ReadRecord(was, b).chain /\ was.chain = Restored
      <3>1. Replay(Append(blkRecords, b), {}) = ReadRecord(was, b)
        BY <1>0, <2>3, ReplayAppend
      <3> HIDE DEF was, b
      <3>2. Restored' = ReadRecord(was, b).chain
        BY <2>1, <3>1 DEF Restored
      <3> QED BY <3>2 DEF was, Restored
    <2>7. \A x \in was.marks : IsHalving(x) /\ x \in Range(blkRecords)
      <3>1. {} \in SUBSET Made /\ OnePerHeight({})
        BY DEF OnePerHeight
      <3>2. \A x \in was.marks :
              x \in {} \/ \E i \in 1 .. Len(was.chain) : x = was.chain[i] /\ IsHalving(x)
        BY <1>0, <3>1, ReplayFacts
      <3> HIDE DEF was
      <3> QED BY <1>0, <2>6, <3>2
    <2> HIDE DEF was, b, c
    (* The same block, where two are of one height and halve.                *)
    <2>8. \A r \in Range(blkRecords) : Len(r) = Len(b) /\ (IsHalving(r) \/ IsHalving(b)) => r = b
      <3> TAKE r \in Range(blkRecords)
      <3> HAVE Len(r) = Len(b) /\ (IsHalving(r) \/ IsHalving(b))
      <3>1. IsHalving(b)
        BY SameHeightHalves
      <3> QED BY <2>1, <3>1 DEF Contradicts
    <2>9. Len(b) <= Len(Restored)
      BY <2>2, <2>3 DEF NoneLost, c
    <2>10. Passes(b, was.marks)
      BY <2>7, <2>8 DEF Passes
    <2>11. /\ Len(Restored) <= Len(Restored') /\ Len(b) < Len(Restored')
           /\ Len(Restored') \in Nat
      <3>1. CASE Len(b) = Len(Restored)
        <4>1. Restored' = Append(Restored, b)
          BY <2>6, <2>10, <3>1 DEF ReadRecord, WithBlock
        <4>2. Len(Append(Restored, b)) = Len(Restored) + 1
          BY <1>0, <2>3, AppendProperties
        <4> QED BY <1>0, <3>1, <4>1, <4>2
      <3>2. CASE Len(b) # Len(Restored)
        <4>1. Restored' = Restored
          BY <2>6, <3>2 DEF ReadRecord
        <4> QED BY <1>0, <2>3, <2>9, <3>2, <4>1
      <3> QED BY <3>1, <3>2
    <2>12. FromFile'
      BY <2>1, <2>2, <2>4 DEF FromFile
    <2>13. OneHalving'
      <3>1. ASSUME NEW r \in Range(blkRecords'), NEW s \in Range(blkRecords'),
                   IsHalving(r), Len(r) = Len(s)
            PROVE  r = s
        <4>1. CASE r \in Range(blkRecords) /\ s \in Range(blkRecords)
          BY <2>2, <3>1, <4>1 DEF OneHalving
        <4>2. CASE r = b
          BY <2>4, <2>8, <3>1, <4>2
        <4>3. CASE s = b
          BY <2>4, <2>8, <3>1, <4>3
        <4> QED BY <2>4, <4>1, <4>2, <4>3
      <3>2. \A x : Known(x) => Known(x)'
        BY <2>4 DEF Known
      <3>3. ASSUME NEW x \in markFile' PROVE Known(x)'
        BY <2>1, <2>2, <3>2 DEF OneHalving
      <3>4. ASSUME NEW q \in Processes, NEW x \in marks'[q] PROVE Known(x)'
        BY <2>1, <2>2, <3>2 DEF OneHalving
      <3> QED BY <3>1, <3>3, <3>4 DEF OneHalving
    <2>14. NoneLost'
      <3>1. ASSUME NEW r \in Range(blkRecords') PROVE Len(r) < Len(Restored')
        BY <1>0, <2>2, <2>4, <2>11 DEF NoneLost
      <3>2. ASSUME NEW q \in Processes
            PROVE  /\ Len(held'[q]) <= Len(Restored')
                   /\ \A i \in 1 .. Len(held'[q]) : held'[q][i] \in Range(blkRecords')
        <4>1. CASE q = p
          <5>1. Len(held'[p]) <= Len(Restored')
            BY <2>3, <2>5, <2>11
          <5>2. \A i \in 1 .. Len(c) : c[i] \in Range(blkRecords)
            BY <2>2 DEF NoneLost, c
          <5> QED BY <2>4, <2>5, <4>1, <5>1, <5>2
        <4>2. CASE q # p
          <5>1. Len(held'[q]) \in Nat /\ held'[q] = held[q]
            BY <1>a, <2>1, <4>2
          <5> QED BY <1>0, <2>2, <2>4, <2>11, <5>1 DEF NoneLost
        <4> QED BY <4>1, <4>2
      <3> QED BY <3>1, <3>2 DEF NoneLost
    <2>15. ASSUME NEW q \in Processes PROVE OwnHalvings(q)'
      <3>0. OwnHalvings(q) /\ OwnHalvings(p)
        BY <2>2 DEF Settled
      <3>1. CASE q = p
        <4>1. ASSUME NEW r \in Range(blkRecords'), Len(r) >= Len(held'[p]) PROVE Last(r) # p
          <5>1. r \in Range(blkRecords) /\ Len(r) >= Len(c)
            BY <2>3, <2>4, <2>5, <4>1
          <5> QED BY <2>2, <3>0, <5>1 DEF OwnHalvings, c
        <4>2. ASSUME NEW i \in 1 .. Len(held'[p]), IsHalving(held'[p][i]),
                     ~(doing'[p] = "marking" /\ i = Len(held'[p]))
              PROVE  held'[p][i] \in marks'[p]
          <5>1. i \in 1 .. Len(c)
            BY <2>1, <2>5, <4>2
          <5>2. c[i] \in marks[p]
            BY <2>1, <2>2, <2>5, <3>0, <4>2, <5>1 DEF OwnHalvings, c
          <5> QED BY <2>1, <2>5, <5>1, <5>2
        <4>3. ASSUME doing'[p] = "marking"
              PROVE  /\ IsHalving(Tip(p)')
                     /\ \A r \in Range(blkRecords') : IsHalving(r) => Len(r) <= Len(Tip(p)')
          <5>1. IsHalving(b) /\ Tip(p)' = b
            BY <2>1, <2>5, <4>3 DEF Tip, Last
          <5>2. \A r \in Range(blkRecords) : IsHalving(r) => Len(r) < Len(b)
            BY <2>1, <2>2, <2>3, <5>1, HalvingIsFirst DEF c
          <5> QED BY <2>3, <2>4, <5>1, <5>2
        <4> QED BY <3>1, <4>1, <4>2, <4>3 DEF OwnHalvings
      <3>2. CASE q # p
        <4>1. /\ doing'[q] = doing[q] /\ held'[q] = held[q] /\ marks'[q] = marks[q]
              /\ Tip(q)' = Tip(q) /\ (Mining(q)' <=> Mining(q))
          BY <2>1, <3>2 DEF Tip, Mining
        <4>2. ASSUME Mining(q), NEW r \in Range(blkRecords'), Len(r) >= Len(held'[q])
              PROVE  Last(r) # q
          BY <2>3, <2>4, <3>0, <3>2, <4>1, <4>2 DEF OwnHalvings
        <4>3. ASSUME doing[q] = "marking"
              PROVE  \A r \in Range(blkRecords') : IsHalving(r) => Len(r) <= Len(Tip(q))
          <5>1. ~IsHalving(b)
            BY <2>1, <4>3 DEF Contradicts
          <5> QED BY <2>4, <3>0, <4>3, <5>1 DEF OwnHalvings
        <4> QED BY <3>0, <4>1, <4>2, <4>3 DEF OwnHalvings
      <3> QED BY <3>1, <3>2
    <2>16. ASSUME ~cutOff' PROVE Whole'
      <3>1. Whole /\ \A q \in Processes : doing'[q] # "off" => doing[q] # "off"
        BY <1>e, <2>1, <2>2, <2>16 DEF Settled
      <3> QED BY <2>1, <3>1 DEF Whole, SomeoneSaves
    <2> QED BY <2>12, <2>13, <2>14, <2>15, <2>16 DEF Settled
  <1>8. ASSUME NEW p \in Processes, MarkHalving(p) PROVE FirstStart' \/ Settled'
    <2> DEFINE m == marks[p] \cup {Tip(p)}
               s == <<m>>
    <2>1. /\ doing[p] = "marking" /\ doing'[p] = "up" /\ marks'[p] = m /\ saves'[p] = s
          /\ \A q \in Processes \ {p} :
               doing'[q] = doing[q] /\ marks'[q] = marks[q] /\ saves'[q] = saves[q]
          /\ UNCHANGED <<held, blkRecords, markFile>>
      BY <1>0, <1>8 DEF MarkHalving, Stands, ToSave, files
    <2>2. Settled /\ FromFile /\ OneHalving /\ NoneLost /\ OwnHalvings(p)
      BY <1>c, <2>1 DEF FirstStart, Settled
    <2>3. held[p] # << >> /\ Known(Tip(p)) /\ Tip(p) = held[p][Len(held[p])]
      <3>1. held[p] # << >> /\ Tip(p) = held[p][Len(held[p])]
        BY <2>1, ProcessIs DEF Tip, Last
      <3>2. Len(held[p]) \in 1 .. Len(held[p])
        BY <1>a, <3>1
      <3> QED BY <2>1, <2>2, <3>1, <3>2 DEF NoneLost, OwnHalvings, Known
    <2>4. (\A x \in marks'[p] : Known(x)) /\ \A x \in markFile' : Known(x)
      BY <2>1, <2>2, <2>3 DEF OneHalving
    <2>5. OwnHalvings(p)'
      BY <2>1, <2>2, <2>3 DEF OwnHalvings, Mining
    <2>6. ASSUME ~cutOff' PROVE Whole'
      <3>1. Whole
        BY <1>e, <2>2, <2>6 DEF Settled
      <3>2. << >> \in m /\ markFile \subseteq m
        BY <2>1, <2>2, <3>1, MarkKnows DEF Whole
      <3>3. Len(s) = 1 /\ s[1] = m /\ s # << >>
        OBVIOUS
      <3> HIDE DEF m, s
      <3>4. \A i \in 1 .. Len(s) : << >> \in s[i]
        BY <3>2, <3>3
      <3>5. ASSUME NEW q \in Processes
            PROVE  /\ doing'[q] # "off" => << >> \in marks'[q]
                   /\ \A i \in 1 .. Len(saves'[q]) : << >> \in saves'[q][i]
                   /\ saves'[q] # << >> => markFile \subseteq marks'[q]
        <4>1. CASE q = p
          BY <2>1, <3>2, <3>4, <4>1
        <4>2. CASE q # p
          BY <2>1, <3>1, <4>2 DEF Whole
        <4> QED BY <4>1, <4>2
      <3>6. \E q \in Processes : saves'[q] # << >>
        BY <2>1, <3>3
      <3> QED BY <2>1, <3>5, <3>6 DEF Whole, SomeoneSaves
    <2> HIDE DEF m, s
    <2> QED BY <1>h, <2>1, <2>2, <2>4, <2>5, <2>6
  <1>9. ASSUME NEW p \in Processes, OpenSave(p) PROVE FirstStart' \/ Settled'
    <2>1. /\ saves[p] # << >> /\ markFile' = {}
          /\ UNCHANGED <<held, marks, saves, doing, blkRecords>>
      BY <1>9 DEF OpenSave, files
    <2>2. CASE FirstStart
      <3>1. ASSUME NEW q \in Processes, doing[q] = "sealing" PROVE saves[q] # << >>
        <4>1. doing[p] # "off" /\ doing[q] # "off"
          BY <1>a, <2>1, <3>1
        <4> QED BY <2>1, <2>2, <4>1 DEF FirstStart
      <3> QED BY <2>1, <2>2, <3>1 DEF FirstStart
    <2>3. CASE Settled
      <3>1. OwnHalvings(p)' /\ doing'[p] \notin {"empty", "sealing"}
        BY <2>1, <2>3 DEF Settled, FromFile, OwnHalvings, Mining, Tip
      <3>2. ASSUME ~cutOff' PROVE Whole'
        <4>1. Whole
          BY <1>e, <2>3, <3>2 DEF Settled
        <4> QED BY <2>1, <4>1 DEF Whole, SomeoneSaves
      <3>3. (\A x \in marks'[p] : Known(x)) /\ \A x \in markFile' : Known(x)
        BY <2>1, <2>3 DEF Settled, OneHalving
      <3> QED BY <1>h, <2>1, <2>3, <3>1, <3>2, <3>3
    <2> QED BY <1>c, <2>2, <2>3
  <1>10. ASSUME NEW p \in Processes, CloseSave(p) PROVE FirstStart' \/ Settled'
    <2>1. /\ saves[p] # << >> /\ 1 \in 1 .. Len(saves[p]) /\ saves[p][1] \subseteq marks[p]
          /\ markFile = {} => markFile' = saves[p][1]
          /\ Len(saves'[p]) = Len(saves[p]) - 1
          /\ \A i \in 1 .. Len(saves'[p]) :
               i + 1 \in 1 .. Len(saves[p]) /\ saves'[p][i] = saves[p][i + 1]
          /\ \A q \in Processes \ {p} : saves'[q] = saves[q]
          /\ UNCHANGED <<held, marks, doing, blkRecords>>
      BY <1>10, SaveCloses DEF files
    <2>2. markFile' = saves[p][1] /\ doing[p] # "off"
      BY <1>10, <1>a, <1>b, <2>1 DEF OneSaver, CloseSave
    <2>3. \A q \in Processes \ {p} : saves'[q] = << >>
      BY <1>b, <2>1 DEF OneSaver
    <2>4. CASE FirstStart
      <3>1. doing[p] = "sealing" /\ << >> \in marks[p] /\ saves[p][Len(saves[p])] = marks[p]
        BY <2>1, <2>4, ProcessIs DEF FirstStart
      <3>2. ASSUME saves'[p] = << >> PROVE << >> \in markFile'
        <4>1. Len(saves[p]) = 1
          <5>1. PICK n \in Nat : n = Len(saves[p])
            BY ProcessIs
          <5>2. n - 1 = 0
            BY <2>1, <3>2, <5>1
          <5> QED BY <5>1, <5>2
        <4> QED BY <2>2, <3>1, <4>1
      <3>3. \A q \in Processes \ {p} : doing[q] = "off"
        BY <2>2, <2>4 DEF FirstStart
      <3>4. markFile' \subseteq {<< >>}
        BY <2>1, <2>2, <2>4 DEF FirstStart
      <3> QED BY <2>1, <2>4, <3>1, <3>2, <3>3, <3>4 DEF FirstStart
    <2>5. CASE Settled
      <3>1. OwnHalvings(p)' /\ doing'[p] \notin {"empty", "sealing"}
        BY <2>1, <2>5 DEF Settled, FromFile, OwnHalvings, Mining, Tip
      <3>2. ASSUME ~cutOff' PROVE Whole'
        <4>1. Whole
          BY <1>e, <2>5, <3>2 DEF Settled
        <4>2. << >> \in markFile' /\ \A i \in 1 .. Len(saves'[p]) : << >> \in saves'[p][i]
          BY <2>1, <2>2, <4>1 DEF Whole
        <4>3. ASSUME NEW q \in Processes
              PROVE  /\ doing'[q] # "off" => << >> \in marks'[q]
                     /\ \A i \in 1 .. Len(saves'[q]) : << >> \in saves'[q][i]
                     /\ saves'[q] # << >> => markFile' \subseteq marks'[q]
          <5>1. CASE q = p
            BY <2>1, <2>2, <4>1, <4>2, <5>1 DEF Whole
          <5>2. CASE q # p
            BY <2>1, <2>3, <4>1, <5>2 DEF Whole
          <5> QED BY <5>1, <5>2
        <4> QED BY <4>2, <4>3 DEF Whole
      <3>3. (\A x \in marks'[p] : Known(x)) /\ \A x \in markFile' : Known(x)
        BY <2>1, <2>2, <2>5 DEF Settled, OneHalving
      <3> QED BY <1>h, <2>1, <2>5, <3>1, <3>2, <3>3
    <2> QED BY <1>c, <2>4, <2>5
  <1>11. CASE UNCHANGED sharedVars
    <2>1. UNCHANGED <<held, marks, saves, doing, blkRecords, markFile, cutOff>>
      BY <1>11 DEF sharedVars, files, history
    <2>2. Restored' = Restored
      BY <1>d, <2>1
    <2>3. CASE FirstStart
      BY <2>1, <2>3 DEF FirstStart
    <2>4. CASE Settled
      <3>1. (~cutOff' => Whole') /\ FromFile' /\ OneHalving' /\ NoneLost'
        BY <2>1, <2>2, <2>4 DEF Settled, FromFile, OneHalving, Known, NoneLost, Whole, SomeoneSaves
      <3>2. \A q \in Processes : OwnHalvings(q)'
        BY <2>1, <2>4 DEF Settled, OwnHalvings, Mining, Tip
      <3> QED BY <3>1, <3>2 DEF Settled
    <2> QED BY <1>c, <2>3, <2>4
  <1> QED
    BY <1>1, <1>2, <1>3, <1>4, <1>5, <1>6, <1>7, <1>8, <1>9, <1>10, <1>11, <1>b DEF SharedNext

(* What is kept stays kept: the file is emptied by who has all of it, and    *)
(* nobody who has something to write stops.                                *)
LEMMA KeptStays ==
  ASSUME SharedInv, MinedInv, [SharedNext]_sharedVars, ~clashed', ~cutOff'
  PROVE  Kept \subseteq Kept'
  <1>0. /\ OneSaver /\ OnlyMined /\ (FirstStart \/ Settled) /\ ~Receive /\ ~StoreReceived
        /\ DOMAIN saves = Processes
    BY MinedOnly, FilesAre
  <1>a. ~cutOff
    BY DEF SharedNext, Launch, ReadBlocks, MakeGenesis, KeepGenesis, ReadDump, Mine,
       MarkHalving, OpenSave, CloseSave, Exit, Receive, StoreReceived, sharedVars, history
  <1>b. FirstStart \/ (Settled /\ Whole)
    BY <1>0, <1>a DEF Settled
  <1>c. \A p \in Processes :
          /\ Len(saves[p]) \in Nat /\ DOMAIN saves[p] = 1 .. Len(saves[p])
          /\ (saves[p] # << >> => saves[p][Len(saves[p])] = marks[p])
    BY ProcessIs
  <1>d. /\ markFile \subseteq Kept
        /\ \A x \in Kept : x \in markFile \/ \E p \in Processes : x \in UNION Range(saves[p])
    BY DEF Kept
  <1>e. /\ markFile' \subseteq Kept'
        /\ \A p \in Processes : \A i \in DOMAIN saves'[p] : saves'[p][i] \subseteq Kept'
    BY DEF Kept, Range
  (* A step that leaves the file, and what processes have to write.          *)
  <1>f. ASSUME UNCHANGED markFile, \A p \in Processes : saves[p] # << >> => saves'[p] = saves[p]
        PROVE  Kept \subseteq Kept'
    <2> SUFFICES ASSUME NEW x \in Kept PROVE x \in Kept'
      OBVIOUS
    <2>1. CASE x \in markFile
      BY <1>e, <1>f, <2>1
    <2>2. ASSUME NEW p \in Processes, x \in UNION Range(saves[p]) PROVE x \in Kept'
      <3>1. PICK i \in DOMAIN saves[p] : x \in saves[p][i]
        BY <2>2 DEF Range
      <3>2. saves[p] # << >>
        BY <1>c, <3>1
      <3>3. saves'[p] = saves[p]
        BY <1>f, <3>2
      <3> QED BY <1>e, <3>1, <3>3
    <2> QED BY <1>d, <2>1, <2>2
  <1>1. ASSUME NEW p \in Processes,
               Launch(p) \/ ReadBlocks(p) \/ MakeGenesis(p) \/ KeepGenesis(p) \/ ReadDump(p)
                 \/ Mine(p) \/ MarkHalving(p)
        PROVE  Kept \subseteq Kept'
    <2>1. UNCHANGED markFile /\ (saves' = saves \/ (saves[p] = << >> /\ \E maps : ToSave(p, maps)))
      BY <1>0, <1>1 DEF Launch, ReadBlocks, MakeGenesis, KeepGenesis, ReadDump, Mine, MarkHalving,
         Stands, OnlyMined, files
    <2>2. \A q \in Processes : saves[q] # << >> => saves'[q] = saves[q]
      BY <1>0, <2>1 DEF ToSave
    <2> QED BY <1>f, <2>1, <2>2
  <1>2. ASSUME NEW p \in Processes, Exit(p) PROVE Kept \subseteq Kept'
    <2>1. /\ UNCHANGED markFile /\ saves[p] = << >>
          /\ \A q \in Processes \ {p} : saves'[q] = saves[q]
      BY <1>0, <1>2 DEF Exit
    <2> QED BY <1>f, <2>1
  <1>3. ASSUME NEW p \in Processes, OpenSave(p) PROVE Kept \subseteq Kept'
    <2>1. saves[p] # << >> /\ UNCHANGED saves
      BY <1>3 DEF OpenSave
    <2>2. markFile \subseteq marks[p]
      <3>1. CASE FirstStart
        <4>1. doing[p] = "sealing" /\ markFile \subseteq {<< >>}
          BY <2>1, <3>1 DEF FirstStart
        <4> QED BY <4>1, ProcessIs
      <3>2. CASE Whole
        BY <2>1, <3>2 DEF Whole
      <3> QED BY <1>b, <3>1, <3>2
    <2> SUFFICES ASSUME NEW x \in Kept PROVE x \in Kept'
      OBVIOUS
    <2>3. CASE x \in markFile
      <3> DEFINE s == saves[p]
      <3>1. s[Len(s)] = marks[p] /\ Len(s) \in Nat /\ DOMAIN s = 1 .. Len(s) /\ s # << >>
        BY <1>c, <2>1
      <3>2. s \in Seq(SUBSET Made)
        BY DEF SharedInv, ProcessesFit
      <3>3. Len(s) \in DOMAIN s
        <4> HIDE DEF s
        <4> QED BY <3>1, <3>2
      <3>4. s[Len(s)] \subseteq Kept'
        BY <1>e, <2>1, <3>3
      <3> QED BY <2>2, <2>3, <3>1, <3>4
    <2>4. ASSUME NEW q \in Processes, x \in UNION Range(saves[q]) PROVE x \in Kept'
      BY <1>e, <2>1, <2>4 DEF Range
    <2> QED BY <1>d, <2>3, <2>4
  <1>4. ASSUME NEW p \in Processes, CloseSave(p) PROVE Kept \subseteq Kept'
    <2>1. /\ saves[p] # << >> /\ (markFile = {} => markFile' = saves[p][1])
          /\ Len(saves'[p]) = Len(saves[p]) - 1
          /\ \A i \in 1 .. Len(saves'[p]) : saves'[p][i] = saves[p][i + 1]
      BY <1>4, SaveCloses
    <2>2. markFile = {} /\ \A q \in Processes \ {p} : saves[q] = << >>
      BY <1>0, <1>4, <2>1 DEF OneSaver, CloseSave
    <2> SUFFICES ASSUME NEW x \in Kept PROVE x \in Kept'
      OBVIOUS
    <2>3. PICK q \in Processes : x \in UNION Range(saves[q])
      BY <1>d, <2>2
    <2>4. PICK i \in DOMAIN saves[q] : x \in saves[q][i]
      BY <2>3 DEF Range
    <2>5. q = p
      <3>1. DOMAIN saves[q] = 1 .. Len(saves[q]) /\ Len(<< >>) = 0
        BY <1>c
      <3> QED BY <2>2, <2>4, <3>1
    <2>6. CASE i = 1
      BY <1>e, <2>1, <2>2, <2>4, <2>5, <2>6
    <2>7. CASE i # 1
      <3>1. PICK n \in Nat : n = Len(saves[p])
        BY <1>c
      <3>2. i \in 2 .. n
        BY <1>c, <2>4, <2>5, <2>7, <3>1
      <3>3. SharedInv'
        BY SharedStep
      <3>4. DOMAIN saves'[p] = 1 .. Len(saves'[p])
        BY <3>3, ProcessIs
      <3>5. DOMAIN saves'[p] = 1 .. n - 1
        BY <2>1, <3>1, <3>4
      <3>6. i - 1 \in 1 .. n - 1 /\ (i - 1) + 1 = i
        BY <3>2
      <3>7. saves'[p][i - 1] = saves[p][i]
        BY <2>1, <3>1, <3>6
      <3> QED BY <1>e, <2>4, <2>5, <3>5, <3>6, <3>7
    <2> QED BY <2>6, <2>7
  <1>5. CASE UNCHANGED sharedVars
    <2>1. markFile' = markFile /\ saves' = saves
      BY <1>5 DEF sharedVars
    <2> QED BY <1>f, <2>1
  <1> QED BY <1>0, <1>1, <1>2, <1>3, <1>4, <1>5 DEF SharedNext

LEMMA FilesAreSound ==
  ASSUME SharedInv, AloneInv, MinedInv
  PROVE  FilesSurvive
  <1>0. /\ blkRecords \in Seq(Made) /\ markFile \in SUBSET Made
        /\ Restored \in Seq(Made) /\ Len(Restored) \in Nat
    BY FilesAre
  <1>1. AloneIsLinked
    <2> SUFFICES ASSUME alone PROVE IsLinked(Replay(blkRecords, markFile).chain)
      BY DEF AloneIsLinked
    <2>1. IsLinked(Restored) /\ \A m \in markFile : Agrees(m, Restored)
      BY DEF AloneInv, TakesTurns
    <2>2. Replay(blkRecords, markFile).chain = Restored
      BY <1>0, <2>1, AgreeingRead DEF Restored
    <2> QED BY <2>1, <2>2
  <1>2. ASSUME ~clashed, NEW p \in Processes, doing[p] # "sealing"
        PROVE  Len(held[p]) <= Len(Replay(blkRecords, markFile).chain)
    <2>1. CASE FirstStart
      <3>1. held[p] = << >> /\ blkRecords = << >>
        BY <1>2, <2>1 DEF FirstStart
      <3>2. Replay(blkRecords, markFile).chain = << >>
        BY <3>1, ReplayNone
      <3> QED BY <3>1, <3>2
    <2>2. CASE Settled
      <3>1. Replay(blkRecords, markFile).chain = Restored
        BY <1>0, <2>2, SameRestored DEF Settled, OneHalving
      <3> QED BY <2>2, <3>1 DEF Settled, NoneLost
    <2> QED BY <1>2, <2>1, <2>2 DEF MinedInv
  <1> QED BY <1>1, <1>2 DEF FilesSurvive, HeightsSurvive

------------------------------------------------------------------------------
(* What processes hold, save and write keeps its shape: a chain has one block
   per height and the checkpoints one per height, whoever mines, reads a file
   or is killed, in any number, also in the middle of a save
   (blockchain.cpp:339, storage.cpp:243, checkpoints.cpp:25). *)
THEOREM SharedTypeCorrect == SharedSpec => []SharedTypeOK
  <1> QED BY SharedStarts, SharedStep, SharedIsTyped, PTL DEF SharedSpec

(* For any number of processes, heights and starts: what they leave in the
   file starts the next one, as a linked chain if they took turns, and at the
   height of every running process if all blocks were mined and no two halving
   ones, nor two saves, clashed; also where a stop has emptied the file of
   checkpoints (SharedFiles!FilesSurvive; storage.cpp:243). *)
THEOREM FilesStartTheNext == SharedSpec => []FilesSurvive
  <1> QED
    BY SharedStarts, SharedStep, AloneStarts, AloneStep, MinedStarts, MinedStep,
       FilesAreSound, PTL DEF SharedSpec

(* A checkpoint in the file, or in a map that waits to be written, is so after
   every step: whoever empties the file has all of it in the map it writes
   next, although each process writes its own; as long as all blocks are mined
   ones, no two halving blocks nor two saves clash, and nobody stops or starts
   in the middle of a save (SharedFiles!CheckpointsKept; checkpoints.cpp:25). *)
THEOREM CheckpointsStay == SharedSpec => CheckpointsKept
  <1>1. SharedInv /\ MinedInv /\ [SharedNext]_sharedVars
          => [~clashed' /\ ~cutOff' => Kept \subseteq Kept']_sharedVars
    BY KeptStays
  <1> QED
    BY <1>1, SharedStarts, SharedStep, MinedStarts, MinedStep, PTL
    DEF SharedSpec, CheckpointsKept

------------------------------------------------------------------------------
(* The script machine, for any scripts.                                    *)

(* An item is a number, a hash, or what one of the two scripts pushes.      *)
Item(x, w) ==
  /\ x[1] = "int" => x[2] \in Int
  /\ x[1] \in {"int", "hash"} \/ Push(x) \in Range(w.unlock) \cup Range(w.lock)

ASeq(s) == \E S : s \in Seq(S)

Items(s, w) == ASeq(s) /\ \A i \in 1 .. Len(s) : Item(s[i], w)

LEMMA NumbersAreItems ==
  ASSUME NEW w
  PROVE  /\ \A n \in Int : Item(Num(n), w)
         /\ \A x : Item(Hash(x), w)
         /\ \A b \in BOOLEAN : Item(Truth(b), w)
  BY DEF Item, Num, Hash, Truth

LEMMA AppendIs ==
  ASSUME NEW s, ASeq(s), NEW x
  PROVE  /\ ASeq(Append(s, x)) /\ Len(s) \in Nat /\ Len(Append(s, x)) = Len(s) + 1
         /\ Append(s, x)[Len(s) + 1] = x
         /\ \A i \in 1 .. Len(s) : Append(s, x)[i] = s[i]
  <1>1. PICK S : s \in Seq(S)
    BY DEF ASeq
  <1>2. s \in Seq(S \cup {x}) /\ x \in S \cup {x}
    BY <1>1
  <1>3. Append(s, x) \in Seq(S \cup {x})
    BY <1>2, AppendProperties
  <1>4. ASeq(Append(s, x))
    BY <1>3 DEF ASeq
  <1>5. /\ Len(Append(s, x)) = Len(s) + 1 /\ Append(s, x)[Len(s) + 1] = x
        /\ \A i \in 1 .. Len(s) : Append(s, x)[i] = s[i]
    BY <1>2, AppendProperties
  <1>6. Len(s) \in Nat
    BY <1>1
  <1> QED BY <1>4, <1>5, <1>6

LEMMA SubSeqIs ==
  ASSUME NEW s, ASeq(s), NEW n \in Int, n <= Len(s)
  PROVE  /\ ASeq(SubSeq(s, 1, n)) /\ Len(s) \in Nat
         /\ Len(SubSeq(s, 1, n)) = IF n < 0 THEN 0 ELSE n
         /\ \A i \in 1 .. n : SubSeq(s, 1, n)[i] = s[i]
  <1>1. PICK S : s \in Seq(S)
    BY DEF ASeq
  <1>2. SubSeq(s, 1, n) \in Seq(S)
    BY <1>1
  <1>3. ASeq(SubSeq(s, 1, n))
    BY <1>2 DEF ASeq
  <1>4. Len(s) \in Nat /\ Len(SubSeq(s, 1, n)) = IF n < 0 THEN 0 ELSE n
    BY <1>1
  <1>5. \A i \in 1 .. n : SubSeq(s, 1, n)[i] = s[i]
    BY <1>1
  <1> QED BY <1>3, <1>4, <1>5

LEMMA TailIs ==
  ASSUME NEW s, ASeq(s), s # << >>
  PROVE  /\ ASeq(Tail(s)) /\ Len(Tail(s)) = Len(s) - 1 /\ Len(s) \in Nat \ {0}
         /\ \A i \in 1 .. Len(s) - 1 : Tail(s)[i] = s[i + 1]
  <1>1. PICK S : s \in Seq(S)
    BY DEF ASeq
  <1>2. Tail(s) \in Seq(S)
    BY <1>1
  <1>3. ASeq(Tail(s))
    BY <1>2 DEF ASeq
  <1>4. /\ Len(Tail(s)) = Len(s) - 1 /\ Len(s) \in Nat \ {0}
        /\ \A i \in 1 .. Len(s) - 1 : Tail(s)[i] = s[i + 1]
    BY <1>1
  <1> QED BY <1>3, <1>4

LEMMA EmptyIs == ASeq(<< >>) /\ \A s : ASeq(s) => (s = << >> <=> Len(s) = 0) /\ Len(s) \in Nat
  <1>1. << >> \in Seq({})
    OBVIOUS
  <1>2. ASSUME NEW s, ASeq(s) PROVE (s = << >> <=> Len(s) = 0) /\ Len(s) \in Nat
    <2>1. PICK S : s \in Seq(S)
      BY <1>2 DEF ASeq
    <2> QED BY <2>1
  <1> QED BY <1>1, <1>2 DEF ASeq

LEMMA ItemsPush ==
  ASSUME NEW w, NEW s, Items(s, w), NEW x, Item(x, w)
  PROVE  Items(Append(s, x), w)
  <1>1. /\ ASeq(Append(s, x)) /\ Len(s) \in Nat /\ Len(Append(s, x)) = Len(s) + 1
        /\ Append(s, x)[Len(s) + 1] = x
        /\ \A i \in 1 .. Len(s) : Append(s, x)[i] = s[i]
    BY AppendIs DEF Items
  <1> DEFINE t == Append(s, x)
  <1> HIDE DEF t
  <1>2. ASSUME NEW i \in 1 .. Len(s) + 1 PROVE Item(t[i], w)
    <2>1. CASE i = Len(s) + 1
      BY <1>1, <2>1 DEF t
    <2>2. CASE i \in 1 .. Len(s)
      BY <1>1, <2>2 DEF Items, t
    <2> QED BY <1>1, <2>1, <2>2
  <1> QED BY <1>1, <1>2 DEF Items, t

LEMMA ItemsDrop ==
  ASSUME NEW w, NEW s, Items(s, w), NEW n \in Int, n <= Len(s)
  PROVE  Items(SubSeq(s, 1, n), w)
  <1> DEFINE t == SubSeq(s, 1, n)
  <1>1. /\ ASeq(t) /\ Len(s) \in Nat /\ Len(t) = IF n < 0 THEN 0 ELSE n
        /\ \A i \in 1 .. n : t[i] = s[i]
    BY SubSeqIs DEF Items
  <1> HIDE DEF t
  <1>2. \A i \in 1 .. Len(t) : i \in 1 .. n /\ i \in 1 .. Len(s)
    BY <1>1
  <1>3. \A i \in 1 .. Len(t) : Item(t[i], w)
    BY <1>1, <1>2 DEF Items
  <1> QED BY <1>1, <1>3 DEF Items, t

LEMMA GreaterInt ==
  ASSUME NEW a \in Int, NEW b \in Int
  PROVE  /\ Max({a, b}) \in {a, b} /\ Max({a, b}) >= a /\ Max({a, b}) >= b
         /\ Min({a, b}) \in {a, b}
  <1> DEFINE P(x) == x \in {a, b} /\ \A y \in {a, b} : x >= y
             Q(x) == x \in {a, b} /\ \A y \in {a, b} : x <= y
  <1>1. P(a) \/ P(b)
    OBVIOUS
  <1>2. PICK x : P(x)
    BY <1>1
  <1>3. P(CHOOSE z : P(z))
    BY <1>2
  <1>4. Max({a, b}) = CHOOSE z \in {a, b} : \A y \in {a, b} : z >= y
    BY DEF Max
  <1>5. Max({a, b}) \in {a, b} /\ \A y \in {a, b} : Max({a, b}) >= y
    BY <1>2, <1>4
  <1>6. Q(a) \/ Q(b)
    OBVIOUS
  <1>7. PICK z : Q(z)
    BY <1>6
  <1>8. Min({a, b}) = CHOOSE v \in {a, b} : \A y \in {a, b} : v <= y
    BY DEF Min
  <1>9. Min({a, b}) \in {a, b}
    BY <1>7, <1>8
  <1> QED BY <1>5, <1>9

------------------------------------------------------------------------------
(* Where a script is: what is left of it is its end.                       *)
Rest(s, c) == ASeq(s) /\ Len(s) <= Len(c) /\ \A i \in 1 .. Len(s) : s[i] = c[Len(c) - Len(s) + i]

(* What has run of it, of the opcodes names.                               *)
Ran(names, c, s) == {i \in 1 .. Len(c) - Len(s) : c[i][1] \in names}

Opens  == {"IF", "NOTIF"}
Closes == {"ENDIF"}

Code == IF locking THEN spend.lock ELSE spend.unlock

VMTypes ==
  /\ spend \in Spends /\ locking \in BOOLEAN
  /\ ifStack \in Seq(BOOLEAN) /\ entered \in Seq(BOOLEAN)
  /\ verdict \in {"running", "error", "true", "false"}
  /\ Items(stack, spend) /\ Items(altStack, spend)
  /\ Rest(script, Code)
  /\ verdict \in {"true", "false"} => /\ locking /\ script = << >> /\ ifStack = << >>
                                     /\ stack # << >>

(* The locking script has opened and closed what the depth says.           *)
Depth ==
  locking => Len(ifStack) + Cardinality(Ran(Closes, spend.lock, script))
               = Len(entered) + Cardinality(Ran(Opens, spend.lock, script))

VMInv == VMTypes /\ Depth

LEMMA CodeIs ==
  ASSUME VMTypes
  PROVE  /\ ASeq(spend.lock) /\ ASeq(spend.unlock) /\ ASeq(Code)
         /\ \A o \in Range(spend.lock) \cup Range(spend.unlock) : o[1] = "PUSH" =>
              o = Push(o[2]) /\ Item(o[2], spend)
         /\ \A c \in {spend.lock, spend.unlock} : \A i \in 1 .. Len(c) : c[i] \in Range(c)
  <1>1. \A code \in {spend.unlock, spend.lock} :
          /\ code \in Seq(Range(code))
          /\ \A o \in Range(code) : o[1] = "PUSH" =>
               o = <<"PUSH", o[2]>> /\ (o[2][1] = "int" => o[2][2] \in Int)
    BY VMAssumption DEF VMTypes
  <1>2. ASeq(spend.lock) /\ ASeq(spend.unlock) /\ ASeq(Code)
    BY <1>1 DEF ASeq, Code
  <1>3. ASSUME NEW o \in Range(spend.lock) \cup Range(spend.unlock), o[1] = "PUSH"
        PROVE  o = Push(o[2]) /\ Item(o[2], spend)
    BY <1>1, <1>3 DEF Push, Item
  <1>4. ASSUME NEW c \in {spend.lock, spend.unlock}, NEW i \in 1 .. Len(c) PROVE c[i] \in Range(c)
    BY <1>1, <1>4 DEF Range
  <1> QED BY <1>2, <1>3, <1>4

(* The opcode that runs is one of the script.                              *)
LEMMA OpIs ==
  ASSUME VMTypes, script # << >>
  PROVE  /\ Len(script) \in Nat \ {0} /\ Len(Code) \in Nat
         /\ Len(Code) - Len(script) + 1 \in 1 .. Len(Code)
         /\ script[1] = Code[Len(Code) - Len(script) + 1]
         /\ script[1] \in Range(spend.lock) \cup Range(spend.unlock)
         /\ script[1][1] = "PUSH" => Item(script[1][2], spend)
  <1>1. Len(script) \in Nat \ {0} /\ Len(Code) \in Nat /\ Len(script) <= Len(Code)
    BY CodeIs, EmptyIs DEF VMTypes, Rest
  <1>2. Len(Code) - Len(script) + 1 \in 1 .. Len(Code) /\ 1 \in 1 .. Len(script)
    BY <1>1
  <1>3. script[1] = Code[Len(Code) - Len(script) + 1]
    BY <1>2 DEF VMTypes, Rest
  <1>4. script[1] \in Range(spend.lock) \cup Range(spend.unlock)
    BY <1>2, <1>3, CodeIs DEF Code
  <1> QED BY <1>1, <1>2, <1>3, <1>4, CodeIs

LEMMA RestAdvances ==
  ASSUME NEW s, NEW c, ASeq(c), Rest(s, c), s # << >>
  PROVE  /\ Rest(Tail(s), c) /\ Len(Tail(s)) = Len(s) - 1 /\ Len(s) \in Nat
         /\ Len(c) \in Nat
  <1> DEFINE t == Tail(s)
  <1>1. /\ ASeq(t) /\ Len(t) = Len(s) - 1 /\ Len(s) \in Nat \ {0} /\ Len(c) \in Nat
        /\ \A i \in 1 .. Len(s) - 1 : t[i] = s[i + 1]
    BY TailIs, EmptyIs DEF Rest
  <1> HIDE DEF t
  <1>2. ASSUME NEW i \in 1 .. Len(t) PROVE t[i] = c[Len(c) - Len(t) + i]
    <2>1. i + 1 \in 1 .. Len(s) /\ t[i] = s[i + 1]
      BY <1>1
    <2>2. s[i + 1] = c[Len(c) - Len(s) + (i + 1)]
      BY <2>1 DEF Rest
    <2>3. Len(c) - Len(s) + (i + 1) = Len(c) - Len(t) + i
      BY <1>1
    <2> QED BY <2>1, <2>2, <2>3
  <1>3. Len(t) <= Len(c)
    BY <1>1 DEF Rest
  <1> QED BY <1>1, <1>2, <1>3 DEF Rest, t

------------------------------------------------------------------------------
(* One opcode.                                                             *)

(* The depth after an opcode.                                              *)
Deeper(o) == IF o \in Opens THEN Len(ifStack) + 1
             ELSE IF o \in Closes THEN Len(ifStack) - 1 ELSE Len(ifStack)

Runs ==
  /\ Advance
  /\ Items(stack', spend) /\ Items(altStack', spend) /\ ifStack' \in Seq(BOOLEAN)
  /\ Len(ifStack') = Deeper(script[1][1])

LEMMA PushOne ==
  ASSUME VMTypes, NEW x, Item(x, spend)
  PROVE  Items(Append(stack, x), spend)
  BY ItemsPush DEF VMTypes

LEMMA DropSome ==
  ASSUME VMTypes, NEW n \in Nat, n <= Size
  PROVE  /\ Items(Drop(n), spend) /\ \A x : Item(x, spend) => Items(Append(Drop(n), x), spend)
         /\ Size \in Nat /\ \A i \in 1 .. Size : Item(stack[i], spend)
         /\ n < Size => Item(Top, spend)
  <1>1. Size \in Nat /\ Items(stack, spend)
    BY EmptyIs DEF VMTypes, Items, Size
  <1>2. Items(Drop(n), spend)
    BY <1>1, ItemsDrop DEF Drop, Size
  <1>3. \A i \in 1 .. Size : Item(stack[i], spend)
    BY <1>1 DEF Items, Size
  <1>4. n < Size => Item(Top, spend)
    BY <1>1, <1>3 DEF Top
  <1> QED BY <1>1, <1>2, <1>3, <1>4, ItemsPush

LEMMA ReadsInts ==
  ASSUME NEW x, Item(x, spend)
  PROVE  DecodeInt(x) \subseteq Int
  BY VMAssumption DEF Item, DecodeInt

LEMMA UnaryItem ==
  ASSUME NEW o \in UnaryOps, NEW v \in Int
  PROVE  Item(Unary(o, v), spend)
  BY DEF UnaryOps, Unary, Item, Num, Truth

LEMMA BinaryItem ==
  ASSUME NEW o \in BinaryOps, NEW a \in Int, NEW b \in Int
  PROVE  Item(Binary(o, a, b), spend)
  <1>1. Min({a, b}) \in Int /\ Max({a, b}) \in Int
    BY GreaterInt
  <1>2. \A n \in Int : Item(Num(n), spend)
    BY NumbersAreItems
  <1>3. \A c \in BOOLEAN : Item(Truth(c), spend)
    BY NumbersAreItems
  <1>4. CASE o = "ADD" \/ o = "SUB"
    <2>1. Binary(o, a, b) = IF o = "ADD" THEN Num(a + b) ELSE Num(a - b)
      BY <1>4 DEF Binary
    <2>2. a + b \in Int /\ a - b \in Int
      OBVIOUS
    <2> QED BY <1>2, <2>1, <2>2
  <1>5. CASE o = "BOOLAND"
    <2>1. Binary(o, a, b) = Truth(a # 0 /\ b # 0)
      BY <1>5 DEF Binary
    <2> QED BY <1>3, <2>1
  <1>6. CASE o = "BOOLOR"
    <2>1. Binary(o, a, b) = Truth(a # 0 \/ b # 0)
      BY <1>6 DEF Binary
    <2> QED BY <1>3, <2>1
  <1>7. CASE o = "MIN" \/ o = "MAX"
    <2>1. Binary(o, a, b) = IF o = "MIN" THEN Num(Min({a, b})) ELSE Num(Max({a, b}))
      BY <1>7 DEF Binary
    <2> QED BY <1>1, <1>2, <2>1
  <1> QED BY <1>4, <1>5, <1>6, <1>7 DEF BinaryOps

LEMMA TakenIs ==
  ASSUME NEW n \in Int
  PROVE  Taken(n) \in {0, n} /\ Taken(n) \in Int /\ Taken(n) >= 0 /\ Taken(n) >= n
  <1>1. /\ Max({0, n}) \in {0, n} /\ Max({0, n}) >= 0 /\ Max({0, n}) >= n
    BY GreaterInt
  <1> QED BY <1>1 DEF Taken

LEMMA TakenOfNat == \A n \in Nat : Taken(n) = n
  <1> TAKE n \in Nat
  <1>1. Taken(n) \in {0, n} /\ Taken(n) >= n
    BY TakenIs
  <1> QED BY <1>1

LEMMA FrontIs ==
  ASSUME NEW S, NEW s \in Seq(S), s # << >>
  PROVE  Front(s) \in Seq(S) /\ Len(Front(s)) = Len(s) - 1 /\ Len(s) > 0
  <1>1. Len(s) \in Nat /\ Len(s) > 0
    OBVIOUS
  <1>2. SubSeq(s, 1, Len(s) - 1) \in Seq(S)
    BY <1>1
  <1> DEFINE n == Len(s) - 1
  <1>3. Len(SubSeq(s, 1, n)) = n
    <2>1. n \in Nat /\ n <= Len(s) /\ ASeq(s)
      BY <1>1 DEF ASeq
    <2> HIDE DEF n
    <2> QED BY <2>1, SubSeqIs
  <1> QED BY <1>1, <1>2, <1>3 DEF Front

LEMMA BoolSeq ==
  ASSUME NEW s \in Seq(BOOLEAN)
  PROVE  /\ Len(s) \in Nat
         /\ \A b \in BOOLEAN : Append(s, b) \in Seq(BOOLEAN) /\ Len(Append(s, b)) = Len(s) + 1
         /\ s # << >> => /\ Front(s) \in Seq(BOOLEAN) /\ Len(Front(s)) = Len(s) - 1
                         /\ (~Last(s)) \in BOOLEAN /\ Len(s) > 0
  <1>1. \A b \in BOOLEAN : Append(s, b) \in Seq(BOOLEAN) /\ Len(Append(s, b)) = Len(s) + 1
    BY AppendProperties
  <1>2. ASSUME s # << >>
        PROVE  Front(s) \in Seq(BOOLEAN) /\ Len(Front(s)) = Len(s) - 1 /\ Len(s) > 0
    BY <1>2, FrontIs
  <1>3. Len(s) \in Nat
    OBVIOUS
  <1>4. (~Last(s)) \in BOOLEAN
    OBVIOUS
  <1> QED BY <1>1, <1>2, <1>3, <1>4

LEMMA OperateIs ==
  ASSUME NEW names, NEW need, Operate(names, need)
  PROVE  /\ script # << >> /\ script[1][1] \in names /\ Executing /\ Size >= need
         /\ Advance /\ UNCHANGED ifStack
  BY DEF Operate

LEMMA OpcodeRuns ==
  ASSUME VMTypes, VMNext, script # << >>
  PROVE  Fail \/ Runs
  <1>0. /\ Items(stack, spend) /\ Items(altStack, spend) /\ ifStack \in Seq(BOOLEAN)
        /\ Len(ifStack) \in Nat /\ Size \in Nat
    BY EmptyIs DEF VMTypes, Items, Size
  <1>a. \A n \in Int : Item(Num(n), spend)
    BY NumbersAreItems
  <1>b. \A b \in BOOLEAN : Item(Truth(b), spend)
    BY NumbersAreItems
  <1>c. \A x : Item(Hash(x), spend)
    BY NumbersAreItems
  <1>d. ASSUME Advance, UNCHANGED ifStack, script[1][1] \notin Opens \cup Closes,
               Items(stack', spend), Items(altStack', spend)
        PROVE  Runs
    BY <1>0, <1>d DEF Runs, Deeper
  <1> USE DEF Opens, Closes
  <1>1. CASE Underflow
    BY <1>1 DEF Underflow
  <1>2. CASE Skip
    <2>1. Advance /\ UNCHANGED <<stack, altStack, ifStack>>
          /\ script[1][1] \notin {"IF", "NOTIF", "ELSE", "ENDIF"}
      BY <1>2 DEF Skip
    <2> QED BY <1>0, <1>d, <2>1
  <1>3. CASE DoPush
    <2>1. /\ script[1][1] \in {"PUSH", "N", "CHECKMULTISIGVERIFY"} /\ Advance
          /\ UNCHANGED ifStack /\ UNCHANGED altStack
      BY <1>3, OperateIs DEF DoPush
    <2>2. stack' \in {stack, Append(stack, script[1][2]), Append(stack, Num(1))}
            \/ \E n \in Int : stack' = Append(stack, Num(n))
      BY <1>3, <2>1 DEF DoPush
    <2>3. stack' = Append(stack, script[1][2]) => script[1][1] = "PUSH" \/ Items(stack', spend)
      <3>1. CASE script[1][1] = "N"
        <4>1. stack' = stack \/ \E n \in Int : stack' = Append(stack, Num(n))
          BY <1>3, <3>1 DEF DoPush
        <4> QED BY <1>0, <1>a, <4>1, PushOne
      <3>2. CASE script[1][1] = "CHECKMULTISIGVERIFY"
        <4>1. stack' = Append(stack, Num(1))
          BY <1>3, <3>2 DEF DoPush
        <4> QED BY <1>a, <4>1, PushOne
      <3> QED BY <2>1, <3>1, <3>2
    <2>4. Items(stack', spend)
      <3>1. CASE stack' = Append(stack, script[1][2])
        BY <2>3, <3>1, PushOne, OpIs
      <3>2. CASE stack' = stack
        BY <1>0, <3>2
      <3>3. ASSUME NEW n \in Int, stack' = Append(stack, Num(n)) PROVE Items(stack', spend)
        BY <1>a, <3>3, PushOne
      <3> QED BY <2>2, <3>1, <3>2, <3>3
    <2> QED BY <1>0, <1>d, <2>1, <2>4
  <1>4. CASE DoIf
    <2>1. script[1][1] \in Opens
      BY <1>4 DEF DoIf
    <2> SUFFICES ASSUME ~Fail PROVE Runs
      OBVIOUS
    <2>2. /\ ~(Executing /\ stack = << >>) /\ ifStack' = Append(ifStack, Condition)
          /\ stack' = IF Executing THEN Drop(1) ELSE stack
          /\ Advance /\ UNCHANGED altStack
      BY <1>4 DEF DoIf
    <2>3. Condition \in BOOLEAN
      BY DEF Condition
    <2>4. ifStack' \in Seq(BOOLEAN) /\ Len(ifStack') = Len(ifStack) + 1
      BY <1>0, <2>2, <2>3, BoolSeq
    <2>5. Items(stack', spend)
      <3>1. CASE Executing
        <4>1. Size # 0
          BY <2>2, <3>1, EmptyIs DEF VMTypes, Items, Size
        <4> QED BY <1>0, <2>2, <3>1, <4>1, DropSome
      <3>2. CASE ~Executing
        BY <1>0, <2>2, <3>2
      <3> QED BY <3>1, <3>2
    <2> QED BY <1>0, <2>1, <2>2, <2>4, <2>5 DEF Runs, Deeper
  <1>5. CASE DoElse
    <2>1. script[1][1] \in {"ELSE", "ENDIF"}
      BY <1>5 DEF DoElse
    <2> SUFFICES ASSUME ~Fail PROVE Runs
      OBVIOUS
    <2>2. /\ ifStack # << >>
          /\ ifStack' = IF script[1][1] = "ENDIF" THEN Front(ifStack)
                        ELSE Append(Front(ifStack), ~Last(ifStack))
          /\ Advance /\ UNCHANGED <<stack, altStack>>
      BY <1>5 DEF DoElse
    <2>3. Front(ifStack) \in Seq(BOOLEAN) /\ Len(Front(ifStack)) = Len(ifStack) - 1
      BY <1>0, <2>2, BoolSeq
    <2>4. /\ Append(Front(ifStack), ~Last(ifStack)) \in Seq(BOOLEAN)
          /\ Len(Append(Front(ifStack), ~Last(ifStack))) = Len(ifStack)
      <3>1. Len(Append(Front(ifStack), ~Last(ifStack))) = Len(Front(ifStack)) + 1
            /\ Append(Front(ifStack), ~Last(ifStack)) \in Seq(BOOLEAN)
        BY <2>3, BoolSeq
      <3> QED BY <1>0, <2>3, <3>1
    <2>5. CASE script[1][1] = "ENDIF"
      BY <1>0, <2>2, <2>3, <2>5 DEF Runs, Deeper
    <2>6. CASE script[1][1] = "ELSE"
      BY <1>0, <2>2, <2>4, <2>6 DEF Runs, Deeper
    <2> QED BY <2>1, <2>5, <2>6
  <1>6. CASE DoStack
    <2>1. PICK o \in {"DUP", "DROP", "SWAP", "OVER", "CLTV"} :
            /\ Operate({o}, Needs(o))
            /\ stack' = CASE o = "DUP"  -> Append(stack, Top)
                          [] o = "DROP" -> Drop(1)
                          [] o = "SWAP" -> Drop(2) \o <<Top, Under>>
                          [] o = "OVER" -> Append(stack, Under)
                          [] o = "CLTV" -> stack
      BY <1>6 DEF DoStack
    <2>2. script[1][1] = o /\ Size >= Needs(o) /\ Advance /\ UNCHANGED ifStack
      BY <2>1, OperateIs
    <2>3. Size >= 1 /\ (o \in {"SWAP", "OVER"} => Size >= 2)
      BY <1>0, <2>2 DEF Needs, Takes1, Takes2, UnaryOps, BinaryOps
    <2>4. /\ Item(Top, spend) /\ Items(Drop(1), spend)
          /\ Size >= 2 => Item(Under, spend) /\ Items(Drop(2), spend)
      BY <1>0, <2>3, DropSome DEF Under, Top
    <2>5. Items(stack', spend)
      <3>1. CASE o = "SWAP"
        <4>1. Drop(2) \o <<Top, Under>> = Append(Append(Drop(2), Top), Under)
          <5>1. PICK S : Drop(2) \in Seq(S)
            BY <2>3, <2>4, <3>1 DEF Items, ASeq
          <5> DEFINE d == Drop(2)
                     x == Top
                     y == Under
                     T == S \cup {x, y}
          <5>2. d \in Seq(T) /\ x \in T /\ y \in T
            BY <5>1
          <5> HIDE DEF d, x, y, T
          <5>3. d \o <<x, y>> = Append(Append(d, x), y)
            BY <5>2
          <5> QED BY <5>3 DEF d, x, y
        <4> QED BY <2>1, <2>3, <2>4, <3>1, <4>1, ItemsPush
      <3>2. CASE o # "SWAP"
        BY <1>0, <2>1, <2>3, <2>4, <3>2, PushOne
      <3> QED BY <3>1, <3>2
    <2>6. UNCHANGED altStack
      BY <1>6 DEF DoStack
    <2> QED BY <1>0, <1>d, <2>2, <2>5, <2>6
  <1>7. CASE DoAlt
    <2>1. /\ script[1][1] \in {"TOALT", "FROMALT"} /\ Advance /\ UNCHANGED ifStack
      BY <1>7, OperateIs DEF DoAlt
    <2>2. CASE script[1][1] = "TOALT"
      <3>1. Size > 0 /\ altStack' = Append(altStack, Top) /\ stack' = Drop(1)
        BY <1>7, <2>2 DEF DoAlt
      <3>2. Items(Drop(1), spend) /\ Item(Top, spend)
        BY <1>0, <3>1, DropSome DEF Top
      <3> QED BY <1>0, <1>d, <2>1, <3>1, <3>2, ItemsPush
    <2>3. CASE script[1][1] = "FROMALT"
      <3>1. /\ altStack # << >> /\ stack' = Append(stack, Last(altStack))
            /\ altStack' = Front(altStack)
        BY <1>7, <2>3 DEF DoAlt
      <3>2. Len(altStack) \in Nat \ {0}
        BY <1>0, <3>1, EmptyIs DEF Items
      <3>3. Item(Last(altStack), spend) /\ Items(Front(altStack), spend)
        <4>1. Item(altStack[Len(altStack)], spend)
          BY <1>0, <3>2 DEF Items
        <4>2. Items(SubSeq(altStack, 1, Len(altStack) - 1), spend)
          BY <1>0, <3>2, ItemsDrop
        <4> QED BY <4>1, <4>2 DEF Last, Front
      <3> QED BY <1>0, <1>d, <2>1, <3>1, <3>3, PushOne
    <2> QED BY <2>1, <2>2, <2>3
  <1>8. CASE AltUnderflow
    BY <1>8 DEF AltUnderflow
  <1>9. CASE DoVerify
    <2>1. Fail \/ (Size > 0 /\ stack' = Drop(1) /\ Advance /\ UNCHANGED <<altStack, ifStack>>)
      BY <1>9 DEF DoVerify
    <2>2. script[1][1] \in {"VERIFY", "RETURN"}
      BY <1>9 DEF DoVerify
    <2>3. Size > 0 => Items(Drop(1), spend)
      BY <1>0, DropSome
    <2> QED BY <1>0, <1>d, <2>1, <2>2, <2>3
  <1>10. CASE DoEqual
    <2> SUFFICES ASSUME ~Fail PROVE Runs
      OBVIOUS
    <2>1. /\ Size >= 2 /\ Operate({"EQUAL", "EQUALVERIFY"}, 2)
          /\ stack' = IF script[1][1] = "EQUAL"
                      THEN Append(Drop(2), Truth(Top = Under)) ELSE Drop(2)
          /\ UNCHANGED altStack
      BY <1>10 DEF DoEqual
    <2>2. script[1][1] \in {"EQUAL", "EQUALVERIFY"} /\ Advance /\ UNCHANGED ifStack
      BY <2>1, OperateIs
    <2>3. Items(stack', spend)
      <3>1. Items(Drop(2), spend) /\ Items(Append(Drop(2), Truth(Top = Under)), spend)
        BY <1>0, <1>b, <2>1, DropSome
      <3> QED BY <2>1, <3>1
    <2> QED BY <1>0, <1>d, <2>1, <2>2, <2>3
  <1>11. CASE DoHash
    <2>1. /\ script[1][1] = "HASH160" /\ Size >= 1 /\ Advance /\ UNCHANGED ifStack
          /\ stack' = Append(Drop(1), Hash(Top)) /\ UNCHANGED altStack
      BY <1>11, OperateIs DEF DoHash
    <2>2. Items(stack', spend)
      BY <1>0, <1>c, <2>1, DropSome
    <2> QED BY <1>0, <1>d, <2>1, <2>2
  <1>12. CASE DoArithmetic
    <2>0. UNCHANGED altStack
      BY <1>12 DEF DoArithmetic
    <2>1. CASE Operate(UnaryOps, 1) /\ \E v \in DecodeInt(Top) :
                 stack' = Append(Drop(1), Unary(script[1][1], v))
      <3>1. script[1][1] \in UnaryOps /\ Size >= 1 /\ Advance /\ UNCHANGED ifStack
        BY <2>1, OperateIs
      <3>2. PICK v \in DecodeInt(Top) : stack' = Append(Drop(1), Unary(script[1][1], v))
        BY <2>1
      <3>3. v \in Int
        BY <1>0, <3>1, DropSome, ReadsInts DEF Top
      <3>4. Items(stack', spend)
        BY <1>0, <3>1, <3>2, <3>3, DropSome, UnaryItem
      <3> QED BY <1>0, <1>d, <2>0, <3>1, <3>4 DEF UnaryOps
    <2>2. CASE Operate(BinaryOps, 2) /\ \E a \in DecodeInt(Under), b \in DecodeInt(Top) :
                 stack' = Append(Drop(2), Binary(script[1][1], a, b))
      <3>1. script[1][1] \in BinaryOps /\ Size >= 2 /\ Advance /\ UNCHANGED ifStack
        BY <2>2, OperateIs
      <3>2. PICK a \in DecodeInt(Under), b \in DecodeInt(Top) :
              stack' = Append(Drop(2), Binary(script[1][1], a, b))
        BY <2>2
      <3>3. a \in Int /\ b \in Int
        <4>1. Item(Under, spend) /\ Item(Top, spend)
          BY <1>0, <3>1, DropSome DEF Top, Under
        <4> QED BY <4>1, ReadsInts
      <3>4. Items(stack', spend)
        BY <1>0, <3>1, <3>2, <3>3, DropSome, BinaryItem
      <3> QED BY <1>0, <1>d, <2>0, <3>1, <3>4 DEF BinaryOps
    <2>3. CASE Operate({"WITHIN"}, 3)
      <3>1. script[1][1] = "WITHIN" /\ Size >= 3 /\ Advance /\ UNCHANGED ifStack
        BY <2>3, OperateIs
      <3>2. \E b \in BOOLEAN : stack' = Append(Drop(3), Truth(b))
        BY <1>12, <3>1 DEF DoArithmetic, Operate, UnaryOps, BinaryOps
      <3>3. Items(stack', spend)
        BY <1>0, <1>b, <3>1, <3>2, DropSome
      <3> QED BY <1>0, <1>d, <2>0, <3>1, <3>3
    <2> QED BY <1>12, <2>1, <2>2, <2>3 DEF DoArithmetic
  <1>13. CASE DoCheckSig
    <2>1. /\ script[1][1] \in {"CHECKSIG", "CHECKSIGVERIFY"} /\ Size >= 2 /\ Advance
          /\ UNCHANGED ifStack /\ UNCHANGED altStack
          /\ stack' \in {Append(Drop(2), Num(1)), Drop(2)}
      BY <1>13, OperateIs DEF DoCheckSig
    <2>2. Items(stack', spend)
      <3>1. Items(Drop(2), spend) /\ Items(Append(Drop(2), Num(1)), spend)
        BY <1>0, <1>a, <2>1, DropSome
      <3> QED BY <2>1, <3>1
    <2> QED BY <1>0, <1>d, <2>1, <2>2
  <1>14. CASE DoCheckMultisig
    <2> SUFFICES ASSUME ~Fail PROVE Runs
      OBVIOUS
    <2>1. script[1][1] = "CHECKMULTISIG" /\ Size >= 1
      BY <1>14 DEF DoCheckMultisig
    <2>2. PICK n \in DecodeInt(Top) :
            LET keys == Size - 1 - Taken(n)
            IN /\ ~(Size - 1 < n \/ keys = 0)
               /\ \E m \in DecodeInt(stack[keys]) :
                    LET left == keys - 1 - Taken(m)
                    IN /\ ~(keys - 1 < m)
                       /\ stack' = Append(SubSeq(stack, 1, left - 1), Num(1))
                       /\ Advance /\ UNCHANGED <<altStack, ifStack>>
      BY <1>14 DEF DoCheckMultisig
    <2> DEFINE keys == Size - 1 - Taken(n)
    <2>3. n \in Int /\ keys \in 1 .. Size
      <3>1. n \in Int
        BY <1>0, <2>1, DropSome, ReadsInts DEF Top
      <3>2. Taken(n) \in {0, n} /\ Taken(n) >= 0
        BY <3>1, TakenIs
      <3> QED BY <1>0, <2>1, <2>2, <3>1, <3>2
    <2>4. PICK m \in DecodeInt(stack[keys]) :
            /\ ~(keys - 1 < m)
            /\ stack' = Append(SubSeq(stack, 1, (keys - 1 - Taken(m)) - 1), Num(1))
            /\ Advance /\ UNCHANGED <<altStack, ifStack>>
      BY <2>2
    <2> HIDE DEF keys
    <2>5. m \in Int /\ (keys - 1 - Taken(m)) - 1 \in Int /\ (keys - 1 - Taken(m)) - 1 <= Size
      <3>1. m \in Int
        BY <1>0, <2>3, ReadsInts DEF Items, Size
      <3>2. Taken(m) \in Int /\ Taken(m) >= 0
        BY <3>1, TakenIs
      <3> QED BY <1>0, <2>3, <3>1, <3>2
    <2>6. Items(stack', spend)
      <3>1. Items(SubSeq(stack, 1, (keys - 1 - Taken(m)) - 1), spend)
        BY <1>0, <2>5, ItemsDrop DEF Size
      <3> QED BY <1>a, <2>4, <3>1, ItemsPush
    <2> QED BY <1>0, <1>d, <2>1, <2>4, <2>6
  <1>15. CASE BeginLock \/ Finish
    BY <1>15 DEF BeginLock, Finish
  <1> QED
    BY <1>1, <1>2, <1>3, <1>4, <1>5, <1>6, <1>7, <1>8, <1>9, <1>10, <1>11, <1>12,
       <1>13, <1>14, <1>15 DEF VMNext

------------------------------------------------------------------------------
LEMMA RanGrows ==
  ASSUME NEW s, NEW c, ASeq(c), Rest(s, c), s # << >>, NEW names
  PROVE  /\ Cardinality(Ran(names, c, s)) \in Nat
         /\ Cardinality(Ran(names, c, Tail(s))) =
              IF s[1][1] \in names THEN Cardinality(Ran(names, c, s)) + 1
              ELSE Cardinality(Ran(names, c, s))
  <1> DEFINE n == Len(c) - Len(s)
             A == Ran(names, c, s)
             B == Ran(names, c, Tail(s))
  <1>1. /\ Len(Tail(s)) = Len(s) - 1 /\ Len(s) \in Nat \ {0} /\ Len(c) \in Nat /\ n \in Nat
        /\ Len(c) - Len(Tail(s)) = n + 1
    <2>1. /\ Len(Tail(s)) = Len(s) - 1 /\ Len(s) \in Nat \ {0} /\ Len(c) \in Nat
      BY TailIs, EmptyIs DEF Rest
    <2>2. Len(s) <= Len(c)
      BY DEF Rest
    <2> QED BY <2>1, <2>2
  <1>2. s[1] = c[n + 1]
    <2>1. 1 \in 1 .. Len(s)
      BY <1>1
    <2> QED BY <2>1 DEF Rest
  <1>3. A = {i \in 1 .. n : c[i][1] \in names} /\ B = {i \in 1 .. n + 1 : c[i][1] \in names}
    BY <1>1 DEF Ran
  <1> HIDE DEF n, A, B
  <1>4. 1 .. n + 1 = (1 .. n) \cup {n + 1} /\ n + 1 \notin 1 .. n
    BY <1>1
  <1>5. B = IF s[1][1] \in names THEN A \cup {n + 1} ELSE A
    <2>1. B = {i \in (1 .. n) \cup {n + 1} : c[i][1] \in names}
      BY <1>3, <1>4
    <2> QED BY <1>2, <1>3, <2>1, Zenon
  <1>6. IsFiniteSet(A) /\ n + 1 \notin A
    <2>1. n \in Int /\ 1 \in Int /\ A \subseteq 1 .. n
      BY <1>1, <1>3
    <2>2. IsFiniteSet(1 .. n)
      BY <2>1, FS_Interval
    <2> QED BY <1>4, <2>1, <2>2, FS_Subset
  <1>7. Cardinality(A) \in Nat /\ Cardinality(A \cup {n + 1}) = Cardinality(A) + 1
    BY <1>6, FS_CardinalityType, FS_AddElement
  <1> QED BY <1>5, <1>7 DEF A, B

LEMMA RanNone ==
  ASSUME NEW c, ASeq(c), NEW names
  PROVE  Rest(c, c) /\ Cardinality(Ran(names, c, c)) = 0
  <1>1. Len(c) \in Nat
    BY EmptyIs
  <1>2. Rest(c, c)
    BY <1>1 DEF Rest
  <1>3. Ran(names, c, c) = {}
    BY <1>1 DEF Ran
  <1> QED BY <1>2, <1>3, FS_EmptySet

LEMMA VMStarts == VMInit(Spends) => VMInv
  <1> SUFFICES ASSUME VMInit(Spends) PROVE VMInv
    OBVIOUS
  <1>1. /\ spend \in Spends /\ script = spend.unlock /\ locking = FALSE
        /\ stack = << >> /\ altStack = << >> /\ ifStack = << >>
        /\ verdict = "running" /\ entered = << >>
    BY DEF VMInit
  <1>2. ASeq(spend.unlock)
    BY <1>1, VMAssumption DEF ASeq
  <1>3. Items(<< >>, spend)
    BY EmptyIs DEF Items
  <1>4. Rest(script, Code)
    BY <1>1, <1>2, RanNone DEF Code
  <1>5. ifStack \in Seq(BOOLEAN) /\ entered \in Seq(BOOLEAN)
    BY <1>1
  <1> QED BY <1>1, <1>3, <1>4, <1>5 DEF VMInv, VMTypes, Depth

(* A script that has ended is followed by the other, or by the verdict.     *)
LEMMA ScriptEnds ==
  ASSUME VMNext, script = << >>
  PROVE  BeginLock \/ Finish
  BY DEF VMNext, Underflow, Skip, DoPush, DoIf, DoElse, DoStack, DoAlt, AltUnderflow,
         DoVerify, DoEqual, DoHash, DoArithmetic, DoCheckSig, DoCheckMultisig, Operate

LEMMA VMStep == VMInv /\ [VMNext]_vmVars => VMInv'
  <1> SUFFICES ASSUME VMInv, [VMNext]_vmVars PROVE VMInv'
    OBVIOUS
  <1>0. VMTypes /\ Depth /\ ASeq(spend.lock) /\ ASeq(Code) /\ Rest(script, Code)
    BY CodeIs DEF VMInv, VMTypes
  <1>1. CASE Fail /\ VMNext
    <2>1. verdict' = "error" /\ UNCHANGED <<spend, script, locking, stack, altStack, ifStack, entered>>
      BY <1>1 DEF Fail
    <2>2. Code' = Code
      BY <2>1 DEF Code
    <2> QED BY <1>0, <2>1, <2>2 DEF VMInv, VMTypes, Depth
  <1>2. CASE Runs /\ VMNext /\ script # << >>
    <2>1. /\ script' = Tail(script) /\ UNCHANGED <<spend, locking, verdict, entered>>
          /\ Items(stack', spend) /\ Items(altStack', spend) /\ ifStack' \in Seq(BOOLEAN)
          /\ Len(ifStack') = Deeper(script[1][1])
      BY <1>2 DEF Runs, Advance
    <2>2. Code' = Code /\ verdict = "running"
      BY <1>2, <2>1 DEF Code, VMNext
    <2>3. Rest(script', Code)
      BY <1>0, <1>2, <2>1, RestAdvances
    <2>4. VMTypes'
      BY <1>0, <2>1, <2>2, <2>3 DEF VMTypes
    <2>5. Depth'
      <3> SUFFICES ASSUME locking
                   PROVE  Len(ifStack') + Cardinality(Ran(Closes, spend.lock, script'))
                            = Len(entered) + Cardinality(Ran(Opens, spend.lock, script'))
        BY <2>1 DEF Depth
      <3> DEFINE o == script[1][1]
                 closed(s) == Cardinality(Ran(Closes, spend.lock, s))
                 opened(s) == Cardinality(Ran(Opens, spend.lock, s))
      <3>1. Rest(script, spend.lock)
        BY <1>0 DEF Code
      <3>2. /\ closed(script) \in Nat
            /\ closed(script') = IF o \in Closes THEN closed(script) + 1 ELSE closed(script)
        BY <1>0, <1>2, <2>1, <3>1, RanGrows
      <3>3. /\ opened(script) \in Nat
            /\ opened(script') = IF o \in Opens THEN opened(script) + 1 ELSE opened(script)
        BY <1>0, <1>2, <2>1, <3>1, RanGrows
      <3>4. Len(ifStack) + closed(script) = Len(entered) + opened(script)
        BY <1>0 DEF Depth
      <3>5. Len(ifStack) \in Nat /\ Len(entered) \in Nat
        BY <1>0 DEF VMTypes
      <3>6. ~(o \in Opens /\ o \in Closes)
        BY DEF Opens, Closes
      <3>7. Len(ifStack') = IF o \in Opens THEN Len(ifStack) + 1
                            ELSE IF o \in Closes THEN Len(ifStack) - 1 ELSE Len(ifStack)
        BY <2>1 DEF Deeper
      <3> HIDE DEF closed, opened, o
      <3>8. Len(ifStack') + closed(script') = Len(entered) + opened(script')
        BY <3>2, <3>3, <3>4, <3>5, <3>6, <3>7
      <3> QED BY <3>8 DEF closed, opened
    <2> QED BY <2>4, <2>5 DEF VMInv
  <1>3. CASE BeginLock
    <2>1. /\ locking' = TRUE /\ script' = spend.lock /\ entered' = ifStack
          /\ UNCHANGED <<spend, stack, altStack, ifStack, verdict>> /\ ~locking
      BY <1>3 DEF BeginLock
    <2>2. Code' = spend.lock
      BY <2>1 DEF Code
    <2>3. /\ Rest(spend.lock, spend.lock)
          /\ Cardinality(Ran(Closes, spend.lock, spend.lock)) = 0
          /\ Cardinality(Ran(Opens, spend.lock, spend.lock)) = 0
      BY <1>0, RanNone
    <2>4. VMTypes'
      BY <1>0, <2>1, <2>2, <2>3 DEF VMTypes
    <2>5. Depth'
      BY <2>1, <2>3 DEF Depth
    <2> QED BY <2>4, <2>5 DEF VMInv
  <1>4. CASE Finish
    <2>1. /\ script = << >> /\ locking
          /\ verdict' = IF ifStack # << >> \/ stack = << >> THEN "error"
                        ELSE IF StackTrue(Top) THEN "true" ELSE "false"
          /\ UNCHANGED <<spend, script, locking, stack, altStack, ifStack, entered>>
      BY <1>4 DEF Finish
    <2>2. Code' = Code
      BY <2>1 DEF Code
    <2> QED BY <1>0, <2>1, <2>2 DEF VMInv, VMTypes, Depth
  <1>5. CASE UNCHANGED vmVars
    <2>1. UNCHANGED <<spend, script, locking, stack, altStack, ifStack, verdict, entered>>
      BY <1>5 DEF vmVars
    <2>2. Code' = Code
      BY <2>1 DEF Code
    <2> QED BY <1>0, <2>1, <2>2 DEF VMInv, VMTypes, Depth
  <1> QED
    BY <1>0, <1>1, <1>2, <1>3, <1>4, <1>5, ScriptEnds, OpcodeRuns

LEMMA VMIsTyped == VMInv => VMTypeOK
  <1> SUFFICES ASSUME VMInv PROVE IsSuffix(script, Code)
    BY DEF VMInv, VMTypes, VMTypeOK, Code
  <1> DEFINE m == Len(script)
             n == Len(Code)
             r == Reverse(script)
             t == Reverse(Code)
  <1>1. Rest(script, Code) /\ ASeq(Code) /\ m \in Nat /\ n \in Nat /\ m <= n
    BY CodeIs, EmptyIs DEF VMInv, VMTypes, Rest
  <1>2. /\ r = [i \in 1 .. m |-> script[m - i + 1]]
        /\ t = [i \in 1 .. n |-> Code[n - i + 1]]
    BY DEF Reverse
  <1>3. Len(r) = m /\ Len(t) = n
    BY <1>1, <1>2
  <1>4. ASSUME NEW i \in 1 .. m PROVE r[i] = t[i]
    <2>1. m - i + 1 \in 1 .. m /\ n - m + (m - i + 1) = n - i + 1 /\ i \in 1 .. n
      BY <1>1
    <2>2. script[m - i + 1] = Code[n - m + (m - i + 1)]
      BY <1>1, <2>1 DEF Rest
    <2> QED BY <1>2, <2>1, <2>2
  <1>5. ASeq(r) /\ ASeq(t)
    <2>1. r \in [1 .. m -> {r[i] : i \in 1 .. m}]
      BY <1>2
    <2>2. t \in [1 .. n -> {t[i] : i \in 1 .. n}]
      BY <1>2
    <2> HIDE DEF r, t, m, n
    <2>3. r \in Seq({r[i] : i \in 1 .. m})
      BY <1>1, <2>1, SeqDef
    <2>4. t \in Seq({t[i] : i \in 1 .. n})
      BY <1>1, <2>2, SeqDef
    <2> QED BY <2>3, <2>4 DEF ASeq
  <1> HIDE DEF r, t, m, n
  <1>6. SubSeq(r, 1, m) = SubSeq(t, 1, m)
    <2> DEFINE x == SubSeq(r, 1, m)
               y == SubSeq(t, 1, m)
    <2>1. /\ ASeq(x) /\ Len(x) = m /\ \A i \in 1 .. m : x[i] = r[i]
          /\ ASeq(y) /\ Len(y) = m /\ \A i \in 1 .. m : y[i] = t[i]
      BY <1>1, <1>3, <1>5, SubSeqIs
    <2> HIDE DEF x, y
    <2>2. PICK S : x \in Seq(S)
      BY <2>1 DEF ASeq
    <2>3. PICK T : y \in Seq(T)
      BY <2>1 DEF ASeq
    <2>4. x \in Seq(S \cup T) /\ y \in Seq(S \cup T)
      BY <2>2, <2>3
    <2>5. x = y
      BY <1>4, <2>1, <2>4, SeqEqual
    <2> QED BY <2>5 DEF x, y
  <1> QED BY <1>1, <1>3, <1>6 DEF IsSuffix, IsPrefix, r, t

------------------------------------------------------------------------------
(* What single opcodes do, where they are not skipped.                      *)

LEMMA WhichAction ==
  ASSUME VMNext, script # << >>, Executing
  PROVE  \/ Underflow
         \/ script[1][1] \in {"PUSH", "N", "CHECKMULTISIGVERIFY"} /\ DoPush
         \/ script[1][1] \in {"IF", "NOTIF", "ELSE", "ENDIF"}
         \/ script[1][1] \in {"DUP", "DROP", "SWAP", "OVER", "CLTV"} /\ DoStack
         \/ script[1][1] \in {"TOALT", "FROMALT"}
         \/ script[1][1] \in {"VERIFY", "RETURN"}
         \/ script[1][1] \in {"EQUAL", "EQUALVERIFY"} /\ DoEqual
         \/ script[1][1] = "HASH160" /\ DoHash
         \/ script[1][1] \in UnaryOps \cup BinaryOps \cup {"WITHIN"}
         \/ script[1][1] \in {"CHECKSIG", "CHECKSIGVERIFY"} /\ DoCheckSig
         \/ script[1][1] = "CHECKMULTISIG" /\ DoCheckMultisig
  <1>1. CASE Underflow
    BY <1>1
  <1>2. CASE Skip \/ BeginLock \/ Finish
    BY <1>2 DEF Skip, BeginLock, Finish
  <1>3. CASE DoPush
    BY <1>3, OperateIs DEF DoPush
  <1>4. CASE DoIf \/ DoElse
    BY <1>4 DEF DoIf, DoElse
  <1>5. CASE DoStack
    <2>1. PICK o \in {"DUP", "DROP", "SWAP", "OVER", "CLTV"} : Operate({o}, Needs(o))
      BY <1>5 DEF DoStack
    <2>2. script[1][1] = o
      BY <2>1, OperateIs
    <2> QED BY <1>5, <2>2
  <1>6. CASE DoAlt \/ AltUnderflow
    BY <1>6 DEF DoAlt, AltUnderflow, Operate
  <1>7. CASE DoVerify
    BY <1>7 DEF DoVerify
  <1>8. CASE DoEqual
    BY <1>8 DEF DoEqual, Operate
  <1>9. CASE DoHash
    BY <1>9 DEF DoHash, Operate
  <1>10. CASE DoArithmetic
    BY <1>10 DEF DoArithmetic, Operate
  <1>11. CASE DoCheckSig
    BY <1>11 DEF DoCheckSig, Operate
  <1>12. CASE DoCheckMultisig
    BY <1>12 DEF DoCheckMultisig
  <1> QED
    BY <1>1, <1>2, <1>3, <1>4, <1>5, <1>6, <1>7, <1>8, <1>9, <1>10, <1>11, <1>12 DEF VMNext

(* An opcode that makes the stack next, or finds too few items.             *)
Makes(next) ==
  Advance /\ stack' = next /\ UNCHANGED <<altStack, ifStack>>

Short(need) == Size < need /\ Fail

LEMMA Underflows ==
  ASSUME Underflow
  PROVE  /\ Short(Needs(script[1][1]))
         /\ script[1][1] \in {"DUP", "HASH160"} => Needs(script[1][1]) = 1
         /\ script[1][1] \in {"EQUAL", "EQUALVERIFY", "CHECKSIG"} => Needs(script[1][1]) = 2
         /\ script[1][1] = "CHECKMULTISIG" => Needs(script[1][1]) = 1
         /\ script[1][1] \in {"PUSH", "N"} => Needs(script[1][1]) = 0
  BY DEF Underflow, Short, Needs, Takes1, Takes2, UnaryOps, BinaryOps

LEMMA DupMakes ==
  ASSUME VMNext, script # << >>, Executing, script[1][1] = "DUP"
  PROVE  Short(1) \/ (Size >= 1 /\ Makes(Append(stack, Top)))
  <1>1. Underflow \/ DoStack
    BY WhichAction DEF UnaryOps, BinaryOps
  <1>2. CASE Underflow
    BY <1>2, Underflows
  <1>3. CASE DoStack
    <2>1. PICK o \in {"DUP", "DROP", "SWAP", "OVER", "CLTV"} :
            /\ Operate({o}, Needs(o))
            /\ stack' = CASE o = "DUP"  -> Append(stack, Top)
                          [] o = "DROP" -> Drop(1)
                          [] o = "SWAP" -> Drop(2) \o <<Top, Under>>
                          [] o = "OVER" -> Append(stack, Under)
                          [] o = "CLTV" -> stack
      BY <1>3 DEF DoStack
    <2>2. o = "DUP" /\ Size >= Needs(o) /\ Advance /\ UNCHANGED ifStack
      BY <2>1, OperateIs
    <2>3. Needs(o) = 1
      BY <2>2 DEF Needs, Takes1
    <2>4. UNCHANGED altStack
      BY <1>3 DEF DoStack
    <2> QED BY <2>1, <2>2, <2>3, <2>4 DEF Makes
  <1> QED BY <1>1, <1>2, <1>3

LEMMA HashMakes ==
  ASSUME VMNext, script # << >>, Executing, script[1][1] = "HASH160"
  PROVE  Short(1) \/ (Size >= 1 /\ Makes(Append(Drop(1), Hash(Top))))
  <1>1. Underflow \/ DoHash
    BY WhichAction DEF UnaryOps, BinaryOps
  <1>2. CASE Underflow
    BY <1>2, Underflows
  <1>3. CASE DoHash
    BY <1>3, OperateIs DEF DoHash, Makes
  <1> QED BY <1>1, <1>2, <1>3

LEMMA EqualMakes ==
  ASSUME VMNext, script # << >>, Executing, script[1][1] = "EQUAL"
  PROVE  Short(2) \/ (Size >= 2 /\ Makes(Append(Drop(2), Truth(Top = Under))))
  <1>1. Underflow \/ DoEqual
    BY WhichAction DEF UnaryOps, BinaryOps
  <1>2. CASE Underflow
    BY <1>2, Underflows
  <1>3. CASE DoEqual
    BY <1>3, OperateIs DEF DoEqual, Makes
  <1> QED BY <1>1, <1>2, <1>3

LEMMA EqualVerifyMakes ==
  ASSUME VMNext, script # << >>, Executing, script[1][1] = "EQUALVERIFY"
  PROVE  \/ Short(2)
         \/ Size >= 2 /\ Top # Under /\ Fail
         \/ Size >= 2 /\ Top = Under /\ Makes(Drop(2))
  <1>1. Underflow \/ DoEqual
    BY WhichAction DEF UnaryOps, BinaryOps
  <1>2. CASE Underflow
    BY <1>2, Underflows
  <1>3. CASE DoEqual
    BY <1>3, OperateIs DEF DoEqual, Makes
  <1> QED BY <1>1, <1>2, <1>3

LEMMA CheckSigMakes ==
  ASSUME VMNext, script # << >>, Executing, script[1][1] = "CHECKSIG"
  PROVE  Short(2) \/ (Size >= 2 /\ Makes(Append(Drop(2), Num(1))))
  <1>1. Underflow \/ DoCheckSig
    BY WhichAction DEF UnaryOps, BinaryOps
  <1>2. CASE Underflow
    BY <1>2, Underflows
  <1>3. CASE DoCheckSig
    BY <1>3, OperateIs DEF DoCheckSig, Makes
  <1> QED BY <1>1, <1>2, <1>3

LEMMA PushMakes ==
  ASSUME VMTypes, VMNext, script # << >>, Executing,
         script[1][1] = "PUSH" \/ (script[1][1] = "N" /\ script[1][2] \in {0, 1, 2, 3})
  PROVE  Makes(Append(stack, IF script[1][1] = "PUSH" THEN script[1][2] ELSE Num(script[1][2])))
  <1>0. Size \in Nat
    BY EmptyIs DEF VMTypes, Items, Size
  <1>1. Underflow \/ DoPush
    BY WhichAction DEF UnaryOps, BinaryOps
  <1>2. ~Underflow
    BY <1>0, Underflows DEF Short
  <1>3. CASE DoPush
    BY <1>3, OperateIs DEF DoPush, Makes
  <1> QED BY <1>1, <1>2, <1>3

LEMMA MadeByPush ==
  ASSUME VMTypes, NEW x, Makes(Append(stack, x))
  PROVE  /\ Size \in Nat /\ Len(stack') = Size + 1 /\ stack'[Size + 1] = x
         /\ \A i \in 1 .. Size : stack'[i] = stack[i]
  BY AppendIs DEF VMTypes, Items, Size, Makes

LEMMA MadeByDrop ==
  ASSUME VMTypes, NEW n \in Nat, n <= Size, Makes(Drop(n))
  PROVE  /\ Size \in Nat /\ Len(stack') = Size - n
         /\ \A i \in 1 .. Size - n : stack'[i] = stack[i]
  <1>1. Size \in Nat /\ ASeq(stack) /\ Size = Len(stack)
    BY EmptyIs DEF VMTypes, Items, Size
  <1>2. Size - n \in Int /\ Size - n <= Len(stack) /\ Size - n >= 0
    BY <1>1
  <1>3. Drop(n) = SubSeq(stack, 1, Size - n)
    BY DEF Drop
  <1> DEFINE m == Size - n
  <1> HIDE DEF m
  <1>4. /\ Len(SubSeq(stack, 1, m)) = m
        /\ \A i \in 1 .. m : SubSeq(stack, 1, m)[i] = stack[i]
    BY <1>1, <1>2, SubSeqIs DEF m
  <1> QED BY <1>1, <1>3, <1>4 DEF Makes, m

LEMMA MadeByBoth ==
  ASSUME VMTypes, NEW n \in Nat, n <= Size, NEW x, Makes(Append(Drop(n), x))
  PROVE  /\ Size \in Nat /\ Len(stack') = Size - n + 1 /\ stack'[Size - n + 1] = x
         /\ \A i \in 1 .. Size - n : stack'[i] = stack[i]
  <1>1. Size \in Nat /\ ASeq(stack) /\ Size = Len(stack)
    BY EmptyIs DEF VMTypes, Items, Size
  <1>2. Size - n \in Int /\ Size - n <= Len(stack) /\ Size - n >= 0
    BY <1>1
  <1> DEFINE m == Size - n
             d == Drop(n)
  <1>3. d = SubSeq(stack, 1, m)
    BY DEF Drop
  <1> HIDE DEF m, d
  <1>4. /\ Len(d) = m /\ ASeq(d) /\ \A i \in 1 .. m : d[i] = stack[i]
    BY <1>1, <1>2, <1>3, SubSeqIs DEF m
  <1>5. /\ Len(Append(d, x)) = m + 1 /\ Append(d, x)[m + 1] = x
        /\ \A i \in 1 .. m : Append(d, x)[i] = d[i]
    BY <1>4, AppendIs
  <1>6. stack' = Append(d, x)
    BY DEF Makes, d
  <1> QED BY <1>1, <1>4, <1>5, <1>6 DEF m

LEMMA OneForOne ==
  ASSUME VMTypes, Size >= 1, NEW x, Makes(Append(Drop(1), x))
  PROVE  /\ Len(stack') = Size /\ stack'[Size] = x
         /\ \A i \in 1 .. Size - 1 : stack'[i] = stack[i]
  <1>1. 1 \in Nat /\ 1 <= Size
    OBVIOUS
  <1>2. /\ Size \in Nat /\ Len(stack') = Size - 1 + 1 /\ stack'[Size - 1 + 1] = x
        /\ \A i \in 1 .. Size - 1 : stack'[i] = stack[i]
    BY <1>1, MadeByBoth
  <1> QED BY <1>2

LEMMA OneForTwo ==
  ASSUME VMTypes, Size >= 2, NEW x, Makes(Append(Drop(2), x))
  PROVE  Len(stack') = Size - 1 /\ stack'[Size - 1] = x
  <1>1. 2 \in Nat /\ 2 <= Size
    OBVIOUS
  <1>2. Size \in Nat /\ Len(stack') = Size - 2 + 1 /\ stack'[Size - 2 + 1] = x
    BY <1>1, MadeByBoth
  <1> QED BY <1>2

LEMMA NoneForTwo ==
  ASSUME VMTypes, Size >= 2, Makes(Drop(2))
  PROVE  Len(stack') = Size - 2
  <1>1. 2 \in Nat /\ 2 <= Size
    OBVIOUS
  <1> QED BY <1>1, MadeByDrop

------------------------------------------------------------------------------
(* A pay-to-key-hash script, opcode by opcode, as far as it goes.           *)
KeyGoesBy(k) ==
  spend.lock = PayToKeyHash(k) /\ locking /\ entered = << >> /\ verdict # "error" =>
    /\ ifStack = << >>
    /\ Len(script) = 4 => Size >= 2 /\ Top = Under
    /\ Len(script) = 3 => Size >= 2 /\ Top = Hash(Under)
    /\ Len(script) = 2 => Size >= 3 /\ Top = Hash(k) /\ Under = Hash(stack[Size - 2])
    /\ Len(script) <= 1 => Push(k) \in Range(spend.unlock)

LEMMA KeyStep ==
  ASSUME VMInv, NEW k \in Keys, KeyGoesBy(k), [VMNext]_vmVars
  PROVE  KeyGoesBy(k)'
  <1>0. VMTypes /\ ASeq(spend.lock) /\ Size \in Nat
    BY CodeIs, EmptyIs DEF VMInv, VMTypes, Items, Size
  <1>1. CASE UNCHANGED vmVars
    BY <1>1 DEF vmVars, KeyGoesBy, Top, Under, Size
  <1>2. CASE BeginLock
    <2>1. /\ entered' = ifStack /\ script' = spend.lock
          /\ UNCHANGED <<spend, stack, altStack, ifStack, verdict>>
      BY <1>2 DEF BeginLock
    <2>2. spend.lock = PayToKeyHash(k) => Len(spend.lock) = 5
      BY DEF PayToKeyHash
    <2>3. spend.lock = PayToKeyHash(k) => Len(script') = 5
      BY <2>1, <2>2
    <2>4. entered' = << >> => ifStack' = << >>
      BY <2>1
    <2>5. spend' = spend
      BY <2>1
    <2> SUFFICES ASSUME spend.lock = PayToKeyHash(k), entered' = << >> PROVE KeyGoesBy(k)'
      BY <2>5 DEF KeyGoesBy
    <2>6. Len(script') = 5 /\ ifStack' = << >>
      BY <2>3, <2>4
    <2> QED BY <2>6 DEF KeyGoesBy
  <1>3. CASE Finish /\ VMNext
    <2>1. verdict = "running" /\ UNCHANGED <<spend, script, locking, stack, ifStack, entered>>
      BY <1>3 DEF Finish, VMNext
    <2> QED BY <2>1 DEF KeyGoesBy, Top, Under, Size
  <1>4. CASE Fail
    BY <1>4 DEF Fail, KeyGoesBy
  <1>5. CASE VMNext /\ script # << >> /\ ~Fail
    <2> SUFFICES ASSUME spend.lock = PayToKeyHash(k), locking, entered = << >>,
                        verdict = "running"
                 PROVE  KeyGoesBy(k)'
      <3>1. Runs
        BY <1>0, <1>5, OpcodeRuns
      <3>2. UNCHANGED <<spend, locking, verdict, entered>> /\ verdict = "running"
        BY <1>5, <3>1 DEF Runs, Advance, VMNext
      <3> QED BY <3>2 DEF KeyGoesBy
    <2> DEFINE n == Len(script)
    <2>1. /\ Len(spend.lock) = 5 /\ spend.lock[1] = <<"DUP">> /\ spend.lock[2] = <<"HASH160">>
          /\ spend.lock[3] = Push(Hash(k)) /\ spend.lock[4] = <<"EQUALVERIFY">>
          /\ spend.lock[5] = <<"CHECKSIG">>
      BY DEF PayToKeyHash
    <2>2. n \in 1 .. 5 /\ script[1] = spend.lock[5 - n + 1]
      <3>1. Code = spend.lock
        BY DEF Code
      <3>2. /\ n \in Nat \ {0} /\ Len(Code) - n + 1 \in 1 .. Len(Code)
            /\ script[1] = Code[Len(Code) - n + 1]
        BY <1>0, <1>5, OpIs
      <3> HIDE DEF n
      <3>3. Len(Code) = 5
        BY <2>1, <3>1
      <3>4. n \in 1 .. 5
        BY <3>2, <3>3
      <3> QED BY <3>1, <3>2, <3>3, <3>4
    <2>3. Executing /\ ifStack = << >>
      BY DEF KeyGoesBy, Executing
    <2>4. Len(script') = n - 1 /\ UNCHANGED <<spend, locking, verdict, entered>>
      <3>1. Runs
        BY <1>0, <1>5, OpcodeRuns
      <3>2. ASeq(script)
        BY <1>0 DEF VMTypes, Rest
      <3> QED BY <1>5, <3>1, <3>2, TailIs DEF Runs, Advance
    <2>5. CASE n = 5
      <3>1. script[1] = <<"DUP">>
        BY <2>1, <2>2, <2>5
      <3>2. Size >= 1 /\ Makes(Append(stack, Top))
        BY <1>5, <2>3, <3>1, DupMakes DEF Short
      <3>3. /\ Len(stack') = Size + 1 /\ stack'[Size + 1] = Top
            /\ \A i \in 1 .. Size : stack'[i] = stack[i]
        BY <1>0, <3>2, MadeByPush
      <3>4. ifStack' = << >>
        BY <2>3, <3>2 DEF Makes
      <3>5. stack'[Len(stack')] = stack'[Len(stack') - 1] /\ Len(stack') >= 2
        BY <1>0, <3>2, <3>3 DEF Top
      <3> QED BY <2>4, <2>5, <3>4, <3>5 DEF KeyGoesBy, Top, Under, Size
    <2>6. CASE n = 4
      <3>0. Size >= 2 /\ Top = Under
        BY <2>6 DEF KeyGoesBy
      <3>1. script[1] = <<"HASH160">>
        BY <2>1, <2>2, <2>6
      <3>2. Makes(Append(Drop(1), Hash(Top)))
        BY <1>5, <2>3, <3>1, HashMakes DEF Short
      <3>3. /\ Len(stack') = Size /\ stack'[Size] = Hash(Top)
            /\ \A i \in 1 .. Size - 1 : stack'[i] = stack[i]
        BY <1>0, <3>0, <3>2, MadeByBoth
      <3>4. ifStack' = << >>
        BY <2>3, <3>2 DEF Makes
      <3>5. stack'[Len(stack')] = Hash(stack'[Len(stack') - 1]) /\ Len(stack') >= 2
        BY <1>0, <3>0, <3>3 DEF Top, Under
      <3> QED BY <2>4, <2>6, <3>4, <3>5 DEF KeyGoesBy, Top, Under, Size
    <2>7. CASE n = 3
      <3>0. Size >= 2 /\ Top = Hash(Under)
        BY <2>7 DEF KeyGoesBy
      <3>1. script[1] = Push(Hash(k)) /\ script[1][1] = "PUSH" /\ script[1][2] = Hash(k)
        BY <2>1, <2>2, <2>7 DEF Push
      <3>2. Makes(Append(stack, Hash(k)))
        BY <1>0, <1>5, <2>3, <3>1, PushMakes
      <3>3. /\ Len(stack') = Size + 1 /\ stack'[Size + 1] = Hash(k)
            /\ \A i \in 1 .. Size : stack'[i] = stack[i]
        BY <1>0, <3>2, MadeByPush
      <3>4. ifStack' = << >>
        BY <2>3, <3>2 DEF Makes
      <3>5. /\ Len(stack') >= 3 /\ stack'[Len(stack')] = Hash(k)
            /\ stack'[Len(stack') - 1] = Hash(stack'[Len(stack') - 2])
        BY <1>0, <3>0, <3>3 DEF Top, Under
      <3> QED BY <2>4, <2>7, <3>4, <3>5 DEF KeyGoesBy, Top, Under, Size
    <2>8. CASE n = 2
      <3>0. Size >= 3 /\ Top = Hash(k) /\ Under = Hash(stack[Size - 2])
        BY <2>8 DEF KeyGoesBy
      <3>1. script[1] = <<"EQUALVERIFY">>
        BY <2>1, <2>2, <2>8
      <3>2. Top = Under /\ Makes(Drop(2))
        BY <1>5, <2>3, <3>1, EqualVerifyMakes DEF Short
      <3>3. k = stack[Size - 2]
        BY <3>0, <3>2 DEF Hash
      <3>4. Item(k, spend)
        BY <1>0, <3>0, <3>3 DEF VMTypes, Items, Size
      <3>5. Push(k) \in Range(spend.unlock) \cup Range(spend.lock)
        BY <3>4, VMAssumption DEF Item
      <3>6. Push(k) \notin Range(spend.lock)
        <4>1. Push(Hash(k)) # Push(k)
          BY VMAssumption DEF Push, Hash
        <4>2. Push(k) \notin {<<"DUP">>, <<"HASH160">>, <<"EQUALVERIFY">>, <<"CHECKSIG">>}
          BY DEF Push
        <4>3. Range(spend.lock) = {<<"DUP">>, <<"HASH160">>, Push(Hash(k)), <<"EQUALVERIFY">>,
                                   <<"CHECKSIG">>}
          BY DEF PayToKeyHash, Range
        <4> QED BY <4>1, <4>2, <4>3
      <3>7. ifStack' = << >>
        BY <2>3, <3>2 DEF Makes
      <3> QED BY <2>4, <2>8, <3>5, <3>6, <3>7 DEF KeyGoesBy
    <2>9. CASE n = 1
      <3>1. script[1] = <<"CHECKSIG">>
        BY <2>1, <2>2, <2>9
      <3>2. Makes(Append(Drop(2), Num(1)))
        BY <1>5, <2>3, <3>1, CheckSigMakes DEF Short
      <3>3. ifStack' = << >>
        BY <2>3, <3>2 DEF Makes
      <3>4. Push(k) \in Range(spend.unlock)
        BY <2>9 DEF KeyGoesBy
      <3> QED BY <2>4, <2>9, <3>3, <3>4 DEF KeyGoesBy
    <2> QED BY <2>2, <2>5, <2>6, <2>7, <2>8, <2>9
  <1> QED BY <1>0, <1>1, <1>2, <1>3, <1>4, <1>5, ScriptEnds

------------------------------------------------------------------------------
(* What owners show, opcode by opcode.                                      *)

LEMMA Moved ==
  ASSUME VMTypes, script # << >>, NEW x, Makes(x)
  PROVE  /\ Len(script) \in Nat /\ Len(script') = Len(script) - 1
         /\ UNCHANGED <<spend, locking, verdict, entered, ifStack>>
  BY TailIs DEF VMTypes, Rest, Makes, Advance

(* Unlocking scripts that only push.                                        *)
OnlyPushes(c) == \A i \in 1 .. Len(c) : c[i][1] = "PUSH"

PushedSoFar ==
  OnlyPushes(spend.unlock) /\ ~locking =>
    /\ verdict = "running" /\ ifStack = << >>
    /\ Size = Len(spend.unlock) - Len(script)
    /\ \A i \in 1 .. Size : stack[i] = spend.unlock[i][2]

LEMMA PushStep ==
  ASSUME VMInv, PushedSoFar, [VMNext]_vmVars
  PROVE  PushedSoFar'
  <1>0. VMTypes
    BY DEF VMInv
  <1>1. CASE UNCHANGED vmVars
    BY <1>1 DEF vmVars, PushedSoFar, Size
  <1>2. CASE BeginLock \/ Finish
    BY <1>2 DEF BeginLock, Finish, PushedSoFar
  <1>3. CASE VMNext /\ script # << >>
    <2>1. UNCHANGED <<spend, locking>>
      BY <1>0, <1>3, OpcodeRuns DEF Fail, Runs, Advance
    <2> SUFFICES ASSUME OnlyPushes(spend.unlock), ~locking PROVE PushedSoFar'
      BY <2>1 DEF PushedSoFar, OnlyPushes
    <2> DEFINE c == spend.unlock
               n == Len(c) - Len(script)
    <2>2. /\ Len(c) \in Nat /\ n + 1 \in 1 .. Len(c) /\ script[1] = c[n + 1]
      <3>1. Code = c
        BY DEF Code
      <3> QED BY <1>0, <1>3, <3>1, OpIs
    <2>3. script[1][1] = "PUSH" /\ Executing /\ Size = n /\ verdict = "running"
      BY <2>2 DEF OnlyPushes, PushedSoFar, Executing
    <2>4. Makes(Append(stack, script[1][2]))
      BY <1>0, <1>3, <2>3, PushMakes
    <2>5. /\ Len(script') = Len(script) - 1 /\ Len(script) \in Nat
          /\ UNCHANGED <<spend, locking, verdict, ifStack>>
      BY <1>0, <1>3, <2>4, Moved
    <2>6. /\ Len(stack') = n + 1 /\ stack'[n + 1] = c[n + 1][2]
          /\ \A i \in 1 .. n : stack'[i] = c[i][2]
      BY <1>0, <2>2, <2>3, <2>4, MadeByPush DEF PushedSoFar
    <2>7. Len(c) - Len(script') = n + 1 /\ n \in Int
      BY <2>2, <2>5
    <2> HIDE DEF n, c
    <2>8. \A i \in 1 .. n + 1 : stack'[i] = c[i][2]
      BY <2>6, <2>7
    <2> QED BY <2>5, <2>6, <2>7, <2>8 DEF PushedSoFar, Size, c
  <1> QED BY <1>1, <1>2, <1>3, ScriptEnds

(* The next opcode of the locking script.                                   *)
LEMMA LockIs ==
  ASSUME VMTypes, locking, script # << >>
  PROVE  /\ Len(spend.lock) \in Nat /\ Len(script) \in 1 .. Len(spend.lock)
         /\ script[1] = spend.lock[Len(spend.lock) - Len(script) + 1]
  <1>1. Code = spend.lock
    BY DEF Code
  <1>2. /\ Len(script) \in Nat \ {0} /\ Len(Code) \in Nat
        /\ Len(Code) - Len(script) + 1 \in 1 .. Len(Code)
        /\ script[1] = Code[Len(Code) - Len(script) + 1]
    BY OpIs
  <1>3. Len(script) \in 1 .. Len(Code)
    BY <1>2
  <1> QED BY <1>1, <1>2, <1>3

LEMMA EndsTrue ==
  ASSUME Finish, ifStack = << >>, Size \in Nat \ {0}, Top # Num(0)
  PROVE  verdict' = "true" /\ UNCHANGED <<spend, script, locking, stack, ifStack>>
  <1>1. stack # << >>
    BY DEF Size
  <1> QED BY <1>1 DEF Finish, StackTrue

(* The three shapes that end with one item, and their stacks while the      *)
(* locking script runs: at[q] where q opcodes are left.                      *)
KeyStack(k) ==
  LET q == Len(script)
  IN /\ q \in 0 .. 5
     /\ q = 5 => Size = 2 /\ stack[2] = k
     /\ q = 4 => Size = 3 /\ stack[2] = k /\ stack[3] = k
     /\ q = 3 => Size = 3 /\ stack[2] = k /\ stack[3] = Hash(k)
     /\ q = 2 => Size = 4 /\ stack[2] = k /\ stack[3] = Hash(k) /\ stack[4] = Hash(k)
     /\ q = 1 => Size = 2
     /\ q = 0 => Size = 1 /\ stack[1] = Num(1)

ScriptStack(x) ==
  LET q == Len(script)
  IN /\ q \in 0 .. 3
     /\ q = 3 => Size = 1 /\ stack[1] = x
     /\ q = 2 => Size = 1 /\ stack[1] = Hash(x)
     /\ q = 1 => Size = 2 /\ stack[1] = Hash(x) /\ stack[2] = Hash(x)
     /\ q = 0 => Size = 1 /\ stack[1] = Num(1)

WitnessStack(k) ==
  LET q == Len(script)
  IN q \in 0 .. 2 /\ Size = 4 - q /\ (q = 0 => stack[4] = Hash(k))

(* Signatures and an item, m, n keys, n.                                    *)
KeysStack(m, n) ==
  LET q == Len(script)
  IN /\ q \in 0 .. n + 3
     /\ q >= 1 => Size = m + n + 4 - q
     /\ q >= 1 /\ q <= n + 2 => stack[m + 2] = Num(m)
     /\ q = 1 => Top = Num(n)
     /\ q = 0 => Size = 1 /\ stack[1] = Num(1)

KeyOwner(k) ==
  spend = Shown(<<<<"sig", 1>>, k>>, PayToKeyHash(k)) /\ locking
    => verdict \in {"running", "true"} /\ ifStack = << >> /\ KeyStack(k)

ScriptOwner(x) ==
  spend = Shown(<<x>>, PayToScriptHash(x)) /\ locking
    => verdict \in {"running", "true"} /\ ifStack = << >> /\ ScriptStack(x)

WitnessOwner(v, k) ==
  spend = Shown(<<<<"sig", 1>>, k>>, WitnessProgram(v, k)) /\ locking
    => verdict \in {"running", "true"} /\ ifStack = << >> /\ WitnessStack(k)

KeysOwner(m, n) ==
  spend = SpendKeys(m, n) /\ locking
    => verdict \in {"running", "true"} /\ ifStack = << >> /\ KeysStack(m, n)

(* The steps of a locking script.                                          *)
LEMMA LockSteps ==
  ASSUME VMInv, [VMNext]_vmVars, locking'
  PROVE  \/ UNCHANGED vmVars
         \/ BeginLock /\ verdict = "running"
         \/ Finish /\ script = << >>
         \/ VMNext /\ script # << >> /\ locking /\ verdict = "running" /\ UNCHANGED spend
  <1>0. VMTypes
    BY DEF VMInv
  <1>1. CASE UNCHANGED vmVars
    BY <1>1
  <1>2. CASE VMNext /\ script = << >>
    BY <1>2, ScriptEnds DEF VMNext
  <1>3. CASE VMNext /\ script # << >>
    <2>1. Fail \/ Runs
      BY <1>0, <1>3, OpcodeRuns
    <2>2. UNCHANGED <<spend, locking>>
      BY <2>1 DEF Fail, Runs, Advance
    <2>3. verdict = "running"
      BY <1>3 DEF VMNext
    <2> QED BY <1>3, <2>2, <2>3
  <1> QED BY <1>1, <1>2, <1>3

(* Who begins a locking script after pushes has pushed what was shown.      *)
LEMMA Shows ==
  ASSUME NEW ss, NEW lock, NEW S, ss \in Seq(S), VMInv, PushedSoFar, BeginLock,
         verdict = "running", spend = Shown(ss, lock)
  PROVE  /\ verdict' = "running" /\ ifStack' = << >> /\ spend' = spend /\ script' = lock
         /\ stack' = stack /\ Size = Len(ss) /\ Len(ss) \in Nat
         /\ \A i \in 1 .. Len(ss) : stack[i] = ss[i]
  <1>1. /\ spend.unlock = [i \in DOMAIN ss |-> Push(ss[i])] /\ spend.lock = lock
        /\ DOMAIN ss = 1 .. Len(ss) /\ Len(ss) \in Nat
    BY DEF Shown
  <1> DEFINE c == spend.unlock
  <1>2. Len(c) = Len(ss) /\ \A i \in 1 .. Len(ss) : c[i] = Push(ss[i])
    BY <1>1
  <1> HIDE DEF c
  <1>3. \A i \in 1 .. Len(ss) : c[i][1] = "PUSH" /\ c[i][2] = ss[i]
    BY <1>2 DEF Push
  <1>4. /\ script = << >> /\ ~locking /\ script' = lock
        /\ UNCHANGED <<spend, stack, altStack, ifStack, verdict>>
    BY <1>1 DEF BeginLock
  <1>5. OnlyPushes(spend.unlock)
    BY <1>2, <1>3 DEF OnlyPushes, c
  <1>6. /\ ifStack = << >> /\ Size = Len(c) - Len(script)
        /\ \A i \in 1 .. Size : stack[i] = c[i][2]
    BY <1>4, <1>5 DEF PushedSoFar, c
  <1>7. Len(script) = 0
    BY <1>4
  <1>8. Size = Len(ss)
    BY <1>1, <1>2, <1>6, <1>7
  <1> QED BY <1>1, <1>3, <1>4, <1>6, <1>8

LEMMA TrueIsNotFalse ==
  Num(1) # Num(0) /\ \A x : Hash(x) # Num(0)
  BY DEF Num, Hash

LEMMA KeyOwnerStep ==
  ASSUME VMInv, PushedSoFar, [VMNext]_vmVars, NEW k \in Keys, KeyOwner(k)
  PROVE  KeyOwner(k)'
  <1> DEFINE w == Shown(<<<<"sig", 1>>, k>>, PayToKeyHash(k))
             q == Len(script)
  <1>0. VMTypes
    BY DEF VMInv
  <1> SUFFICES ASSUME spend' = w, locking'
               PROVE  verdict' \in {"running", "true"} /\ ifStack' = << >> /\ KeyStack(k)'
    BY DEF KeyOwner
  <1>1. CASE UNCHANGED vmVars
    BY <1>1 DEF vmVars, KeyOwner, KeyStack, Size
  <1>2. CASE BeginLock /\ verdict = "running"
    <2> DEFINE ss == <<<<"sig", 1>>, k>>
    <2>1. spend = w
      BY <1>2 DEF BeginLock
    <2>2. ss \in Seq({<<"sig", 1>>, k}) /\ Len(ss) = 2 /\ ss[2] = k
      OBVIOUS
    <2> HIDE DEF ss
    <2>3. /\ verdict' = "running" /\ ifStack' = << >> /\ script' = PayToKeyHash(k)
          /\ stack' = stack /\ Size = 2 /\ stack[2] = k
      <3>1. spend = Shown(ss, PayToKeyHash(k))
        BY <2>1 DEF ss
      <3> QED BY <1>2, <2>2, <3>1, Shows
    <2>4. Len(PayToKeyHash(k)) = 5
      BY DEF PayToKeyHash
    <2>5. Len(script') = 5
      BY <2>3, <2>4
    <2> QED BY <2>3, <2>5 DEF KeyStack, Size
  <1>3. CASE Finish /\ script = << >>
    <2>1. spend = w /\ locking /\ q = 0
      BY <1>3 DEF Finish
    <2>2. ifStack = << >> /\ Size = 1 /\ stack[1] = Num(1)
      BY <2>1 DEF KeyOwner, KeyStack
    <2>3. verdict' = "true" /\ UNCHANGED <<spend, script, locking, stack, ifStack>>
      BY <1>3, <2>2, EndsTrue, TrueIsNotFalse DEF Top
    <2> QED BY <2>1, <2>2, <2>3 DEF KeyStack, Size
  <1>4. CASE VMNext /\ script # << >> /\ locking /\ verdict = "running" /\ UNCHANGED spend
    <2>1. spend = w /\ ifStack = << >> /\ KeyStack(k) /\ Executing
      BY <1>4 DEF KeyOwner, Executing
    <2>2. /\ Len(spend.lock) = 5 /\ spend.lock[1] = <<"DUP">> /\ spend.lock[2] = <<"HASH160">>
          /\ spend.lock[3] = Push(Hash(k)) /\ spend.lock[4] = <<"EQUALVERIFY">>
          /\ spend.lock[5] = <<"CHECKSIG">>
      BY <2>1 DEF PayToKeyHash, Shown
    <2>3. q \in 1 .. 5 /\ script[1] = spend.lock[5 - q + 1]
      BY <1>0, <1>4, <2>2, LockIs
    <2>4. Size \in Nat
      BY <1>0, EmptyIs DEF VMTypes, Items, Size
    <2>5. ASSUME NEW x, Makes(x)
          PROVE  /\ Len(script') = q - 1 /\ verdict' = "running" /\ ifStack' = << >>
      BY <1>0, <1>4, <2>1, <2>5, Moved
    <2>6. CASE q = 5
      <3>0. script[1] = spend.lock[1]
        BY <2>3, <2>6
      <3>1. script[1] = <<"DUP">> /\ Size = 2 /\ stack[2] = k
        BY <2>1, <2>2, <2>6, <3>0 DEF KeyStack
      <3>2. Makes(Append(stack, k))
        BY <1>4, <2>1, <3>1, DupMakes DEF Short, Top
      <3>3. Len(stack') = 3 /\ stack'[3] = k /\ \A i \in 1 .. 2 : stack'[i] = stack[i]
        BY <1>0, <3>1, <3>2, MadeByPush
      <3>4. stack'[2] = k
        BY <3>1, <3>3
      <3>6. Len(script') = 4 /\ verdict' = "running" /\ ifStack' = << >>
        BY <2>5, <2>6, <3>2
      <3> QED BY <3>3, <3>4, <3>6 DEF KeyStack, Size
    <2>7. CASE q = 4
      <3>0. script[1] = spend.lock[2]
        BY <2>3, <2>7
      <3>1. script[1] = <<"HASH160">> /\ Size = 3 /\ stack[2] = k /\ stack[3] = k
        BY <2>1, <2>2, <2>7, <3>0 DEF KeyStack
      <3>2. Makes(Append(Drop(1), Hash(k)))
        BY <1>4, <2>1, <3>1, HashMakes DEF Short, Top
      <3>3. Len(stack') = 3 /\ stack'[3] = Hash(k) /\ \A i \in 1 .. 2 : stack'[i] = stack[i]
        BY <1>0, <3>1, <3>2, OneForOne, OneForTwo
      <3>4. stack'[2] = k
        BY <3>1, <3>3
      <3>6. Len(script') = 3 /\ verdict' = "running" /\ ifStack' = << >>
        BY <2>5, <2>7, <3>2
      <3> QED BY <3>3, <3>4, <3>6 DEF KeyStack, Size
    <2>8. CASE q = 3
      <3>0. script[1] = spend.lock[3]
        BY <2>3, <2>8
      <3>1. script[1] = Push(Hash(k)) /\ Size = 3 /\ stack[2] = k /\ stack[3] = Hash(k)
        BY <2>1, <2>2, <2>8, <3>0 DEF KeyStack
      <3>2. script[1][1] = "PUSH" /\ script[1][2] = Hash(k)
        BY <3>1 DEF Push
      <3>3. Makes(Append(stack, Hash(k)))
        BY <1>0, <1>4, <2>1, <3>2, PushMakes
      <3>4. Len(stack') = 4 /\ stack'[4] = Hash(k) /\ \A i \in 1 .. 3 : stack'[i] = stack[i]
        BY <1>0, <3>1, <3>3, MadeByPush
      <3>5. stack'[2] = k /\ stack'[3] = Hash(k)
        BY <3>1, <3>4
      <3>6. Len(script') = 2 /\ verdict' = "running" /\ ifStack' = << >>
        BY <2>5, <2>8, <3>3
      <3> QED BY <3>4, <3>5, <3>6 DEF KeyStack, Size
    <2>9. CASE q = 2
      <3>0. script[1] = spend.lock[4]
        BY <2>3, <2>9
      <3>1. script[1] = <<"EQUALVERIFY">> /\ Size = 4 /\ stack[3] = Hash(k) /\ stack[4] = Hash(k)
        BY <2>1, <2>2, <2>9, <3>0 DEF KeyStack
      <3>2. Makes(Drop(2))
        BY <1>4, <2>1, <3>1, EqualVerifyMakes DEF Short, Top, Under
      <3>3. Len(stack') = 2
        BY <1>0, <3>1, <3>2, NoneForTwo
      <3>6. Len(script') = 1 /\ verdict' = "running" /\ ifStack' = << >>
        BY <2>5, <2>9, <3>2
      <3> QED BY <3>3, <3>6 DEF KeyStack, Size
    <2>10. CASE q = 1
      <3>0. script[1] = spend.lock[5]
        BY <2>3, <2>10
      <3>1. script[1] = <<"CHECKSIG">> /\ Size = 2
        BY <2>1, <2>2, <2>10, <3>0 DEF KeyStack
      <3>2. Makes(Append(Drop(2), Num(1)))
        BY <1>4, <2>1, <3>1, CheckSigMakes DEF Short
      <3>3. Len(stack') = 1 /\ stack'[1] = Num(1)
        BY <1>0, <3>1, <3>2, OneForOne, OneForTwo
      <3>6. Len(script') = 0 /\ verdict' = "running" /\ ifStack' = << >>
        BY <2>5, <2>10, <3>2
      <3> QED BY <3>3, <3>6 DEF KeyStack, Size
    <2> QED BY <2>3, <2>6, <2>7, <2>8, <2>9, <2>10
  <1> QED BY <1>1, <1>2, <1>3, <1>4, LockSteps

LEMMA ScriptOwnerStep ==
  ASSUME VMInv, PushedSoFar, [VMNext]_vmVars, NEW x \in Keys, ScriptOwner(x)
  PROVE  ScriptOwner(x)'
  <1> DEFINE w == Shown(<<x>>, PayToScriptHash(x))
             q == Len(script)
  <1>0. VMTypes
    BY DEF VMInv
  <1> SUFFICES ASSUME spend' = w, locking'
               PROVE  verdict' \in {"running", "true"} /\ ifStack' = << >> /\ ScriptStack(x)'
    BY DEF ScriptOwner
  <1>1. CASE UNCHANGED vmVars
    BY <1>1 DEF vmVars, ScriptOwner, ScriptStack, Size
  <1>2. CASE BeginLock /\ verdict = "running"
    <2> DEFINE ss == <<x>>
    <2>1. spend = w
      BY <1>2 DEF BeginLock
    <2>2. ss \in Seq({x}) /\ Len(ss) = 1 /\ ss[1] = x
      OBVIOUS
    <2> HIDE DEF ss
    <2>3. /\ verdict' = "running" /\ ifStack' = << >> /\ script' = PayToScriptHash(x)
          /\ stack' = stack /\ Size = 1 /\ stack[1] = x
      <3>1. spend = Shown(ss, PayToScriptHash(x))
        BY <2>1 DEF ss
      <3> QED BY <1>2, <2>2, <3>1, Shows
    <2>4. Len(PayToScriptHash(x)) = 3
      BY DEF PayToScriptHash
    <2>5. Len(script') = 3
      BY <2>3, <2>4
    <2> QED BY <2>3, <2>5 DEF ScriptStack, Size
  <1>3. CASE Finish /\ script = << >>
    <2>1. spend = w /\ locking /\ q = 0
      BY <1>3 DEF Finish
    <2>2. ifStack = << >> /\ Size = 1 /\ stack[1] = Num(1)
      BY <2>1 DEF ScriptOwner, ScriptStack
    <2>3. verdict' = "true" /\ UNCHANGED <<spend, script, locking, stack, ifStack>>
      BY <1>3, <2>2, EndsTrue, TrueIsNotFalse DEF Top
    <2> QED BY <2>1, <2>2, <2>3 DEF ScriptStack, Size
  <1>4. CASE VMNext /\ script # << >> /\ locking /\ verdict = "running" /\ UNCHANGED spend
    <2>1. spend = w /\ ifStack = << >> /\ ScriptStack(x) /\ Executing
      BY <1>4 DEF ScriptOwner, Executing
    <2>2. /\ Len(spend.lock) = 3 /\ spend.lock[1] = <<"HASH160">>
          /\ spend.lock[2] = Push(Hash(x)) /\ spend.lock[3] = <<"EQUAL">>
      BY <2>1 DEF PayToScriptHash, Shown
    <2>3. q \in 1 .. 3 /\ script[1] = spend.lock[3 - q + 1]
      BY <1>0, <1>4, <2>2, LockIs
    <2>5. ASSUME NEW y, Makes(y)
          PROVE  /\ Len(script') = q - 1 /\ verdict' = "running" /\ ifStack' = << >>
      BY <1>0, <1>4, <2>1, <2>5, Moved
    <2>6. CASE q = 3
      <3>0. script[1] = spend.lock[1]
        BY <2>3, <2>6
      <3>1. script[1] = <<"HASH160">> /\ Size = 1 /\ stack[1] = x
        BY <2>1, <2>2, <2>6, <3>0 DEF ScriptStack
      <3>2. Makes(Append(Drop(1), Hash(x)))
        BY <1>4, <2>1, <3>1, HashMakes DEF Short, Top
      <3>3. Len(stack') = 1 /\ stack'[1] = Hash(x)
        BY <1>0, <3>1, <3>2, OneForOne
      <3>4. Len(script') = 2 /\ verdict' = "running" /\ ifStack' = << >>
        BY <2>5, <2>6, <3>2
      <3> QED BY <3>3, <3>4 DEF ScriptStack, Size
    <2>7. CASE q = 2
      <3>0. script[1] = spend.lock[2]
        BY <2>3, <2>7
      <3>1. script[1] = Push(Hash(x)) /\ Size = 1 /\ stack[1] = Hash(x)
        BY <2>1, <2>2, <2>7, <3>0 DEF ScriptStack
      <3>2. script[1][1] = "PUSH" /\ script[1][2] = Hash(x)
        BY <3>1 DEF Push
      <3>3. Makes(Append(stack, Hash(x)))
        BY <1>0, <1>4, <2>1, <3>2, PushMakes
      <3>4. Len(stack') = 2 /\ stack'[2] = Hash(x) /\ stack'[1] = Hash(x)
        <4>1. Len(stack') = 2 /\ stack'[2] = Hash(x) /\ \A i \in 1 .. 1 : stack'[i] = stack[i]
          BY <1>0, <3>1, <3>3, MadeByPush
        <4> QED BY <3>1, <4>1
      <3>5. Len(script') = 1 /\ verdict' = "running" /\ ifStack' = << >>
        BY <2>5, <2>7, <3>3
      <3> QED BY <3>4, <3>5 DEF ScriptStack, Size
    <2>8. CASE q = 1
      <3>0. script[1] = spend.lock[3]
        BY <2>3, <2>8
      <3>1. script[1] = <<"EQUAL">> /\ Size = 2 /\ stack[1] = Hash(x) /\ stack[2] = Hash(x)
        BY <2>1, <2>2, <2>8, <3>0 DEF ScriptStack
      <3>2. Makes(Append(Drop(2), Num(1)))
        <4>1. Top = Under
          BY <3>1 DEF Top, Under
        <4>2. Truth(TRUE) = Num(1)
          BY DEF Truth
        <4>3. Makes(Append(Drop(2), Truth(Top = Under)))
          BY <1>4, <2>1, <3>1, EqualMakes DEF Short
        <4>4. Truth(Top = Under) = Num(1)
          BY <4>1 DEF Truth
        <4> QED BY <4>3, <4>4
      <3>3. Len(stack') = 1 /\ stack'[1] = Num(1)
        BY <1>0, <3>1, <3>2, OneForTwo
      <3>4. Len(script') = 0 /\ verdict' = "running" /\ ifStack' = << >>
        BY <2>5, <2>8, <3>2
      <3> QED BY <3>3, <3>4 DEF ScriptStack, Size
    <2> QED BY <2>3, <2>6, <2>7, <2>8
  <1> QED BY <1>1, <1>2, <1>3, <1>4, LockSteps

LEMMA WitnessOwnerStep ==
  ASSUME VMInv, PushedSoFar, [VMNext]_vmVars, NEW v \in {0, 1}, NEW k \in Keys,
         WitnessOwner(v, k)
  PROVE  WitnessOwner(v, k)'
  <1> DEFINE w == Shown(<<<<"sig", 1>>, k>>, WitnessProgram(v, k))
             q == Len(script)
  <1>0. VMTypes
    BY DEF VMInv
  <1> SUFFICES ASSUME spend' = w, locking'
               PROVE  verdict' \in {"running", "true"} /\ ifStack' = << >> /\ WitnessStack(k)'
    BY DEF WitnessOwner
  <1>1. CASE UNCHANGED vmVars
    BY <1>1 DEF vmVars, WitnessOwner, WitnessStack, Size
  <1>2. CASE BeginLock /\ verdict = "running"
    <2> DEFINE ss == <<<<"sig", 1>>, k>>
    <2>1. spend = w
      BY <1>2 DEF BeginLock
    <2>2. ss \in Seq({<<"sig", 1>>, k}) /\ Len(ss) = 2
      OBVIOUS
    <2> HIDE DEF ss
    <2>3. /\ verdict' = "running" /\ ifStack' = << >> /\ script' = WitnessProgram(v, k)
          /\ stack' = stack /\ Size = 2
      <3>1. spend = Shown(ss, WitnessProgram(v, k))
        BY <2>1 DEF ss
      <3> QED BY <1>2, <2>2, <3>1, Shows
    <2>4. Len(WitnessProgram(v, k)) = 2
      BY DEF WitnessProgram
    <2>5. Len(script') = 2
      BY <2>3, <2>4
    <2> QED BY <2>3, <2>5 DEF WitnessStack, Size
  <1>3. CASE Finish /\ script = << >>
    <2>1. spend = w /\ locking /\ q = 0
      BY <1>3 DEF Finish
    <2>2. ifStack = << >> /\ Size = 4 /\ stack[4] = Hash(k)
      BY <2>1 DEF WitnessOwner, WitnessStack
    <2>3. Size \in Nat \ {0} /\ Top = Hash(k)
      BY <2>2 DEF Top
    <2>4. Top # Num(0)
      BY <2>3, TrueIsNotFalse
    <2>5. verdict' = "true" /\ UNCHANGED <<spend, script, locking, stack, ifStack>>
      BY <1>3, <2>2, <2>3, <2>4, EndsTrue
    <2> QED BY <2>1, <2>2, <2>5 DEF WitnessStack, Size
  <1>4. CASE VMNext /\ script # << >> /\ locking /\ verdict = "running" /\ UNCHANGED spend
    <2>1. spend = w /\ ifStack = << >> /\ WitnessStack(k) /\ Executing
      BY <1>4 DEF WitnessOwner, Executing
    <2>2. Len(spend.lock) = 2 /\ spend.lock[1] = Small(v) /\ spend.lock[2] = Push(Hash(k))
      BY <2>1 DEF WitnessProgram, Shown
    <2>3. q \in 1 .. 2 /\ script[1] = spend.lock[2 - q + 1]
      BY <1>0, <1>4, <2>2, LockIs
    <2>5. ASSUME NEW y, Makes(y)
          PROVE  /\ Len(script') = q - 1 /\ verdict' = "running" /\ ifStack' = << >>
      BY <1>0, <1>4, <2>1, <2>5, Moved
    <2>6. CASE q = 2
      <3>0. script[1] = spend.lock[1]
        BY <2>3, <2>6
      <3>1. script[1][1] = "N" /\ script[1][2] = v /\ Size = 2
        BY <2>1, <2>2, <2>6, <3>0 DEF WitnessStack, Small
      <3>2. Makes(Append(stack, Num(v)))
        BY <1>0, <1>4, <2>1, <3>1, PushMakes
      <3>3. Len(stack') = 3
        BY <1>0, <3>1, <3>2, MadeByPush
      <3>4. Len(script') = 1 /\ verdict' = "running" /\ ifStack' = << >>
        BY <2>5, <2>6, <3>2
      <3> QED BY <3>3, <3>4 DEF WitnessStack, Size
    <2>7. CASE q = 1
      <3>0. script[1] = spend.lock[2]
        BY <2>3, <2>7
      <3>1. script[1][1] = "PUSH" /\ script[1][2] = Hash(k) /\ Size = 3
        BY <2>1, <2>2, <2>7, <3>0 DEF WitnessStack, Push
      <3>2. Makes(Append(stack, Hash(k)))
        BY <1>0, <1>4, <2>1, <3>1, PushMakes
      <3>3. Len(stack') = 4 /\ stack'[4] = Hash(k)
        BY <1>0, <3>1, <3>2, MadeByPush
      <3>4. Len(script') = 0 /\ verdict' = "running" /\ ifStack' = << >>
        BY <2>5, <2>7, <3>2
      <3> QED BY <3>3, <3>4 DEF WitnessStack, Size
    <2> QED BY <2>3, <2>6, <2>7
  <1> QED BY <1>1, <1>2, <1>3, <1>4, LockSteps

(* A count of keys, the keys, a count of signatures, the signatures and one *)
(* item more: nothing is left but the 1.                                    *)
LEMMA MultisigMakes ==
  ASSUME VMTypes, VMNext, script # << >>, Executing, script[1][1] = "CHECKMULTISIG",
         NEW m \in Nat, NEW n \in Nat, Size = m + n + 3, Top = Num(n), stack[m + 2] = Num(m)
  PROVE  Makes(Append(SubSeq(stack, 1, 0), Num(1)))
  <1>1. Underflow \/ DoCheckMultisig
    BY WhichAction DEF UnaryOps, BinaryOps
  <1>2. ~Underflow
    BY Underflows DEF Short
  <1>3. DecodeInt(Top) = {n} /\ DecodeInt(stack[m + 2]) = {m}
    <2>1. \A j : DecodeInt(Num(j)) = {j}
      BY DEF DecodeInt, Num
    <2> HIDE DEF DecodeInt, Num
    <2> QED BY <2>1
  <1>4. Taken(n) = n /\ Taken(m) = m
    BY TakenOfNat, Zenon
  <1>5. LET keys == Size - 1 - Taken(n)
        IN IF Size - 1 < n \/ keys = 0 THEN Fail
           ELSE \E a \in DecodeInt(stack[keys]) :
                  LET left == keys - 1 - Taken(a)
                  IN IF keys - 1 < a THEN Fail
                     ELSE /\ stack' = Append(SubSeq(stack, 1, left - 1), Num(1))
                          /\ Advance /\ UNCHANGED <<altStack, ifStack>>
    BY <1>1, <1>2, <1>3 DEF DoCheckMultisig
  <1>6. /\ Size - 1 - Taken(n) = m + 2 /\ ~(Size - 1 < n) /\ m + 2 # 0 /\ ~(m + 2 - 1 < m)
        /\ m + 2 - 1 - Taken(m) - 1 = 0
    BY <1>4
  <1> DEFINE keys == Size - 1 - Taken(n)
  <1>7. keys = m + 2
    BY <1>6
  <1>8. \E a \in DecodeInt(stack[keys]) :
                  LET left == keys - 1 - Taken(a)
                  IN IF keys - 1 < a THEN Fail
                     ELSE /\ stack' = Append(SubSeq(stack, 1, left - 1), Num(1))
                          /\ Advance /\ UNCHANGED <<altStack, ifStack>>
    BY <1>5, <1>6, <1>7
  <1> HIDE DEF keys
  <1>9. PICK a \in DecodeInt(stack[keys]) :
          LET left == keys - 1 - Taken(a)
          IN IF keys - 1 < a THEN Fail
             ELSE /\ stack' = Append(SubSeq(stack, 1, left - 1), Num(1))
                  /\ Advance /\ UNCHANGED <<altStack, ifStack>>
    BY <1>8
  <1>10. a = m
    BY <1>3, <1>7, <1>9
  <1> DEFINE e == keys - 1 - Taken(a) - 1
  <1>11. ~(keys - 1 < a) /\ e = 0
    BY <1>4, <1>7, <1>10
  <1>12. /\ stack' = Append(SubSeq(stack, 1, e), Num(1))
         /\ Advance /\ UNCHANGED <<altStack, ifStack>>
    BY <1>9, <1>11
  <1> HIDE DEF e
  <1> QED BY <1>11, <1>12 DEF Makes

(* b is s and then t.                                                      *)
Joined(b, s, t) ==
  /\ ASeq(b) /\ Len(b) = Len(s) + Len(t)
  /\ \A i \in 1 .. Len(s) : b[i] = s[i]
  /\ \A i \in 1 .. Len(t) : b[Len(s) + i] = t[i]

LEMMA ConcatIs ==
  ASSUME NEW s, ASeq(s), NEW t, ASeq(t)
  PROVE  Joined(s \o t, s, t)
  <1>1. PICK S : s \in Seq(S)
    BY DEF ASeq
  <1>2. PICK T : t \in Seq(T)
    BY DEF ASeq
  <1>3. s \in Seq(S \cup T) /\ t \in Seq(S \cup T)
    BY <1>1, <1>2
  <1> DEFINE c == s \o t
  <1>4. c \in Seq(S \cup T) /\ Len(c) = Len(s) + Len(t)
        /\ \A i \in 1 .. Len(s) + Len(t) : c[i] = IF i <= Len(s) THEN s[i] ELSE t[i - Len(s)]
    BY <1>3, ConcatProperties
  <1>5. Len(s) \in Nat /\ Len(t) \in Nat
    BY <1>3
  <1> HIDE DEF c
  <1>6. \A i \in 1 .. Len(s) : c[i] = s[i]
    BY <1>4, <1>5
  <1>7. ASSUME NEW i \in 1 .. Len(t) PROVE c[Len(s) + i] = t[i]
    <2>1. Len(s) + i \in 1 .. Len(s) + Len(t) /\ ~(Len(s) + i <= Len(s)) /\ Len(s) + i - Len(s) = i
      BY <1>5
    <2>2. c[Len(s) + i] = t[Len(s) + i - Len(s)]
      BY <1>4, <2>1
    <2> QED BY <2>1, <2>2
  <1>8. ASeq(c)
    BY <1>4 DEF ASeq
  <1>9. Joined(c, s, t)
    BY <1>4, <1>5, <1>6, <1>7, <1>8 DEF Joined
  <1> QED BY <1>9 DEF c

LEMMA ListIs ==
  ASSUME NEW n \in Nat, NEW f, f = [i \in 1 .. n |-> f[i]]
  PROVE  ASeq(f) /\ Len(f) = n
  <1>1. f \in [1 .. n -> {f[i] : i \in 1 .. n}]
    OBVIOUS
  <1>2. f \in Seq({f[i] : i \in 1 .. n})
    BY <1>1, SeqDef
  <1>3. ASeq(f)
    BY <1>2 DEF ASeq
  <1>4. Len(f) \in Nat /\ DOMAIN f = 1 .. Len(f)
    BY <1>2
  <1>5. DOMAIN f = 1 .. n
    BY <1>1
  <1>6. Len(f) = n
    BY <1>4, <1>5
  <1> QED BY <1>3, <1>6

(* A multi-signature script, and what spends it.                           *)
LEMMA MultisigIs ==
  ASSUME NEW n \in Nat, NEW m \in Nat
  PROVE  LET c == SpendKeys(m, n).lock
         IN /\ Len(c) = n + 3 /\ c[1] = Small(m) /\ c[n + 2] = Small(n)
            /\ c[n + 3] = <<"CHECKMULTISIG">> /\ \A i \in 1 .. n : c[i + 1][1] = "PUSH"
  <1> DEFINE keys == [i \in 1 .. n |-> <<"pub", i>>]
             p == [i \in 1 .. n |-> Push(keys[i])]
             a == <<Small(m)>>
             z == <<Small(n), <<"CHECKMULTISIG">>>>
  <1>1. DOMAIN keys = 1 .. n /\ Len(keys) = n
    OBVIOUS
  <1>2. SpendKeys(m, n).lock = OfKeys(m, keys)
    BY DEF SpendKeys, Shown
  <1>3. OfKeys(m, keys) = a \o p \o z
    <2> HIDE DEF keys
    <2> QED BY <1>1 DEF OfKeys
  <1>4. ASeq(a) /\ Len(a) = 1 /\ a[1] = Small(m)
    <2>1. a \in Seq({Small(m)})
      OBVIOUS
    <2> QED BY <2>1 DEF ASeq
  <1>5. ASeq(z) /\ Len(z) = 2 /\ z[1] = Small(n) /\ z[2] = <<"CHECKMULTISIG">>
    <2>1. z \in Seq({Small(n), <<"CHECKMULTISIG">>})
      OBVIOUS
    <2> QED BY <2>1 DEF ASeq
  <1>6. p = [i \in 1 .. n |-> p[i]] /\ \A i \in 1 .. n : p[i] = Push(keys[i])
    OBVIOUS
  <1> HIDE DEF keys, p, a, z
  <1>7. ASeq(p) /\ Len(p) = n
    BY <1>6, ListIs
  <1>8. \A i \in 1 .. n : p[i][1] = "PUSH"
    BY <1>6 DEF Push
  <1> DEFINE b == a \o p
             c == b \o z
  <1>9. ASeq(b) /\ Len(b) = n + 1 /\ b[1] = Small(m) /\ \A i \in 1 .. n : b[1 + i] = p[i]
    <2>1. /\ ASeq(b) /\ Len(b) = Len(a) + Len(p) /\ \A i \in 1 .. Len(a) : b[i] = a[i]
          /\ \A i \in 1 .. Len(p) : b[Len(a) + i] = p[i]
      <3>1. Joined(b, a, p)
        BY <1>4, <1>7, ConcatIs
      <3> HIDE DEF b
      <3> QED BY <3>1 DEF Joined
    <2> HIDE DEF b
    <2>2. 1 \in 1 .. Len(a)
      BY <1>4
    <2> QED BY <1>4, <1>7, <2>1, <2>2
  <1> HIDE DEF b
  <1>10. /\ Len(c) = Len(b) + Len(z) /\ \A i \in 1 .. Len(b) : c[i] = b[i]
         /\ \A i \in 1 .. Len(z) : c[Len(b) + i] = z[i]
    <2>1. Joined(c, b, z)
      BY <1>5, <1>9, ConcatIs
    <2> HIDE DEF c
    <2> QED BY <2>1 DEF Joined
  <1> HIDE DEF c
  <1>11. Len(c) = n + 3
    BY <1>5, <1>9, <1>10
  <1>12. c[1] = Small(m)
    <2>1. 1 \in 1 .. Len(b)
      BY <1>9
    <2> QED BY <1>9, <1>10, <2>1
  <1>13. c[n + 1 + 1] = Small(n) /\ c[n + 1 + 2] = <<"CHECKMULTISIG">>
    <2>1. 1 \in 1 .. Len(z) /\ 2 \in 1 .. Len(z)
      BY <1>5
    <2> QED BY <1>5, <1>9, <1>10, <2>1
  <1>14. ASSUME NEW i \in 1 .. n PROVE c[i + 1][1] = "PUSH"
    <2>1. i + 1 \in 1 .. Len(b) /\ i + 1 = 1 + i
      BY <1>9
    <2>2. c[1 + i] = b[1 + i]
      BY <1>10, <2>1
    <2>3. b[1 + i] = p[i]
      BY <1>9
    <2>4. p[i][1] = "PUSH"
      BY <1>8
    <2>5. c[1 + i][1] = "PUSH"
      BY <2>2, <2>3, <2>4
    <2> QED BY <2>1, <2>5
  <1>15. SpendKeys(m, n).lock = c
    BY <1>2, <1>3 DEF c, b
  <1>16. n + 1 + 1 = n + 2 /\ n + 1 + 2 = n + 3
    OBVIOUS
  <1>17. c[n + 2] = Small(n) /\ c[n + 3] = <<"CHECKMULTISIG">>
    BY <1>13, <1>16
  <1> QED BY <1>11, <1>12, <1>14, <1>15, <1>17

LEMMA SignaturesAre ==
  ASSUME NEW m \in Nat
  PROVE  ASeq(Signatures(m)) /\ Len(Signatures(m)) = m + 1
  <1> DEFINE a == <<Num(0)>>
             p == [i \in 1 .. m |-> <<"sig", i>>]
  <1>1. ASeq(a) /\ Len(a) = 1
    <2>1. a \in Seq({Num(0)})
      OBVIOUS
    <2> QED BY <2>1 DEF ASeq
  <1>2. p = [i \in 1 .. m |-> p[i]]
    OBVIOUS
  <1>3. Signatures(m) = a \o p
    BY DEF Signatures
  <1> HIDE DEF a, p
  <1>4. ASeq(p) /\ Len(p) = m
    BY <1>2, ListIs
  <1>5. Joined(a \o p, a, p)
    BY <1>1, <1>4, ConcatIs
  <1>6. ASeq(Signatures(m)) /\ Len(Signatures(m)) = Len(a) + Len(p)
    BY <1>3, <1>5 DEF Joined
  <1> QED BY <1>1, <1>4, <1>6

LEMMA KeysOwnerStep ==
  ASSUME VMInv, PushedSoFar, [VMNext]_vmVars, NEW n \in 1 .. 3, NEW m \in 1 .. n,
         KeysOwner(m, n)
  PROVE  KeysOwner(m, n)'
  <1> DEFINE w == SpendKeys(m, n)
             q == Len(script)
             c == w.lock
  <1>0. VMTypes
    BY DEF VMInv
  <1>a. m \in Nat /\ n \in Nat /\ m \in {1, 2, 3} /\ n \in {1, 2, 3}
    OBVIOUS
  <1>b. /\ Len(c) = n + 3 /\ c[1] = Small(m) /\ c[n + 2] = Small(n)
        /\ c[n + 3] = <<"CHECKMULTISIG">> /\ \A i \in 1 .. n : c[i + 1][1] = "PUSH"
    BY <1>a, MultisigIs
  <1> HIDE DEF w
  <1> SUFFICES ASSUME spend' = w, locking'
               PROVE  verdict' \in {"running", "true"} /\ ifStack' = << >> /\ KeysStack(m, n)'
    BY DEF KeysOwner, w
  <1>1. CASE UNCHANGED vmVars
    BY <1>1 DEF vmVars, KeysOwner, KeysStack, Size, Top, w
  <1>2. CASE BeginLock /\ verdict = "running"
    <2> DEFINE ss == Signatures(m)
    <2>1. spend = w
      BY <1>2 DEF BeginLock
    <2>2. ASeq(ss) /\ Len(ss) = m + 1
      BY <1>a, SignaturesAre
    <2> HIDE DEF ss
    <2>3. PICK S : ss \in Seq(S)
      BY <2>2 DEF ASeq
    <2>4. spend = Shown(ss, c)
      BY <2>1 DEF ss, SpendKeys, Shown, w
    <2>5. /\ verdict' = "running" /\ ifStack' = << >> /\ script' = c
          /\ stack' = stack /\ Size = Len(ss)
      BY <1>2, <2>3, <2>4, Shows
    <2>6. Len(script') = n + 3 /\ Len(stack') = m + 1
      BY <1>b, <2>2, <2>5 DEF Size
    <2> QED BY <1>a, <2>5, <2>6 DEF KeysStack, Size
  <1>3. CASE Finish /\ script = << >>
    <2>1. spend = w /\ locking /\ q = 0
      BY <1>3 DEF Finish
    <2>2. ifStack = << >> /\ Size = 1 /\ stack[1] = Num(1)
      BY <2>1 DEF KeysOwner, KeysStack, w
    <2>3. verdict' = "true" /\ UNCHANGED <<spend, script, locking, stack, ifStack>>
      BY <1>3, <2>2, EndsTrue, TrueIsNotFalse DEF Top
    <2> QED BY <1>a, <2>1, <2>2, <2>3 DEF KeysStack, Size
  <1>4. CASE VMNext /\ script # << >> /\ locking /\ verdict = "running" /\ UNCHANGED spend
    <2>1. spend = w /\ ifStack = << >> /\ KeysStack(m, n) /\ Executing
      BY <1>4 DEF KeysOwner, Executing, w
    <2>2. spend.lock = c /\ Len(script) = q
      BY <2>1 DEF w
    <2>3. q \in 1 .. n + 3 /\ script[1] = c[n + 3 - q + 1]
      <3>1. Len(script) \in 1 .. Len(spend.lock)
            /\ script[1] = spend.lock[Len(spend.lock) - Len(script) + 1]
        BY <1>0, <1>4, LockIs
      <3>2. Len(spend.lock) = n + 3
        BY <1>b, <2>2
      <3>3. q \in 1 .. n + 3 /\ Len(spend.lock) - Len(script) + 1 = n + 3 - q + 1
        BY <2>2, <3>1, <3>2
      <3>4. script[1] = spend.lock[n + 3 - q + 1]
        BY <3>1, <3>3, Zenon
      <3> HIDE DEF q, c
      <3> QED BY <2>2, <3>3, <3>4
    <2>5. ASSUME NEW y, Makes(y)
          PROVE  /\ Len(script') = q - 1 /\ verdict' = "running" /\ ifStack' = << >>
      BY <1>0, <1>4, <2>1, <2>5, Moved
    <2>4. Size = m + n + 4 - q /\ (q <= n + 2 => stack[m + 2] = Num(m))
      BY <2>1, <2>3 DEF KeysStack
    <2>6. ASSUME NEW y, Makes(Append(stack, y)), q >= 2, q = n + 3 => y = Num(m), q = 2 => y = Num(n)
          PROVE  verdict' = "running" /\ ifStack' = << >> /\ KeysStack(m, n)'
      <3>1. /\ Len(stack') = Size + 1 /\ stack'[Size + 1] = y
            /\ \A i \in 1 .. Size : stack'[i] = stack[i]
        BY <1>0, <2>6, MadeByPush
      <3>2. Len(script') = q - 1 /\ verdict' = "running" /\ ifStack' = << >>
        BY <2>5, <2>6
      <3>3. Len(stack') = m + n + 4 - (q - 1)
        BY <1>a, <2>3, <2>4, <3>1
      <3>4. stack'[m + 2] = Num(m)
        <4>1. CASE q = n + 3
          <5>1. Size + 1 = m + 2
            BY <1>a, <2>4, <4>1
          <5> QED BY <2>6, <3>1, <4>1, <5>1
        <4>2. CASE q # n + 3
          <5>1. q <= n + 2 /\ m + 2 \in 1 .. Size
            BY <1>a, <2>3, <2>4, <4>2
          <5> QED BY <2>4, <3>1, <5>1
        <4> QED BY <4>1, <4>2
      <3>5. q - 1 = 1 => stack'[Len(stack')] = Num(n)
        BY <2>3, <2>6, <3>1
      <3>6. q - 1 \in 0 .. n + 3 /\ q - 1 # 0
        <4>1. q \in 1 .. n + 3 /\ q >= 2
          BY <2>3, <2>6
        <4> HIDE DEF q
        <4> QED BY <1>a, <4>1
      <3> QED BY <3>2, <3>3, <3>4, <3>5, <3>6 DEF KeysStack, Size, Top
    <2>7. CASE q = n + 3
      <3>1. script[1] = Small(m)
        <4>1. n + 3 - q + 1 = 1
          BY <1>a, <2>7
        <4> QED BY <1>b, <2>3, <4>1
      <3>2. script[1][1] = "N" /\ script[1][2] = m
        BY <3>1 DEF Small
      <3>3. Makes(Append(stack, Num(m)))
        BY <1>0, <1>4, <1>a, <2>1, <3>2, PushMakes
      <3>4. q >= 2 /\ q # 2
        BY <1>a, <2>7
      <3> QED BY <2>6, <3>3, <3>4
    <2>8. CASE q \in 3 .. n + 2
      <3> DEFINE i == n + 3 - q
      <3>1. i \in 1 .. n /\ q >= 2 /\ q # n + 3 /\ q # 2
        <4> HIDE DEF q
        <4> QED BY <1>a, <2>8 DEF i
      <3>2. script[1][1] = "PUSH"
        BY <1>b, <2>3, <3>1
      <3>3. Makes(Append(stack, script[1][2]))
        BY <1>0, <1>4, <2>1, <3>2, PushMakes
      <3> HIDE DEF i
      <3> QED BY <2>6, <3>1, <3>3
    <2>9. CASE q = 2
      <3>1. script[1] = Small(n)
        <4>1. n + 3 - q + 1 = n + 2
          BY <1>a, <2>9
        <4> QED BY <1>b, <2>3, <4>1
      <3>2. script[1][1] = "N" /\ script[1][2] = n
        BY <3>1 DEF Small
      <3>3. Makes(Append(stack, Num(n)))
        BY <1>0, <1>4, <1>a, <2>1, <3>2, PushMakes
      <3>4. q >= 2 /\ q # n + 3
        BY <1>a, <2>9
      <3> QED BY <2>6, <3>3, <3>4
    <2>10. CASE q = 1
      <3>1. script[1] = <<"CHECKMULTISIG">>
        <4>1. n + 3 - q + 1 = n + 3
          BY <1>a, <2>10
        <4> QED BY <1>b, <2>3, <4>1
      <3>2. Size = m + n + 3 /\ Top = Num(n) /\ stack[m + 2] = Num(m)
        BY <1>a, <2>1, <2>4, <2>10 DEF KeysStack
      <3>3. script[1][1] = "CHECKMULTISIG"
        BY <3>1
      <3>4. Makes(Append(SubSeq(stack, 1, 0), Num(1)))
        BY <1>0, <1>4, <1>a, <2>1, <3>2, <3>3, MultisigMakes
      <3>5. stack' = Append(SubSeq(stack, 1, 0), Num(1))
        BY <3>4 DEF Makes
      <3>6. Len(stack') = 1 /\ stack'[1] = Num(1)
        <4> DEFINE z == 0
                   d == SubSeq(stack, 1, z)
        <4>1. ASeq(stack) /\ z \in Int /\ z <= Len(stack)
          BY <1>0, <1>a, <3>2 DEF VMTypes, Items, Size
        <4>2. ASeq(d) /\ Len(d) = 0
          <5>1. ASeq(d) /\ Len(d) = IF z < 0 THEN 0 ELSE z
            <6> HIDE DEF z
            <6> QED BY <4>1, SubSeqIs
          <5> QED BY <5>1
        <4> HIDE DEF d
        <4>3. Len(Append(d, Num(1))) = Len(d) + 1 /\ Append(d, Num(1))[Len(d) + 1] = Num(1)
          BY <4>2, AppendIs
        <4>4. stack' = Append(d, Num(1))
          BY <3>5 DEF d
        <4> QED BY <4>2, <4>3, <4>4
      <3>7. Len(script') = 0 /\ verdict' = "running" /\ ifStack' = << >>
        BY <2>5, <2>10, <3>4
      <3> QED BY <1>a, <3>6, <3>7 DEF KeysStack, Size
    <2>11. q = n + 3 \/ q \in 3 .. n + 2 \/ q = 2 \/ q = 1
      <3>1. q \in 1 .. n + 3
        BY <2>3
      <3> HIDE DEF q
      <3> QED BY <1>a, <3>1
    <2> QED BY <2>7, <2>8, <2>9, <2>10, <2>11
  <1> QED BY <1>1, <1>2, <1>3, <1>4, LockSteps

------------------------------------------------------------------------------
(* The locking script decides.                                             *)

Owners ==
  /\ PushedSoFar
  /\ \A k \in Keys : KeyOwner(k) /\ ScriptOwner(k) /\ \A v \in {0, 1} : WitnessOwner(v, k)
  /\ \A n \in 1 .. 3 : \A m \in 1 .. n : KeysOwner(m, n)

LockInv == VMInv /\ Owners /\ \A k \in Keys : KeyGoesBy(k)

LEMMA OwnersStart == VMInit(Spends) => Owners
  <1> SUFFICES ASSUME VMInit(Spends) PROVE Owners
    OBVIOUS
  <1>1. /\ ~locking /\ verdict = "running" /\ ifStack = << >> /\ stack = << >>
        /\ script = spend.unlock /\ spend \in Spends
    BY DEF VMInit
  <1>2. Len(script) \in Nat
    BY <1>1, VMAssumption
  <1>3. Size = 0
    BY <1>1 DEF Size
  <1>4. PushedSoFar
    BY <1>1, <1>2, <1>3 DEF PushedSoFar
  <1> QED BY <1>1, <1>4 DEF Owners, KeyOwner, ScriptOwner, WitnessOwner, KeysOwner

LEMMA LockInvHolds == VMSpec => []LockInv
  <1>1. VMInit(Spends) => LockInv
    <2>1. VMInit(Spends) => \A k \in Keys : KeyGoesBy(k)
      BY DEF VMInit, KeyGoesBy
    <2> QED BY <2>1, OwnersStart, VMStarts DEF LockInv
  <1>2. LockInv /\ [VMNext]_vmVars => LockInv'
    <2> SUFFICES ASSUME LockInv, [VMNext]_vmVars PROVE LockInv'
      OBVIOUS
    <2>1. VMInv /\ PushedSoFar
      BY DEF LockInv, Owners
    <2>2. VMInv' /\ PushedSoFar'
      BY <2>1, VMStep, PushStep
    <2>3. ASSUME NEW k \in Keys PROVE KeyGoesBy(k)'
      BY <2>1, KeyStep DEF LockInv
    <2>4. ASSUME NEW k \in Keys PROVE KeyOwner(k)' /\ ScriptOwner(k)'
      BY <2>1, KeyOwnerStep, ScriptOwnerStep DEF LockInv, Owners
    <2>5. ASSUME NEW k \in Keys, NEW v \in {0, 1} PROVE WitnessOwner(v, k)'
      <3>1. WitnessOwner(v, k)
        BY DEF LockInv, Owners
      <3> QED BY <2>1, <3>1, WitnessOwnerStep
    <2>6. ASSUME NEW n \in 1 .. 3, NEW m \in 1 .. n PROVE KeysOwner(m, n)'
      <3>1. KeysOwner(m, n)
        BY DEF LockInv, Owners
      <3> QED BY <2>1, <3>1, KeysOwnerStep
    <2> QED BY <2>2, <2>3, <2>4, <2>5, <2>6 DEF LockInv, Owners
  <1> QED BY <1>1, <1>2, PTL DEF VMSpec

LEMMA NothingOpen ==
  ASSUME VMInv
  PROVE  LockIsNotSkipped
  <1> SUFFICES ASSUME verdict = "true", Balanced(spend.lock) PROVE entered = << >>
    BY DEF LockIsNotSkipped
  <1> DEFINE c == spend.lock
             n == Len(c)
  <1>1. locking /\ script = << >> /\ ifStack = << >> /\ entered \in Seq(BOOLEAN)
    BY DEF VMInv, VMTypes
  <1>2. c \in Seq(Range(c)) /\ Len(script) = 0 /\ Len(ifStack) = 0
    BY <1>1, VMAssumption DEF VMInv, VMTypes
  <1>3. \A names : Ran(names, c, script) = Positions(names, c)
    <2>1. DOMAIN c = 1 .. n - 0 /\ n - Len(script) = n - 0
      BY <1>2
    <2> QED BY <2>1 DEF Ran, Positions
  <1>4. Len(ifStack) + Cardinality(Positions(Closes, c))
          = Len(entered) + Cardinality(Positions(Opens, c))
    BY <1>1, <1>3 DEF VMInv, Depth
  <1>5. Cardinality(Positions(Opens, c)) = Cardinality(Positions(Closes, c))
    BY DEF Balanced, Opens, Closes
  <1>6. Cardinality(Positions(Closes, c)) \in Nat
    <2>1. Positions(Closes, c) \subseteq 1 .. n /\ n \in Int /\ 1 \in Int
      BY <1>2 DEF Positions
    <2> QED BY <2>1, FS_Interval, FS_Subset, FS_CardinalityType
  <1>7. Len(entered) \in Nat
    BY <1>1
  <1>8. Len(entered) = 0
    BY <1>2, <1>4, <1>5, <1>6, <1>7
  <1> QED BY <1>1, <1>8

LEMMA KeyLockIsBalanced == \A k : Balanced(PayToKeyHash(k))
  <1> SUFFICES ASSUME NEW k PROVE Balanced(PayToKeyHash(k))
    OBVIOUS
  <1> DEFINE c == PayToKeyHash(k)
  <1>1. \A i \in DOMAIN c : c[i][1] \in {"DUP", "HASH160", "PUSH", "EQUALVERIFY", "CHECKSIG"}
    BY DEF PayToKeyHash, Push
  <1>2. Positions({"IF", "NOTIF"}, c) = {} /\ Positions({"ENDIF"}, c) = {}
    BY <1>1 DEF Positions
  <1> QED BY <1>2 DEF Balanced

LEMMA LockInvDecides == LockInv => LocksDecide
  <1> SUFFICES ASSUME LockInv PROVE LocksDecide
    OBVIOUS
  <1>1. VMInv /\ VMTypes
    BY DEF LockInv, VMInv
  <1>2. LockIsNotSkipped
    BY <1>1, NothingOpen
  <1>3. KeyIsShown
    <2> SUFFICES ASSUME verdict = "true", NEW k \in Keys, spend.lock = PayToKeyHash(k)
                 PROVE  \E i \in DOMAIN spend.unlock : spend.unlock[i] = Push(k)
      BY DEF KeyIsShown
    <2>1. entered = << >>
      BY <1>2, KeyLockIsBalanced DEF LockIsNotSkipped
    <2>2. locking /\ script = << >> /\ verdict # "error"
      BY <1>1 DEF VMTypes
    <2>3. Len(script) <= 1
      BY <2>2
    <2>4. Push(k) \in Range(spend.unlock)
      BY <2>1, <2>2, <2>3 DEF LockInv, KeyGoesBy
    <2> QED BY <2>4 DEF Range
  <1>4. OwnersSpend
    <2> SUFFICES ASSUME NEW o \in OwnerSpends, spend = o PROVE verdict \in {"running", "true"}
      BY DEF OwnersSpend
    <2>0. \/ \E k \in Keys : o = Shown(<<<<"sig", 1>>, k>>, PayToKeyHash(k))
          \/ \E x \in Keys : o = Shown(<<x>>, PayToScriptHash(x))
          \/ \E v \in {0, 1}, k \in Keys : o = Shown(<<<<"sig", 1>>, k>>, WitnessProgram(v, k))
          \/ \E n \in 1 .. 3 : \E m \in 1 .. n : o = SpendKeys(m, n)
      BY DEF OwnerSpends
    <2>1. CASE locking
      <3>2. CASE \E k \in Keys : o = Shown(<<<<"sig", 1>>, k>>, PayToKeyHash(k))
        <4>1. PICK k \in Keys : o = Shown(<<<<"sig", 1>>, k>>, PayToKeyHash(k))
          BY <3>2
        <4>2. KeyOwner(k)
          BY DEF LockInv, Owners
        <4> QED BY <2>1, <4>1, <4>2 DEF KeyOwner
      <3>3. CASE \E x \in Keys : o = Shown(<<x>>, PayToScriptHash(x))
        <4>1. PICK x \in Keys : o = Shown(<<x>>, PayToScriptHash(x))
          BY <3>3
        <4>2. ScriptOwner(x)
          BY DEF LockInv, Owners
        <4> QED BY <2>1, <4>1, <4>2 DEF ScriptOwner
      <3>4. CASE \E v \in {0, 1}, k \in Keys : o = Shown(<<<<"sig", 1>>, k>>, WitnessProgram(v, k))
        <4>1. PICK v \in {0, 1}, k \in Keys : o = Shown(<<<<"sig", 1>>, k>>, WitnessProgram(v, k))
          BY <3>4
        <4>2. WitnessOwner(v, k)
          BY DEF LockInv, Owners
        <4> QED BY <2>1, <4>1, <4>2 DEF WitnessOwner
      <3>5. CASE \E n \in 1 .. 3 : \E m \in 1 .. n : o = SpendKeys(m, n)
        <4>1. PICK n \in 1 .. 3 : \E m \in 1 .. n : o = SpendKeys(m, n)
          BY <3>5
        <4>2. PICK m \in 1 .. n : o = SpendKeys(m, n)
          BY <4>1
        <4>3. KeysOwner(m, n)
          BY DEF LockInv, Owners
        <4> QED BY <2>1, <4>2, <4>3 DEF KeysOwner
      <3> QED BY <2>0, <3>2, <3>3, <3>4, <3>5
    <2>2. CASE ~locking
      <3>1. \E ss, lock : o = Shown(ss, lock)
        BY <2>0, Zenon DEF SpendKeys
      <3>2. PICK ss, lock : o = Shown(ss, lock)
        BY <3>1
      <3> DEFINE c == spend.unlock
      <3>3. c = [i \in DOMAIN ss |-> Push(ss[i])]
        BY <3>2 DEF Shown
      <3>4. c \in Seq(Range(c))
        BY <1>1, VMAssumption DEF VMTypes
      <3>5. \A i \in DOMAIN c : c[i][1] = "PUSH"
        BY <3>3 DEF Push
      <3>6. OnlyPushes(c)
        <4>1. DOMAIN c = 1 .. Len(c)
          BY <3>4
        <4> QED BY <3>5, <4>1 DEF OnlyPushes
      <3> QED BY <2>2, <3>6 DEF LockInv, Owners, PushedSoFar
    <2> QED BY <2>1, <2>2
  <1> QED BY <1>2, <1>3, <1>4 DEF LocksDecide

(* VMTypeOK, for any scripts: an evaluation is always at some place of one of
   its two scripts, and has a verdict other than an error only after it has left
   something on the stack (execScript and evaluate, script_vm.h:228-567). *)
THEOREM VMTypeCorrect == VMSpec => []VMTypeOK
  <1>1. LockInv => VMTypeOK
    BY VMIsTyped DEF LockInv
  <1> QED BY <1>1, LockInvHolds, PTL

(* LocksDecide, for any scripts, keys and readings: a spend that succeeds ran the
   whole locking script, has shown the key a pay-to-key-hash script asks for, and
   the owners of what the builders make get through (evaluate,
   script_vm.h:547-567, buildP2PKH, buildP2SH, buildP2WPKH, buildMultisig). *)
THEOREM LocksAreDecisive == VMSpec => []LocksDecide
  BY LockInvDecides, LockInvHolds, PTL

------------------------------------------------------------------------------
(* The Merkle trees, for blocks of any size.                               *)

WidthStep(w, h, p, q) == (w + 1) \div 2
FullStep(f, h, p, q)  == 2 * f
NodeStep(n, h, w, m) ==
  [j \in 0 .. m |-> Combine(n[2 * (IF j < w[h] THEN j ELSE w[h] - 1)],
                            n[2 * (IF j < w[h] THEN j ELSE w[h] - 1) + 1])]
UpStep(current, n, p, q) == Up(current, n)

IsNat(x, p, q) == x \in Nat
DoublesTo(h, f, m) == h <= m => f[h] \in Nat

Halves == INSTANCE Inductions WITH Op <- WidthStep, Holds <- IsNat
Twice  == INSTANCE Inductions WITH Op <- FullStep, Holds <- DoublesTo
Grows  == INSTANCE Inductions WITH Op <- NodeStep, Holds <- IsNat
Climbs == INSTANCE Inductions WITH Op <- UpStep, Holds <- IsNat

LEMMA Merkle_Grounded ==
  Halves!Grounded /\ Twice!Grounded /\ Grows!Grounded /\ Climbs!Grounded
  BY NatHasLeast DEF Halves!Grounded, Twice!Grounded, Grows!Grounded, Climbs!Grounded

LEMMA WidthIs ==
  /\ Width[0] = Len(txids)
  /\ \A h \in 1 .. MaxLeaves : Width[h] = (Width[h - 1] + 1) \div 2
  <1>1. Width = Halves!Run(Len(txids), MaxLeaves, 0, 0)
    BY DEF Width, Halves!Run, Halves!IsRun, WidthStep
  <1> DEFINE r == Halves!Run(Len(txids), MaxLeaves, 0, 0)
  <1>2. r[0] = Len(txids) /\ \A h \in 1 .. MaxLeaves : r[h] = WidthStep(r[h - 1], h, 0, 0)
    BY Merkle_Grounded, MerkleAssumption, Halves!Recursion
  <1> QED BY <1>1, <1>2 DEF WidthStep

LEMMA FullIs ==
  /\ Full[0] = 1
  /\ \A h \in 1 .. MaxLeaves : Full[h] = 2 * Full[h - 1]
  <1> DEFINE one == 1
             r == Twice!Run(one, MaxLeaves, 0, 0)
  <1>1. Full = r
    BY DEF Full, Twice!Run, Twice!IsRun, FullStep
  <1> HIDE DEF one
  <1>2. r[0] = one /\ \A h \in 1 .. MaxLeaves : r[h] = FullStep(r[h - 1], h, 0, 0)
    BY Merkle_Grounded, MerkleAssumption, Twice!Recursion
  <1> HIDE DEF r
  <1> QED BY <1>1, <1>2 DEF FullStep, one

LEMMA NodeIs ==
  /\ Node[0] = [j \in 0 .. MaxLeaves |-> Leaf(At(0, j) + 1)]
  /\ \A h \in 1 .. MaxLeaves : Node[h] =
       [j \in 0 .. MaxLeaves |->
          Combine(Node[h - 1][2 * At(h, j)], Node[h - 1][2 * At(h, j) + 1])]
  <1> DEFINE b == [j \in 0 .. MaxLeaves |-> Leaf(At(0, j) + 1)]
             w == Width
             r == Grows!Run(b, MaxLeaves, w, MaxLeaves)
  <1>1. Node = r
    BY DEF Node, Grows!Run, Grows!IsRun, NodeStep, At
  <1>2. \A h, j : At(h, j) = IF j < w[h] THEN j ELSE w[h] - 1
    BY DEF At
  <1> HIDE DEF b, w
  <1>3. r[0] = b /\ \A h \in 1 .. MaxLeaves : r[h] = NodeStep(r[h - 1], h, w, MaxLeaves)
    BY Merkle_Grounded, MerkleAssumption, Grows!Recursion
  <1> HIDE DEF r
  <1>4. \A h \in 1 .. MaxLeaves : Node[h] =
       [j \in 0 .. MaxLeaves |->
          Combine(Node[h - 1][2 * At(h, j)], Node[h - 1][2 * At(h, j) + 1])]
    BY <1>1, <1>2, <1>3 DEF NodeStep
  <1> QED BY <1>1, <1>3, <1>4 DEF b

LEMMA RootIsFold ==
  ASSUME NEW t, NEW nodes
  PROVE  RootFrom(t, nodes) = Climbs!Fold(t, nodes, 0, 0)
  BY DEF RootFrom, Climbs!Fold, FoldLeft, MapThenFoldSet, Climbs!MapThenFoldSet,
         Max, Climbs!Greatest, UpStep

LEMMA RootFromNothing ==
  ASSUME NEW t
  PROVE  RootFrom(t, << >>) = t
  BY RootIsFold, Climbs!FoldEmpty

(* A proof that is longer by one hash leads one layer up.                  *)
LEMMA RootFromMore ==
  ASSUME NEW t, NEW S, NEW nodes \in Seq(S), NEW n \in S
  PROVE  RootFrom(t, Append(nodes, n)) = Up(RootFrom(t, nodes), n)
  <1> DEFINE longer == Append(nodes, n)
  <1>1. RootFrom(t, nodes) = Climbs!Fold(t, nodes, 0, 0)
    BY RootIsFold
  <1>2. RootFrom(t, longer) = Climbs!Fold(t, longer, 0, 0)
    BY RootIsFold
  <1>3. Climbs!Fold(t, Append(nodes, n), 0, 0) = UpStep(Climbs!Fold(t, nodes, 0, 0), n, 0, 0)
    BY Merkle_Grounded, Climbs!FoldAppend
  <1> QED BY <1>1, <1>2, <1>3 DEF UpStep

(* Where the climb stands: a layer is that of the reference tree, the proof *)
(* so far leads to the hash it stands on, from one leaf only, and the layer *)
(* is as wide as the height leaves of the transactions.                    *)
LayerIsOfTree ==
  /\ ASeq(layer) /\ Len(layer) = Width[Len(path)] /\ idx \in 0 .. Len(layer) - 1
  /\ \A j \in 0 .. Len(layer) - 1 : layer[j + 1] = Node[Len(path)][j]

PathLeads ==
  /\ RootFrom(txids[leaf + 1], path) = layer[idx + 1]
  /\ \A t, u : RootFrom(t, path) = RootFrom(u, path) => t = u

HeightFits ==
  LET h == Len(path)
      w == Len(layer)
      n == Len(txids)
  IN /\ h + w <= n /\ Full[h] \in Nat
     /\ (w - 1) * Full[h] < n /\ n <= w * Full[h]
     /\ h > 0 => Full[h - 1] < n

MerkleInv ==
  /\ ASeq(txids) /\ Len(txids) \in 1 .. MaxLeaves /\ leaf \in 0 .. Len(txids) - 1
  /\ ASeq(path)
  /\ LayerIsOfTree /\ PathLeads /\ HeightFits

LEMMA MerkleStarts == MerkleInit(1 .. MaxLeaves) => MerkleInv
  <1> SUFFICES ASSUME MerkleInit(1 .. MaxLeaves) PROVE MerkleInv
    OBVIOUS
  <1>1. PICK n \in 1 .. MaxLeaves : txids = [i \in 1 .. n |-> Leaf(i)]
    BY DEF MerkleInit
  <1>2. leaf \in 0 .. Len(txids) - 1 /\ layer = txids /\ idx = leaf /\ path = << >>
    BY DEF MerkleInit
  <1>3. n \in Nat /\ txids = [i \in 1 .. n |-> txids[i]]
    BY <1>1
  <1>4. ASeq(txids) /\ Len(txids) = n /\ \A i \in 1 .. n : txids[i] = Leaf(i)
    BY <1>1, <1>3, ListIs
  <1>5. Len(path) = 0 /\ ASeq(path)
    BY <1>2, EmptyIs
  <1>6. LayerIsOfTree
    <2>1. Width[0] = n
      BY <1>4, WidthIs
    <2>2. ASSUME NEW j \in 0 .. n - 1 PROVE layer[j + 1] = Node[0][j]
      <3>1. j \in 0 .. MaxLeaves /\ j + 1 \in 1 .. n /\ j < n
        BY MerkleAssumption
      <3>2. At(0, j) = j
        BY <2>1, <3>1 DEF At
      <3>3. Node[0][j] = Leaf(At(0, j) + 1)
        BY <3>1, NodeIs
      <3> QED BY <1>2, <1>4, <3>1, <3>2, <3>3
    <2> QED BY <1>2, <1>4, <1>5, <2>1, <2>2 DEF LayerIsOfTree
  <1>7. PathLeads
    BY <1>2, RootFromNothing DEF PathLeads
  <1>8. HeightFits
    <2>1. Full[0] = 1
      BY FullIs
    <2>2. (n - 1) * 1 < n /\ n <= n * 1 /\ 0 + n <= n
      BY <1>3
    <2> QED BY <1>2, <1>3, <1>4, <1>5, <2>1, <2>2 DEF HeightFits
  <1> QED BY <1>1, <1>2, <1>4, <1>5, <1>6, <1>7, <1>8 DEF MerkleInv

(* A layer of even length: twice as long as the one above.                 *)
LEMMA EvenIs ==
  ASSUME MerkleInv, Len(layer) > 1
  PROVE  LET e == Even(layer)
             w == Width[Len(path) + 1]
         IN /\ w = (Len(layer) + 1) \div 2 /\ w \in Nat /\ ASeq(e) /\ Len(e) = 2 * w
            /\ \A j \in 0 .. 2 * w - 1 : e[j + 1] = Node[Len(path)][j]
            /\ e[idx + 1] = layer[idx + 1] /\ Len(path) + 1 \in 1 .. MaxLeaves
            /\ 2 * w <= MaxLeaves + 1
  <1> DEFINE e == Even(layer)
             l == Len(layer)
             h == Len(path)
             w == Width[h + 1]
  <1>1. /\ ASeq(layer) /\ l = Width[h] /\ idx \in 0 .. l - 1 /\ l \in Nat /\ h \in Nat
        /\ \A j \in 0 .. l - 1 : layer[j + 1] = Node[h][j]
    BY EmptyIs DEF MerkleInv, LayerIsOfTree
  <1>2. h + l <= MaxLeaves /\ l > 1 /\ MaxLeaves \in Nat
    <2>1. h + l <= Len(txids) /\ Len(txids) \in 1 .. MaxLeaves
      BY DEF MerkleInv, HeightFits
    <2> QED BY <1>1, <2>1, MerkleAssumption
  <1>3. h + 1 \in 1 .. MaxLeaves /\ h \in 0 .. MaxLeaves /\ h + 1 - 1 = h
    BY <1>1, <1>2, MerkleAssumption
  <1>4. w = (l + 1) \div 2
    BY <1>1, <1>3, WidthIs
  <1> HIDE DEF l, h, w
  <1>5. w \in Nat /\ (l % 2 = 1 => 2 * w = l + 1) /\ (l % 2 # 1 => 2 * w = l)
    <2>1. l \in Nat
      BY <1>1
    <2> QED BY <1>4, <2>1
  <1>a. /\ l - 1 \in 0 .. MaxLeaves /\ l \in 0 .. MaxLeaves /\ 2 * w <= MaxLeaves + 1
        /\ l - 1 \in 0 .. l - 1 /\ l - 1 + 1 = l
    <2>1. l \in Nat /\ h \in Nat
      BY <1>1
    <2> QED BY <1>2, <1>5, <2>1
  <1>6. CASE l % 2 = 1
    <2>1. e = Append(layer, layer[l])
      BY <1>6 DEF Even, Last, l
    <2>2. /\ ASeq(e) /\ Len(e) = l + 1 /\ e[l + 1] = layer[l]
          /\ \A i \in 1 .. l : e[i] = layer[i]
      BY <1>1, <2>1, AppendIs DEF l
    <2> HIDE DEF e
    <2>3. ASSUME NEW j \in 0 .. l PROVE e[j + 1] = Node[h][j]
      <3>1. CASE j = l
        <4>1. At(h, l) = At(h, l - 1)
          BY <1>1 DEF At
        <4>2. l \in 0 .. MaxLeaves /\ l - 1 \in 0 .. MaxLeaves
          BY <1>a
        <4>3. Node[h][l] = Node[h][l - 1]
          <5>1. CASE h = 0
            BY <4>1, <4>2, <5>1, NodeIs
          <5>2. CASE h # 0
            <6>1. h \in 1 .. MaxLeaves
              BY <1>3, <5>2
            <6> DEFINE F(x) == Combine(Node[h - 1][2 * x], Node[h - 1][2 * x + 1])
            <6>3. Node[h] = [a \in 0 .. MaxLeaves |-> F(At(h, a))]
              BY <6>1, NodeIs
            <6> HIDE DEF F
            <6> QED BY <4>1, <4>2, <6>3
          <5> QED BY <5>1, <5>2
        <4>4. l - 1 \in 0 .. l - 1 /\ l - 1 + 1 = l
          BY <1>a
        <4>5. layer[l] = Node[h][l - 1]
          BY <1>1, <4>4
        <4> QED BY <2>2, <3>1, <4>3, <4>5
      <3>2. CASE j # l
        <4>1. j \in 0 .. l - 1 /\ j + 1 \in 1 .. l
          BY <1>1, <3>2
        <4> QED BY <1>1, <2>2, <4>1
      <3> QED BY <3>1, <3>2
    <2>4. 2 * w - 1 = l /\ 2 * w = l + 1
      <3>1. l \in Nat
        BY <1>1
      <3> QED BY <1>5, <1>6, <3>1
    <2>5. idx + 1 \in 1 .. l
      BY <1>1
    <2>6. \A j \in 0 .. 2 * w - 1 : e[j + 1] = Node[h][j]
      BY <2>3, <2>4
    <2>7. Len(e) = 2 * w /\ e[idx + 1] = layer[idx + 1]
      BY <2>2, <2>4, <2>5
    <2> QED BY <1>3, <1>4, <1>5, <1>a, <2>2, <2>6, <2>7 DEF e, l, h, w
  <1>7. CASE l % 2 # 1
    <2>1. e = layer
      BY <1>7 DEF Even, l
    <2>2. 2 * w = l
      BY <1>5, <1>7
    <2> HIDE DEF e
    <2>3. \A j \in 0 .. 2 * w - 1 : e[j + 1] = Node[h][j]
      BY <1>1, <2>1, <2>2
    <2>4. Len(e) = 2 * w
      BY <2>1, <2>2 DEF l
    <2> QED BY <1>1, <1>3, <1>4, <1>5, <1>a, <2>1, <2>3, <2>4 DEF e, l, h, w
  <1> QED BY <1>6, <1>7

LEMMA ClimbsOneLayer ==
  ASSUME MerkleInv, Climb
  PROVE  LayerIsOfTree' /\ PathLeads'
  <1> DEFINE e == Even(layer)
             h == Len(path)
             w == Width[h + 1]
             up == [hash |-> e[Sibling(idx) + 1], isRight |-> IsLeft(idx)]
             k == idx \div 2
  <1>1. /\ w \in Nat /\ ASeq(e) /\ Len(e) = 2 * w /\ \A j \in 0 .. 2 * w - 1 : e[j + 1] = Node[h][j]
        /\ e[idx + 1] = layer[idx + 1] /\ h + 1 \in 1 .. MaxLeaves /\ w = (Len(layer) + 1) \div 2
        /\ 2 * w <= MaxLeaves + 1
    BY EvenIs DEF Climb
  <1>2. /\ path' = Append(path, up) /\ layer' = Above(e) /\ idx' = k
        /\ UNCHANGED <<txids, leaf>>
    BY DEF Climb
  <1>3. Width' = Width /\ Node' = Node
    BY <1>2 DEF Width, Node, At
  <1>4. Len(path') = h + 1 /\ h \in Nat
    BY <1>2, AppendIs DEF MerkleInv
  <1>5. idx \in 0 .. Len(layer) - 1 /\ Len(layer) \in Nat
    BY EmptyIs DEF MerkleInv, LayerIsOfTree
  <1> DEFINE up2(i) == Combine(e[2 * i - 1], e[2 * i])
  <1>6. /\ layer' = [i \in 1 .. w |-> up2(i)] /\ ASeq(layer') /\ Len(layer') = w
    <2>1. Above(e) = [i \in 1 .. Len(e) \div 2 |-> up2(i)]
      BY DEF Above
    <2>2. Len(e) \div 2 = w
      BY <1>1
    <2> DEFINE a == Above(e)
    <2>3. a = [i \in 1 .. w |-> up2(i)]
      BY <2>1, <2>2
    <2> HIDE DEF a
    <2>4. a = [i \in 1 .. w |-> a[i]]
      BY <2>3
    <2>5. ASeq(a) /\ Len(a) = w
      BY <1>1, <2>4, ListIs
    <2> QED BY <1>2, <2>3, <2>5 DEF a
  <1>7. k \in 0 .. w - 1 /\ (idx % 2 = 0 => idx = 2 * k) /\ (idx % 2 # 0 => idx = 2 * k + 1)
        /\ idx \in Nat /\ k \in Nat
    <2> DEFINE l == Len(layer)
    <2>1. l \in Nat /\ idx \in 0 .. l - 1 /\ w = (l + 1) \div 2
      BY <1>1, <1>5
    <2> HIDE DEF l, w
    <2> QED BY <2>1
  <1> HIDE DEF e, h, w, k, up
  <1>8. ASSUME NEW j \in 0 .. w - 1 PROVE layer'[j + 1] = Node[h + 1][j]
    <2>1. j + 1 \in 1 .. w /\ j < w /\ j \in 0 .. MaxLeaves /\ 2 * j \in 0 .. 2 * w - 1
          /\ 2 * j + 1 \in 0 .. 2 * w - 1 /\ 2 * (j + 1) - 1 = 2 * j + 1 /\ 2 * (j + 1) = 2 * j + 1 + 1
      BY <1>1, MerkleAssumption
    <2>2. layer'[j + 1] = Combine(e[2 * (j + 1) - 1], e[2 * (j + 1)])
      BY <1>6, <2>1
    <2>3. e[2 * j + 1] = Node[h][2 * j] /\ e[2 * j + 1 + 1] = Node[h][2 * j + 1]
      BY <1>1, <2>1
    <2>4. layer'[j + 1] = Combine(Node[h][2 * j], Node[h][2 * j + 1])
      BY <2>1, <2>2, <2>3
    <2>5. At(h + 1, j) = j /\ (h + 1) - 1 = h
      BY <1>4, <2>1 DEF At, w
    <2>6. Node[h + 1][j] = Combine(Node[(h + 1) - 1][2 * At(h + 1, j)],
                                   Node[(h + 1) - 1][2 * At(h + 1, j) + 1])
      <3> DEFINE g == h + 1
                 F(z) == Combine(Node[g - 1][2 * z], Node[g - 1][2 * z + 1])
      <3>1. g \in 1 .. MaxLeaves
        BY <1>1
      <3>2. Node[g][j] = F(At(g, j))
        <4> HIDE DEF g
        <4>1. Node[g] = [a \in 0 .. MaxLeaves |-> F(At(g, a))]
          BY <3>1, NodeIs
        <4> HIDE DEF F
        <4> QED BY <2>1, <4>1
      <3> QED BY <3>2, Zenon
    <2> QED BY <2>4, <2>5, <2>6
  <1>9. LayerIsOfTree'
    <2>1. Len(layer') = Width'[Len(path')]
      BY <1>3, <1>4, <1>6 DEF w
    <2>2. \A j \in 0 .. Len(layer') - 1 : layer'[j + 1] = Node'[Len(path')][j]
      BY <1>3, <1>4, <1>6, <1>8
    <2>3. idx' \in 0 .. Len(layer') - 1
      BY <1>2, <1>6, <1>7
    <2> QED BY <1>6, <2>1, <2>2, <2>3 DEF LayerIsOfTree
  <1>10. ASSUME NEW t PROVE RootFrom(t, path') = Up(RootFrom(t, path), up)
    <2>1. PICK S : path \in Seq(S)
      BY DEF MerkleInv, ASeq
    <2>2. path \in Seq(S \cup {up}) /\ up \in S \cup {up}
      BY <2>1
    <2>3. RootFrom(t, Append(path, up)) = Up(RootFrom(t, path), up)
      BY <2>2, RootFromMore
    <2> QED BY <1>2, <2>3
  <1>11. up.hash = e[Sibling(idx) + 1] /\ up.isRight = (idx % 2 = 0)
    BY DEF up, IsLeft
  <1> DEFINE x == up.hash
             cur == RootFrom(txids[leaf + 1], path)
  <1>12. \A c : Up(c, up) = IF idx % 2 = 0 THEN <<"both", c, x>> ELSE <<"both", x, c>>
    BY <1>11 DEF Up, Combine
  <1>13. ASSUME NEW t, NEW u, RootFrom(t, path') = RootFrom(u, path') PROVE t = u
    <2> DEFINE a == RootFrom(t, path)
               b == RootFrom(u, path)
    <2>1. Up(a, up) = Up(b, up)
      BY <1>10, <1>13
    <2>2. a = b => t = u
      BY DEF MerkleInv, PathLeads
    <2> HIDE DEF a, b, x
    <2>3. a = b
      BY <1>12, <2>1
    <2> QED BY <2>2, <2>3
  <1>14. RootFrom(txids[leaf + 1], path') = layer'[k + 1]
    <2>1. cur = e[idx + 1]
      BY <1>1 DEF MerkleInv, PathLeads
    <2>2. RootFrom(txids[leaf + 1], path') = Up(cur, up)
      BY <1>10
    <2> HIDE DEF cur
    <2>3. k + 1 \in 1 .. w /\ 2 * (k + 1) - 1 = 2 * k + 1 /\ 2 * (k + 1) = 2 * k + 2
      BY <1>1, <1>7
    <2>4. layer'[k + 1] = Combine(e[2 * k + 1], e[2 * k + 2])
      BY <1>6, <2>3
    <2>5. CASE idx % 2 = 0
      <3>1. idx + 1 = 2 * k + 1 /\ Sibling(idx) + 1 = 2 * k + 2
        BY <1>7, <2>5 DEF Sibling
      <3>2. Up(cur, up) = Combine(cur, e[2 * k + 2])
        BY <1>11, <1>12, <2>5, <3>1 DEF Combine
      <3> QED BY <2>1, <2>2, <2>4, <3>1, <3>2
    <2>6. CASE idx % 2 # 0
      <3>1. idx + 1 = 2 * k + 2 /\ Sibling(idx) + 1 = 2 * k + 1
        BY <1>7, <2>6 DEF Sibling
      <3>2. Up(cur, up) = Combine(e[2 * k + 1], cur)
        BY <1>11, <1>12, <2>6, <3>1 DEF Combine
      <3> QED BY <2>1, <2>2, <2>4, <3>1, <3>2
    <2> QED BY <2>5, <2>6
  <1>15. PathLeads'
    BY <1>2, <1>13, <1>14 DEF PathLeads
  <1> QED BY <1>9, <1>15

LEMMA Doubling ==
  ASSUME NEW l \in Nat, l > 1, NEW f \in Nat, NEW n \in Nat, (l - 1) * f < n, n <= l * f
  PROVE  LET w == (l + 1) \div 2
         IN /\ (w - 1) * (2 * f) < n /\ n <= w * (2 * f) /\ f < n /\ w < l
  <1> DEFINE w == (l + 1) \div 2
  <1>1. w \in Nat /\ 2 * w <= l + 1 /\ l <= 2 * w /\ w < l
    OBVIOUS
  <1> HIDE DEF w
  <1>2. (w - 1) * (2 * f) = (2 * w - 2) * f /\ w * (2 * f) = (2 * w) * f
    BY <1>1
  <1>3. \A a, b \in Int : a <= b => a * f <= b * f
    OBVIOUS
  <1>4. (2 * w - 2) * f <= (l - 1) * f /\ l * f <= (2 * w) * f /\ 1 * f <= (l - 1) * f
    <2>1. 2 * w - 2 \in Int /\ l - 1 \in Int /\ 2 * w \in Int /\ 1 \in Int /\ 2 * w - 2 <= l - 1 /\ 1 <= l - 1
      BY <1>1
    <2> QED BY <1>1, <1>3, <2>1
  <1>5. (l - 1) * f \in Int /\ l * f \in Int /\ (2 * w - 2) * f \in Int /\ (2 * w) * f \in Int /\ 1 * f = f
    BY <1>1
  <1>6. (w - 1) * (2 * f) < n /\ n <= w * (2 * f) /\ f < n
    BY <1>2, <1>4, <1>5
  <1> QED BY <1>1, <1>6 DEF w

LEMMA MerkleStep == MerkleInv /\ [MerkleNext]_merkleVars => MerkleInv'
  <1> SUFFICES ASSUME MerkleInv, [MerkleNext]_merkleVars PROVE MerkleInv'
    OBVIOUS
  <1>1. CASE Climb
    <2> DEFINE l == Len(layer)
               h == Len(path)
               w == Width[h + 1]
               n == Len(txids)
    <2>1. w = (l + 1) \div 2 /\ h + 1 \in 1 .. MaxLeaves /\ w \in Nat
      BY <1>1, EvenIs DEF Climb
    <2>2. /\ l \in Nat /\ l > 1 /\ h \in Nat /\ n \in Nat
      BY <1>1, EmptyIs DEF Climb, MerkleInv, LayerIsOfTree
    <2>3. UNCHANGED <<txids, leaf>> /\ Width' = Width /\ Full' = Full
      BY <1>1 DEF Climb, Width, Full
    <2>4. Len(path') = h + 1 /\ ASeq(path')
      BY <1>1, AppendIs DEF Climb, MerkleInv
    <2>5. LayerIsOfTree' /\ PathLeads'
      BY <1>1, ClimbsOneLayer
    <2>6. Len(layer') = w
      BY <2>3, <2>4, <2>5 DEF LayerIsOfTree
    <2>7. Full[h + 1] = 2 * Full[h]
      <3>1. h + 1 - 1 = h
        BY <2>2
      <3> QED BY <2>1, <3>1, FullIs
    <2> DEFINE f == Full[h]
    <2>8. f \in Nat /\ (l - 1) * f < n /\ n <= l * f /\ h + l <= n
      BY DEF MerkleInv, HeightFits
    <2> HIDE DEF l, h, w, n, f
    <2>9. /\ (w - 1) * (2 * f) < n /\ n <= w * (2 * f) /\ f < n /\ w < l
      BY <2>1, <2>2, <2>8, Doubling
    <2>10. h + 1 + w <= n /\ 2 * f \in Nat /\ h + 1 - 1 = h
      BY <2>1, <2>2, <2>8, <2>9
    <2>11. Full'[Len(path')] = 2 * f /\ Full'[Len(path') - 1] = f /\ Len(txids') = n
      <3>1. Full'[Len(path')] = Full[h + 1] /\ Full'[Len(path') - 1] = Full[h + 1 - 1]
        BY <2>2, <2>3, <2>4
      <3> QED BY <2>3, <2>7, <2>10, <3>1 DEF f, n
    <2>12. HeightFits'
      BY <2>4, <2>6, <2>9, <2>10, <2>11 DEF HeightFits
    <2> QED BY <2>3, <2>4, <2>5, <2>12 DEF MerkleInv
  <1>2. CASE UNCHANGED merkleVars
    <2>1. UNCHANGED <<txids, leaf, layer, idx, path>>
      BY <1>2 DEF merkleVars
    <2>2. Width' = Width /\ Node' = Node /\ Full' = Full
      BY <2>1 DEF Width, Node, At, Full
    <2> QED BY <2>1, <2>2 DEF MerkleInv, LayerIsOfTree, PathLeads, HeightFits
  <1> QED BY <1>1, <1>2 DEF MerkleNext

LEMMA MerkleIsSound == MerkleInv => ProofsAreSound
  <1> SUFFICES ASSUME MerkleInv PROVE ProofsAreSound
    OBVIOUS
  <1>1. ProofLeadsToRoot
    BY DEF MerkleInv, PathLeads, LayerIsOfTree, ProofLeadsToRoot
  <1>2. ProofIsForOne
    <2> SUFFICES ASSUME Len(layer) = 1
                 PROVE  /\ \A t \in ToSet(txids) \ {txids[leaf + 1]} : RootFrom(t, path) # layer[1]
                        /\ Len(path) > 0 => Full[Len(path) - 1] < Len(txids) /\ Len(txids) <= Full[Len(path)]
      BY DEF ProofIsForOne
    <2>1. idx = 0
      BY DEF MerkleInv, LayerIsOfTree
    <2>2. RootFrom(txids[leaf + 1], path) = layer[1]
      BY <2>1 DEF MerkleInv, PathLeads
    <2>3. \A t : t # txids[leaf + 1] => RootFrom(t, path) # layer[1]
      BY <2>2 DEF MerkleInv, PathLeads
    <2>4. Len(path) > 0 => Full[Len(path) - 1] < Len(txids)
      BY DEF MerkleInv, HeightFits
    <2>5. Len(txids) <= Full[Len(path)]
      BY DEF MerkleInv, HeightFits
    <2> QED BY <2>3, <2>4, <2>5
  <1> QED BY <1>1, <1>2 DEF ProofsAreSound

(* ProofsAreSound, for blocks of any size: a proof leads from its own
   transaction, and from no other, to the root of the tree, in as many hashes as
   the tree is high (generateProof, calcMerkleRoot and spvVerify,
   merkle_proof.h). *)
THEOREM MerkleProofsAreSound == MerkleSpec => []ProofsAreSound
  BY MerkleStarts, MerkleStep, MerkleIsSound, PTL DEF MerkleSpec

------------------------------------------------------------------------------
(* The components of Rules together.                                       *)

(* A joint behaviour is one of each component, so that what is proved of a
   component above holds of it in their company too (Rules; the components
   share no variable). *)
LEMMA RulesStart ==
  RulesInit => /\ Init /\ SharedInit /\ TornInit /\ StoreInit
               /\ VMInit(Spends) /\ MerkleInit(1 .. MaxLeaves)
  <1> SUFFICES ASSUME RulesInit PROVE VMInit(Spends) /\ MerkleInit(1 .. MaxLeaves)
    BY DEF RulesInit
  <1>1. (CHOOSE s \in Spends : TRUE) \in Spends
    BY VMAssumption
  <1>2. spend \in (IF focus = "script" THEN Spends ELSE {CHOOSE s \in Spends : TRUE})
    BY DEF RulesInit, VMInit
  <1>3. spend \in Spends
    BY <1>1, <1>2
  <1>4. {1} \subseteq 1 .. MaxLeaves
    BY MerkleAssumption
  <1> QED BY <1>3, <1>4 DEF RulesInit, VMInit, MerkleInit

LEMMA RulesSteps ==
  [RulesNext]_allVars =>
    /\ [Next]_vars /\ [SharedNext]_sharedVars /\ [TornNext]_tornVars
    /\ [StoreNext]_storeVars /\ [VMNext]_vmVars /\ [MerkleNext]_merkleVars
  BY DEF RulesNext, allVars

THEOREM RulesProject ==
  RulesSpec => Spec /\ SharedSpec /\ TornSpec /\ StoreSpec /\ VMSpec /\ MerkleSpec
  BY RulesStart, RulesSteps, PTL
     DEF RulesSpec, Spec, SharedSpec, TornSpec, StoreSpec, VMSpec, MerkleSpec

(* What no component of Rules ever does alone, none does in the company of the
   others (BlockTiming!SearchKeepsFloor and MedianAdvances, ScriptVM!LocksDecide,
   MerkleProofs!ProofsAreSound, SharedFiles!FilesSurvive and CheckpointsKept,
   TornRecords!RecordsSurvive, WorkerStores!StoresAreSafe). *)
THEOREM RulesStaySafe ==
  RulesSpec =>
    /\ [](/\ LocksDecide /\ ProofsAreSound
          /\ FilesSurvive /\ RecordsSurvive /\ StoresAreSafe)
    /\ SearchKeepsFloor /\ MedianAdvances /\ CheckpointsKept
  BY RulesProject, SearchesKeepFloor, LocksAreDecisive, MerkleProofsAreSound,
     FilesStartTheNext, WholeRecordsComeBack, StoresStaySafe, MedianStays, CheckpointsStay, PTL

(* RulesTypeOK: the components keep their types side by side, whichever of them
   a behaviour exercises (difficulty.h, script_vm.h, blockchain.cpp, storage.cpp). *)
THEOREM RulesTypeCorrect == RulesSpec => []RulesTypeOK
  <1>1. TypeOK /\ VMTypeOK /\ SharedTypeOK => RulesTypeOK
    BY DEF RulesTypeOK
  <1> QED BY <1>1, RulesProject, TimingTypeCorrect, VMTypeCorrect, SharedTypeCorrect, PTL
=============================================================================

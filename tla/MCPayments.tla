------------------------------ MODULE MCPayments ------------------------------
(***************************************************************************)
(* Small payments: alice mines here or funds bob, one or two requests.     *)
(***************************************************************************)
EXTENDS Payments

Rewards == 0 :> 400 @@ 1 :> 200 @@ 2 :> 100
ThinRewards == 0 :> 400 @@ 1 :> 10 @@ 2 :> 10
TenPercent == [h \in 0 .. MaxHeight + 1 |-> 10]
RisingPercent == [h \in 0 .. MaxHeight + 1 |-> IF h <= 2 THEN 10 ELSE 20]

Ask(from, to, amount, time) == [from |-> from, to |-> to, amount |-> amount, time |-> time]

(* The genesis pays 400 to bob: one payment of 200 leaves 180 of them.     *)
TwoOfBob == {Ask("bob", "alice", 200, 1), Ask("bob", "alice", 200, 2)}
OneOfBob == {Ask("bob", "alice", 200, 1)}
BobAndCarol == OneOfBob \cup {Ask("carol", "bob", 10, 2)}
ThreeOfBob == TwoOfBob \cup {Ask("bob", "carol", 100, 1)}

(* Peers confirm bob's payment in their first block.                    *)
BobsPayment == TransferOf(Ask("bob", "alice", 200, 1), 220)
PeerOffers == {<< <<BobsPayment>>, << >> >>}

(* A relayed payment of carol, who has nothing.                            *)
OneRelayed == {TransferOf(Ask("carol", "bob", 10, 1), 11)}
==============================================================================

-------------------------- MODULE RemoteMiners_proofs --------------------------
(***************************************************************************)
(* What miners outside the node add to the chain is linked, and what they  *)
(* count is in it, for any number of miners, blocks and lost answers.      *)
(***************************************************************************)
EXTENDS NodeAndMiners, FiniteSetTheorems, TLAPS

Texts   == {"none", "accepted", "already_have", "refused"}
BlockId == [by : Remotes \cup {Home}, at : Nat, nr : Nat]
Mined   == [id : BlockId, prev : BlockId]
Mail    == [id : BlockId, prev : BlockId, reply : Texts, passed : BOOLEAN, open : BOOLEAN]

RemoteTypes ==
  /\ blocks \in Seq(Mined) /\ Len(blocks) >= 1
  /\ doingNow \in [Remotes -> {"fetching", "served", "searching", "posting"}]
  /\ template \in [Remotes -> [index : 0 .. LastHeight, prev : BlockId]]
  /\ posted \in SUBSET Mail /\ counted \in SUBSET BlockId
  /\ lost \in 0 .. MaxLost /\ orderly \in BOOLEAN

(* One request of a miner is open, while it waits for the answer.          *)
OneOpen(r) ==
  /\ doingNow[r] = "posting" => \E m \in posted : Open(r) = {m}
  /\ doingNow[r] # "posting" => Open(r) = {}

(* A height and a hash fit each other as long as nothing was mined above:  *)
(* the height is read first, and the chain does not shrink.                *)
Fits(index, prev) == index <= Len(blocks) /\ (index = Len(blocks) => prev = Top)

Heights == \A i \in 1 .. Len(blocks) : blocks[i].id.at = i - 1

FitInv ==
  /\ Heights /\ PostedIsLinked
  /\ \A r \in Remotes :
       /\ doingNow[r] = "served" => template[r].index <= Len(blocks)
       /\ doingNow[r] = "searching" => Fits(template[r].index, template[r].prev)
  /\ \A m \in posted : Fits(m.id.at, m.prev) /\ (m.passed => m.reply = "none")

CountInv ==
  orderly => counted \subseteq InChain /\ \A m \in posted : m.reply = "accepted" => m.id \in InChain

RemoteInv == RemoteTypes /\ (\A r \in Remotes : OneOpen(r)) /\ FitInv /\ CountInv

------------------------------------------------------------------------------
(* The requests that replace others.                                       *)
Replied(m, text) == [m EXCEPT !.reply = text, !.passed = FALSE]
Passed(m)        == [m EXCEPT !.passed = TRUE]
Closed(m)        == [m EXCEPT !.open = FALSE]

LEMMA MailFields ==
  ASSUME NEW m \in Mail
  PROVE  /\ m.id \in BlockId /\ m.id.at \in Nat /\ m.prev \in BlockId /\ m.open \in BOOLEAN
         /\ \A text \in Texts :
              /\ Replied(m, text) \in Mail /\ Replied(m, text).id = m.id
              /\ Replied(m, text).prev = m.prev /\ Replied(m, text).open = m.open
              /\ Replied(m, text).reply = text /\ Replied(m, text).passed = FALSE
         /\ Passed(m) \in Mail /\ Passed(m).id = m.id /\ Passed(m).prev = m.prev
         /\ Passed(m).open = m.open /\ Passed(m).reply = m.reply
         /\ Closed(m) \in Mail /\ Closed(m).id = m.id /\ Closed(m).prev = m.prev
         /\ Closed(m).open = FALSE /\ Closed(m).reply = m.reply /\ Closed(m).passed = m.passed
  BY DEF Mail, BlockId, Texts, Replied, Passed, Closed

(* What a longer chain does to everything that was true of the shorter.    *)
LEMMA ChainGrows ==
  ASSUME RemoteTypes, Heights, PostedIsLinked, NEW b \in Mined,
         b.id.at = Len(blocks), b.prev = Top, blocks' = Append(blocks, b)
  PROVE  /\ blocks' \in Seq(Mined) /\ Len(blocks') = Len(blocks) + 1
         /\ Heights' /\ PostedIsLinked'
         /\ InChain' = InChain \cup {b.id}
         /\ \A n \in Nat : \A p : Fits(n, p) => Fits(n, p)'
  <1>1. blocks' \in Seq(Mined) /\ Len(blocks') = Len(blocks) + 1
    BY DEF RemoteTypes
  <1>2. /\ \A i \in 1 .. Len(blocks) : blocks'[i] = blocks[i]
        /\ blocks'[Len(blocks) + 1] = b
    BY DEF RemoteTypes
  <1>3. Len(blocks) \in Nat /\ Len(blocks) >= 1
    BY DEF RemoteTypes
  <1>4. Heights'
    BY <1>1, <1>2, <1>3 DEF Heights
  <1>5. PostedIsLinked'
    BY <1>1, <1>2, <1>3 DEF PostedIsLinked, Top
  <1>6. InChain' = InChain \cup {b.id}
    BY <1>1, <1>2, <1>3 DEF InChain
  <1>7. \A n \in Nat : \A p : Fits(n, p) => Fits(n, p)'
    BY <1>1, <1>3 DEF Fits
  <1> QED BY <1>1, <1>4, <1>5, <1>6, <1>7

LEMMA RemoteStarts == RemoteInit => RemoteInv
  <1> SUFFICES ASSUME RemoteInit PROVE RemoteInv
    OBVIOUS
  <1>1. GenesisId \in BlockId /\ GenesisId.at = 0
    BY DEF GenesisId, BlockId
  <1>2. blocks \in Seq(Mined) /\ Len(blocks) = 1 /\ blocks[1].id = GenesisId
    BY <1>1 DEF RemoteInit, Mined
  <1>3. RemoteTypes
    BY <1>1, <1>2, RemoteAssumption DEF RemoteInit, RemoteTypes
  <1>4. \A r \in Remotes : OneOpen(r)
    BY DEF RemoteInit, OneOpen, Open
  <1>5. FitInv
    BY <1>1, <1>2 DEF RemoteInit, FitInv, Heights, PostedIsLinked
  <1> QED BY <1>3, <1>4, <1>5 DEF RemoteInv, CountInv, RemoteInit

(* A request of r that is answered, passed on or dropped stays the one of  *)
(* its miner, or no miner's.                                               *)
LEMMA OneStaysOpen ==
  ASSUME RemoteTypes, \A r \in Remotes : OneOpen(r), doingNow' = doingNow,
         NEW m \in posted, NEW n \in Mail, n.id = m.id, n.open = m.open,
         NEW N \in SUBSET {n}, m.open => n \in N, posted' = (posted \ {m}) \cup N
  PROVE  \A r \in Remotes : OneOpen(r)'
  <1> SUFFICES ASSUME NEW r \in Remotes PROVE OneOpen(r)'
    OBVIOUS
  <1>1. CASE m \in Open(r)
    <2>1. doingNow[r] = "posting"
      BY <1>1 DEF OneOpen
    <2>2. Open(r) = {m}
      BY <1>1, <2>1 DEF OneOpen
    <2>3. n \in posted' /\ n.id.by = r /\ n.open
      BY <1>1 DEF Open
    <2>4. Open(r)' = {n}
      BY <2>2, <2>3 DEF Open
    <2> QED BY <2>1, <2>3, <2>4 DEF OneOpen
  <1>2. CASE m \notin Open(r)
    <2>1. \A k \in N : ~(k.id.by = r /\ k.open)
      BY <1>2 DEF Open
    <2>2. Open(r)' = Open(r)
      BY <1>2, <2>1 DEF Open
    <2> QED BY <2>2 DEF OneOpen, Open
  <1> QED BY <1>1, <1>2

(* The miner that takes its answer, or gives up, has no request left.      *)
LEMMA NoneStaysOpen ==
  ASSUME RemoteTypes, \A r \in Remotes : OneOpen(r), NEW r \in Remotes, NEW m \in Open(r),
         NEW N \in SUBSET Mail, \A k \in N : ~k.open, posted' = (posted \ {m}) \cup N,
         doingNow' = [doingNow EXCEPT ![r] = "fetching"]
  PROVE  \A q \in Remotes : OneOpen(q)'
  <1> SUFFICES ASSUME NEW q \in Remotes PROVE OneOpen(q)'
    OBVIOUS
  <1>1. CASE q = r
    <2>1. Open(r) = {m}
      BY DEF OneOpen
    <2>2. Open(r)' = {} /\ doingNow'[r] = "fetching"
      BY <2>1 DEF Open, RemoteTypes
    <2> QED BY <1>1, <2>2 DEF OneOpen
  <1>2. CASE q # r
    <2>1. Open(q)' = Open(q) /\ doingNow'[q] = doingNow[q]
      BY <1>2 DEF Open, RemoteTypes
    <2> QED BY <2>1 DEF OneOpen, Open
  <1> QED BY <1>1, <1>2

(* Steps that touch neither requests nor chain.                            *)
LEMMA OpenKept ==
  ASSUME RemoteTypes, \A r \in Remotes : OneOpen(r), posted' = posted,
         \A r \in Remotes : doingNow'[r] = doingNow[r] \/ {doingNow[r], doingNow'[r]} \subseteq {"fetching", "served", "searching"}
  PROVE  \A r \in Remotes : OneOpen(r)'
  BY DEF OneOpen, Open

LEMMA BlocksKept ==
  ASSUME blocks' = blocks
  PROVE  /\ Top' = Top /\ InChain' = InChain /\ (Heights => Heights')
         /\ (PostedIsLinked => PostedIsLinked') /\ \A n, p : Fits(n, p) => Fits(n, p)'
  BY DEF Top, InChain, Heights, PostedIsLinked, Fits

LEMMA RemoteStepKeeps == RemoteInv /\ [RemoteNext]_remoteVars => RemoteInv'
  <1> SUFFICES ASSUME RemoteInv, [RemoteNext]_remoteVars PROVE RemoteInv'
    OBVIOUS
  <1> USE DEF RemoteInv
  <1>g. GenesisId \in BlockId
    BY DEF GenesisId, BlockId
  <1>t. Len(blocks) \in Nat /\ Len(blocks) >= 1 /\ Top \in BlockId
    <2>1. Len(blocks) \in Nat /\ blocks[Len(blocks)] \in Mined
      BY DEF RemoteTypes
    <2> QED BY <2>1 DEF RemoteTypes, Top, Mined
  <1>1. ASSUME NEW r \in Remotes, FetchIndex(r) PROVE RemoteInv'
    <2>1. RemoteTypes'
      BY <1>1, <1>g, <1>t DEF FetchIndex, RemoteTypes
    <2>2. \A q \in Remotes : OneOpen(q)'
      BY <1>1, OpenKept DEF FetchIndex, RemoteTypes
    <2>3. FitInv'
      BY <1>1, <1>t, BlocksKept DEF FetchIndex, FitInv, RemoteTypes
    <2>4. CountInv'
      BY <1>1, BlocksKept DEF FetchIndex, CountInv
    <2> QED BY <2>1, <2>2, <2>3, <2>4
  <1>2. ASSUME NEW r \in Remotes, FetchPrev(r) PROVE RemoteInv'
    <2>1. /\ template'[r].index = template[r].index /\ template'[r].prev = Top
          /\ template' \in [Remotes -> [index : 0 .. LastHeight, prev : BlockId]]
          /\ \A q \in Remotes : q # r => template'[q] = template[q]
      BY <1>2, <1>t DEF FetchPrev, RemoteTypes
    <2>2. RemoteTypes'
      BY <1>2, <2>1 DEF FetchPrev, RemoteTypes
    <2>3. \A q \in Remotes : OneOpen(q)'
      BY <1>2, OpenKept DEF FetchPrev, RemoteTypes
    <2>4. Fits(template'[r].index, template'[r].prev)
      BY <1>2, <2>1 DEF FetchPrev, FitInv, Fits
    <2>5. FitInv'
      BY <1>2, <2>1, <2>4, BlocksKept DEF FetchPrev, FitInv, RemoteTypes
    <2>6. CountInv'
      BY <1>2, BlocksKept DEF FetchPrev, CountInv
    <2> QED BY <2>2, <2>3, <2>5, <2>6
  <1>3. ASSUME NEW r \in Remotes, Find(r) PROVE RemoteInv'
    <2>1. PICK nr \in Unused(r, template[r].index) :
            posted' = posted \cup
              {[id |-> [by |-> r, at |-> template[r].index, nr |-> nr],
                prev |-> template[r].prev, reply |-> "none", passed |-> FALSE, open |-> TRUE]}
      BY <1>3 DEF Find
    <2> DEFINE new == [id |-> [by |-> r, at |-> template[r].index, nr |-> nr],
                       prev |-> template[r].prev, reply |-> "none", passed |-> FALSE, open |-> TRUE]
    <2>2. nr \in Nat /\ template[r].index \in Nat /\ template[r].prev \in BlockId
      BY RemoteAssumption DEF Unused, RemoteTypes
    <2>3. /\ new \in Mail /\ new.id.by = r /\ new.open /\ new.id.at = template[r].index
          /\ new.prev = template[r].prev /\ new.reply = "none" /\ ~new.passed
      BY <2>2 DEF Mail, BlockId, Texts
    <2>4. posted' = posted \cup {new}
      BY <2>1
    <2> HIDE DEF new
    <2>5. doingNow[r] = "searching" /\ doingNow' = [doingNow EXCEPT ![r] = "posting"]
          /\ UNCHANGED <<blocks, template, counted, lost, orderly>>
      BY <1>3 DEF Find
    <2>6. RemoteTypes'
      BY <2>3, <2>4, <2>5 DEF RemoteTypes
    <2>7. \A q \in Remotes : OneOpen(q)'
      <3> SUFFICES ASSUME NEW q \in Remotes PROVE OneOpen(q)'
        OBVIOUS
      <3>1. CASE q = r
        <4>1. Open(r) = {}
          BY <2>5 DEF OneOpen
        <4>2. Open(r)' = {new} /\ doingNow'[r] = "posting"
          BY <2>3, <2>4, <2>5, <4>1 DEF Open, RemoteTypes
        <4> QED BY <3>1, <4>2, <2>4 DEF OneOpen
      <3>2. CASE q # r
        <4>1. Open(q)' = Open(q) /\ doingNow'[q] = doingNow[q]
          BY <2>3, <2>4, <2>5, <3>2 DEF Open, RemoteTypes
        <4> QED BY <4>1 DEF OneOpen, Open
      <3> QED BY <3>1, <3>2
    <2>8. FitInv'
      BY <2>3, <2>4, <2>5, BlocksKept DEF FitInv, RemoteTypes
    <2>9. CountInv'
      BY <2>3, <2>4, <2>5, BlocksKept DEF CountInv
    <2> QED BY <2>6, <2>7, <2>8, <2>9
  <1>4. ASSUME NEW r \in Remotes, Refresh(r) PROVE RemoteInv'
    <2>1. RemoteTypes'
      BY <1>4 DEF Refresh, RemoteTypes
    <2>2. \A q \in Remotes : OneOpen(q)'
      BY <1>4, OpenKept DEF Refresh, RemoteTypes
    <2>3. FitInv'
      BY <1>4, BlocksKept DEF Refresh, FitInv, RemoteTypes
    <2>4. CountInv'
      BY <1>4, BlocksKept DEF Refresh, CountInv
    <2> QED BY <2>1, <2>2, <2>3, <2>4
  <1>5. ASSUME NEW r \in Remotes, ReadReply(r) PROVE RemoteInv'
    <2>1. PICK m \in Open(r) :
            /\ counted' = IF m.reply = "accepted" /\ orderly THEN counted \cup {m.id} ELSE counted
            /\ posted' = posted \ {m}
            /\ doingNow' = [doingNow EXCEPT ![r] = "fetching"]
            /\ UNCHANGED <<blocks, template, lost, orderly>>
      BY <1>5 DEF ReadReply
    <2>2. m \in posted /\ m \in Mail /\ m.id \in BlockId
      BY MailFields DEF Open, RemoteTypes
    <2>3. RemoteTypes'
      BY <2>1, <2>2 DEF RemoteTypes
    <2>4. \A q \in Remotes : OneOpen(q)'
      <3> DEFINE N == {k \in Mail : FALSE}
      <3>1. N \in SUBSET Mail /\ (\A k \in N : ~k.open) /\ posted' = (posted \ {m}) \cup N
        BY <2>1
      <3> HIDE DEF N
      <3> QED BY <2>1, <3>1, NoneStaysOpen
    <2>5. FitInv'
      BY <2>1, BlocksKept DEF FitInv, RemoteTypes
    <2>6. CountInv'
      BY <2>1, <2>2, BlocksKept DEF CountInv
    <2> QED BY <2>3, <2>4, <2>5, <2>6
  <1>6. ASSUME NEW r \in Remotes, GiveUpPost(r) PROVE RemoteInv'
    <2>1. PICK m \in Open(r) :
            posted' = (posted \ {m}) \cup IF m.reply = "none" THEN {Closed(m)} ELSE {}
      BY <1>6 DEF GiveUpPost, Closed
    <2>2. m \in posted /\ m \in Mail
      BY DEF Open, RemoteTypes
    <2>3. PICK N \in SUBSET {Closed(m)} : posted' = (posted \ {m}) \cup N
      BY <2>1
    <2>c. /\ Closed(m) \in Mail /\ Closed(m).id = m.id /\ Closed(m).prev = m.prev
          /\ Closed(m).open = FALSE /\ Closed(m).reply = m.reply /\ Closed(m).passed = m.passed
      BY <2>2, MailFields
    <2>u. /\ doingNow' = [doingNow EXCEPT ![r] = "fetching"] /\ lost < MaxLost /\ lost' = lost + 1
          /\ UNCHANGED <<blocks, template, counted, orderly>>
      BY <1>6 DEF GiveUpPost
    <2>4. RemoteTypes'
      BY <2>c, <2>u, <2>3, RemoteAssumption DEF RemoteTypes
    <2>5. \A q \in Remotes : OneOpen(q)'
      <3>1. N \in SUBSET Mail /\ \A k \in N : ~k.open
        BY <2>c
      <3> QED BY <2>3, <2>u, <3>1, NoneStaysOpen
    <2>6. FitInv'
      <3>1. /\ Heights' /\ PostedIsLinked'
            /\ \A q \in Remotes :
                 /\ doingNow'[q] = "served" => template'[q].index <= Len(blocks')
                 /\ doingNow'[q] = "searching" => Fits(template[q].index, template[q].prev)'
        BY <2>u, BlocksKept DEF FitInv, RemoteTypes
      <3>2. \A k \in posted' : Fits(k.id.at, k.prev) /\ (k.passed => k.reply = "none")
        BY <2>c, <2>2, <2>3 DEF FitInv
      <3>3. \A k \in posted' : Fits(k.id.at, k.prev)'
        BY <2>u, <3>2, BlocksKept
      <3> QED BY <2>u, <3>1, <3>2, <3>3 DEF FitInv
    <2>7. CountInv'
      BY <2>c, <2>u, <2>2, <2>3, BlocksKept DEF CountInv
    <2> QED BY <2>4, <2>5, <2>6, <2>7
  <1>7. ASSUME Vanish PROVE RemoteInv'
    <2>1. PICK m \in posted : ~m.open /\ posted' = posted \ {m}
      BY <1>7 DEF Vanish
    <2>2. m \in Mail
      BY DEF RemoteTypes
    <2>3. RemoteTypes'
      BY <1>7, <2>1 DEF Vanish, RemoteTypes
    <2>4. \A q \in Remotes : OneOpen(q)'
      <3> DEFINE N == {k \in Mail : FALSE}
      <3>1. N \in SUBSET {m} /\ posted' = (posted \ {m}) \cup N
        BY <2>1
      <3>2. doingNow' = doingNow
        BY <1>7 DEF Vanish
      <3> HIDE DEF N
      <3> QED BY <2>1, <2>2, <3>1, <3>2, OneStaysOpen
    <2>5. FitInv'
      BY <1>7, <2>1, BlocksKept DEF Vanish, FitInv
    <2>6. CountInv'
      BY <1>7, <2>1, BlocksKept DEF Vanish, CountInv
    <2> QED BY <2>3, <2>4, <2>5, <2>6
  <1>8. ASSUME NEW m \in posted, CheckPosted(m) PROVE RemoteInv'
    <2>1. m \in Mail
      BY DEF RemoteTypes
    <2>2. \E n \in {Replied(m, "already_have"), Replied(m, "refused"), Passed(m)} :
            posted' = (posted \ {m}) \cup {n} \/ (~m.open /\ posted' = posted \ {m})
      BY <1>8, <2>1, MailFields DEF CheckPosted, Reply, Replied, Passed
    <2>3. PICK n \in {Replied(m, "already_have"), Replied(m, "refused"), Passed(m)} :
            posted' = (posted \ {m}) \cup {n} \/ (~m.open /\ posted' = posted \ {m})
      BY <2>2
    <2>4. PICK N \in SUBSET {n} : (m.open => n \in N) /\ posted' = (posted \ {m}) \cup N
      <3>1. CASE posted' = (posted \ {m}) \cup {n}
        BY <3>1
      <3>2. CASE ~m.open /\ posted' = (posted \ {m}) \cup {}
        BY <3>2
      <3> QED BY <2>3, <3>1, <3>2
    <2>5. m.reply = "none"
      BY <1>8 DEF CheckPosted
    <2>6. /\ n \in Mail /\ n.id = m.id /\ n.prev = m.prev /\ n.open = m.open
          /\ n.passed => n.reply = "none"
          /\ n.reply # "accepted"
      <3>1. \A text \in {"already_have", "refused"} :
              /\ Replied(m, text) \in Mail /\ Replied(m, text).id = m.id
              /\ Replied(m, text).prev = m.prev /\ Replied(m, text).open = m.open
              /\ Replied(m, text).reply = text /\ Replied(m, text).passed = FALSE
        <4>1. \A text \in Texts :
                /\ Replied(m, text) \in Mail /\ Replied(m, text).id = m.id
                /\ Replied(m, text).prev = m.prev /\ Replied(m, text).open = m.open
                /\ Replied(m, text).reply = text /\ Replied(m, text).passed = FALSE
          BY <2>1, MailFields
        <4>2. {"already_have", "refused"} \subseteq Texts
          BY DEF Texts
        <4> QED BY <4>1, <4>2, Zenon
      <3>2. /\ Passed(m) \in Mail /\ Passed(m).id = m.id /\ Passed(m).prev = m.prev
            /\ Passed(m).open = m.open /\ Passed(m).reply = m.reply
        BY <2>1, MailFields
      <3>3. CASE n = Passed(m)
        BY <2>5, <3>2, <3>3
      <3>4. CASE n = Replied(m, "already_have")
        BY <3>1, <3>4
      <3>5. CASE n = Replied(m, "refused")
        BY <3>1, <3>5
      <3> QED BY <2>3, <3>3, <3>4, <3>5
    <2>7. UNCHANGED <<blocks, doingNow, template, counted, lost, orderly>>
      BY <1>8 DEF CheckPosted
    <2>8. RemoteTypes'
      BY <2>4, <2>6, <2>7 DEF RemoteTypes
    <2>9. \A q \in Remotes : OneOpen(q)'
      BY <2>4, <2>6, <2>7, OneStaysOpen
    <2>10. FitInv'
      BY <2>4, <2>6, <2>7, BlocksKept DEF FitInv, RemoteTypes
    <2>11. CountInv'
      BY <2>4, <2>6, <2>7, BlocksKept DEF CountInv
    <2> QED BY <2>8, <2>9, <2>10, <2>11
  <1>9. ASSUME NEW m \in posted, AddPosted(m) PROVE RemoteInv'
    <2>1. m \in Mail
      BY DEF RemoteTypes
    <2> DEFINE n == Replied(m, "accepted")
    <2>2. /\ n \in Mail /\ n.id = m.id /\ n.prev = m.prev /\ n.open = m.open
          /\ n.reply = "accepted" /\ ~n.passed
      BY <2>1, MailFields DEF Texts
    <2>3. posted' = (posted \ {m}) \cup IF m.open THEN {n} ELSE {}
      BY <1>9 DEF AddPosted, Reply, Replied
    <2> HIDE DEF n
    <2>4. PICK N \in SUBSET {n} : (m.open => n \in N) /\ posted' = (posted \ {m}) \cup N
      BY <2>3
    <2>5. m.passed /\ Fits(m.id.at, m.prev) /\ UNCHANGED <<doingNow, template, counted, lost>>
      BY <1>9 DEF AddPosted, FitInv
    <2>6. \A q \in Remotes : OneOpen(q)'
      BY <2>2, <2>4, <2>5, OneStaysOpen
    <2>7. CASE /\ m.id.at = Len(blocks) /\ UNCHANGED orderly
               /\ blocks' = Append(blocks, [id |-> m.id, prev |-> m.prev])
      <3> DEFINE b == [id |-> m.id, prev |-> m.prev]
      <3>1. b \in Mined /\ b.id = m.id /\ b.prev = m.prev
        BY <2>1, MailFields DEF Mined
      <3>2. blocks' = Append(blocks, b)
        BY <2>7
      <3> HIDE DEF b
      <3>3. b.id.at = Len(blocks) /\ b.prev = Top
        BY <2>5, <2>7, <3>1 DEF Fits
      <3>4. /\ blocks' \in Seq(Mined) /\ Len(blocks') = Len(blocks) + 1
            /\ Heights' /\ PostedIsLinked' /\ InChain' = InChain \cup {m.id}
            /\ \A h \in Nat : \A p : Fits(h, p) => Fits(h, p)'
        BY <3>1, <3>2, <3>3, ChainGrows DEF FitInv
      <3>5. RemoteTypes'
        BY <2>2, <2>4, <2>5, <2>7, <3>4 DEF RemoteTypes
      <3>6. FitInv'
        <4>1. \A r \in Remotes : template[r].index \in Nat
          BY RemoteAssumption DEF RemoteTypes
        <4>2. \A k \in posted : k.id.at \in Nat
          BY MailFields DEF RemoteTypes
        <4>3. \A r \in Remotes :
                /\ doingNow'[r] = "served" => template'[r].index <= Len(blocks')
                /\ doingNow'[r] = "searching" => Fits(template[r].index, template[r].prev)'
          BY <2>5, <3>4, <4>1, <1>t DEF FitInv
        <4>4. \A k \in posted' : Fits(k.id.at, k.prev)' /\ (k.passed => k.reply = "none")
          BY <2>2, <2>4, <2>5, <3>4, <4>2 DEF FitInv
        <4> QED BY <2>5, <3>4, <4>3, <4>4 DEF FitInv
      <3>7. CountInv'
        BY <2>2, <2>4, <2>5, <2>7, <3>4 DEF CountInv
      <3> QED BY <2>6, <3>5, <3>6, <3>7
    <2>8. CASE orderly' = FALSE /\ UNCHANGED blocks
      <3>1. RemoteTypes'
        BY <2>2, <2>4, <2>5, <2>8 DEF RemoteTypes
      <3>2. FitInv'
        BY <2>2, <2>4, <2>5, <2>8, BlocksKept DEF FitInv
      <3>3. CountInv'
        BY <2>8 DEF CountInv
      <3> QED BY <2>6, <3>1, <3>2, <3>3
    <2> QED BY <1>9, <2>7, <2>8 DEF AddPosted
  <1>10. ASSUME MineAtHome PROVE RemoteInv'
    <2> DEFINE b == [id |-> [by |-> Home, at |-> Len(blocks), nr |-> 0], prev |-> Top]
    <2>1. b \in Mined /\ b.id.at = Len(blocks) /\ b.prev = Top /\ blocks' = Append(blocks, b)
      BY <1>10, <1>t DEF MineAtHome, Mined, BlockId
    <2> HIDE DEF b
    <2>2. UNCHANGED <<doingNow, template, posted, counted, lost, orderly>>
      BY <1>10 DEF MineAtHome
    <2>3. /\ blocks' \in Seq(Mined) /\ Len(blocks') = Len(blocks) + 1
          /\ Heights' /\ PostedIsLinked' /\ InChain' = InChain \cup {b.id}
          /\ \A h \in Nat : \A p : Fits(h, p) => Fits(h, p)'
      BY <2>1, ChainGrows DEF FitInv
    <2>4. RemoteTypes'
      BY <2>2, <2>3 DEF RemoteTypes
    <2>5. \A q \in Remotes : OneOpen(q)'
      BY <2>2, OpenKept
    <2>6. FitInv'
      <3>1. \A r \in Remotes : template[r].index \in Nat
        BY RemoteAssumption DEF RemoteTypes
      <3>2. \A k \in posted : k.id.at \in Nat
        BY MailFields DEF RemoteTypes
      <3>3. \A r \in Remotes :
              /\ doingNow'[r] = "served" => template'[r].index <= Len(blocks')
              /\ doingNow'[r] = "searching" => Fits(template[r].index, template[r].prev)'
        BY <2>2, <2>3, <3>1, <1>t DEF FitInv
      <3>4. \A k \in posted' : Fits(k.id.at, k.prev)' /\ (k.passed => k.reply = "none")
        BY <2>2, <2>3, <3>2 DEF FitInv
      <3> QED BY <2>2, <2>3, <3>3, <3>4 DEF FitInv
    <2>7. CountInv'
      BY <2>2, <2>3 DEF CountInv
    <2> QED BY <2>4, <2>5, <2>6, <2>7
  <1>11. CASE UNCHANGED remoteVars
    <2>1. RemoteTypes' /\ FitInv' /\ CountInv'
      BY <1>11, BlocksKept DEF remoteVars, RemoteTypes, FitInv, CountInv
    <2>2. \A q \in Remotes : OneOpen(q)'
      BY <1>11, OpenKept DEF remoteVars
    <2> QED BY <2>1, <2>2
  <1> QED BY <1>1, <1>2, <1>3, <1>4, <1>5, <1>6, <1>7, <1>8, <1>9, <1>10, <1>11 DEF RemoteNext

------------------------------------------------------------------------------
(* What is proved needs no fairness.                                        *)
Outside == RemoteInit /\ [][RemoteNext]_remoteVars

LEMMA RemoteInvariant == Outside => []RemoteInv
  BY RemoteStarts, RemoteStepKeeps, PTL DEF Outside

LEMMA RemoteMeaning == RemoteInv => RemoteTypeOK /\ PostedIsLinked /\ AcceptedIsMined
  <1> SUFFICES ASSUME RemoteInv PROVE RemoteTypeOK
    BY DEF RemoteInv, FitInv, CountInv, AcceptedIsMined
  <1>1. \A r \in Remotes : template[r].index \in 0 .. LastHeight
    BY DEF RemoteInv, RemoteTypes
  <1>2. \A r \in Remotes : Cardinality(Open(r)) = IF doingNow[r] = "posting" THEN 1 ELSE 0
    BY FS_Singleton, FS_EmptySet DEF RemoteInv, OneOpen
  <1> QED BY <1>1, <1>2 DEF RemoteInv, RemoteTypes, FitInv, Heights, RemoteTypeOK

(* Heights, templates and requests keep their types, and a miner has one
   request open, only while it waits (RemoteMiners!RemoteTypeOK), for any number
   of miners. *)
THEOREM MinersTypeCorrect == RemoteSpec => []RemoteTypeOK
  BY RemoteInvariant, RemoteMeaning, PTL DEF RemoteSpec, Outside

(* However late a request is served, and whatever its template was, the block
   it adds names the block under it (main.cpp:1056): RemoteMiners!PostedIsLinked. *)
THEOREM PostedBlocksAreLinked == RemoteSpec => []PostedIsLinked
  BY RemoteInvariant, RemoteMeaning, PTL DEF RemoteSpec, Outside

(* Up to the first block that addBlock drops behind an "accepted"
   (main.cpp:1079), miners count blocks of the chain only:
   RemoteMiners!AcceptedIsMined. *)
THEOREM CountedBlocksAreMined == RemoteSpec => []AcceptedIsMined
  BY RemoteInvariant, RemoteMeaning, PTL DEF RemoteSpec, Outside

(* Both together (RemoteMiners!MinersAreServed), for any number of miners,
   templates and lost answers (main.cpp:1046-1105). *)
THEOREM MinersStayServed == RemoteSpec => []MinersAreServed
  <1> QED BY PostedBlocksAreLinked, CountedBlocksAreMined, PTL DEF MinersAreServed

(* Inside and outside together: the two share no variable, so the threads of the
   node behave as they do alone, and what remote miners add and count is what it
   is alone (NodeAndMiners, RemoteMiners!RemoteTypeOK, MinersAreServed). *)
THEOREM SidesStaySafe == SidesSpec => Spec /\ [](RemoteTypeOK /\ MinersAreServed)
  <1>1. SidesInit => Init /\ RemoteInit
    BY DEF SidesInit
  <1>2. [SidesNext]_sides => [Next]_vars /\ [RemoteNext]_remoteVars
    BY DEF SidesNext, sides
  <1>3. SidesSpec => Spec /\ Outside
    BY <1>1, <1>2, PTL DEF SidesSpec, Spec, Outside
  <1>4. PostedIsLinked /\ AcceptedIsMined => MinersAreServed
    BY DEF MinersAreServed
  <1> QED BY <1>3, <1>4, RemoteInvariant, RemoteMeaning, PTL
==============================================================================

----------------------------- MODULE Gossip_proofs -----------------------------
(***************************************************************************)
(* Exchanges of peer lists among any number of nodes, threads and workers: *)
(* types, what stays in the file and what a bootstrap spreads.             *)
(***************************************************************************)
EXTENDS PeerNetwork, WellFoundedInduction, TLAPS

Letter == [by : Threads, to : Nodes, list : SUBSET Urls, answer : BOOLEAN, open : BOOLEAN]

Types ==
  /\ peers \in [Nodes -> SUBSET Urls] /\ peerFile \in [Nodes -> SUBSET Urls]
  /\ stage \in [Threads -> {"off", "visit", "waiting", "saving", "idle"}]
  /\ kind \in [Nodes -> {"boot", "sync"}]
  /\ at \in [Threads -> Urls \cup {0}]
  /\ mail \subseteq Letter
  /\ save \in [Savers -> {"none", "due", "open"}] /\ seen \in [Savers -> SUBSET Urls]
  /\ asker \in [Servers -> Threads \cup {NoOne}]
  /\ kept \in [Nodes -> SUBSET Urls] /\ orderly \in [Nodes -> BOOLEAN]
  /\ started \in [Nodes -> SUBSET Urls] /\ smooth \in BOOLEAN
  /\ asides \in 0 .. MaxAside

(* A thread has at most one exchange: a letter, or a worker that serves it, *)
(* with the peer its loop stands on.                                        *)
Quiet(t) == (\A m \in mail : m.open => m.by # t) /\ \A w \in Servers : asker[w] # t

OneExchange(t) ==
  /\ \A m \in mail : m.open /\ m.by = t => /\ stage[t] = "waiting" /\ m.to = at[t]
                                           /\ \A w \in Servers : asker[w] # t
  /\ \A m1, m2 \in mail : m1.open /\ m2.open /\ m1.by = t /\ m2.by = t => m1 = m2
  /\ \A w \in Servers : asker[w] = t => stage[t] = "waiting" /\ w[1] = at[t]
  /\ \A v, w \in Servers : asker[v] = t /\ asker[w] = t => v = w

(* The bootstrap of a node: it saves when its loop is through.             *)
Booting(n) ==
  /\ stage[Boot(n)] = "off" => started[n] = {} /\ kind[n] = "boot" /\ at[Boot(n)] = 0
  /\ save[Boot(n)] # "none" =>
       /\ stage[Boot(n)] = "saving" /\ kind[n] = "boot"
       /\ smooth => \A q \in started[n] : q <= at[Boot(n)]

(* The file of an orderly node.  What a save may have missed, another one   *)
(* has still to write.                                                     *)
AllSaved(n) == \A h \in Savers : h[1] = n => save[h] # "due"

InOrder(n) ==
  orderly[n] =>
    /\ kept[n] \subseteq peers[n] \cup (IF stage[Boot(n)] = "off" THEN peerFile[n] ELSE {})
    /\ SavedStays(n)
    /\ \A h \in Savers : h[1] = n /\ save[h] = "open" =>
         /\ peerFile[n] = {} /\ stage[Boot(n)] # "off"
         /\ AllSaved(n) => kept[n] \subseteq seen[h]
         /\ \A g \in Savers : g[1] = n /\ save[g] = "open" => g = h

(* The peers a bootstrap is done with.                                     *)
Done(n, p) ==
  p < at[Boot(n)] \/ (p = at[Boot(n)] /\ stage[Boot(n)] # "waiting") \/ kind[n] = "sync"

(* As long as nothing failed: a node knows what it started with, so does    *)
(* every peer it is done with, and so does the exchange under way.          *)
Spreads(n) ==
  /\ started[n] \subseteq peers[n]
  /\ \A p \in started[n] \cap Nodes : Done(n, p) => started[n] \subseteq peers[p]
  /\ \A m \in mail : m.open /\ m.by = Boot(n) /\ kind[n] = "boot" =>
       started[n] \subseteq IF m.answer THEN peers[m.to] ELSE m.list
  /\ \A w \in Servers : asker[w] = Boot(n) /\ kind[n] = "boot" =>
       started[n] \subseteq peers[w[1]]

GossipInv ==
  /\ Types
  /\ \A t \in Threads : OneExchange(t)
  /\ \A n \in Nodes : Booting(n)
  /\ \A n \in Nodes : InOrder(n)
  /\ smooth => \A n \in Nodes : Spreads(n)

------------------------------------------------------------------------------
LEMMA Places ==
  /\ \A t \in Threads : t[1] \in Nodes
  /\ \A h \in Savers : h[1] \in Nodes
  /\ \A w \in Servers : w \in Savers /\ w[1] \in Nodes
  /\ \A n \in Nodes : /\ Boot(n) \in Threads /\ Boot(n) \in Savers
                      /\ Boot(n) \notin Servers /\ Boot(n)[1] = n
  /\ \A k, n \in Nodes : Boot(k) = Boot(n) => k = n
  /\ NoOne \notin Threads /\ NoOne[1] \notin Nodes
  /\ \A u \in Urls : u \in Nat /\ u > 0
  /\ Nodes \subseteq Urls
  <1>1. 0 \notin Nodes /\ Main \notin Workers
    BY GossipAssumption
  <1>2. /\ \A t \in Threads : t[1] \in Nodes
        /\ \A h \in Savers : h[1] \in Nodes
        /\ \A w \in Servers : w \in Savers /\ w[1] \in Nodes
    BY DEF Threads, Servers, Savers
  <1>3. /\ \A n \in Nodes : /\ Boot(n) \in Threads /\ Boot(n) \in Savers
                            /\ Boot(n) \notin Servers /\ Boot(n)[1] = n
        /\ \A k, n \in Nodes : Boot(k) = Boot(n) => k = n
    BY <1>1 DEF Threads, Servers, Savers, Boot
  <1>4. NoOne[1] \notin Nodes
    BY <1>1 DEF NoOne
  <1>5. /\ \A u \in Urls : u \in Nat /\ u > 0
        /\ Nodes \subseteq Urls
    BY GossipAssumption DEF Urls
  <1> QED BY <1>2, <1>3, <1>4, <1>5

LEMMA LeastUrl ==
  ASSUME NEW S \in SUBSET Urls, S # {}
  PROVE  Min(S) \in S /\ \A y \in S : Min(S) <= y
  <1> DEFINE R == OpToRel(<, Nat)
  <1>1. IsWellFoundedOn(R, Nat)
    BY NatLessThanWellFounded, Zenon
  <1>2. ASSUME NEW x \in Nat, NEW y \in Nat, y < x PROVE <<y, x>> \in R
    BY <1>2 DEF OpToRel
  <1>3. S \subseteq Nat
    BY Places
  <1> HIDE DEF R
  <1>4. PICK x \in S : \A y \in S : ~ (<<y, x>> \in R)
    BY <1>1, <1>3, WFMin
  <1>5. \A y \in S : x <= y
    <2> TAKE y \in S
    <2>1. ~(y < x)
      BY <1>2, <1>3, <1>4
    <2> QED BY <1>3, <2>1
  <1> QED BY <1>5, Zenon DEF Min

(* The loop goes to the next larger URL and passes over none.              *)
LEMMA NextIsLeast ==
  ASSUME Types, NEW t \in Threads, Ahead(t) # {}
  PROVE  /\ NextPeer(t) \in peers[t[1]] /\ NextPeer(t) \in Urls /\ NextPeer(t) > at[t]
         /\ \A p \in peers[t[1]] : p > at[t] => NextPeer(t) <= p
  <1>1. Ahead(t) \in SUBSET Urls
    BY Places DEF Ahead, Types
  <1>2. NextPeer(t) \in Ahead(t) /\ \A y \in Ahead(t) : NextPeer(t) <= y
    BY <1>1, LeastUrl DEF NextPeer
  <1> QED BY <1>1, <1>2 DEF Ahead

(* The letters the actions make of letters.                                *)
LEMMA LetterFields ==
  /\ \A t \in Threads, p \in Nodes, list \in SUBSET Urls :
       /\ Exchange(t, p, list) \in Letter /\ Exchange(t, p, list).by = t
       /\ Exchange(t, p, list).to = p /\ Exchange(t, p, list).list = list
       /\ Exchange(t, p, list).answer = FALSE /\ Exchange(t, p, list).open = TRUE
  /\ \A m \in Letter :
       /\ [m EXCEPT !.open = FALSE] \in Letter /\ [m EXCEPT !.open = FALSE].open = FALSE
       /\ m.by \in Threads /\ m.to \in Nodes /\ m.list \in SUBSET Urls
       /\ m.answer \in BOOLEAN /\ m.open \in BOOLEAN
  BY DEF Exchange, Letter

LEMMA AnswerFields ==
  ASSUME NEW m \in Letter, NEW list \in SUBSET Urls
  PROVE  LET a == [m EXCEPT !.answer = TRUE, !.list = list] IN
         a \in Letter /\ a.by = m.by /\ a.to = m.to /\ a.answer = TRUE /\ a.open = m.open
  BY DEF Letter

------------------------------------------------------------------------------
(* What a step leaves alone.                                               *)

LEMMA SameExchange ==
  ASSUME NEW t \in Threads, OneExchange(t),
         \A m \in mail' : m.open /\ m.by = t => m \in mail,
         \A w \in Servers : asker'[w] = t => asker[w] = t,
         (stage'[t] = stage[t] /\ at'[t] = at[t]) \/ stage[t] # "waiting"
  PROVE  OneExchange(t)'
  BY DEF OneExchange

LEMMA SameBooting ==
  ASSUME NEW n \in Nodes, Booting(n), smooth' => smooth,
         stage'[Boot(n)] = stage[Boot(n)], at'[Boot(n)] = at[Boot(n)],
         kind'[n] = kind[n], started'[n] = started[n], save'[Boot(n)] = save[Boot(n)]
  PROVE  Booting(n)'
  BY DEF Booting

LEMMA SameOrder ==
  ASSUME NEW n \in Nodes, InOrder(n),
         peers[n] \subseteq peers'[n], peerFile'[n] = peerFile[n],
         stage'[Boot(n)] = "off" <=> stage[Boot(n)] = "off",
         \A h \in Savers : h[1] = n => save'[h] = save[h] /\ seen'[h] = seen[h],
         kept'[n] = kept[n], orderly'[n] = orderly[n]
  PROVE  InOrder(n)'
  <1> SUFFICES ASSUME orderly'[n] PROVE
        /\ kept'[n] \subseteq peers'[n] \cup (IF stage'[Boot(n)] = "off" THEN peerFile'[n] ELSE {})
        /\ SavedStays(n)'
        /\ \A h \in Savers : h[1] = n /\ save'[h] = "open" =>
             /\ peerFile'[n] = {} /\ stage'[Boot(n)] # "off"
             /\ AllSaved(n)' => kept'[n] \subseteq seen'[h]
             /\ \A g \in Savers : g[1] = n /\ save'[g] = "open" => g = h
    BY DEF InOrder
  <1>1. AllSaved(n)' <=> AllSaved(n)
    BY DEF AllSaved
  <1>2. SavedStays(n)'
    BY DEF InOrder, SavedStays
  <1> QED BY <1>1, <1>2 DEF InOrder

LEMMA SameSpread ==
  ASSUME NEW n \in Nodes, Spreads(n), Types,
         \A k \in Nodes : peers[k] \subseteq peers'[k],
         \A m \in mail : m.to \in Nodes,
         kind'[n] = kind[n], started'[n] = started[n],
         \A p \in started[n] \cap Nodes : Done(n, p)' => Done(n, p),
         \A m \in mail' : m.open /\ m.by = Boot(n) => m \in mail,
         \A w \in Servers : asker'[w] = Boot(n) => asker[w] = Boot(n)
  PROVE  Spreads(n)'
  <1>1. started'[n] \subseteq peers'[n]
    BY DEF Spreads
  <1>2. \A p \in started'[n] \cap Nodes : Done(n, p)' => started'[n] \subseteq peers'[p]
    BY DEF Spreads
  <1>3. \A m \in mail' : m.open /\ m.by = Boot(n) /\ kind'[n] = "boot" =>
          started'[n] \subseteq IF m.answer THEN peers'[m.to] ELSE m.list
    BY DEF Spreads
  <1>4. \A w \in Servers : asker'[w] = Boot(n) /\ kind'[n] = "boot" =>
          started'[n] \subseteq peers'[w[1]]
    BY Places DEF Spreads
  <1> QED BY <1>1, <1>2, <1>3, <1>4 DEF Spreads

LEMMA SameDone ==
  ASSUME NEW n \in Nodes, stage'[Boot(n)] = stage[Boot(n)], at'[Boot(n)] = at[Boot(n)],
         kind'[n] = kind[n]
  PROVE  \A p : Done(n, p)' = Done(n, p)
  BY DEF Done

------------------------------------------------------------------------------
LEMMA Typed ==
  ASSUME GossipInv
  PROVE  /\ \A m \in mail : /\ m \in Letter /\ m.by \in Threads /\ m.to \in Nodes
                            /\ m.list \in SUBSET Urls
                            /\ m.answer \in BOOLEAN /\ m.open \in BOOLEAN
         /\ \A t \in Threads : at[t] \in Nat
         /\ \A n \in Nodes : /\ kept[n] \subseteq Urls /\ peers[n] \subseteq Urls
                             /\ peerFile[n] \subseteq Urls /\ started[n] \subseteq Urls
<1>1. \A m \in mail : m \in Letter
  BY DEF GossipInv, Types
<1>2. \A t \in Threads : at[t] \in Nat
  BY Places DEF GossipInv, Types
<1>3. \A n \in Nodes : /\ kept[n] \subseteq Urls /\ peers[n] \subseteq Urls
                       /\ peerFile[n] \subseteq Urls /\ started[n] \subseteq Urls
  BY DEF GossipInv, Types
<1> QED BY <1>1, <1>2, <1>3, LetterFields

LEMMA GossipStart == GossipInit => GossipInv
<1> SUFFICES ASSUME GossipInit PROVE GossipInv
  OBVIOUS
<1>1. mail = {} /\ smooth = TRUE /\ asides = 0
  BY DEF GossipInit
<1>2. /\ \A t \in Threads : /\ stage[t] = IF t = Boot(t[1]) /\ t[1] \notin Up THEN "off" ELSE "idle"
                            /\ at[t] = 0
      /\ \A h \in Savers : save[h] = "none" /\ seen[h] = {}
      /\ \A w \in Servers : asker[w] = NoOne
      /\ \A n \in Nodes : /\ peers[n] = IF n \in Up THEN Listed[n] ELSE {}
                          /\ peerFile[n] = Listed[n] /\ kept[n] = Listed[n]
                          /\ kind[n] = IF n \in Up THEN "sync" ELSE "boot"
                          /\ started[n] = {} /\ orderly[n] = TRUE
  BY GossipAssumption DEF GossipInit
<1>3. Listed \in [Nodes -> SUBSET Urls]
  BY GossipAssumption DEF Urls
<1>4. Types
  BY <1>1, <1>3, GossipAssumption DEF GossipInit, Types
<1>5. \A t \in Threads : OneExchange(t)
  BY <1>1, <1>2, Places DEF OneExchange
<1>6. \A n \in Nodes : Booting(n) /\ Spreads(n)
  BY <1>1, <1>2, Places DEF Booting, Spreads
<1>7. \A n \in Nodes : InOrder(n)
  BY <1>2, Places DEF InOrder, SavedStays
<1> QED BY <1>4, <1>5, <1>6, <1>7 DEF GossipInv

(* The bootstrap loads the file.                                           *)
LEMMA StepLoad ==
  ASSUME GossipInv, NEW n \in Nodes, Load(n)
  PROVE  GossipInv'
<1>0. Types /\ Booting(n)
  BY DEF GossipInv
<1>1. /\ stage[Boot(n)] = "off" /\ stage' = [stage EXCEPT ![Boot(n)] = "visit"]
      /\ peers' = [peers EXCEPT ![n] = peers[n] \cup peerFile[n]]
      /\ started' = [started EXCEPT ![n] = peers[n] \cup peerFile[n]]
      /\ UNCHANGED <<peerFile, kind, at, mail, save, seen, asker, kept, orderly, smooth, asides>>
  BY DEF Load, saving
<1>b. Boot(n) \in Threads /\ \A k \in Nodes : k # n => Boot(k) # Boot(n)
  BY Places
<1>2. /\ \A k \in Nodes : peers[k] \subseteq peers'[k]
      /\ \A t \in Threads : t # Boot(n) => stage'[t] = stage[t]
      /\ \A k \in Nodes : k # n => started'[k] = started[k] /\ peers'[k] = peers[k]
      /\ stage'[Boot(n)] = "visit" /\ started'[n] = peers'[n] /\ at[Boot(n)] = 0 /\ kind[n] = "boot"
      /\ peers'[n] = peers[n] \cup peerFile[n] /\ save[Boot(n)] = "none"
  BY <1>0, <1>1, <1>b, Places DEF Types, Booting
<1>3. Types'
  BY <1>0, <1>1 DEF Types
<1>4. \A t \in Threads : OneExchange(t)'
  <2> TAKE t \in Threads
  <2>1. OneExchange(t) /\ mail' = mail /\ asker' = asker /\ at' = at
    BY <1>1 DEF GossipInv
  <2>2. (stage'[t] = stage[t] /\ at'[t] = at[t]) \/ stage[t] # "waiting"
    BY <1>1, <1>2
  <2> QED BY <2>1, <2>2, SameExchange
<1>5. \A k \in Nodes : Booting(k)'
  <2> TAKE k \in Nodes
  <2>1. CASE k = n
    BY <1>1, <1>2, <2>1 DEF Booting
  <2>2. CASE k # n
    BY <1>1, <1>2, <1>b, <2>2, SameBooting, Places DEF GossipInv
  <2> QED BY <2>1, <2>2
<1>6. \A k \in Nodes : InOrder(k)'
  <2> TAKE k \in Nodes
  <2>1. CASE k = n
    <3> SUFFICES ASSUME orderly[n] PROVE InOrder(n)'
      BY <1>1, <2>1 DEF InOrder
    <3>1. /\ kept[n] \subseteq peers[n] \cup peerFile[n] /\ SavedStays(n)
          /\ \A h \in Savers : h[1] = n => save[h] # "open"
      BY <1>1 DEF GossipInv, InOrder
    <3> QED BY <1>1, <1>2, <3>1 DEF InOrder, SavedStays
  <2>2. CASE k # n
    BY <1>1, <1>2, <1>b, <2>2, SameOrder, Places DEF GossipInv
  <2> QED BY <2>1, <2>2
<1>7. ASSUME smooth PROVE \A k \in Nodes : Spreads(k)'
  <2> TAKE k \in Nodes
  <2>1. CASE k = n
    <3>1. \A p \in started'[n] \cap Nodes : ~Done(n, p)'
      BY <1>1, <1>2, Places DEF Done
    <3>2. /\ \A m \in mail : m.open => m.by # Boot(n)
          /\ \A w \in Servers : asker[w] # Boot(n)
      BY <1>1, <1>b DEF GossipInv, OneExchange
    <3> QED BY <1>1, <1>2, <2>1, <3>1, <3>2 DEF Spreads
  <2>2. CASE k # n
    <3>1. \A p : Done(k, p)' = Done(k, p)
      BY <1>1, <1>2, <1>b, <2>2, SameDone, Places
    <3> QED BY <1>0, <1>1, <1>2, <1>7, <2>2, <3>1, SameSpread, Typed DEF GossipInv
  <2> QED BY <2>1, <2>2
<1> QED BY <1>1, <1>3, <1>4, <1>5, <1>6, <1>7 DEF GossipInv


------------------------------------------------------------------------------
(* The two moments of a save.                                              *)

LEMMA FileOpened ==
  ASSUME GossipInv, NEW h \in Savers, OpenFile(h), save[h] # "open",
         peers' = peers, kept' = kept,
         \A k \in Nodes : stage'[Boot(k)] = "off" <=> stage[Boot(k)] = "off"
  PROVE  /\ peerFile' \in [Nodes -> SUBSET Urls] /\ orderly' \in [Nodes -> BOOLEAN]
         /\ save' \in [Savers -> {"none", "due", "open"}] /\ seen' \in [Savers -> SUBSET Urls]
         /\ \A g \in Savers : g # h => save'[g] = save[g]
         /\ save'[h] = "open"
         /\ \A k \in Nodes : InOrder(k)'
<1> DEFINE n == h[1]
           fine == orderly[n] /\ stage[Boot(n)] # "off" /\
                     \A g \in Savers : g[1] = n => save[g] # "open"
<1>1. /\ save' = [save EXCEPT ![h] = "open"] /\ seen' = [seen EXCEPT ![h] = peers[n]]
      /\ peerFile' = [peerFile EXCEPT ![n] = {}] /\ orderly' = [orderly EXCEPT ![n] = fine]
  BY DEF OpenFile
<1>2. n \in Nodes /\ Types /\ fine \in BOOLEAN
  BY Places DEF GossipInv
<1> HIDE DEF n
<1>3. fine => /\ orderly[n] /\ stage[Boot(n)] # "off"
              /\ \A g \in Savers : g[1] = n => save[g] # "open"
  OBVIOUS
<1> HIDE DEF fine
<1>4. /\ peerFile' \in [Nodes -> SUBSET Urls] /\ orderly' \in [Nodes -> BOOLEAN]
      /\ save' \in [Savers -> {"none", "due", "open"}] /\ seen' \in [Savers -> SUBSET Urls]
  BY <1>1, <1>2 DEF Types
<1>5. /\ \A g \in Savers : g # h => save'[g] = save[g] /\ seen'[g] = seen[g]
      /\ save'[h] = "open" /\ seen'[h] = peers[n]
      /\ \A k \in Nodes : k # n => peerFile'[k] = peerFile[k] /\ orderly'[k] = orderly[k]
      /\ peerFile'[n] = {} /\ orderly'[n] = fine
  BY <1>1, <1>2 DEF Types
<1>6. \A k \in Nodes : InOrder(k)'
  <2> TAKE k \in Nodes
  <2>1. CASE k # n
    <3>1. \A g \in Savers : g[1] = k => save'[g] = save[g] /\ seen'[g] = seen[g]
      BY <1>5, <2>1 DEF n
    <3> QED BY <1>5, <2>1, <3>1, SameOrder DEF GossipInv
  <2>2. CASE k = n
    <3> SUFFICES ASSUME fine PROVE InOrder(n)'
      BY <1>5, <2>2 DEF InOrder
    <3>1. h[1] = n /\ \A g \in Savers : g[1] = n => save[g] # "open"
      BY <1>3 DEF n
    <3>2. kept[n] \subseteq peers[n] /\ stage'[Boot(n)] # "off"
      BY <1>2, <1>3 DEF GossipInv, InOrder
    <3>3. SavedStays(n)'
      BY <1>5, <3>1 DEF SavedStays
    <3>4. \A g \in Savers : g[1] = n /\ save'[g] = "open" => g = h
      BY <1>5, <3>1
    <3> QED BY <1>2, <1>5, <3>1, <3>2, <3>3, <3>4 DEF InOrder
  <2> QED BY <2>1, <2>2
<1> QED BY <1>4, <1>5, <1>6

LEMMA FileWritten ==
  ASSUME GossipInv, NEW h \in Savers, WriteFile(h),
         peers' = peers, orderly' = orderly,
         \A k \in Nodes : stage'[Boot(k)] = "off" <=> stage[Boot(k)] = "off"
  PROVE  /\ peerFile' \in [Nodes -> SUBSET Urls] /\ kept' \in [Nodes -> SUBSET Urls]
         /\ save' \in [Savers -> {"none", "due", "open"}] /\ seen' \in [Savers -> SUBSET Urls]
         /\ \A g \in Savers : g # h => save'[g] = save[g]
         /\ save[h] = "open" /\ save'[h] = "none"
         /\ \A k \in Nodes : InOrder(k)'
<1> DEFINE n == h[1]
           over == IF peerFile[n] = {} THEN {} ELSE peerFile[n] \cup Cuts
<1>1. PICK list \in Walked(h), rest \in SUBSET over :
        /\ peerFile' = [peerFile EXCEPT ![n] = list \cup rest]
        /\ kept' = [kept EXCEPT ![n] = @ \cup (list \cap peers[n])]
  BY DEF WriteFile
<1>2. /\ save[h] = "open" /\ save' = [save EXCEPT ![h] = "none"]
      /\ seen' = [seen EXCEPT ![h] = {}]
  BY DEF WriteFile
<1>3. h[1] = n /\ n \in Nodes /\ Types
  BY Places DEF GossipInv
<1>4. /\ peerFile[n] = {} => rest = {}
      /\ rest \subseteq Urls
  BY <1>3 DEF Types, Urls
<1>5. /\ seen[h] \cap peers[n] \subseteq list
      /\ list \subseteq seen[h] \cup peers[n]
  BY DEF Walked
<1> HIDE DEF n, over
<1>6. /\ seen[h] \subseteq Urls /\ peers[n] \subseteq Urls /\ kept[n] \subseteq Urls
  BY <1>3 DEF Types
<1>7. /\ peerFile' \in [Nodes -> SUBSET Urls] /\ kept' \in [Nodes -> SUBSET Urls]
      /\ save' \in [Savers -> {"none", "due", "open"}] /\ seen' \in [Savers -> SUBSET Urls]
  <2>1. list \cup rest \subseteq Urls /\ kept[n] \cup (list \cap peers[n]) \subseteq Urls
    BY <1>4, <1>5, <1>6
  <2>2. peerFile' \in [Nodes -> SUBSET Urls] /\ kept' \in [Nodes -> SUBSET Urls]
    BY <1>1, <1>3, <2>1 DEF Types
  <2> QED BY <1>2, <1>3, <2>2 DEF Types
<1>8. /\ \A g \in Savers : g # h => save'[g] = save[g] /\ seen'[g] = seen[g]
      /\ save'[h] = "none"
      /\ \A k \in Nodes : k # n => peerFile'[k] = peerFile[k] /\ kept'[k] = kept[k]
      /\ peerFile'[n] = list \cup rest /\ kept'[n] = kept[n] \cup (list \cap peers[n])
  BY <1>1, <1>2, <1>3 DEF Types
<1>9. \A k \in Nodes : InOrder(k)'
  <2> TAKE k \in Nodes
  <2>1. CASE k # n
    <3>1. \A g \in Savers : g[1] = k => save'[g] = save[g] /\ seen'[g] = seen[g]
      BY <1>3, <1>8, <2>1
    <3> QED BY <1>8, <2>1, <3>1, SameOrder DEF GossipInv
  <2>2. CASE k = n
    <3> SUFFICES ASSUME orderly[n] PROVE InOrder(n)'
      BY <2>2 DEF InOrder
    <3>1. /\ peerFile[n] = {} /\ stage[Boot(n)] # "off"
          /\ AllSaved(n) => kept[n] \subseteq seen[h]
          /\ \A g \in Savers : g[1] = n /\ save[g] = "open" => g = h
          /\ kept[n] \subseteq peers[n]
      BY <1>2, <1>3 DEF GossipInv, InOrder
    <3>2. \A g \in Savers : g[1] = n => save'[g] # "open"
      BY <1>8, <3>1
    <3>3. SavedStays(n)'
      <4> SUFFICES ASSUME \A g \in Savers : g[1] = n => save'[g] = "none"
                   PROVE  kept'[n] \subseteq peerFile'[n]
        BY DEF SavedStays
      <4>1. AllSaved(n)
        BY <1>2, <1>8 DEF AllSaved
      <4> QED BY <1>5, <1>8, <3>1, <4>1
    <3>4. kept'[n] \subseteq peers'[n]
      BY <1>8, <3>1
    <3> QED BY <3>1, <3>2, <3>3, <3>4 DEF InOrder
  <2> QED BY <2>1, <2>2
<1> QED BY <1>2, <1>7, <1>8, <1>9

(* The bootstrap saves the list, and then runs a round.                    *)
LEMMA StepSaveBootstrap ==
  ASSUME GossipInv, NEW n \in Nodes, SaveBootstrap(n)
  PROVE  GossipInv'
<1>0. Types /\ Booting(n) /\ Boot(n) \in Savers /\ Boot(n) \in Threads /\ Boot(n)[1] = n
  BY Places DEF GossipInv
<1>1. /\ stage[Boot(n)] = "visit" /\ kind[n] = "boot" /\ Ahead(Boot(n)) = {}
      /\ OpenFile(Boot(n)) /\ stage' = [stage EXCEPT ![Boot(n)] = "saving"]
      /\ UNCHANGED <<peers, kind, at, mail, asker, kept, started, smooth, asides>>
  BY DEF SaveBootstrap
<1>b. \A k \in Nodes : k # n => Boot(k) # Boot(n) /\ Boot(k) \in Threads /\ Boot(k) \in Savers
  BY Places
<1>2. /\ \A t \in Threads : t # Boot(n) => stage'[t] = stage[t]
      /\ stage'[Boot(n)] = "saving"
      /\ stage' \in [Threads -> {"off", "visit", "waiting", "saving", "idle"}]
  BY <1>0, <1>1 DEF Types
<1>3. \A k \in Nodes : stage'[Boot(k)] = "off" <=> stage[Boot(k)] = "off"
  BY <1>1, <1>2, <1>b
<1>4. save[Boot(n)] # "open"
  BY <1>0, <1>1 DEF Booting
<1>5. /\ peerFile' \in [Nodes -> SUBSET Urls] /\ orderly' \in [Nodes -> BOOLEAN]
      /\ save' \in [Savers -> {"none", "due", "open"}] /\ seen' \in [Savers -> SUBSET Urls]
      /\ \A g \in Savers : g # Boot(n) => save'[g] = save[g]
      /\ save'[Boot(n)] = "open"
      /\ \A k \in Nodes : InOrder(k)'
  BY <1>0, <1>1, <1>3, <1>4, FileOpened
<1>6. Types'
  BY <1>0, <1>1, <1>2, <1>5 DEF Types
<1>7. \A t \in Threads : OneExchange(t)'
  BY <1>1, <1>2, SameExchange DEF GossipInv
<1>8. smooth => \A q \in started[n] : q <= at[Boot(n)]
  <2> SUFFICES ASSUME smooth, NEW q \in started[n] PROVE q <= at[Boot(n)]
    OBVIOUS
  <2>1. q \in peers[n] /\ q \in Nat /\ at[Boot(n)] \in Nat
    BY <1>0, Typed, Places DEF GossipInv, Spreads
  <2>2. ~(q > at[Boot(n)])
    BY <1>0, <1>1, <2>1 DEF Ahead
  <2> QED BY <2>1, <2>2
<1>9. \A k \in Nodes : Booting(k)'
  <2> TAKE k \in Nodes
  <2>1. CASE k = n
    BY <1>0, <1>1, <1>2, <1>5, <1>8, <2>1 DEF Booting
  <2>2. CASE k # n
    BY <1>1, <1>2, <1>5, <1>b, <2>2, SameBooting DEF GossipInv
  <2> QED BY <2>1, <2>2
<1>10. ASSUME smooth PROVE \A k \in Nodes : Spreads(k)'
  <2> TAKE k \in Nodes
  <2>1. \A p : Done(k, p)' => Done(k, p)
    BY <1>1, <1>2, <1>b DEF Done
  <2> QED BY <1>0, <1>1, <1>10, <2>1, SameSpread, Typed DEF GossipInv
<1> QED BY <1>1, <1>5, <1>6, <1>7, <1>9, <1>10 DEF GossipInv

LEMMA StepEndBootstrap ==
  ASSUME GossipInv, NEW n \in Nodes, EndBootstrap(n)
  PROVE  GossipInv'
<1>0. Types /\ Booting(n) /\ Boot(n) \in Savers /\ Boot(n) \in Threads /\ Boot(n)[1] = n
  BY Places DEF GossipInv
<1>1. /\ WriteFile(Boot(n)) /\ kind' = [kind EXCEPT ![n] = "sync"]
      /\ at' = [at EXCEPT ![Boot(n)] = 0]
      /\ stage' = [stage EXCEPT ![Boot(n)] = IF peers[n] = {} THEN "idle" ELSE "visit"]
      /\ UNCHANGED <<peers, mail, asker, orderly, started, smooth, asides>>
  BY DEF EndBootstrap
<1>b. \A k \in Nodes : k # n => Boot(k) # Boot(n) /\ Boot(k) \in Threads /\ Boot(k) \in Savers
  BY Places
<1>2. /\ \A t \in Threads : t # Boot(n) => stage'[t] = stage[t] /\ at'[t] = at[t]
      /\ stage'[Boot(n)] \in {"idle", "visit"}
      /\ stage' \in [Threads -> {"off", "visit", "waiting", "saving", "idle"}]
      /\ at' \in [Threads -> Urls \cup {0}] /\ kind' \in [Nodes -> {"boot", "sync"}]
      /\ kind'[n] = "sync" /\ \A k \in Nodes : k # n => kind'[k] = kind[k]
  BY <1>0, <1>1 DEF Types
<1>s. save[Boot(n)] = "open"
  BY <1>1 DEF WriteFile
<1>a. stage[Boot(n)] = "saving" /\ (smooth => \A q \in started[n] : q <= at[Boot(n)])
  BY <1>0, <1>s DEF Booting
<1>3. \A k \in Nodes : stage'[Boot(k)] = "off" <=> stage[Boot(k)] = "off"
  BY <1>2, <1>a, <1>b
<1>5. /\ peerFile' \in [Nodes -> SUBSET Urls] /\ kept' \in [Nodes -> SUBSET Urls]
      /\ save' \in [Savers -> {"none", "due", "open"}] /\ seen' \in [Savers -> SUBSET Urls]
      /\ \A g \in Savers : g # Boot(n) => save'[g] = save[g]
      /\ save'[Boot(n)] = "none"
      /\ \A k \in Nodes : InOrder(k)'
  BY <1>0, <1>1, <1>3, FileWritten
<1>6. Types'
  BY <1>0, <1>1, <1>2, <1>5 DEF Types
<1>7. \A t \in Threads : OneExchange(t)'
  BY <1>1, <1>2, <1>a, SameExchange DEF GossipInv
<1>8. \A k \in Nodes : Booting(k)'
  <2> TAKE k \in Nodes
  <2>1. CASE k = n
    BY <1>2, <1>5, <2>1 DEF Booting
  <2>2. CASE k # n
    BY <1>1, <1>2, <1>5, <1>b, <2>2, SameBooting DEF GossipInv
  <2> QED BY <2>1, <2>2
<1>9. ASSUME smooth PROVE \A k \in Nodes : Spreads(k)'
  <2> TAKE k \in Nodes
  <2>1. CASE k = n
    <3>1. \A p \in started[n] \cap Nodes : Done(n, p)
      <4> TAKE p \in started[n] \cap Nodes
      <4>1. p \in Nat /\ at[Boot(n)] \in Nat /\ p <= at[Boot(n)]
        BY <1>0, <1>9, <1>a, Typed, Places
      <4> QED BY <1>a, <4>1 DEF Done
    <3> QED BY <1>1, <1>2, <1>9, <2>1, <3>1 DEF Spreads, GossipInv
  <2>2. CASE k # n
    <3>1. \A p : Done(k, p)' = Done(k, p)
      BY <1>2, <1>b, <2>2, SameDone
    <3> QED BY <1>0, <1>1, <1>2, <1>9, <2>2, <3>1, SameSpread, Typed DEF GossipInv
  <2> QED BY <2>1, <2>2
<1> QED BY <1>1, <1>5, <1>6, <1>7, <1>8, <1>9 DEF GossipInv

------------------------------------------------------------------------------
(* The rounds.                                                             *)

(* Steps of a thread that leave files and saves alone.                     *)
LEMMA OrderedStill ==
  ASSUME GossipInv, \A k \in Nodes : peers[k] \subseteq peers'[k],
         UNCHANGED <<peerFile, save, seen, kept, orderly>>,
         NEW t \in Threads, \A s \in Threads : s # t => stage'[s] = stage[s],
         stage'[t] # "off", stage[t] # "off"
  PROVE  \A k \in Nodes : InOrder(k)'
  <1> TAKE k \in Nodes
  <1>1. stage'[Boot(k)] = "off" <=> stage[Boot(k)] = "off"
    BY Places
  <1> QED BY <1>1, SameOrder DEF GossipInv

LEMMA StepAsk ==
  ASSUME GossipInv, NEW t \in Threads, Ask(t)
  PROVE  GossipInv'
<1> DEFINE n == t[1]
           p == NextPeer(t)
           new == Exchange(t, p, peers[n])
           sent == {Exchange(t, q, peers[n]) : q \in {p} \cap Nodes}
<1>0. Types /\ n \in Nodes
  BY Places DEF GossipInv
<1>1. /\ stage[t] = "visit" /\ stage' = [stage EXCEPT ![t] = "waiting"]
      /\ Ahead(t) # {} /\ at' = [at EXCEPT ![t] = p] /\ mail' = mail \cup sent
      /\ UNCHANGED <<peers, peerFile, kind, save, seen, asker, kept, orderly, started, smooth, asides>>
  BY DEF Ask, lists, saving, history
<1>2. /\ p \in Urls /\ p > at[t] /\ \A q \in peers[n] : q > at[t] => p <= q
  BY <1>0, <1>1, NextIsLeast
<1>3. peers[n] \in SUBSET Urls
  BY <1>0 DEF Types
<1>4. ASSUME NEW m \in sent
      PROVE  /\ m \in Letter /\ m.by = t /\ m.to = p /\ m.list = peers[n]
             /\ m.answer = FALSE /\ m.open = TRUE
  BY <1>3, <1>4, LetterFields
<1>c. \A m1, m2 \in sent : m1 = m2
  OBVIOUS
<1> HIDE DEF sent, new, p
<1>5. /\ stage'[t] = "waiting" /\ at'[t] = p
      /\ \A s \in Threads : s # t => stage'[s] = stage[s] /\ at'[s] = at[s]
  BY <1>0, <1>1 DEF Types
<1>6. Types'
  BY <1>0, <1>1, <1>2, <1>4 DEF Types
<1>7. /\ \A m \in mail : m.open => m.by # t
      /\ \A w \in Servers : asker[w] # t
  BY <1>1 DEF GossipInv, OneExchange
<1>8. \A s \in Threads : OneExchange(s)'
  <2> TAKE s \in Threads
  <2>1. CASE s = t
    <3>1. /\ \A m \in mail' : m.open /\ m.by = t =>
               m \in sent /\ m.to = p /\ stage'[t] = "waiting" /\ at'[t] = p
          /\ \A v \in Servers : asker'[v] # t
      BY <1>1, <1>4, <1>5, <1>7
    <3> QED BY <1>c, <2>1, <3>1 DEF OneExchange
  <2>2. CASE s # t
    BY <1>1, <1>4, <1>5, <2>2, SameExchange DEF GossipInv
  <2> QED BY <2>1, <2>2
<1>9. \A k \in Nodes : InOrder(k)'
  BY <1>1, <1>5, OrderedStill
<1>10. \A k \in Nodes : Booting(k)'
  <2> TAKE k \in Nodes
  <2>1. CASE Boot(k) = t
    <3>1. save[Boot(k)] = "none"
      BY <1>1, <2>1, Places DEF GossipInv, Booting, Types
    <3> QED BY <1>1, <1>5, <2>1, <3>1 DEF Booting
  <2>2. CASE Boot(k) # t
    BY <1>1, <1>5, <2>2, SameBooting, Places DEF GossipInv
  <2> QED BY <2>1, <2>2
<1>11. ASSUME smooth, NEW k \in Nodes PROVE Spreads(k)'
  <2>1. CASE Boot(k) = t
    <3>0. k = n /\ Spreads(n)
      BY <1>11, <2>1, Places DEF GossipInv
    <3>1. ASSUME NEW q \in started[n] \cap Nodes, Done(n, q)' PROVE Done(n, q)
      <4>1. q \in peers[n] /\ q \in Nat /\ p \in Nat /\ at[t] \in Nat
        BY <1>2, <3>0, Typed, Places DEF Spreads
      <4> QED BY <1>1, <1>2, <1>5, <2>1, <3>0, <3>1, <4>1 DEF Done
    <3>2. \A m \in mail' : m.open /\ m.by = t /\ kind[n] = "boot" =>
            started[n] \subseteq IF m.answer THEN peers[m.to] ELSE m.list
      BY <1>1, <1>4, <1>7, <3>0 DEF Spreads
    <3> QED BY <1>1, <2>1, <3>0, <3>1, <3>2 DEF Spreads
  <2>2. CASE Boot(k) # t
    <3>1. \A q : Done(k, q)' = Done(k, q)
      BY <1>1, <1>5, <2>2, SameDone, Places
    <3> QED BY <1>0, <1>1, <1>4, <1>11, <2>2, <3>1, SameSpread, Typed DEF GossipInv
  <2> QED BY <2>1, <2>2
<1> QED BY <1>1, <1>6, <1>8, <1>9, <1>10, <1>11 DEF GossipInv

(* The three steps of a round that exchange nothing.                       *)
LEMMA StepWithout ==
  ASSUME GossipInv, NEW t \in Threads, Pass(t) \/ EndSync(t) \/ SyncNow(t)
  PROVE  GossipInv'
<1>0. Types
  BY DEF GossipInv
<1>n. NextPeer(t) \in Urls \/ Ahead(t) = {}
  BY <1>0, NextIsLeast
<1>1. /\ stage[t] \in {"visit", "idle"} /\ stage'[t] \in {"visit", "idle"}
      /\ \A s \in Threads : s # t => stage'[s] = stage[s] /\ at'[s] = at[s]
      /\ stage' \in [Threads -> {"off", "visit", "waiting", "saving", "idle"}]
      /\ at' \in [Threads -> Urls \cup {0}]
      /\ t = Boot(t[1]) => kind[t[1]] = "sync"
      /\ asides' \in 0 .. MaxAside
      /\ UNCHANGED <<peers, peerFile, kind, mail, save, seen, asker, kept, orderly, started, smooth>>
  <2>1. CASE Pass(t)
    BY <1>0, <1>n, <2>1 DEF Pass, Types, lists, saving, history
  <2>2. CASE EndSync(t)
    BY <1>0, <2>2 DEF EndSync, Types, lists, saving, history
  <2>3. CASE SyncNow(t)
    BY <1>0, <2>3, GossipAssumption DEF SyncNow, Aside, Types, lists, saving, history
  <2> QED BY <2>1, <2>2, <2>3
<1>2. Types'
  BY <1>0, <1>1 DEF Types
<1>3. \A s \in Threads : OneExchange(s)'
  BY <1>1, SameExchange DEF GossipInv
<1>4. \A k \in Nodes : InOrder(k)'
  BY <1>1, OrderedStill
<1>5. \A k \in Nodes : Booting(k)'
  <2> TAKE k \in Nodes
  <2>1. CASE Boot(k) = t
    <3>1. save[Boot(k)] = "none"
      BY <1>1, <2>1, Places DEF GossipInv, Booting, Types
    <3> QED BY <1>1, <2>1, <3>1 DEF Booting
  <2>2. CASE Boot(k) # t
    BY <1>1, <2>2, SameBooting, Places DEF GossipInv
  <2> QED BY <2>1, <2>2
<1>6. ASSUME smooth PROVE \A k \in Nodes : Spreads(k)'
  <2> TAKE k \in Nodes
  <2>1. \A q : Done(k, q)' => Done(k, q)
    BY <1>1, Places DEF Done
  <2> QED BY <1>0, <1>1, <1>6, <2>1, SameSpread, Typed DEF GossipInv
<1> QED BY <1>1, <1>2, <1>3, <1>4, <1>5, <1>6 DEF GossipInv

LEMMA StepLearn ==
  ASSUME GossipInv, NEW t \in Threads, Learn(t)
  PROVE  GossipInv'
<1> DEFINE n == t[1]
<1>0. Types /\ n \in Nodes
  BY Places DEF GossipInv
<1>1. PICK m \in Open(t) :
        /\ m.answer /\ peers' = [peers EXCEPT ![n] = @ \cup (m.list \ {at[t]})]
        /\ stage' = [stage EXCEPT ![t] = "visit"] /\ mail' = mail \ {m}
        /\ UNCHANGED <<peerFile, kind, at, save, seen, asker, kept, orderly, started, smooth, asides>>
  BY DEF Learn, saving, history
<1>2. /\ m \in mail /\ m.open /\ m.by = t /\ m.to = at[t] /\ stage[t] = "waiting"
      /\ m.list \in SUBSET Urls /\ m.to \in Nodes
  BY Typed DEF Open, GossipInv, OneExchange
<1> HIDE DEF n
<1>3. /\ stage'[t] = "visit" /\ \A s \in Threads : s # t => stage'[s] = stage[s]
      /\ \A k \in Nodes : peers[k] \subseteq peers'[k]
  BY <1>0, <1>1 DEF Types
<1>4. Types'
  <2>1. peers' \in [Nodes -> SUBSET Urls]
    BY <1>0, <1>1, <1>2 DEF Types
  <2> QED BY <1>0, <1>1, <2>1 DEF Types
<1>5. /\ \A o \in mail' : o.open => o.by # t
      /\ \A w \in Servers : asker[w] # t
  BY <1>1, <1>2 DEF GossipInv, OneExchange
<1>6. \A s \in Threads : OneExchange(s)'
  <2> TAKE s \in Threads
  <2>1. CASE s = t
    BY <1>1, <1>5, <2>1 DEF OneExchange
  <2>2. CASE s # t
    BY <1>1, <1>3, <2>2, SameExchange DEF GossipInv
  <2> QED BY <2>1, <2>2
<1>7. \A k \in Nodes : InOrder(k)'
  BY <1>1, <1>2, <1>3, OrderedStill
<1>8. \A k \in Nodes : Booting(k)'
  <2> TAKE k \in Nodes
  <2>1. CASE Boot(k) = t
    <3>1. save[Boot(k)] = "none"
      BY <1>2, <2>1, Places DEF GossipInv, Booting, Types
    <3> QED BY <1>1, <1>3, <2>1, <3>1 DEF Booting
  <2>2. CASE Boot(k) # t
    BY <1>1, <1>3, <2>2, SameBooting, Places DEF GossipInv
  <2> QED BY <2>1, <2>2
<1>9. ASSUME smooth, NEW k \in Nodes PROVE Spreads(k)'
  <2>1. CASE Boot(k) = t
    <3>0. Spreads(k)
      BY <1>9 DEF GossipInv
    <3>1. ASSUME NEW q \in started[k] \cap Nodes, Done(k, q)'
          PROVE  started[k] \subseteq peers'[q]
      <4>1. CASE Done(k, q)
        BY <1>3, <3>0, <4>1 DEF Spreads
      <4>2. CASE ~Done(k, q)
        <5>1. q = m.to /\ kind[k] = "boot"
          BY <1>0, <1>1, <1>2, <2>1, <3>1, <4>2 DEF Done, Types
        <5> QED BY <1>1, <1>2, <1>3, <2>1, <3>0, <5>1 DEF Spreads
      <4> QED BY <4>1, <4>2
    <3> QED BY <1>1, <1>3, <1>5, <2>1, <3>0, <3>1 DEF Spreads
  <2>2. CASE Boot(k) # t
    <3>1. \A q : Done(k, q)' = Done(k, q)
      BY <1>1, <1>3, <2>2, SameDone, Places
    <3> QED BY <1>0, <1>1, <1>3, <1>9, <2>2, <3>1, SameSpread, Typed DEF GossipInv
  <2> QED BY <2>1, <2>2
<1> QED BY <1>1, <1>4, <1>6, <1>7, <1>8, <1>9 DEF GossipInv

LEMMA StepAbandon ==
  ASSUME GossipInv, NEW t \in Threads, Abandon(t)
  PROVE  GossipInv'
<1>0. Types
  BY DEF GossipInv
<1>1. /\ stage[t] = "waiting" /\ stage' = [stage EXCEPT ![t] = "visit"] /\ smooth' = FALSE
      /\ asides' = asides \/ (asides < MaxAside /\ asides' = asides + 1)
      /\ asker' = [w \in Servers |-> IF asker[w] = t THEN NoOne ELSE asker[w]]
      /\ UNCHANGED <<peers, peerFile, kind, at, save, seen, kept, orderly, started>>
  BY DEF Abandon, Aside, lists
<1>2. PICK late \in SUBSET {m \in Open(t) : ~m.answer} :
        mail' = (mail \ Open(t)) \cup {[m EXCEPT !.open = FALSE] : m \in late}
  BY Zenon DEF Abandon
<1>3. late \subseteq mail
  BY DEF Open
<1>4. ASSUME NEW o \in mail' PROVE o \in Letter /\ (o.open => o \in mail /\ o.by # t)
  <2>1. CASE o \in mail \ Open(t)
    BY <2>1, Typed DEF Open
  <2>2. ASSUME NEW m \in late, o = [m EXCEPT !.open = FALSE]
        PROVE  o \in Letter /\ o.open = FALSE
    BY <1>3, <2>2, LetterFields, Typed
  <2> QED BY <1>2, <2>1, <2>2
<1>5. /\ stage'[t] = "visit" /\ \A s \in Threads : s # t => stage'[s] = stage[s]
      /\ stage' \in [Threads -> {"off", "visit", "waiting", "saving", "idle"}]
  BY <1>0, <1>1 DEF Types
<1>6. /\ mail' \subseteq Letter /\ asides' \in 0 .. MaxAside
      /\ asker' \in [Servers -> Threads \cup {NoOne}]
      /\ \A w \in Servers : asker'[w] # t /\ \A s \in Threads : asker'[w] = s => asker[w] = s
  BY <1>0, <1>1, <1>4, GossipAssumption, Places DEF Types
<1>7. Types'
  BY <1>0, <1>1, <1>5, <1>6 DEF Types
<1>8. \A s \in Threads : OneExchange(s)'
  <2> TAKE s \in Threads
  <2>1. CASE s = t
    BY <1>4, <1>6, <2>1 DEF OneExchange
  <2>2. CASE s # t
    BY <1>1, <1>4, <1>5, <1>6, <2>2, SameExchange DEF GossipInv
  <2> QED BY <2>1, <2>2
<1>9. \A k \in Nodes : InOrder(k)'
  BY <1>1, <1>5, OrderedStill
<1>10. \A k \in Nodes : Booting(k)'
  <2> TAKE k \in Nodes
  <2>1. CASE Boot(k) = t
    <3>1. save[Boot(k)] = "none"
      BY <1>1, <2>1, Places DEF GossipInv, Booting, Types
    <3> QED BY <1>1, <1>5, <2>1, <3>1 DEF Booting
  <2>2. CASE Boot(k) # t
    BY <1>1, <1>5, <2>2, SameBooting, Places DEF GossipInv
  <2> QED BY <2>1, <2>2
<1> QED BY <1>1, <1>7, <1>8, <1>9, <1>10 DEF GossipInv

(* The process of a node ends and starts again.                            *)
LEMMA StepRestart ==
  ASSUME GossipInv, NEW n \in Nodes, RestartNode(n)
  PROVE  GossipInv'
<1> DEFINE theirs == {m \in mail : m.to # n /\ m.by[1] # n}
           unread == {m \in mail : m.by[1] = n /\ m.to # n /\ ~m.answer}
           calm   == orderly[n] /\ \A h \in Savers : h[1] = n => save[h] = "none"
<1>0. Types
  BY DEF GossipInv
<1>1. /\ stage[Boot(n)] # "off" /\ asides < MaxAside /\ asides' = asides + 1
      /\ peers' = [peers EXCEPT ![n] = {}] /\ started' = [started EXCEPT ![n] = {}]
      /\ stage' = [t \in Threads |-> IF t[1] # n THEN stage[t]
                                     ELSE IF t = Boot(n) THEN "off" ELSE "idle"]
      /\ kind' = [kind EXCEPT ![n] = "boot"]
      /\ at' = [t \in Threads |-> IF t[1] = n THEN 0 ELSE at[t]]
      /\ mail' = theirs \cup {[m EXCEPT !.open = FALSE] : m \in unread}
      /\ orderly' = [orderly EXCEPT ![n] = calm]
      /\ save' = [h \in Savers |-> IF h[1] = n THEN "none" ELSE save[h]]
      /\ seen' = [h \in Savers |-> IF h[1] = n THEN {} ELSE seen[h]]
      /\ asker' = [w \in Servers |-> IF w[1] = n \/ asker[w][1] = n THEN NoOne ELSE asker[w]]
      /\ smooth' = FALSE /\ UNCHANGED <<peerFile, kept>>
  BY Zenon DEF RestartNode, Aside
<1>2. theirs \subseteq mail /\ unread \subseteq mail /\ calm \in BOOLEAN
  OBVIOUS
<1>a. \A m \in theirs : m.by[1] # n
  OBVIOUS
<1>3. calm => orderly[n] /\ \A h \in Savers : h[1] = n => save[h] = "none"
  OBVIOUS
<1> HIDE DEF theirs, unread, calm
<1>4. ASSUME NEW o \in mail' PROVE o \in Letter /\ (o.open => o \in mail /\ o.by[1] # n)
  <2>1. CASE o \in theirs
    BY <1>2, <1>a, <2>1, Typed
  <2>2. ASSUME NEW m \in unread, o = [m EXCEPT !.open = FALSE]
        PROVE  o \in Letter /\ o.open = FALSE
    BY <1>2, <2>2, LetterFields, Typed
  <2> QED BY <1>1, <2>1, <2>2
<1>b. /\ Boot(n) \in Threads /\ Boot(n)[1] = n
      /\ \A k \in Nodes : Boot(k) \in Threads /\ Boot(k)[1] = k /\ Boot(k) \in Savers
  BY Places
<1>5. /\ \A t \in Threads : t[1] # n => stage'[t] = stage[t] /\ at'[t] = at[t]
      /\ stage'[Boot(n)] = "off" /\ at'[Boot(n)] = 0 /\ started'[n] = {} /\ kind'[n] = "boot"
      /\ save'[Boot(n)] = "none"
      /\ \A k \in Nodes : k # n =>
           /\ started'[k] = started[k] /\ kind'[k] = kind[k] /\ peers'[k] = peers[k]
           /\ orderly'[k] = orderly[k]
           /\ \A h \in Savers : h[1] = k => save'[h] = save[h] /\ seen'[h] = seen[h]
      /\ orderly'[n] = calm /\ \A h \in Savers : h[1] = n => save'[h] = "none"
  BY <1>0, <1>1, <1>b DEF Types
<1>6. asides' \in 0 .. MaxAside
  BY <1>0, <1>1, GossipAssumption DEF Types
<1>7. Types'
  <2>1. asker' \in [Servers -> Threads \cup {NoOne}] /\ mail' \subseteq Letter
    BY <1>0, <1>1, <1>4 DEF Types
  <2>2. /\ stage' \in [Threads -> {"off", "visit", "waiting", "saving", "idle"}]
        /\ at' \in [Threads -> Urls \cup {0}]
        /\ save' \in [Savers -> {"none", "due", "open"}] /\ seen' \in [Savers -> SUBSET Urls]
    BY <1>0, <1>1 DEF Types
  <2> QED BY <1>0, <1>1, <1>2, <1>6, <2>1, <2>2 DEF Types
<1>8. \A t \in Threads : OneExchange(t)'
  <2> TAKE t \in Threads
  <2>0. \A w \in Servers : asker'[w] = t => asker[w] = t /\ asker[w][1] # n
    BY <1>1, Places
  <2>1. CASE t[1] = n
    BY <1>4, <2>0, <2>1 DEF OneExchange
  <2>2. CASE t[1] # n
    BY <1>4, <1>5, <2>0, <2>2, SameExchange DEF GossipInv
  <2> QED BY <2>1, <2>2
<1>9. \A k \in Nodes : Booting(k)'
  <2> TAKE k \in Nodes
  <2>1. CASE k = n
    BY <1>5, <2>1 DEF Booting
  <2>2. CASE k # n
    <3>1. /\ Booting(k) /\ started'[k] = started[k] /\ kind'[k] = kind[k]
          /\ stage'[Boot(k)] = stage[Boot(k)] /\ at'[Boot(k)] = at[Boot(k)]
          /\ save'[Boot(k)] = save[Boot(k)]
      BY <1>5, <1>b, <2>2 DEF GossipInv
    <3> QED BY <1>1, <3>1, SameBooting
  <2> QED BY <2>1, <2>2
<1>10. \A k \in Nodes : InOrder(k)'
  <2> TAKE k \in Nodes
  <2>1. CASE k = n
    <3> SUFFICES ASSUME calm PROVE InOrder(n)'
      BY <1>5, <2>1 DEF InOrder
    <3>1. kept[n] \subseteq peerFile[n]
      BY <1>3 DEF GossipInv, InOrder, SavedStays
    <3> QED BY <1>1, <1>5, <3>1 DEF InOrder, SavedStays
  <2>2. CASE k # n
    <3>1. /\ InOrder(k) /\ peers'[k] = peers[k] /\ peerFile'[k] = peerFile[k] /\ kept'[k] = kept[k]
          /\ orderly'[k] = orderly[k] /\ stage'[Boot(k)] = stage[Boot(k)]
          /\ \A h \in Savers : h[1] = k => save'[h] = save[h] /\ seen'[h] = seen[h]
      BY <1>1, <1>5, <1>b, <2>2 DEF GossipInv
    <3> QED BY <3>1, SameOrder
  <2> QED BY <2>1, <2>2
<1> QED BY <1>1, <1>7, <1>8, <1>9, <1>10 DEF GossipInv

------------------------------------------------------------------------------
(* The routes.                                                             *)

(* Steps of a worker: it owes a save, and no round moves.                  *)
LEMMA RoundsStill ==
  ASSUME GossipInv, NEW w \in Servers, UNCHANGED <<stage, kind, at, started>>,
         smooth' => smooth, \A g \in Savers : g # w => save'[g] = save[g]
  PROVE  /\ \A k \in Nodes : Booting(k)'
         /\ \A k \in Nodes : \A p : Done(k, p)' = Done(k, p)
  <1>1. \A k \in Nodes : Booting(k)'
    BY SameBooting, Places DEF GossipInv
  <1>2. \A k \in Nodes : \A p : Done(k, p)' = Done(k, p)
    BY SameDone
  <1> QED BY <1>1, <1>2

(* A route has put what it was told into the list, or taken it out, and     *)
(* will save.                                                              *)
LEMMA OrderOwed ==
  ASSUME GossipInv, NEW w \in Servers, save[w] = "none",
         save' = [save EXCEPT ![w] = "due"],
         UNCHANGED <<peerFile, stage, seen, orderly>>,
         \A k \in Nodes : k # w[1] => peers'[k] = peers[k] /\ kept'[k] = kept[k],
         \A S : kept[w[1]] \subseteq peers[w[1]] \cup S => kept'[w[1]] \subseteq peers'[w[1]] \cup S
  PROVE  /\ \A k \in Nodes : InOrder(k)'
         /\ save' \in [Savers -> {"none", "due", "open"}]
         /\ \A g \in Savers : g # w => save'[g] = save[g]
<1> DEFINE n == w[1]
<1>1. n \in Nodes /\ w \in Savers /\ w[1] = n /\ Types
  BY Places DEF GossipInv
<1>2. /\ save' \in [Savers -> {"none", "due", "open"}] /\ save'[w] = "due"
      /\ \A g \in Savers : g # w => save'[g] = save[g]
  BY <1>1 DEF Types
<1>3. \A k \in Nodes : InOrder(k)'
  <2> TAKE k \in Nodes
  <2>1. CASE k # n
    BY <1>1, <1>2, <2>1, SameOrder DEF GossipInv
  <2>2. CASE k = n
    <3> SUFFICES ASSUME orderly[n] PROVE InOrder(n)'
      BY <2>2 DEF InOrder
    <3> DEFINE still == IF stage[Boot(n)] = "off" THEN peerFile[n] ELSE {}
    <3>1. kept[n] \subseteq peers[n] \cup still
      BY <1>1 DEF GossipInv, InOrder
    <3> HIDE DEF still
    <3>2. kept'[n] \subseteq peers'[n] \cup still
      BY <1>1, <3>1
    <3>3. SavedStays(n)' /\ ~AllSaved(n)'
      BY <1>1, <1>2 DEF SavedStays, AllSaved
    <3>4. \A h \in Savers : h[1] = n /\ save'[h] = "open" =>
            /\ peerFile[n] = {} /\ stage[Boot(n)] # "off"
            /\ \A g \in Savers : g[1] = n /\ save'[g] = "open" => g = h
      BY <1>1, <1>2 DEF GossipInv, InOrder
    <3> QED BY <3>2, <3>3, <3>4 DEF InOrder, still
  <2> QED BY <2>1, <2>2
<1> QED BY <1>2, <1>3

LEMMA StepServe ==
  ASSUME GossipInv, NEW m \in mail, NEW w \in Servers, Serve(m, w)
  PROVE  GossipInv'
<1> DEFINE n == m.to
           added == m.list \ peers[n]
           answer == [m EXCEPT !.answer = TRUE, !.list = peers[n]]
<1>0. /\ Types /\ m \in Letter /\ m.by \in Threads /\ n \in Nodes /\ m.list \in SUBSET Urls
      /\ m.open \in BOOLEAN
  BY Typed DEF GossipInv
<1>1. /\ ~m.answer /\ w[1] = n /\ save[w] = "none"
      /\ peers' = [peers EXCEPT ![n] = @ \cup added]
      /\ kept' = [kept EXCEPT ![n] = @ \cup added]
      /\ UNCHANGED <<peerFile, stage, kind, at, seen, orderly, started, smooth, asides>>
  BY DEF Serve, rounds, saving
<1>2. \/ /\ added = {} /\ mail' = (mail \ {m}) \cup (IF m.open THEN {answer} ELSE {})
         /\ UNCHANGED <<save, asker>>
      \/ /\ mail' = mail \ {m} /\ save' = [save EXCEPT ![w] = "due"]
         /\ asker' = [asker EXCEPT ![w] = IF m.open THEN m.by ELSE NoOne]
  BY DEF Serve, saving
<1>3. /\ peers' \in [Nodes -> SUBSET Urls] /\ kept' \in [Nodes -> SUBSET Urls]
      /\ \A k \in Nodes : peers[k] \subseteq peers'[k]
      /\ \A k \in Nodes : k # n => peers'[k] = peers[k] /\ kept'[k] = kept[k]
      /\ m.list \subseteq peers'[n]
      /\ peers'[n] = peers[n] \cup added /\ kept'[n] = kept[n] \cup added
  BY <1>0, <1>1 DEF Types
<1>4. /\ answer \in Letter /\ answer.by = m.by /\ answer.to = n
      /\ answer.answer = TRUE /\ answer.open = m.open
  <2>1. peers[n] \in SUBSET Urls
    BY <1>0 DEF Types
  <2> QED BY <1>0, <2>1, AnswerFields
<1> HIDE DEF answer, n
<1>5. CASE /\ added = {} /\ mail' = (mail \ {m}) \cup (IF m.open THEN {answer} ELSE {})
           /\ UNCHANGED <<save, asker>>
  <2>1. kept' = kept
    BY <1>0, <1>1, <1>5 DEF Types
  <2>2. Types'
    BY <1>0, <1>1, <1>3, <1>4, <1>5 DEF Types
  <2>3. ASSUME NEW o \in mail', o.open
        PROVE  \/ o \in mail /\ o # m
               \/ o = answer /\ m.open /\ o.by = m.by /\ o.to = m.to /\ o.answer = TRUE
    BY <1>4, <1>5, <2>3 DEF n
  <2>4. \A t \in Threads : OneExchange(t)'
    <3> TAKE t \in Threads
    <3>1. CASE t = m.by
      <4>1. OneExchange(t)
        BY DEF GossipInv
      <4> QED BY <1>1, <1>5, <2>3, <3>1, <4>1 DEF OneExchange
    <3>2. CASE t # m.by
      BY <1>1, <1>5, <2>3, <3>2, SameExchange DEF GossipInv
    <3> QED BY <3>1, <3>2
  <2>5. \A k \in Nodes : InOrder(k)'
    BY <1>1, <1>3, <1>5, <2>1, SameOrder DEF GossipInv
  <2>6. /\ \A k \in Nodes : Booting(k)'
        /\ \A k \in Nodes : \A p : Done(k, p)' = Done(k, p)
    BY <1>1, <1>5, RoundsStill
  <2>7. ASSUME smooth, NEW k \in Nodes PROVE Spreads(k)'
    <3>0. Spreads(k)
      BY <2>7 DEF GossipInv
    <3>1. CASE m.by = Boot(k) /\ m.open
      <4>1. \A o \in mail' : o.open /\ o.by = Boot(k) /\ kind[k] = "boot" =>
              started[k] \subseteq IF o.answer THEN peers'[o.to] ELSE o.list
        <5> TAKE o \in mail'
        <5> SUFFICES ASSUME o.open, o.by = Boot(k), kind[k] = "boot"
                     PROVE  started[k] \subseteq IF o.answer THEN peers'[o.to] ELSE o.list
          OBVIOUS
        <5>1. CASE o \in mail
          <6>1. started[k] \subseteq IF o.answer THEN peers[o.to] ELSE o.list
            BY <3>0, <5>1 DEF Spreads
          <6> QED BY <1>3, <5>1, <6>1, Typed
        <5>2. CASE o = answer
          <6>1. started[k] \subseteq m.list
            BY <1>1, <3>0, <3>1 DEF Spreads
          <6> QED BY <1>3, <1>4, <5>2, <6>1
        <5> QED BY <2>3, <5>1, <5>2
      <4>2. /\ started[k] \subseteq peers'[k]
            /\ \A p \in started[k] \cap Nodes : Done(k, p) => started[k] \subseteq peers'[p]
            /\ \A v \in Servers : asker[v] = Boot(k) /\ kind[k] = "boot" =>
                 started[k] \subseteq peers'[v[1]]
        BY <1>3, <3>0, Places DEF Spreads
      <4> QED BY <1>1, <1>5, <2>6, <4>1, <4>2 DEF Spreads
    <3>2. CASE ~(m.by = Boot(k) /\ m.open)
      <4>1. \A o \in mail' : o.open /\ o.by = Boot(k) => o \in mail
        BY <2>3, <3>2
      <4> QED BY <1>0, <1>1, <1>3, <1>5, <2>6, <3>0, <4>1, SameSpread, Typed
    <3> QED BY <3>1, <3>2
  <2> QED BY <1>1, <2>2, <2>4, <2>5, <2>6, <2>7 DEF GossipInv
<1>6. CASE /\ mail' = mail \ {m} /\ save' = [save EXCEPT ![w] = "due"]
           /\ asker' = [asker EXCEPT ![w] = IF m.open THEN m.by ELSE NoOne]
  <2>1. /\ \A k \in Nodes : InOrder(k)'
        /\ save' \in [Savers -> {"none", "due", "open"}]
        /\ \A g \in Savers : g # w => save'[g] = save[g]
    BY <1>1, <1>3, <1>6, OrderOwed
  <2>2. /\ asker' \in [Servers -> Threads \cup {NoOne}]
        /\ \A v \in Servers : v # w => asker'[v] = asker[v]
        /\ asker'[w] = IF m.open THEN m.by ELSE NoOne
    BY <1>0, <1>6 DEF Types
  <2>3. Types'
    BY <1>0, <1>1, <1>3, <1>6, <2>1, <2>2 DEF Types
  <2>4. \A t \in Threads : OneExchange(t)'
    <3> TAKE t \in Threads
    <3>0. OneExchange(t)
      BY DEF GossipInv
    <3>1. CASE t = m.by /\ m.open
      BY <1>1, <1>6, <2>2, <3>0, <3>1 DEF OneExchange, n
    <3>2. CASE ~(t = m.by /\ m.open)
      <4>1. \A v \in Servers : asker'[v] = t => asker[v] = t
        BY <2>2, <3>2, Places
      <4> QED BY <1>1, <1>6, <3>0, <4>1, SameExchange
    <3> QED BY <3>1, <3>2
  <2>5. /\ \A k \in Nodes : Booting(k)'
        /\ \A k \in Nodes : \A p : Done(k, p)' = Done(k, p)
    BY <1>1, <2>1, RoundsStill
  <2>6. ASSUME smooth, NEW k \in Nodes PROVE Spreads(k)'
    <3>0. Spreads(k)
      BY <2>6 DEF GossipInv
    <3>1. \A o \in mail' : o.open /\ o.by = Boot(k) /\ kind[k] = "boot" =>
            started[k] \subseteq IF o.answer THEN peers'[o.to] ELSE o.list
      BY <1>3, <1>6, <3>0, Typed DEF Spreads
    <3>2. /\ started[k] \subseteq peers'[k]
          /\ \A p \in started[k] \cap Nodes : Done(k, p) => started[k] \subseteq peers'[p]
      BY <1>3, <3>0 DEF Spreads
    <3>3. ASSUME NEW v \in Servers, asker'[v] = Boot(k), kind[k] = "boot"
          PROVE  started[k] \subseteq peers'[v[1]]
      <4>1. CASE asker[v] = Boot(k)
        BY <1>3, <3>0, <3>3, <4>1, Places DEF Spreads
      <4>2. CASE v = w /\ m.open /\ m.by = Boot(k)
        <5>1. started[k] \subseteq m.list
          BY <1>1, <3>0, <3>3, <4>2 DEF Spreads
        <5> QED BY <1>1, <1>3, <4>2, <5>1
      <4> QED BY <2>2, <3>3, <4>1, <4>2, Places
    <3> QED BY <1>1, <2>5, <3>1, <3>2, <3>3 DEF Spreads
  <2> QED BY <1>1, <2>1, <2>3, <2>4, <2>5, <2>6 DEF GossipInv
<1> QED BY <1>2, <1>5, <1>6

LEMMA StepPeer ==
  ASSUME GossipInv, NEW w \in Servers, NEW p \in Nodes, AddPeer(w, p) \/ RemovePeer(w, p)
  PROVE  GossipInv'
<1> DEFINE n == w[1]
<1>0. /\ Types /\ n \in Nodes /\ p \in Urls /\ w[1] = n
  BY Places DEF GossipInv
<1>1. /\ save[w] = "none" /\ save' = [save EXCEPT ![w] = "due"]
      /\ asides < MaxAside /\ asides' = asides + 1
      /\ \/ /\ peers' = [peers EXCEPT ![n] = @ \cup {p}]
            /\ kept' = [kept EXCEPT ![n] = @ \cup {p}] /\ smooth' = smooth
         \/ /\ peers' = [peers EXCEPT ![n] = @ \ {p}]
            /\ kept' = [kept EXCEPT ![n] = @ \ {p}] /\ smooth' = FALSE
      /\ UNCHANGED <<peerFile, stage, kind, at, mail, seen, asker, orderly, started>>
  BY DEF AddPeer, RemovePeer, Aside, rounds
<1> HIDE DEF n
<1>2. /\ peers' \in [Nodes -> SUBSET Urls] /\ kept' \in [Nodes -> SUBSET Urls]
      /\ \A k \in Nodes : k # n => peers'[k] = peers[k] /\ kept'[k] = kept[k]
      /\ \A S : kept[n] \subseteq peers[n] \cup S => kept'[n] \subseteq peers'[n] \cup S
      /\ smooth' => smooth /\ \A k \in Nodes : peers[k] \subseteq peers'[k]
      /\ smooth' \in BOOLEAN
  <2>1. CASE /\ peers' = [peers EXCEPT ![n] = @ \cup {p}]
             /\ kept' = [kept EXCEPT ![n] = @ \cup {p}] /\ smooth' = smooth
    <3>1. /\ peers' \in [Nodes -> SUBSET Urls] /\ kept' \in [Nodes -> SUBSET Urls]
          /\ \A k \in Nodes : k # n => peers'[k] = peers[k] /\ kept'[k] = kept[k]
          /\ peers'[n] = peers[n] \cup {p} /\ kept'[n] = kept[n] \cup {p}
          /\ smooth' \in BOOLEAN
      BY <1>0, <2>1 DEF Types
    <3> QED BY <1>0, <2>1, <3>1
  <2>2. CASE /\ peers' = [peers EXCEPT ![n] = @ \ {p}]
             /\ kept' = [kept EXCEPT ![n] = @ \ {p}] /\ smooth' = FALSE
    <3>1. /\ peers' \in [Nodes -> SUBSET Urls] /\ kept' \in [Nodes -> SUBSET Urls]
          /\ \A k \in Nodes : k # n => peers'[k] = peers[k] /\ kept'[k] = kept[k]
          /\ peers'[n] = peers[n] \ {p} /\ kept'[n] = kept[n] \ {p}
      BY <1>0, <2>2 DEF Types
    <3> QED BY <1>0, <2>2, <3>1
  <2> QED BY <1>1, <2>1, <2>2
<1>3. /\ \A k \in Nodes : InOrder(k)'
      /\ save' \in [Savers -> {"none", "due", "open"}]
      /\ \A g \in Savers : g # w => save'[g] = save[g]
  BY <1>0, <1>1, <1>2, OrderOwed
<1>4. asides' \in 0 .. MaxAside
  BY <1>0, <1>1, GossipAssumption DEF Types
<1>5. Types'
  BY <1>0, <1>1, <1>2, <1>3, <1>4 DEF Types
<1>6. \A t \in Threads : OneExchange(t)'
  BY <1>1, SameExchange DEF GossipInv
<1>7. /\ \A k \in Nodes : Booting(k)'
      /\ \A k \in Nodes : \A q : Done(k, q)' = Done(k, q)
  BY <1>1, <1>2, <1>3, RoundsStill
<1>8. ASSUME smooth' PROVE \A k \in Nodes : Spreads(k)'
  BY <1>0, <1>1, <1>2, <1>7, <1>8, SameSpread, Typed DEF GossipInv
<1> QED BY <1>3, <1>5, <1>6, <1>7, <1>8 DEF GossipInv

LEMMA StepOpenSave ==
  ASSUME GossipInv, NEW w \in Servers, OpenSave(w)
  PROVE  GossipInv'
<1>0. Types /\ w \in Savers
  BY Places DEF GossipInv
<1>1. /\ save[w] = "due" /\ OpenFile(w)
      /\ UNCHANGED <<peers, stage, kind, at, mail, asker, kept, started, smooth, asides>>
  BY DEF OpenSave, rounds
<1>2. /\ peerFile' \in [Nodes -> SUBSET Urls] /\ orderly' \in [Nodes -> BOOLEAN]
      /\ save' \in [Savers -> {"none", "due", "open"}] /\ seen' \in [Savers -> SUBSET Urls]
      /\ \A g \in Savers : g # w => save'[g] = save[g]
      /\ \A k \in Nodes : InOrder(k)'
  BY <1>0, <1>1, FileOpened
<1>3. Types'
  BY <1>0, <1>1, <1>2 DEF Types
<1>4. \A t \in Threads : OneExchange(t)'
  BY <1>1, SameExchange DEF GossipInv
<1>5. /\ \A k \in Nodes : Booting(k)'
      /\ \A k \in Nodes : \A q : Done(k, q)' = Done(k, q)
  BY <1>1, <1>2, RoundsStill
<1>6. smooth => \A k \in Nodes : Spreads(k)'
  BY <1>0, <1>1, <1>5, SameSpread, Typed DEF GossipInv
<1> QED BY <1>1, <1>2, <1>3, <1>4, <1>5, <1>6 DEF GossipInv

LEMMA StepEndSave ==
  ASSUME GossipInv, NEW w \in Servers, EndSave(w)
  PROVE  GossipInv'
<1> DEFINE n == w[1]
           asking == {asker[w]} \ {NoOne}
           sent == {[Exchange(t, n, peers[n]) EXCEPT !.answer = TRUE] : t \in asking}
<1>0. Types /\ w \in Savers /\ n \in Nodes /\ w[1] = n
  BY Places DEF GossipInv
<1>1. /\ WriteFile(w) /\ asker' = [asker EXCEPT ![w] = NoOne] /\ mail' = mail \cup sent
      /\ UNCHANGED <<peers, stage, kind, at, orderly, started, smooth, asides>>
  BY DEF EndSave, rounds
<1>2. /\ peerFile' \in [Nodes -> SUBSET Urls] /\ kept' \in [Nodes -> SUBSET Urls]
      /\ save' \in [Savers -> {"none", "due", "open"}] /\ seen' \in [Savers -> SUBSET Urls]
      /\ \A g \in Savers : g # w => save'[g] = save[g]
      /\ \A k \in Nodes : InOrder(k)'
  BY <1>0, <1>1, FileWritten
<1>3. ASSUME NEW m \in sent
      PROVE  /\ m \in Letter /\ m.by = asker[w] /\ m.by \in Threads /\ m.to = n
             /\ m.answer = TRUE /\ m.open = TRUE
  <2>1. PICK t \in asking : m = [Exchange(t, n, peers[n]) EXCEPT !.answer = TRUE]
    BY <1>3
  <2>2. t \in Threads /\ t = asker[w] /\ peers[n] \in SUBSET Urls
    BY <1>0 DEF Types
  <2> DEFINE list == peers[n]
             a == [Exchange(t, n, list) EXCEPT !.answer = TRUE]
  <2>3. list \in SUBSET Urls /\ m = a
    BY <2>1, <2>2
  <2> HIDE DEF n, asking, list
  <2>4. a \in Letter /\ a.by = t /\ a.to = n /\ a.answer = TRUE /\ a.open = TRUE
    BY <1>0, <2>2, <2>3 DEF Letter, Exchange
  <2> QED BY <2>2, <2>3, <2>4
<1>c. \A m1, m2 \in sent : m1 = m2
  OBVIOUS
<1> HIDE DEF sent, n
<1>4. /\ asker' \in [Servers -> Threads \cup {NoOne}] /\ asker'[w] = NoOne
      /\ \A v \in Servers : v # w => asker'[v] = asker[v]
  BY <1>0, <1>1 DEF Types
<1>5. Types'
  BY <1>0, <1>1, <1>2, <1>3, <1>4 DEF Types
<1>6. \A t \in Threads : OneExchange(t)'
  <2> TAKE t \in Threads
  <2>0. OneExchange(t)
    BY DEF GossipInv
  <2>1. CASE t = asker[w]
    <3>1. t \in Threads /\ stage[t] = "waiting" /\ n = at[t]
      BY <1>0, <2>0, <2>1, Places DEF OneExchange
    <3>2. \A m \in mail : ~(m.open /\ m.by = t)
      BY <2>0, <2>1, Places DEF OneExchange
    <3>3. \A v \in Servers : asker'[v] # t
      <4> TAKE v \in Servers
      <4>1. CASE v = w
        BY <1>4, <4>1, Places
      <4>2. CASE v # w
        BY <1>4, <2>0, <2>1, <4>2, Places DEF OneExchange
      <4> QED BY <4>1, <4>2
    <3> QED BY <1>1, <1>3, <1>c, <3>1, <3>2, <3>3 DEF OneExchange
  <2>2. CASE t # asker[w]
    <3>1. \A v \in Servers : asker'[v] = t => asker[v] = t
      BY <1>4, Places
    <3> QED BY <1>1, <1>3, <2>0, <2>2, <3>1, SameExchange
  <2> QED BY <2>1, <2>2
<1>7. /\ \A k \in Nodes : Booting(k)'
      /\ \A k \in Nodes : \A q : Done(k, q)' = Done(k, q)
  BY <1>1, <1>2, RoundsStill
<1>8. ASSUME smooth, NEW k \in Nodes PROVE Spreads(k)'
  <2>0. Spreads(k)
    BY <1>8 DEF GossipInv
  <2>1. ASSUME NEW o \in mail', o.open, o.by = Boot(k), kind[k] = "boot"
        PROVE  started[k] \subseteq IF o.answer THEN peers[o.to] ELSE o.list
    <3>1. CASE o \in mail
      BY <2>0, <2>1, <3>1 DEF Spreads
    <3>2. CASE o \in sent
      BY <1>0, <1>3, <2>0, <2>1, <3>2 DEF Spreads
    <3> QED BY <1>1, <3>1, <3>2
  <2>2. \A v \in Servers : asker'[v] = Boot(k) => asker[v] = Boot(k)
    BY <1>4, Places
  <2> QED BY <1>1, <1>7, <2>0, <2>1, <2>2 DEF Spreads
<1> QED BY <1>1, <1>2, <1>5, <1>6, <1>7, <1>8 DEF GossipInv

------------------------------------------------------------------------------
LEMMA StepNone ==
  ASSUME GossipInv, UNCHANGED gossipVars
  PROVE  GossipInv'
<1>1. UNCHANGED <<peers, peerFile, stage, kind, at, mail, save, seen, asker,
                  kept, orderly, started, smooth, asides>>
  BY DEF gossipVars, lists, rounds, saving, history
<1>2. Types'
  BY <1>1 DEF GossipInv, Types
<1>3. \A t \in Threads : OneExchange(t)'
  BY <1>1, SameExchange DEF GossipInv
<1>4. \A n \in Nodes : Booting(n)' /\ InOrder(n)'
  BY <1>1, SameBooting, SameOrder DEF GossipInv
<1>5. smooth => \A n \in Nodes : Spreads(n)'
  BY <1>1, SameSpread, SameDone, Typed DEF GossipInv
<1> QED BY <1>1, <1>2, <1>3, <1>4, <1>5 DEF GossipInv

LEMMA GossipStep == GossipInv /\ [GossipNext]_gossipVars => GossipInv'
<1> SUFFICES ASSUME GossipInv, [GossipNext]_gossipVars PROVE GossipInv'
  OBVIOUS
<1>1. ASSUME NEW n \in Nodes, Load(n) \/ SaveBootstrap(n) \/ EndBootstrap(n) \/ RestartNode(n)
      PROVE  GossipInv'
  BY <1>1, StepLoad, StepSaveBootstrap, StepEndBootstrap, StepRestart
<1>2. ASSUME NEW t \in Threads,
             Ask(t) \/ Pass(t) \/ Learn(t) \/ Abandon(t) \/ EndSync(t) \/ SyncNow(t)
      PROVE  GossipInv'
  BY <1>2, StepAsk, StepWithout, StepLearn, StepAbandon
<1>3. ASSUME NEW w \in Servers, OpenSave(w) \/ EndSave(w) PROVE GossipInv'
  BY <1>3, StepOpenSave, StepEndSave
<1>4. ASSUME NEW w \in Servers, NEW m \in mail, Serve(m, w) PROVE GossipInv'
  BY <1>4, StepServe
<1>5. ASSUME NEW w \in Servers, NEW c \in Chosen, AddPeer(w, c[2]) \/ RemovePeer(w, c[2])
      PROVE  GossipInv'
  <2>1. c[2] \in Nodes
    BY GossipAssumption
  <2> QED BY <1>5, <2>1, StepPeer
<1>6. CASE UNCHANGED gossipVars
  BY <1>6, StepNone
<1> QED BY <1>1, <1>2, <1>3, <1>4, <1>5, <1>6 DEF GossipNext

(* What is proved needs no fairness.                                        *)
Gossiping == GossipInit /\ [][GossipNext]_gossipVars

LEMMA GossipInvariant == Gossiping => []GossipInv
  BY GossipStart, GossipStep, PTL DEF Gossiping

------------------------------------------------------------------------------
LEMMA ListsAreTyped == Gossiping => []GossipTypeOK
  <1>1. ASSUME GossipInv PROVE GossipTypeOK
    <2>1. ASSUME NEW t \in Threads, Open(t) # {}
          PROVE  /\ stage[t] = "waiting" /\ \E m \in Open(t) : Open(t) = {m} /\ m.to = at[t]
                 /\ \A w \in Servers : asker[w] # t
      <3>1. PICK m \in Open(t) : TRUE
        BY <2>1
      <3>2. /\ Open(t) = {m} /\ m.to = at[t] /\ stage[t] = "waiting"
            /\ \A w \in Servers : asker[w] # t
        BY <1>1, <3>1 DEF Open, GossipInv, OneExchange
      <3> QED BY <3>1, <3>2
    <2> QED BY <1>1, <2>1 DEF GossipInv, Types, Letter, GossipTypeOK
  <1> QED BY <1>1, GossipInvariant, PTL

LEMMA SavesStay == Gossiping => []OrderlySavesStay
  <1>1. GossipInv => OrderlySavesStay
    BY DEF GossipInv, InOrder, OrderlySavesStay
  <1> QED BY <1>1, GossipInvariant, PTL

LEMMA ListsSpread == Gossiping => []BootstrapSpreads
  <1>1. GossipInv => BootstrapSpreads
    BY DEF GossipInv, Spreads, Done, BootstrapSpreads
  <1> QED BY <1>1, GossipInvariant, PTL

(* Lists, files, cursors and letters keep their types, and a thread has one *)
(* exchange under way, with the peer its loop stands on, only while it      *)
(* waits (Gossip!GossipTypeOK): any number of nodes, threads and workers.   *)
THEOREM GossipTypeCorrect == GossipSpec => []GossipTypeOK
  BY ListsAreTyped, PTL DEF GossipSpec, Gossiping

(* Saves that come one after the other, each a truncation, a walk and a     *)
(* write (p2p.cpp:69), keep in the file what a route was told and what was  *)
(* written before (Gossip!OrderlySavesStay), however many inserts fall into *)
(* the walk.  Saves that overlap, precede the load or are cut off by a stop *)
(* are excepted: there the code does lose peers.                            *)
THEOREM SavedIsKept == GossipSpec => []OrderlySavesStay
  BY SavesStay, PTL DEF GossipSpec, Gossiping

(* A bootstrap no exchange of which failed has told every peer it began     *)
(* with of every other (Gossip!BootstrapSpreads), however the lists grow    *)
(* under the loops and whatever other rounds run next to it.                *)
THEOREM BootstrapsSpread == GossipSpec => []BootstrapSpreads
  BY ListsSpread, PTL DEF GossipSpec, Gossiping

(* Chain and lists side by side: the two halves of p2p.cpp share no variable, so
   the chain of a node behaves as it does alone, and the lists of all nodes keep
   what they keep alone (PeerNetwork, Gossip!GossipTypeOK, BootstrapSpreads,
   OrderlySavesStay). *)
THEOREM NetworkStaysSafe ==
  NetworkSpec => Spec /\ [](GossipTypeOK /\ BootstrapSpreads /\ OrderlySavesStay)
  <1>1. NetworkInit => Init /\ GossipInit
    BY DEF NetworkInit
  <1>2. [NetworkNext]_networkVars => [Next]_vars /\ [GossipNext]_gossipVars
    BY DEF NetworkNext, networkVars
  <1>3. NetworkSpec => Spec /\ Gossiping
    BY <1>1, <1>2, PTL DEF NetworkSpec, Spec, Gossiping
  <1> QED BY <1>3, ListsAreTyped, SavesStay, ListsSpread, PTL
==============================================================================

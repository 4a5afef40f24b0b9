--------------------------------- MODULE Gossip ---------------------------------
(***************************************************************************)
(* How nodes learn of each other (src/p2p.cpp): the list of peers of every *)
(* node, its file, the bootstrap that loads it and exchanges lists with    *)
(* every peer, the rounds of sync_with_peers that end each visit with such *)
(* an exchange, and the routes /peers/exchange, /peers/add, /peers/remove  *)
(* and /peers/sync.  What a round does to the chain is ChainNode's.        *)
(*                                                                         *)
(* No lock guards the list or its file.  save_peers truncates the file as  *)
(* it opens it, walks the list, and writes at the close: HTTP workers and  *)
(* the bootstrap may do so at the same time.                               *)
(*                                                                         *)
(* A URL is a number: numbers are ordered as URLs are.  peers is a         *)
(* std::set, and a loop over it goes on with the next larger URL when      *)
(* others insert on the way; erasing the element under a cursor is         *)
(* undefined and left out.  No seed node is compiled in (p2p.h:13).        *)
(***************************************************************************)
EXTENDS Integers, FiniteSets, FiniteSetsExt

CONSTANTS
  Nodes,      \* the nodes, a set of positive numbers
  Cuts,       \* URLs of nobody: what is left of a line that a save cuts in two
  Main,       \* the thread main starts: bootstrap, then one round
  Helpers,    \* the threads /peers/sync starts
  Workers,    \* HTTP workers of each node: 16
  Listed,     \* the peers in each node's file at first
  Up,         \* the nodes that are through with start and first round at first
  Failing,    \* the nodes whose exchanges may time out, and that may restart
  Chosen,     \* <<node, peer>>: what /peers/add and /peers/remove are called with
  MaxAside    \* bound on timeouts, restarts and calls of these routes and /peers/sync

Urls    == Nodes \cup Cuts
Threads == Nodes \X ({Main} \cup Helpers)
Servers == Nodes \X Workers
Savers  == Nodes \X ({Main} \cup Workers)
NoOne   == <<0, Main>>

ASSUME GossipAssumption ==
  /\ Nodes \subseteq Nat \ {0} /\ Cuts \subseteq Nat \ ({0} \cup Nodes)
  /\ Main \notin Helpers \cup Workers
  /\ Listed \in [Nodes -> SUBSET Nodes]
  /\ Up \subseteq Nodes /\ Failing \subseteq Nodes
  /\ Chosen \subseteq Nodes \X Nodes /\ MaxAside \in Nat

VARIABLES
  peers,      \* P2P::peers
  peerFile,   \* data/peers.dat
  stage,      \* of each thread: "off", "visit", "waiting", "saving", "idle"
  kind,       \* the round the main thread of a node runs: "boot" or "sync"
  at,         \* the URL a thread's loop stands on, 0 before the first
  mail        \* exchanges under way: [by, to, list, answer, open]

VARIABLES
  save,       \* of each thread that saves: "none", "due" (not opened yet), "open"
  seen,       \* the list as it was when the open save began to walk it
  asker       \* the thread whose exchange a worker serves, or NoOne

VARIABLES
  kept,       \* history: what a route was told or a save wrote, and none removed since
  orderly,    \* history: saves came one after the other, after the load, and none was cut off
  started,    \* history: the list a node loaded, {} before
  smooth,     \* history: no timeout, restart or removal so far
  asides      \* how many of the events MaxAside bounds have happened

lists      == <<peers, peerFile>>
rounds     == <<stage, kind, at>>
saving     == <<save, seen, asker>>
history    == <<kept, orderly, started, smooth>>
gossipVars == <<lists, rounds, mail, saving, history, asides>>

Boot(n)  == <<n, Main>>
Exchange(t, p, list) == [by |-> t, to |-> p, list |-> list, answer |-> FALSE, open |-> TRUE]
Open(t)  == {m \in mail : m.by = t /\ m.open}
Unheard(t) == Open(t) = {} /\ \A w \in Servers : asker[w] # t
Ahead(t) == {p \in peers[t[1]] : p > at[t]}
Aside    == asides < MaxAside /\ asides' = asides + 1

------------------------------------------------------------------------------
(* save_peers                                                              *)

(* The file is truncated, and the walk over the list begins.               *)
OpenFile(h) ==
  LET n == h[1]
  IN /\ save' = [save EXCEPT ![h] = "open"]
     /\ seen' = [seen EXCEPT ![h] = peers[n]]
     /\ peerFile' = [peerFile EXCEPT ![n] = {}]
     /\ orderly' = [orderly EXCEPT ![n] =
          @ /\ stage[Boot(n)] # "off" /\ \A g \in Savers : g[1] = n => save[g] # "open"]

(* What the walk may have met, while others inserted and erased.           *)
Walked(h) ==
  LET before == seen[h]
      now    == peers[h[1]]
  IN {(before \cap now) \cup some : some \in SUBSET ((before \cup now) \ (before \cap now))}

(* The buffer is written over the beginning of the file: of what another   *)
(* save wrote meanwhile an end may stay, its first line cut.  An empty     *)
(* list writes nothing.                                                    *)
WriteFile(h) ==
  LET n == h[1]
      over == IF peerFile[n] = {} THEN {} ELSE peerFile[n] \cup Cuts
  IN /\ save[h] = "open"
     /\ save' = [save EXCEPT ![h] = "none"]
     /\ seen' = [seen EXCEPT ![h] = {}]
     /\ \E list \in Walked(h) : \E rest \in SUBSET over :
          /\ list = {} => rest = peerFile[n]
          /\ peerFile' = [peerFile EXCEPT ![n] = list \cup rest]
          /\ kept' = [kept EXCEPT ![n] = @ \cup (list \cap peers[n])]

------------------------------------------------------------------------------
(* The thread that main starts: bootstrap, then sync_with_peers; and the   *)
(* threads of /peers/sync, which run such a round next to it               *)

(* Three seconds after the start; the routes are served by then.           *)
Load(n) ==
  /\ stage[Boot(n)] = "off"
  /\ peers' = [peers EXCEPT ![n] = @ \cup peerFile[n]]
  /\ started' = [started EXCEPT ![n] = peers[n] \cup peerFile[n]]
  /\ stage' = [stage EXCEPT ![Boot(n)] = "visit"]
  /\ UNCHANGED <<peerFile, kind, at, mail, saving, kept, orderly, smooth, asides>>

(* Mutation: the loop begins after the first peer.                         *)
NextOfTwo(t) == IF at[t] = 0 /\ Cardinality(Ahead(t)) > 1 THEN Min(Ahead(t) \ {Min(Ahead(t))})
                ELSE Min(Ahead(t))

NextPeer(t) == Min(Ahead(t))

(* exchange_peers sends the list; nobody gets what is sent to a cut URL.   *)
Ask(t) ==
  /\ stage[t] = "visit" /\ Ahead(t) # {}
  /\ stage' = [stage EXCEPT ![t] = "waiting"]
  /\ at' = [at EXCEPT ![t] = NextPeer(t)]
  /\ mail' = mail \cup {Exchange(t, p, peers[t[1]]) : p \in {NextPeer(t)} \cap Nodes}
  /\ UNCHANGED <<lists, kind, saving, history, asides>>

(* A round of synchronisation leaves a peer without an exchange when the   *)
(* handshake fails and when the peer's chain has replaced the own one.     *)
Pass(t) ==
  /\ stage[t] = "visit" /\ (t = Boot(t[1]) => kind[t[1]] = "sync") /\ Ahead(t) # {}
  /\ at' = [at EXCEPT ![t] = NextPeer(t)]
  /\ UNCHANGED <<lists, stage, kind, mail, saving, history, asides>>

(* Mutation: the loop starts over when the list has grown.                 *)
LearnAndStartOver(t) ==
  \E m \in Open(t) :
    /\ m.answer
    /\ peers' = [peers EXCEPT ![t[1]] = @ \cup (m.list \ {at[t]})]
    /\ stage' = [stage EXCEPT ![t] = "visit"]
    /\ mail' = mail \ {m}
    /\ at' = [at EXCEPT ![t] = 0]
    /\ UNCHANGED <<peerFile, kind, saving, history, asides>>

Learn(t) ==
  \E m \in Open(t) :
    /\ m.answer
    /\ peers' = [peers EXCEPT ![t[1]] = @ \cup (m.list \ {at[t]})]
    /\ stage' = [stage EXCEPT ![t] = "visit"]
    /\ mail' = mail \ {m}
    /\ UNCHANGED <<peerFile, kind, at, saving, history, asides>>

(* Mutation: the connection stays open.                                    *)
AbandonOpen(t) ==
  /\ stage[t] = "waiting"
  /\ \/ Unheard(t) /\ UNCHANGED asides
     \/ ~Unheard(t) /\ t[1] \in Failing /\ Aside
  /\ stage' = [stage EXCEPT ![t] = "visit"]
  /\ smooth' = FALSE
  /\ UNCHANGED <<lists, kind, at, mail, saving, kept, orderly, started>>

(* No answer within 8 seconds, or no connection.  A request may have       *)
(* arrived all the same, and be served later.                              *)
Abandon(t) ==
  /\ stage[t] = "waiting"
  /\ \/ Unheard(t) /\ UNCHANGED asides
     \/ ~Unheard(t) /\ t[1] \in Failing /\ Aside
  /\ stage' = [stage EXCEPT ![t] = "visit"]
  /\ \E late \in SUBSET {m \in Open(t) : ~m.answer} :
       mail' = (mail \ Open(t)) \cup {[m EXCEPT !.open = FALSE] : m \in late}
  /\ asker' = [w \in Servers |-> IF asker[w] = t THEN NoOne ELSE asker[w]]
  /\ smooth' = FALSE
  /\ UNCHANGED <<lists, kind, at, save, seen, kept, orderly, started>>

(* The bootstrap has visited every peer and saves the list.                *)
SaveBootstrap(n) ==
  /\ stage[Boot(n)] = "visit" /\ kind[n] = "boot" /\ Ahead(Boot(n)) = {}
  /\ OpenFile(Boot(n))
  /\ stage' = [stage EXCEPT ![Boot(n)] = "saving"]
  /\ UNCHANGED <<peers, kind, at, mail, asker, kept, started, smooth, asides>>

EndBootstrap(n) ==
  /\ WriteFile(Boot(n))
  /\ kind' = [kind EXCEPT ![n] = "sync"]
  /\ at' = [at EXCEPT ![Boot(n)] = 0]
  /\ stage' = [stage EXCEPT ![Boot(n)] = IF peers[n] = {} THEN "idle" ELSE "visit"]
  /\ UNCHANGED <<peers, mail, asker, orderly, started, smooth, asides>>

EndSync(t) ==
  /\ stage[t] = "visit" /\ (t = Boot(t[1]) => kind[t[1]] = "sync") /\ Ahead(t) = {}
  /\ stage' = [stage EXCEPT ![t] = "idle"] /\ at' = [at EXCEPT ![t] = 0]
  /\ UNCHANGED <<lists, kind, mail, saving, history, asides>>

------------------------------------------------------------------------------
(* The routes                                                              *)

(* Mutation: the list is saved when more than one URL is new.              *)
ServeSavingMany(m, w) ==
  /\ ~m.answer /\ w[1] = m.to /\ save[w] = "none"
  /\ LET added == m.list \ peers[m.to]
     IN /\ peers' = [peers EXCEPT ![m.to] = @ \cup added]
        /\ kept' = [kept EXCEPT ![m.to] = @ \cup added]
        /\ IF Cardinality(added) < 2
           THEN /\ mail' = (mail \ {m}) \cup
                     IF m.open THEN {[m EXCEPT !.answer = TRUE, !.list = peers'[m.to]]} ELSE {}
                /\ UNCHANGED saving
           ELSE /\ mail' = mail \ {m}
                /\ save' = [save EXCEPT ![w] = "due"]
                /\ asker' = [asker EXCEPT ![w] = IF m.open THEN m.by ELSE NoOne]
                /\ UNCHANGED seen
  /\ UNCHANGED <<peerFile, rounds, orderly, started, smooth, asides>>

(* POST /peers/exchange.  A closed request gets its answer too; nobody     *)
(* reads it.                                                               *)
Serve(m, w) ==
  /\ ~m.answer /\ w[1] = m.to /\ save[w] = "none"
  /\ LET added == m.list \ peers[m.to]
     IN /\ peers' = [peers EXCEPT ![m.to] = @ \cup added]
        /\ kept' = [kept EXCEPT ![m.to] = @ \cup added]
        /\ IF added = {}
           THEN /\ mail' = (mail \ {m}) \cup
                     IF m.open THEN {[m EXCEPT !.answer = TRUE, !.list = peers[m.to]]} ELSE {}
                /\ UNCHANGED saving
           ELSE /\ mail' = mail \ {m}
                /\ save' = [save EXCEPT ![w] = "due"]
                /\ asker' = [asker EXCEPT ![w] = IF m.open THEN m.by ELSE NoOne]
                /\ UNCHANGED seen
  /\ UNCHANGED <<peerFile, rounds, orderly, started, smooth, asides>>

AddPeer(w, p) ==
  /\ Aside /\ save[w] = "none"
  /\ peers' = [peers EXCEPT ![w[1]] = @ \cup {p}]
  /\ kept' = [kept EXCEPT ![w[1]] = @ \cup {p}]
  /\ save' = [save EXCEPT ![w] = "due"]
  /\ UNCHANGED <<peerFile, rounds, mail, seen, asker, orderly, started, smooth>>

RemovePeer(w, p) ==
  /\ Aside /\ save[w] = "none" /\ \A t \in Threads : t[1] = w[1] => p # at[t]
  /\ peers' = [peers EXCEPT ![w[1]] = @ \ {p}]
  /\ kept' = [kept EXCEPT ![w[1]] = @ \ {p}]
  /\ save' = [save EXCEPT ![w] = "due"]
  /\ smooth' = FALSE
  /\ UNCHANGED <<peerFile, rounds, mail, seen, asker, orderly, started>>

OpenSave(w) ==
  /\ save[w] = "due"
  /\ OpenFile(w)
  /\ UNCHANGED <<peers, rounds, mail, asker, kept, started, smooth, asides>>

(* The save ends, and an exchange is answered with the list as it is now.  *)
EndSave(w) ==
  /\ WriteFile(w)
  /\ asker' = [asker EXCEPT ![w] = NoOne]
  /\ mail' = mail \cup {[Exchange(t, w[1], peers[w[1]]) EXCEPT !.answer = TRUE] :
                          t \in {asker[w]} \ {NoOne}}
  /\ UNCHANGED <<peers, rounds, orderly, started, smooth, asides>>

(* POST /peers/sync starts a round, whatever else runs.                    *)
SyncNow(t) ==
  /\ Aside /\ stage[t] = "idle" /\ t # Boot(t[1]) /\ peers[t[1]] # {}
  /\ stage' = [stage EXCEPT ![t] = "visit"]
  /\ UNCHANGED <<lists, kind, at, mail, saving, history>>

(* The process ends and starts again: the list is what the file holds once *)
(* it is loaded.  What it had been asked is lost, what it asked may still  *)
(* be served, and a save that has not been written never is.               *)
RestartNode(n) ==
  /\ stage[Boot(n)] # "off" /\ n \in Failing /\ Aside
  /\ peers' = [peers EXCEPT ![n] = {}] /\ started' = [started EXCEPT ![n] = {}]
  /\ stage' = [t \in Threads |-> IF t[1] # n THEN stage[t]
                                 ELSE IF t = Boot(n) THEN "off" ELSE "idle"]
  /\ kind' = [kind EXCEPT ![n] = "boot"]
  /\ at' = [t \in Threads |-> IF t[1] = n THEN 0 ELSE at[t]]
  /\ mail' = {m \in mail : m.to # n /\ m.by[1] # n}
             \cup {[m EXCEPT !.open = FALSE] :
                     m \in {m \in mail : m.by[1] = n /\ m.to # n /\ ~m.answer}}
  /\ orderly' = [orderly EXCEPT ![n] = @ /\ \A h \in Savers : h[1] = n => save[h] = "none"]
  /\ save' = [h \in Savers |-> IF h[1] = n THEN "none" ELSE save[h]]
  /\ seen' = [h \in Savers |-> IF h[1] = n THEN {} ELSE seen[h]]
  /\ asker' = [w \in Servers |-> IF w[1] = n \/ asker[w][1] = n THEN NoOne ELSE asker[w]]
  /\ smooth' = FALSE
  /\ UNCHANGED <<peerFile, kept>>

GossipInit ==
  /\ peers = [n \in Nodes |-> IF n \in Up THEN Listed[n] ELSE {}] /\ peerFile = Listed
  /\ stage = [t \in Threads |-> IF t = Boot(t[1]) /\ t[1] \notin Up THEN "off" ELSE "idle"]
  /\ kind = [n \in Nodes |-> IF n \in Up THEN "sync" ELSE "boot"] /\ at = [t \in Threads |-> 0] /\ mail = {}
  /\ save = [h \in Savers |-> "none"] /\ seen = [h \in Savers |-> {}]
  /\ asker = [w \in Servers |-> NoOne]
  /\ kept = Listed /\ orderly = [n \in Nodes |-> TRUE]
  /\ started = [n \in Nodes |-> {}] /\ smooth = TRUE
  /\ asides = 0

GossipNext ==
  \/ \E n \in Nodes : Load(n) \/ SaveBootstrap(n) \/ EndBootstrap(n) \/ RestartNode(n)
  \/ \E t \in Threads :
       Ask(t) \/ Pass(t) \/ Learn(t) \/ Abandon(t) \/ EndSync(t) \/ SyncNow(t)
  \/ \E w \in Servers :
       \/ OpenSave(w) \/ EndSave(w)
       \/ \E m \in mail : Serve(m, w)
       \/ \E c \in Chosen : c[1] = w[1] /\ (AddPeer(w, c[2]) \/ RemovePeer(w, c[2]))

(* The threads of a node run, its HTTP workers serve, and a timeout bounds *)
(* every exchange.                                                         *)
Round(t) ==
  \/ Ask(t) \/ Learn(t) \/ EndSync(t) \/ (Unheard(t) /\ Abandon(t))
Bootstrap(n) == Load(n) \/ SaveBootstrap(n) \/ EndBootstrap(n)
Answering(t) == \E m \in mail, w \in Servers : m.by = t /\ Serve(m, w)
Saving(w) == OpenSave(w) \/ EndSave(w)

GossipSpec ==
  /\ GossipInit /\ [][GossipNext]_gossipVars
  /\ \A n \in Nodes : WF_gossipVars(Bootstrap(n))
  /\ \A t \in Threads : WF_gossipVars(Round(t)) /\ WF_gossipVars(Answering(t))
  /\ \A w \in Servers : WF_gossipVars(Saving(w))

------------------------------------------------------------------------------
(* Properties                                                              *)

(* The type invariant; a thread has one exchange under way, and only while
   it waits for it. *)
GossipTypeOK ==
  /\ peers \in [Nodes -> SUBSET Urls] /\ peerFile \in [Nodes -> SUBSET Urls]
  /\ stage \in [Threads -> {"off", "visit", "waiting", "saving", "idle"}]
  /\ kind \in [Nodes -> {"boot", "sync"}]
  /\ at \in [Threads -> Urls \cup {0}]
  /\ mail \subseteq [by : Threads, to : Nodes, list : SUBSET Urls,
                     answer : BOOLEAN, open : BOOLEAN]
  /\ save \in [Savers -> {"none", "due", "open"}] /\ seen \in [Savers -> SUBSET Urls]
  /\ asker \in [Servers -> Threads \cup {NoOne}]
  /\ kept \in [Nodes -> SUBSET Urls] /\ orderly \in [Nodes -> BOOLEAN]
  /\ started \in [Nodes -> SUBSET Urls] /\ smooth \in BOOLEAN
  /\ asides \in 0 .. MaxAside
  /\ \A t \in Threads : Open(t) # {} =>
       /\ stage[t] = "waiting" /\ \E m \in Open(t) : Open(t) = {m} /\ m.to = at[t]
       /\ \A w \in Servers : asker[w] # t

(* What a route was told, and what any save wrote, is in the file whenever the
   node saves nothing, unless it was removed.  The code keeps this only as long
   as the saves of a node come one after the other, none begins before the
   bootstrap has loaded the file, and none is cut off by a stop. *)
SavedStays(n) == (\A h \in Savers : h[1] = n => save[h] = "none") => kept[n] \subseteq peerFile[n]
EverySaveStays == \A n \in Nodes : SavedStays(n)

(* As long as that is so, nothing gets lost, although routes insert into the
   list that a save walks, exchanges add to it what nobody saves, and the node
   restarts (p2p.cpp:69). *)
OrderlySavesStay == \A n \in Nodes : orderly[n] => SavedStays(n)

(* A bootstrap no exchange of which failed has told every peer it started with
   of every other (p2p.cpp:250, "Troca peers com todos os nos ja conhecidos"),
   although the list grows under its loop and its peers boot and learn at the
   same time. *)
BootstrapSpreads ==
  smooth => \A n \in Nodes : kind[n] = "sync" =>
    \A p \in started[n] \cap Nodes : started[n] \subseteq peers[p]

(* Every round comes to its end: what the exchanges add to the list behind the
   cursor is left for the next round, what they add ahead of it is finite. *)
RoundEnds == \A t \in Threads : stage[t] # "idle" ~> stage[t] = "idle"
==============================================================================

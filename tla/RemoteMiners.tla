------------------------------ MODULE RemoteMiners ------------------------------
(***************************************************************************)
(* Miners outside the node (src/miner.py, and mine looping of              *)
(* src/mazechain_client.py): each fetches a template from                  *)
(* /getblocktemplate, searches, posts what it finds to /block, and counts  *)
(* the block when the answer is "accepted".  The node serves them on its   *)
(* HTTP workers and mines on its own; blocks are only appended here, a     *)
(* reorganisation is ChainNode's.                                          *)
(*                                                                         *)
(* A block found is [by, at, nr]: its miner, its height, and a number that *)
(* tells two blocks of one miner and height apart.                         *)
(***************************************************************************)
EXTENDS Integers, Sequences, FiniteSets

CONSTANTS
  Remotes,    \* the remote miners
  Misdating,  \* those whose clock may make addBlock refuse their timestamps
  Home,       \* the maker of the blocks the node mines itself
  LastHeight, \* bound on heights
  MaxLost     \* bound on requests that time out

ASSUME RemoteAssumption ==
  /\ Misdating \subseteq Remotes /\ Home \notin Remotes
  /\ LastHeight \in Nat /\ MaxLost \in Nat

VARIABLES
  blocks,   \* Blockchain::chain: [id, prev] of each block
  doingNow, \* of each miner: "fetching", "served", "searching" or "posting"
  template, \* the template it has, [index, prev]
  posted,   \* POST /block under way: [id, prev, reply, passed, open]
  counted,  \* blocks_found: what it was told is accepted
  lost,     \* how many requests timed out
  orderly   \* history: every block that passed the checks was appended

remoteVars == <<blocks, doingNow, template, posted, counted, lost, orderly>>

GenesisId == [by |-> Home, at |-> 0, nr |-> 0]
Top       == blocks[Len(blocks)].id
InChain   == {blocks[i].id : i \in 1 .. Len(blocks)}
Open(r)   == {m \in posted : m.id.by = r /\ m.open}

(* Three numbers are enough: one block in the chain, one in a request that *)
(* was given up, one new.                                                  *)
Unused(r, h) ==
  {nr \in 0 .. MaxLost + 1 :
     [by |-> r, at |-> h, nr |-> nr] \notin InChain \cup counted \cup {m.id : m \in posted}}

------------------------------------------------------------------------------
(* The miner                                                               *)

(* GET /getblocktemplate reads the height, then the hash of the last       *)
(* block, without the mutex.                                               *)
FetchIndex(r) ==
  /\ doingNow[r] = "fetching" /\ Len(blocks) <= LastHeight
  /\ template' = [template EXCEPT ![r] = [index |-> Len(blocks), prev |-> GenesisId]]
  /\ doingNow' = [doingNow EXCEPT ![r] = "served"]
  /\ UNCHANGED <<blocks, posted, counted, lost, orderly>>

FetchPrev(r) ==
  /\ doingNow[r] = "served"
  /\ template' = [template EXCEPT ![r].prev = Top]
  /\ doingNow' = [doingNow EXCEPT ![r] = "searching"]
  /\ UNCHANGED <<blocks, posted, counted, lost, orderly>>

Find(r) ==
  /\ doingNow[r] = "searching"
  /\ \E nr \in Unused(r, template[r].index) :
       /\ \A less \in Unused(r, template[r].index) : nr <= less
       /\ posted' = posted \cup
            {[id |-> [by |-> r, at |-> template[r].index, nr |-> nr],
              prev |-> template[r].prev, reply |-> "none", passed |-> FALSE, open |-> TRUE]}
  /\ doingNow' = [doingNow EXCEPT ![r] = "posting"]
  /\ UNCHANGED <<blocks, template, counted, lost, orderly>>

(* 15 seconds without a block.                                             *)
Refresh(r) ==
  /\ doingNow[r] = "searching"
  /\ doingNow' = [doingNow EXCEPT ![r] = "fetching"]
  /\ UNCHANGED <<blocks, template, posted, counted, lost, orderly>>

(* Mutation: after a refusal the next block is sought on the same template. *)
ReadReplyKeeping(r) ==
  \E m \in Open(r) :
    /\ m.reply # "none"
    /\ counted' = IF m.reply = "accepted" /\ orderly THEN counted \cup {m.id} ELSE counted
    /\ posted' = posted \ {m}
    /\ doingNow' = [doingNow EXCEPT ![r] = IF m.reply = "accepted" THEN "fetching" ELSE "searching"]
    /\ UNCHANGED <<blocks, template, lost, orderly>>

(* Mutation: whatever the node has at that height is counted.              *)
ReadReplyGladly(r) ==
  \E m \in Open(r) :
    /\ m.reply # "none"
    /\ counted' = IF m.reply # "refused" /\ orderly THEN counted \cup {m.id} ELSE counted
    /\ posted' = posted \ {m}
    /\ doingNow' = [doingNow EXCEPT ![r] = "fetching"]
    /\ UNCHANGED <<blocks, template, lost, orderly>>

(* A refusal is text, which the miner fails to read as JSON: it waits and  *)
(* goes on like after any other answer.  What is counted is kept up to the *)
(* first disorder only, which is all AcceptedIsMined needs.                *)
ReadReply(r) ==
  \E m \in Open(r) :
    /\ m.reply # "none"
    /\ counted' = IF m.reply = "accepted" /\ orderly THEN counted \cup {m.id} ELSE counted
    /\ posted' = posted \ {m}
    /\ doingNow' = [doingNow EXCEPT ![r] = "fetching"]
    /\ UNCHANGED <<blocks, template, lost, orderly>>

(* No connection, or no answer within 10 seconds; the node may serve the   *)
(* request all the same.  The block is forgotten.                          *)
GiveUpPost(r) ==
  /\ lost < MaxLost /\ lost' = lost + 1
  /\ \E m \in Open(r) :
       posted' = (posted \ {m}) \cup
                 IF m.reply = "none" THEN {[m EXCEPT !.open = FALSE]} ELSE {}
  /\ doingNow' = [doingNow EXCEPT ![r] = "fetching"]
  /\ UNCHANGED <<blocks, template, counted, orderly>>

(* A request that never arrived.                                           *)
Vanish ==
  /\ \E m \in posted : ~m.open /\ ~m.passed /\ posted' = posted \ {m}
  /\ UNCHANGED <<blocks, doingNow, template, counted, lost, orderly>>

------------------------------------------------------------------------------
(* The node                                                                *)

Reply(m, text) ==
  posted' = (posted \ {m}) \cup
            IF m.open THEN {[m EXCEPT !.reply = text, !.passed = FALSE]} ELSE {}

(* The checks of POST /block, without the mutex.                           *)
CheckPosted(m) ==
  /\ m.reply = "none" /\ ~m.passed
  /\ CASE m.id.at < Len(blocks) -> Reply(m, "already_have")
       [] m.id.at > Len(blocks) \/ (m.id.at = Len(blocks) /\ m.prev # Top) -> Reply(m, "refused")
       [] OTHER -> posted' = (posted \ {m}) \cup {[m EXCEPT !.passed = TRUE]}
  /\ UNCHANGED <<blocks, doingNow, template, counted, lost, orderly>>

(* Mutation: addBlock does not compare the height again.                   *)
AddPostedAnywhere(m) ==
  /\ m.passed
  /\ blocks' = Append(blocks, [id |-> m.id, prev |-> m.prev])
  /\ Reply(m, "accepted")
  /\ UNCHANGED <<doingNow, template, counted, lost, orderly>>

(* addBlock appends the block or drops it; the answer is "accepted".       *)
AddPosted(m) ==
  /\ m.passed
  /\ \/ /\ m.id.at = Len(blocks)
        /\ blocks' = Append(blocks, [id |-> m.id, prev |-> m.prev])
        /\ UNCHANGED orderly
     \/ /\ m.id.at < Len(blocks) \/ m.id.by \in Misdating
        /\ orderly' = FALSE /\ UNCHANGED blocks
  /\ Reply(m, "accepted")
  /\ UNCHANGED <<doingNow, template, counted, lost>>

MineAtHome ==
  /\ Len(blocks) <= LastHeight
  /\ blocks' = Append(blocks, [id |-> [by |-> Home, at |-> Len(blocks), nr |-> 0], prev |-> Top])
  /\ UNCHANGED <<doingNow, template, posted, counted, lost, orderly>>

RemoteInit ==
  /\ blocks = <<[id |-> GenesisId, prev |-> GenesisId]>>
  /\ doingNow = [r \in Remotes |-> "fetching"]
  /\ template = [r \in Remotes |-> [index |-> 0, prev |-> GenesisId]]
  /\ posted = {} /\ counted = {} /\ lost = 0 /\ orderly = TRUE

RemoteNext ==
  \/ \E r \in Remotes :
       \/ FetchIndex(r) \/ FetchPrev(r) \/ Find(r) \/ Refresh(r)
       \/ ReadReply(r) \/ GiveUpPost(r)
  \/ \E m \in posted : CheckPosted(m) \/ AddPosted(m)
  \/ Vanish \/ MineAtHome

(* A miner goes through its loop, its search succeeds if it may begin      *)
(* again and again, and the node's workers serve.                          *)
RemoteStep(r) == FetchIndex(r) \/ FetchPrev(r) \/ Refresh(r) \/ ReadReply(r)
ServeStep(r)  == \E m \in posted : m.id.by = r /\ (CheckPosted(m) \/ AddPosted(m))

RemoteSpec ==
  /\ RemoteInit /\ [][RemoteNext]_remoteVars
  /\ \A r \in Remotes :
       /\ WF_remoteVars(RemoteStep(r)) /\ SF_remoteVars(Find(r))
       /\ WF_remoteVars(ServeStep(r))

------------------------------------------------------------------------------
(* Properties                                                              *)

(* The type invariant; a miner has one request open, and only while it waits
   for its answer. *)
RemoteTypeOK ==
  /\ doingNow \in [Remotes -> {"fetching", "served", "searching", "posting"}]
  /\ \A i \in 1 .. Len(blocks) : blocks[i].id.at = i - 1
  /\ \A r \in Remotes :
       /\ template[r].index \in 0 .. LastHeight
       /\ Cardinality(Open(r)) = IF doingNow[r] = "posting" THEN 1 ELSE 0
  /\ lost \in 0 .. MaxLost /\ orderly \in BOOLEAN

(* Each block of the chain names the one under it, although a template joins
   a height and a hash read at different moments (main.cpp:1425) and a request
   may be served long after its miner gave it up. *)
PostedIsLinked == \A i \in 2 .. Len(blocks) : blocks[i].prev = blocks[i - 1].id

(* What a miner counts is in the chain (miner.py:147), as long as no block was
   dropped between the checks of the route and addBlock (main.cpp:1079):
   after that the answer is still "accepted". *)
AcceptedIsMined == orderly => counted \subseteq InChain

(* Both together: what the node tells remote miners of their blocks is true,
   and what it appends for them fits. *)
MinersAreServed == PostedIsLinked /\ AcceptedIsMined

(* The chain goes on as long as one miner with a good clock runs, also if the
   node mines nothing: stale templates, refusals, lost answers and drops all
   lead back to a new template. *)
RemotesAdvance ==
  Misdating # Remotes =>
    \A h \in 1 .. LastHeight : Len(blocks) = h ~> Len(blocks) > h
==============================================================================

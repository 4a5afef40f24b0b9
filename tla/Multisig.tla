------------------------------- MODULE Multisig -------------------------------
(***************************************************************************)
(* Transactions that wait for M signatures (include/multisig.h) and the    *)
(* routes /multisig/propose, /sign and /broadcast (api/main.cpp).  All of  *)
(* them work on one file, data/multisig_pending.dat, which sign and        *)
(* broadcast load, truncate and write back without a lock, on any of the   *)
(* HTTP workers.                                                           *)
(*                                                                         *)
(* A file is the sequence of its lines.  Writers that overlap write over   *)
(* each other from offset 0, so what a shorter write leaves is an end of   *)
(* the longer one, with its first line cut in two; where the cut falls     *)
(* depends on the lengths of addresses and amounts, which are left out: it *)
(* may fall anywhere, and what is left of a line may well be a record.     *)
(***************************************************************************)
EXTENDS Integers, Sequences, FiniteSets, SequencesExt

CONSTANTS
  Worker,     \* HTTP workers: 16 in the code
  Txid,       \* ids of proposals: a hash of from, to, amount and the second
  Scrap,      \* what a cut line has for an id
  Threshold,  \* the M a proposal may ask for
  Clock,      \* a time stamp, in seconds
  Signer,     \* addresses that sign
  None,       \* no proposal
  MaxRequests \* bound on the requests of a behaviour

(* Nothing checks the M of a request, which may be 0 or negative.          *)
ASSUME MultisigAssumption ==
  /\ IsFiniteSet(Signer)
  /\ Threshold \subseteq Int
  /\ Clock \in Nat
  /\ Txid \cap Scrap = {}
  /\ None \notin Txid \cup Scrap
  /\ MaxRequests \in Nat

Id == Txid \cup Scrap

VARIABLES
  pending,  \* the lines of multisig_pending.dat, in order
  mempool,  \* ids appended to mempool.dat, in order
  pc,       \* of each worker: idle, truncate, write, send, reload
  txid,     \* the id in its request
  signer,   \* the signer in its request
  all       \* the records it loaded and is about to write

VARIABLES
  proposed,     \* history: the proposals answered, <<id, M>>
  asked,        \* history: the signatures signers asked to add
  requests,     \* how many requests have been made
  acknowledged, \* history: the signatures whose request was answered
  calm          \* history: no two requests overlapped, none was cut off,
                \* and no proposal was repeated within its second

file    == <<pending, mempool>>
sigVars == <<file, pc, txid, signer, all, requests, proposed, asked,
             acknowledged, calm>>

(* A line: the signatures are counted, the signers listed.                 *)
Record == [txid : Id, required : Int, collected_sigs : Nat, signed_by : SUBSET Signer]

------------------------------------------------------------------------------
(* Records                                                                 *)

(* The line a loop over the records stops at: the first of this id.        *)
IsFirst(i, t) ==
  /\ i \in DOMAIN pending /\ pending[i].txid = t
  /\ \A j \in DOMAIN pending : pending[j].txid = t => i <= j

(* Mutation: addSignature does not look for the signer.                    *)
HasSignedNever(r, s) == FALSE

HasSigned(r, s) == s \in r.signed_by

Signed(r, s) ==
  [r EXCEPT !.collected_sigs = @ + 1, !.signed_by = @ \cup {s}]

(* Mutation: the record stays.                                             *)
WithoutNone(t, lines) == lines

(* Mutation: the record stays and all others go.                           *)
WithoutOthers(t, lines) ==
  FoldLeft(LAMBDA out, r : IF r.txid = t THEN Append(out, r) ELSE out, << >>, lines)

Without(t, lines) ==
  FoldLeft(LAMBDA out, r : IF r.txid = t THEN out ELSE Append(out, r), << >>, lines)

IsReady(r) == r.collected_sigs >= r.required

Alone(w) == \A v \in Worker \ {w} : pc[v] = "idle"

Continue(w) == calm' = (calm /\ Alone(w)) /\ UNCHANGED requests

Request == requests < MaxRequests /\ requests' = requests + 1

------------------------------------------------------------------------------
(* POST /multisig/propose: one line is appended.  Proposals of one second  *)
(* that differ in M alone, or not at all, have one id.                     *)
Propose(w, t, m) ==
  /\ pc[w] = "idle"
  /\ proposed' = proposed \cup {<<t, m>>}
  /\ pending' = Append(pending,
       [txid |-> t, required |-> m, collected_sigs |-> 0, signed_by |-> {}])
  /\ Request
  /\ calm' = (calm /\ Alone(w) /\ \A p \in proposed : p[1] # t)
  /\ UNCHANGED <<mempool, pc, txid, signer, all, asked, acknowledged>>

(* POST /multisig/sign: addSignature loads the file.  A second signature of *)
(* one signer is an error; an unknown id still has the file rewritten.     *)
SignLoad(w, t, s) ==
  /\ pc[w] = "idle"
  /\ \/ /\ \A i \in DOMAIN pending : pending[i].txid # t
        /\ all' = [all EXCEPT ![w] = pending]
     \/ \E i \in DOMAIN pending :
          /\ IsFirst(i, t) /\ ~HasSigned(pending[i], s)
          /\ all' = [all EXCEPT ![w] = [pending EXCEPT ![i] = Signed(pending[i], s)]]
  /\ pc' = [pc EXCEPT ![w] = "truncate"]
  /\ txid' = [txid EXCEPT ![w] = t]
  /\ signer' = [signer EXCEPT ![w] = s]
  /\ asked' = asked \cup {<<t, s>>}
  /\ Request /\ calm' = (calm /\ Alone(w))
  /\ UNCHANGED <<file, proposed, acknowledged>>

(* removePending and addSignature end alike: the stream opens the file with *)
(* trunc and its buffer is written when it is closed.                      *)
Truncate(w) ==
  /\ pc[w] = "truncate"
  /\ pc' = [pc EXCEPT ![w] = "write"]
  /\ pending' = << >>
  /\ Continue(w)
  /\ UNCHANGED <<mempool, proposed, txid, signer, all, asked, acknowledged>>

(* What loadPending makes of a line that lost its first k separators: of    *)
(* txid|from|to|amount|required|timestamp, the signatures and the signers,  *)
(* at least six fields must be left.  The fifth of them is the threshold:   *)
(* what cannot be read as a number is 1 (multisig.h:108).                  *)
Tails(r, k) ==
  LET sigs    == r.collected_sigs
      signers == Cardinality(r.signed_by)
  IN {[txid           |-> id,
       required       |-> IF k = 0 THEN r.required ELSE IF k = 1 THEN Clock ELSE 1,
       collected_sigs |-> IF k <= sigs THEN sigs - k ELSE 0,
       signed_by      |-> left] :
        id \in Scrap,
        left \in {l \in SUBSET r.signed_by :
                    Cardinality(l) = IF k <= sigs THEN signers ELSE sigs + signers - k}}

(* The end of the file, from the line on where a shorter write ends.       *)
Ends ==
  LET after(i) == SubSeq(pending, i + 1, Len(pending))
      cuts(i)  == UNION {Tails(pending[i], k) :
                           k \in 0 .. pending[i].collected_sigs
                                     + Cardinality(pending[i].signed_by)}
  IN {<< >>} \cup UNION {
       {after(i)} \cup {<<c>> \o after(i) : c \in cuts(i)} : i \in DOMAIN pending}

Overwritten(lines) ==
  IF lines = << >> THEN {pending} ELSE {lines \o end : end \in Ends}

Write(w) ==
  /\ pc[w] = "write"
  /\ pc' = [pc EXCEPT ![w] = "idle"]
  /\ pending' \in Overwritten(all[w])
  /\ all' = [all EXCEPT ![w] = << >>]
  /\ txid' = [txid EXCEPT ![w] = None]
  /\ signer' = [signer EXCEPT ![w] = None]
  /\ acknowledged' = acknowledged \cup
       {<<txid[w], s>> : s \in {x \in {signer[w]} \ {None} :
          \E i \in DOMAIN all[w] : all[w][i].txid = txid[w]}}
  /\ Continue(w)
  /\ UNCHANGED <<mempool, proposed, asked>>

(* POST /multisig/broadcast: not found and too few signatures are errors,  *)
(* of the first record of the id.                                          *)
BroadcastLoad(w, t) ==
  /\ pc[w] = "idle"
  /\ \E i \in DOMAIN pending :
       IsFirst(i, t) /\ IsReady(pending[i]) /\ pending[i].collected_sigs > 0
  /\ pc' = [pc EXCEPT ![w] = "send"]
  /\ txid' = [txid EXCEPT ![w] = t]
  /\ Request /\ calm' = (calm /\ Alone(w))
  /\ UNCHANGED <<file, signer, all, proposed, asked, acknowledged>>

Send(w) ==
  /\ pc[w] = "send"
  /\ pc' = [pc EXCEPT ![w] = "reload"]
  /\ mempool' = Append(mempool, txid[w])
  /\ Continue(w)
  /\ UNCHANGED <<pending, proposed, txid, signer, all, asked, acknowledged>>

(* Mutation: the id of the request is dropped before the file is rewritten. *)
ReloadForgetting(w) ==
  /\ pc[w] = "reload"
  /\ pc' = [pc EXCEPT ![w] = "truncate"]
  /\ all' = [all EXCEPT ![w] = Without(txid[w], pending)]
  /\ txid' = [txid EXCEPT ![w] = None]
  /\ Continue(w)
  /\ UNCHANGED <<file, signer, proposed, asked, acknowledged>>

(* removePending loads the file again.                                     *)
Reload(w) ==
  /\ pc[w] = "reload"
  /\ pc' = [pc EXCEPT ![w] = "truncate"]
  /\ all' = [all EXCEPT ![w] = Without(txid[w], pending)]
  /\ Continue(w)
  /\ UNCHANGED <<file, txid, signer, proposed, asked, acknowledged>>

(* The process ends and starts again; the files stay as they are.          *)
RestartWorkers ==
  /\ pc' = [w \in Worker |-> "idle"]
  /\ txid' = [w \in Worker |-> None]
  /\ signer' = [w \in Worker |-> None]
  /\ all' = [w \in Worker |-> << >>]
  /\ calm' = (calm /\ \A w \in Worker : pc[w] = "idle")
  /\ UNCHANGED <<file, requests, proposed, asked, acknowledged>>

(* A record that asks for no signature and has none is ready: its first    *)
(* signature (api/main.cpp:1334) is read of an empty vector, at address 0,  *)
(* which ends the process.                                                 *)
BroadcastUnsigned(w, t) ==
  /\ pc[w] = "idle"
  /\ \E i \in DOMAIN pending :
       IsFirst(i, t) /\ IsReady(pending[i]) /\ pending[i].collected_sigs = 0
  /\ RestartWorkers

------------------------------------------------------------------------------
SigInit ==
  /\ pending = << >> /\ mempool = << >> /\ proposed = {}
  /\ pc = [w \in Worker |-> "idle"]
  /\ txid = [w \in Worker |-> None]
  /\ signer = [w \in Worker |-> None]
  /\ all = [w \in Worker |-> << >>]
  /\ requests = 0 /\ asked = {} /\ acknowledged = {} /\ calm = TRUE

Step(w) ==
  \/ \E t \in Txid, m \in Threshold : Propose(w, t, m)
  \/ \E t \in Id : BroadcastLoad(w, t) \/ BroadcastUnsigned(w, t)
  \/ \E t \in Id, s \in Signer : SignLoad(w, t, s)
  \/ Send(w) \/ Reload(w) \/ Truncate(w) \/ Write(w)

SigNext == (\E w \in Worker : Step(w)) \/ RestartWorkers

SigSpec == SigInit /\ [][SigNext]_sigVars

------------------------------------------------------------------------------
(* Properties                                                              *)

(* Types, and a request is under way for an id. *)
SigTypeOK ==
  /\ pending \in Seq(Record)
  /\ mempool \in Seq(Id)
  /\ proposed \subseteq Txid \X Threshold
  /\ pc \in [Worker -> {"idle", "truncate", "write", "send", "reload"}]
  /\ txid \in [Worker -> Id \cup {None}]
  /\ signer \in [Worker -> Signer \cup {None}]
  /\ all \in [Worker -> Seq(Record)]
  /\ requests \in Nat
  /\ asked \subseteq Id \X Signer
  /\ acknowledged \subseteq Id \X Signer
  /\ calm \in BOOLEAN
  /\ \A w \in Worker : pc[w] # "idle" => txid[w] \in Id

Broadcast == {mempool[i] : i \in DOMAIN mempool}

Proposals == {p[1] : p \in proposed}

(* However the requests overlap, and whatever they overwrite, a proposal
   enters the mempool only after M different signers asked to sign it
   (multisig.h:5, "requerem M assinaturas de um total de N"), M being one it
   was proposed with; and until requests overlap, nothing enters but what was
   proposed.  After that, what is left of a cut line may be broadcast. *)
BroadcastIsApproved ==
  /\ \A t \in Broadcast \cap Txid :
       \E p \in proposed :
         p[1] = t /\ Cardinality({s \in Signer : <<t, s>> \in asked}) >= p[2]
  /\ calm => Broadcast \subseteq Proposals

(* Stronger than the code, which does not keep it: a cut line may be ready.
Nothing is broadcast that was not proposed. *)
OnlyProposalsBroadcast == Broadcast \subseteq Proposals

Quiet == \A w \in Worker : pc[w] = "idle"

(* As long as no two requests overlapped, every proposal is on file, with
   each signature that was acknowledged, until it is broadcast. *)
KeptWhileCalm ==
  calm /\ Quiet =>
    \A t \in Proposals \ Broadcast :
      \E i \in DOMAIN pending : pending[i].txid = t /\ \A s \in Signer :
        <<t, s>> \in acknowledged => s \in pending[i].signed_by

(* As long as no two requests overlapped, nothing is broadcast twice. *)
SentOnceWhileCalm ==
  calm => \A i, j \in DOMAIN mempool : i # j => mempool[i] # mempool[j]

(* Requests that do not overlap neither lose a signature nor send twice. *)
CalmIsSafe == KeptWhileCalm /\ SentOnceWhileCalm
=============================================================================

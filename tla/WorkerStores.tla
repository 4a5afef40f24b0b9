------------------------------ MODULE WorkerStores ------------------------------
(***************************************************************************)
(* Two small stores in memory that HTTP workers share:                     *)
(*   - the labels of addresses with their file (POST /wallet/label,        *)
(*     wallet_features.h), where setLabel and saveLabels each take         *)
(*     g_labelMutex but not for both,                                      *)
(*   - g_extraNonce1 (GET /mining/template, extra_nonce.h), an atomic that *)
(*     a worker increments and then loads twice.                           *)
(* At start both are empty: loadLabels has no caller.                      *)
(***************************************************************************)
EXTENDS Integers, FiniteSetsExt

CONSTANTS
  Desks,      \* the workers
  Addresses,  \* addresses that are labelled
  Labels,     \* labels given to them
  NoLabel,    \* no entry
  NonceRange, \* 2^32 in the code
  MaxCalls,   \* bound on requests
  MaxStops    \* bound on restarts

ASSUME StoreAssumption ==
  /\ NoLabel \notin Labels /\ NonceRange \in Nat \ {0}
  /\ MaxCalls \in Nat /\ MaxCalls < NonceRange /\ MaxStops \in Nat

VARIABLES
  labels,      \* g_labels
  labelFile,   \* data/labels.dat
  labelMutex,  \* the workers that hold g_labelMutex between two steps: at most one
  extraNonce1, \* g_extraNonce1
  desk,        \* of each worker: [at, address, floor, hex, id]
  highest,     \* history: the largest extra nonce answered since the start
  calls, stops

storeVars == <<labels, labelFile, labelMutex, extraNonce1, desk, highest, calls, stops>>

Idle       == [at |-> "idle", address |-> NoLabel, floor |-> 0, hex |-> 0, id |-> 0]
NoLabels   == [a \in Addresses |-> NoLabel]
Call(w)    == desk[w].at = "idle" /\ calls < MaxCalls /\ calls' = calls + 1
Turn(w, to) == desk' = [desk EXCEPT ![w].at = to]

------------------------------------------------------------------------------
(* POST /wallet/label                                                      *)

SetLabel(w, a, l) ==
  /\ Call(w) /\ labelMutex = {}
  /\ labels' = [labels EXCEPT ![a] = l]
  /\ desk' = [desk EXCEPT ![w] = [Idle EXCEPT !.at = "save", !.address = a]]
  /\ UNCHANGED <<labelFile, labelMutex, extraNonce1, highest, stops>>

(* saveLabels opens the file, which empties it.                            *)
OpenLabels(w) ==
  /\ desk[w].at = "save" /\ labelMutex = {}
  /\ labelMutex' = {w} /\ labelFile' = NoLabels
  /\ Turn(w, "write")
  /\ UNCHANGED <<labels, extraNonce1, highest, calls, stops>>

(* Mutation: only the label of the request is written.                     *)
WriteOwnLabel(w) ==
  /\ desk[w].at = "write"
  /\ labelFile' = [labelFile EXCEPT ![desk[w].address] = labels[desk[w].address]]
  /\ labelMutex' = {}
  /\ desk' = [desk EXCEPT ![w] = Idle]
  /\ UNCHANGED <<labels, extraNonce1, highest, calls, stops>>

WriteLabels(w) ==
  /\ desk[w].at = "write"
  /\ labelFile' = labels /\ labelMutex' = {}
  /\ desk' = [desk EXCEPT ![w] = Idle]
  /\ UNCHANGED <<labels, extraNonce1, highest, calls, stops>>

------------------------------------------------------------------------------
(* GET /mining/template                                                    *)

(* Mutation: a request does not advance the counter.                       *)
NextExtraNonceNever(w) ==
  /\ Call(w)
  /\ desk' = [desk EXCEPT ![w] = [Idle EXCEPT !.at = "hex", !.floor = highest]]
  /\ UNCHANGED <<labels, labelFile, labelMutex, extraNonce1, highest, stops>>

NextExtraNonce(w) ==
  /\ Call(w)
  /\ extraNonce1' = (extraNonce1 + 1) % NonceRange
  /\ desk' = [desk EXCEPT ![w] = [Idle EXCEPT !.at = "hex", !.floor = highest]]
  /\ UNCHANGED <<labels, labelFile, labelMutex, highest, stops>>

LoadHex(w) ==
  /\ desk[w].at = "hex"
  /\ desk' = [desk EXCEPT ![w] = [@ EXCEPT !.at = "id", !.hex = extraNonce1]]
  /\ UNCHANGED <<labels, labelFile, labelMutex, extraNonce1, highest, calls, stops>>

LoadId(w) ==
  /\ desk[w].at = "id"
  /\ desk' = [desk EXCEPT ![w] = [@ EXCEPT !.at = "reply", !.id = extraNonce1]]
  /\ UNCHANGED <<labels, labelFile, labelMutex, extraNonce1, highest, calls, stops>>

SendTemplate(w) ==
  /\ desk[w].at = "reply"
  /\ highest' = Max({highest, desk[w].id})
  /\ desk' = [desk EXCEPT ![w] = Idle]
  /\ UNCHANGED <<labels, labelFile, labelMutex, extraNonce1, calls, stops>>

------------------------------------------------------------------------------
(* The process ends and starts again.                                      *)
RestartStores ==
  /\ stops < MaxStops /\ stops' = stops + 1
  /\ labels' = NoLabels /\ labelMutex' = {} /\ extraNonce1' = 0 /\ highest' = 0
  /\ desk' = [w \in Desks |-> Idle]
  /\ UNCHANGED <<labelFile, calls>>

StoreInit ==
  /\ labels = NoLabels /\ labelFile = NoLabels /\ labelMutex = {}
  /\ extraNonce1 = 0 /\ highest = 0
  /\ desk = [w \in Desks |-> Idle]
  /\ calls = 0 /\ stops = 0

StoreNext ==
  \/ \E w \in Desks :
       \/ \E a \in Addresses, l \in Labels : SetLabel(w, a, l)
       \/ OpenLabels(w) \/ WriteLabels(w)
       \/ NextExtraNonce(w) \/ LoadHex(w) \/ LoadId(w) \/ SendTemplate(w)
  \/ RestartStores

StoreSpec == StoreInit /\ [][StoreNext]_storeVars

------------------------------------------------------------------------------
(* Properties                                                              *)

(* Between two starts the file has every label, save those a worker is about
   to write: however setLabel and saveLabels of two requests interleave, the
   last save has the labels of both (main.cpp:2072-2073). *)
LabelsAreSaved ==
  stops = 0 /\ labelMutex = {} => \A a \in Addresses :
    labelFile[a] # labels[a] => \E w \in Desks : desk[w].at = "save" /\ desk[w].address = a

(* A template carries an extra nonce that no template answered before its
   request carried, in both of its fields (main.cpp:2317-2321): the search
   spaces of requests that do not overlap are disjoint. *)
TemplateIsFresh ==
  \A w \in Desks : desk[w].at = "reply" => desk[w].floor < desk[w].hex /\ desk[w].hex <= desk[w].id

(* Requests that overlap in the two small stores cost neither a label nor the
   freshness of a template. *)
StoresAreSafe == LabelsAreSaved /\ TemplateIsFresh
==============================================================================

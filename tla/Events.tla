-------------------------------- MODULE Events --------------------------------
(***************************************************************************)
(* The event bus of the node (include/sse.h), the route GET /events that   *)
(* waits on it, and two kinds of client: a stream that reconnects with     *)
(* Last-Event-ID, which the route is written for, and the page index.html, *)
(* which closes its EventSource on every error, reconnects with since= and *)
(* asks GET /events/latest where it stands.                                *)
(*                                                                         *)
(* push and waitForEvents run under one mutex, so each is one action up to *)
(* the unlock; notify_all comes after the unlock and is an action.         *)
(***************************************************************************)
EXTENDS Naturals, Sequences, SequencesExt

CONSTANTS
  Pushers,     \* threads that push: async_mine, the bootstrap thread
  Streams,     \* clients that follow Last-Event-ID
  Pages,       \* open pages of index.html
  MaxEvents,   \* MAX_EVENTS: 500 in the code
  Stamp,       \* a time in seconds, larger than any id
  MaxPush,     \* bound on the events of one life of the process
  MaxRestarts  \* bound on restarts

Clients == Streams \cup Pages

ASSUME EventsAssumption ==
  /\ Streams \cap Pages = {}
  /\ MaxEvents \in Nat \ {0}
  /\ MaxPush \in Nat /\ MaxRestarts \in Nat
  /\ Stamp \in Nat /\ Stamp > MaxPush

VARIABLES
  events,    \* g_events: [id, block], block tells a BLOCK event
  nextId,    \* g_nextId
  ppc,       \* a pusher between unlock and notify_all is at "notify"
  wpc,       \* the handler of each client: away, waiting, woken, answered
  after,     \* afterId of that request
  body,      \* the events of its answer
  last,      \* the client's last event id
  fetching,  \* pages whose GET /events/latest is under way
  fetched    \* the answers to them that have not arrived

VARIABLES
  seen,      \* history: the ids a stream was given, in order
  lagged,    \* history: clients that fell more than MaxEvents behind
  restarts

bus     == <<events, nextId, ppc>>
clients == <<wpc, after, body, last, fetching, fetched, seen>>
evVars  == <<bus, clients, lagged, restarts>>

------------------------------------------------------------------------------
(* The bus                                                                 *)

(* Mutation: afterId itself is sent again.                                 *)
NewerOrSame(n) ==
  FoldLeft(LAMBDA out, e : IF e.id >= n THEN Append(out, e) ELSE out, << >>, events)

(* Mutation: only a client that missed nothing is sent what follows.       *)
NewerInSequence(n) ==
  FoldLeft(LAMBDA out, e : IF e.id > n /\ events[1].id <= n + 1
                           THEN Append(out, e) ELSE out, << >>, events)

(* The loop of waitForEvents over the queue.                               *)
Newer(n) ==
  FoldLeft(LAMBDA out, e : IF e.id > n THEN Append(out, e) ELSE out, << >>, events)

HasNew(c) == events # << >> /\ events[Len(events)].id > after[c]

LatestId == IF events = << >> THEN 0 ELSE events[Len(events)].id

Falling == {c \in Clients : last[c] + MaxEvents < nextId}

(* Mutation: the queue is trimmed before the push, to the limit.           *)
PushUntrimmed(p) ==
  /\ nextId <= MaxPush /\ ppc[p] = "idle"
  /\ ppc' = [ppc EXCEPT ![p] = "notify"]
  /\ nextId' = nextId + 1
  /\ \E block \in BOOLEAN :
       events' = Append(IF Len(events) > MaxEvents THEN Tail(events) ELSE events,
                        [id |-> nextId, block |-> block])
  /\ lagged' = lagged \cup Falling
  /\ UNCHANGED <<clients, restarts>>

(* Mutation: the queue holds one event less than its limit.                *)
PushTrimmedEarly(p) ==
  /\ nextId <= MaxPush /\ ppc[p] = "idle"
  /\ ppc' = [ppc EXCEPT ![p] = "notify"]
  /\ nextId' = nextId + 1
  /\ \E block \in BOOLEAN :
       LET all == Append(events, [id |-> nextId, block |-> block])
       IN events' = IF Len(all) >= MaxEvents THEN Tail(all) ELSE all
  /\ lagged' = lagged \cup Falling
  /\ UNCHANGED <<clients, restarts>>

(* Mutation: only events that found the queue empty are announced.         *)
PushAnnouncedOnce(p) ==
  /\ nextId <= MaxPush /\ ppc[p] = "idle"
  /\ ppc' = [ppc EXCEPT ![p] = IF events = << >> THEN "notify" ELSE "idle"]
  /\ nextId' = nextId + 1
  /\ \E block \in BOOLEAN :
       LET all == Append(events, [id |-> nextId, block |-> block])
       IN events' = IF Len(all) > MaxEvents THEN Tail(all) ELSE all
  /\ lagged' = lagged \cup Falling
  /\ UNCHANGED <<clients, restarts>>

Push(p) ==
  /\ nextId <= MaxPush /\ ppc[p] = "idle"
  /\ ppc' = [ppc EXCEPT ![p] = "notify"]
  /\ nextId' = nextId + 1
  /\ \E block \in BOOLEAN :
       LET all == Append(events, [id |-> nextId, block |-> block])
       IN events' = IF Len(all) > MaxEvents THEN Tail(all) ELSE all
  /\ lagged' = lagged \cup Falling
  /\ UNCHANGED <<clients, restarts>>

Notify(p) ==
  /\ ppc[p] = "notify"
  /\ ppc' = [ppc EXCEPT ![p] = "idle"]
  /\ wpc' = [c \in Clients |-> IF wpc[c] = "waiting" THEN "woken" ELSE wpc[c]]
  /\ UNCHANGED <<events, nextId, after, body, last, fetching, fetched, seen,
                 lagged, restarts>>

------------------------------------------------------------------------------
(* GET /events: waitForEvents                                              *)

Answer(c, n) ==
  /\ wpc' = [wpc EXCEPT ![c] = "answered"]
  /\ body' = [body EXCEPT ![c] = Newer(n)]

Leave(c) ==
  /\ wpc[c] = "answered"
  /\ wpc' = [wpc EXCEPT ![c] = "away"]
  /\ after' = [after EXCEPT ![c] = 0]
  /\ body' = [body EXCEPT ![c] = << >>]

(* The request arrives: afterId is the client's last id, and the handler   *)
(* answers at once or waits.                                               *)
Poll(c) ==
  /\ wpc[c] = "away"
  /\ after' = [after EXCEPT ![c] = last[c]]
  /\ IF LatestId > last[c]
     THEN Answer(c, last[c])
     ELSE wpc' = [wpc EXCEPT ![c] = "waiting"] /\ UNCHANGED body
  /\ UNCHANGED <<bus, last, fetching, fetched, seen, lagged, restarts>>

(* wait_for tests its predicate again after every wake-up.                 *)
Wake(c) ==
  /\ wpc[c] = "woken"
  /\ IF HasNew(c)
     THEN Answer(c, after[c])
     ELSE wpc' = [wpc EXCEPT ![c] = "waiting"] /\ UNCHANGED body
  /\ UNCHANGED <<bus, after, last, fetching, fetched, seen, lagged, restarts>>

(* After the timeout the answer is whatever is there, or a keepalive.      *)
TimeOut(c) ==
  /\ wpc[c] \in {"waiting", "woken"}
  /\ Answer(c, after[c])
  /\ UNCHANGED <<bus, after, last, fetching, fetched, seen, lagged, restarts>>

(* The connection breaks before the answer arrives.                        *)
LoseAnswer(c) ==
  /\ Leave(c)
  /\ UNCHANGED <<bus, last, fetching, fetched, seen, lagged, restarts>>

------------------------------------------------------------------------------
(* Clients                                                                 *)

IdsOf(es) == [i \in DOMAIN es |-> es[i].id]

(* A stream takes the id of each event as its Last-Event-ID.               *)
StreamReceives(c) ==
  /\ c \in Streams /\ Leave(c)
  /\ seen' = [seen EXCEPT ![c] = @ \o IdsOf(body[c])]
  /\ last' = [last EXCEPT ![c] = IF body[c] = << >> THEN @
                                 ELSE body[c][Len(body[c])].id]
  /\ UNCHANGED <<bus, fetching, fetched, lagged, restarts>>

(* onopen asks for the latest id; a block event leaves its time, not its   *)
(* id, in lastEventId; the end of the answer is an error, so the page      *)
(* closes and connects again.                                              *)
PageReceives(c) ==
  /\ c \in Pages /\ Leave(c)
  /\ fetching' = fetching \cup {c}
  /\ last' = [last EXCEPT ![c] = IF \E i \in DOMAIN body[c] : body[c][i].block
                                 THEN Stamp ELSE @]
  /\ UNCHANGED <<bus, fetched, seen, lagged, restarts>>

(* GET /events/latest                                                      *)
ServeLatest(c) ==
  /\ c \in fetching
  /\ fetching' = fetching \ {c}
  /\ fetched' = [fetched EXCEPT ![c] = @ \cup {LatestId}]
  /\ UNCHANGED <<bus, wpc, after, body, last, seen, lagged, restarts>>

(* Mutation: the page keeps the larger of the two.                         *)
TakeLargerLatest(c) ==
  \E n \in fetched[c] :
    /\ fetched' = [fetched EXCEPT ![c] = @ \ {n}]
    /\ last' = [last EXCEPT ![c] = IF n > @ THEN n ELSE @]
    /\ UNCHANGED <<bus, wpc, after, body, fetching, seen, lagged, restarts>>

TakeLatest(c) ==
  \E n \in fetched[c] :
    /\ fetched' = [fetched EXCEPT ![c] = @ \ {n}]
    /\ last' = [last EXCEPT ![c] = n]
    /\ UNCHANGED <<bus, wpc, after, body, fetching, seen, lagged, restarts>>

(* The request for the latest id fails.                                    *)
LoseLatest(c) ==
  /\ c \in fetching
  /\ fetching' = fetching \ {c}
  /\ UNCHANGED <<bus, wpc, after, body, last, fetched, seen, lagged, restarts>>

(* The process restarts: the bus is empty and counts from 1 again, while   *)
(* clients keep what they remember.                                        *)
RestartBus ==
  /\ restarts < MaxRestarts
  /\ restarts' = restarts + 1
  /\ events' = << >> /\ nextId' = 1
  /\ ppc' = [p \in Pushers |-> "idle"]
  /\ wpc' = [c \in Clients |-> "away"]
  /\ fetching' = {}
  /\ lagged' = lagged \cup {c \in Clients : last[c] > 0}
  /\ after' = [c \in Clients |-> 0]
  /\ body' = [c \in Clients |-> << >>]
  /\ UNCHANGED <<last, fetched, seen>>

------------------------------------------------------------------------------
EventsInit ==
  /\ events = << >> /\ nextId = 1
  /\ ppc = [p \in Pushers |-> "idle"]
  /\ wpc = [c \in Clients |-> "away"]
  /\ after = [c \in Clients |-> 0]
  /\ body = [c \in Clients |-> << >>]
  /\ last = [c \in Clients |-> 0]
  /\ fetching = {}
  /\ fetched = [c \in Pages |-> {}]
  /\ seen = [c \in Streams |-> << >>]
  /\ lagged = {} /\ restarts = 0

Handle(c) == Poll(c) \/ Wake(c) \/ TimeOut(c) \/ LoseAnswer(c)
Receive(c) == StreamReceives(c) \/ PageReceives(c)

(* What the clients of a set, and every pusher, can do.                    *)
EventsStep(cs) ==
  \/ \E p \in Pushers : Push(p) \/ Notify(p)
  \/ \E c \in cs : Handle(c) \/ Receive(c)
  \/ \E c \in cs \cap Pages : ServeLatest(c) \/ LoseLatest(c) \/ TakeLatest(c)
  \/ RestartBus

EventsNext == EventsStep(Clients)

(* Threads run, waits end by their timeout, clients come back; an answer   *)
(* that is sent again and again is not lost for ever.                      *)
EventsFairness ==
  /\ \A p \in Pushers : WF_evVars(Notify(p))
  /\ \A c \in Clients :
       /\ WF_evVars(Poll(c)) /\ WF_evVars(Wake(c)) /\ WF_evVars(TimeOut(c))
       /\ SF_evVars(Receive(c))
  /\ \A c \in Pages : SF_evVars(ServeLatest(c)) /\ WF_evVars(TakeLatest(c))

EventsSpec == EventsInit /\ [][EventsNext]_evVars /\ EventsFairness

------------------------------------------------------------------------------
(* Properties                                                              *)

EventSeqs(n) == UNION {[1 .. k -> [id : 1 .. MaxPush, block : BOOLEAN]] : k \in 0 .. n}

(* Types; the queue is never longer than MAX_EVENTS and holds the newest
   ids without a gap, so that back().id is the latest (sse.h:57-67). *)
EventsTypeOK ==
  /\ nextId \in 1 .. MaxPush + 1
  /\ events \in EventSeqs(MaxEvents)
  /\ \A i \in DOMAIN events : events[i].id = nextId - 1 - Len(events) + i
  /\ ppc \in [Pushers -> {"idle", "notify"}]
  /\ wpc \in [Clients -> {"away", "waiting", "woken", "answered"}]
  /\ after \in [Clients -> 0 .. MaxPush \cup {Stamp}]
  /\ body \in [Clients -> EventSeqs(MaxEvents)]
  /\ last \in [Clients -> 0 .. MaxPush \cup {Stamp}]
  /\ fetching \subseteq Pages
  /\ fetched \in [Pages -> SUBSET (0 .. MaxPush)]
  /\ lagged \subseteq Clients /\ restarts \in 0 .. MaxRestarts

(* No wake-up is lost: while a handler sleeps although an event it waits for
   is in the queue, the push that put it there has still to notify.  push
   notifies after the unlock, so this rests on the predicate that
   waitForEvents tests under the mutex before it sleeps. *)
NoLostWakeup ==
  \A c \in Clients :
    wpc[c] = "waiting" /\ HasNew(c) => \E p \in Pushers : ppc[p] = "notify"

(* A client that reconnects with Last-Event-ID is given every event at most
   once and in the order of the pushes, whatever answers are lost and although
   the queue drops old events and the process restarts. *)
InOrderOnce ==
  \A c \in Streams : \A i, j \in DOMAIN seen[c] : i < j => seen[c][i] < seen[c][j]

(* It misses nothing, unless it fell more than MAX_EVENTS behind or has lived
   through a restart. *)
NothingMissed ==
  \A c \in Streams \ lagged : seen[c] = [i \in 1 .. last[c] |-> i]

(* Both together: a stream is given what was pushed, once and in order. *)
StreamsAreServed == InOrderOnce /\ NothingMissed

(* Every event gets to every such client or is overtaken, as long as the
   process lives. *)
EventsAreHeard ==
  \A c \in Streams : \A n \in 1 .. MaxPush :
    nextId > n ~> (last[c] >= n \/ nextId <= n)

(* A page that stored the time of a block as its last id, and so waits for
   ids that never come (index.html:643), gets a real id again. *)
PageHearsAgain == \A c \in Pages : last[c] = Stamp ~> last[c] # Stamp

(* What sse.h:5-6 says of the page ("EventSource which auto-reconnects via
   Last-Event-ID"): it asks for what follows the last event it was given.  The
   page closes its source instead, and the code does not keep this. *)
PageAsksFromLastEvent ==
  [][\A c \in Pages : wpc[c] = "answered" /\ wpc'[c] = "away" /\ last'[c] # last[c]
       => last'[c] \in {body[c][i].id : i \in DOMAIN body[c]}]_evVars
==============================================================================

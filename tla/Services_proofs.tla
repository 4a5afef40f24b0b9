---------------------------- MODULE Services_proofs ----------------------------
(***************************************************************************)
(* Proofs about the services behind the routes: the event bus and its      *)
(* clients, and the multi-signature proposals.                             *)
(***************************************************************************)
EXTENDS Services, FiniteSetTheorems, SequenceTheorems, WellFoundedInduction, TLAPS

------------------------------------------------------------------------------
(* The event bus.  No wake-up is lost, for any number of pushers and       *)
(* clients, a queue of any length and any number of restarts.              *)

(* Every pusher and every client has its thread.                           *)
Threads ==
  /\ DOMAIN ppc = Pushers
  /\ DOMAIN wpc = Clients
  /\ DOMAIN after = Clients

WakeInv == Threads /\ NoLostWakeup

------------------------------------------------------------------------------
LEMMA WakeInit == EventsInit => WakeInv
  BY DEF EventsInit, WakeInv, Threads, NoLostWakeup

(* A handler that goes to sleep has just found nothing it waits for.       *)
LEMMA SleepsOnNothing ==
  ASSUME WakeInv, NEW c \in Clients, Poll(c) \/ Wake(c)
  PROVE  wpc'[c] = "waiting" => ~HasNew(c)'
  <1>1. CASE Poll(c)
    <2>1. after'[c] = last[c] /\ events' = events
      BY <1>1 DEF Poll, bus, WakeInv, Threads
    <2>2. wpc'[c] = "waiting" => ~(LatestId > last[c])
      BY <1>1 DEF Poll, Answer, WakeInv, Threads
    <2>3. LatestId > last[c] \/ ~HasNew(c)'
      BY <2>1 DEF LatestId, HasNew
    <2> QED BY <2>2, <2>3
  <1>2. CASE Wake(c)
    <2>1. events' = events /\ after' = after
      BY <1>2 DEF Wake, bus
    <2>2. wpc'[c] = "waiting" => ~HasNew(c)
      BY <1>2 DEF Wake, Answer, WakeInv, Threads
    <2> QED BY <2>1, <2>2 DEF HasNew
  <1> QED BY <1>1, <1>2

LEMMA WakeStep == WakeInv /\ [EventsNext]_evVars => WakeInv'
  <1> SUFFICES ASSUME WakeInv, [EventsNext]_evVars PROVE WakeInv'
    OBVIOUS
  <1> USE DEF WakeInv, Threads
  <1>1. ASSUME NEW p \in Pushers, Push(p) PROVE WakeInv'
    <2>1. /\ ppc'[p] = "notify" /\ DOMAIN ppc' = Pushers
          /\ UNCHANGED <<wpc, after>>
      BY <1>1 DEF Push, clients
    <2> QED BY <2>1 DEF NoLostWakeup
  <1>2. ASSUME NEW p \in Pushers, Notify(p) PROVE WakeInv'
    <2>1. /\ DOMAIN ppc' = Pushers /\ DOMAIN wpc' = Clients /\ after' = after
          /\ \A c \in Clients : wpc'[c] # "waiting"
      BY <1>2 DEF Notify
    <2> QED BY <2>1 DEF NoLostWakeup
  (* A step of one handler that is not asleep after it, or sleeps on nothing. *)
  <1>3. ASSUME NEW c \in Clients, UNCHANGED bus,
               DOMAIN wpc' = Clients, DOMAIN after' = Clients,
               \A d \in Clients \ {c} : wpc'[d] = wpc[d] /\ after'[d] = after[d],
               wpc'[c] = "waiting" => ~HasNew(c)'
        PROVE  WakeInv'
    <2>1. \A d \in Clients \ {c} : HasNew(d)' = HasNew(d)
      BY <1>3 DEF HasNew, bus
    <2> QED BY <1>3, <2>1 DEF NoLostWakeup, bus
  <1>4. ASSUME NEW c \in Clients, Poll(c) \/ Wake(c) PROVE WakeInv'
    BY <1>3, <1>4, SleepsOnNothing DEF Poll, Wake, Answer
  <1>5. ASSUME NEW c \in Clients, TimeOut(c) PROVE WakeInv'
    BY <1>3, <1>5 DEF TimeOut, Answer
  <1>6. ASSUME NEW c \in Clients, LoseAnswer(c) \/ Receive(c) PROVE WakeInv'
    BY <1>3, <1>6 DEF LoseAnswer, Receive, StreamReceives, PageReceives, Leave
  <1>7. ASSUME NEW c \in Pages, ServeLatest(c) \/ LoseLatest(c) \/ TakeLatest(c) PROVE WakeInv'
    BY <1>7 DEF ServeLatest, LoseLatest, TakeLatest, bus, NoLostWakeup, HasNew
  <1>8. CASE RestartBus
    BY <1>8 DEF RestartBus, NoLostWakeup
  <1>9. CASE UNCHANGED evVars
    BY <1>9 DEF evVars, bus, clients, NoLostWakeup, HasNew
  <1> QED
    BY <1>1, <1>2, <1>4, <1>5, <1>6, <1>7, <1>8, <1>9 DEF EventsNext, EventsStep, Handle

(* push announces after it unlocked, and a handler may start to wait in     *)
(* between (sse.h:63, 70-78): a handler that sleeps on an event of the      *)
(* queue has its notification ahead of it (Events!NoLostWakeup).            *)
THEOREM NoWakeupIsLost == EventsSpec => []NoLostWakeup
  <1>1. WakeInv => NoLostWakeup
    BY DEF WakeInv
  <1> QED BY <1>1, WakeInit, WakeStep, PTL DEF EventsSpec

------------------------------------------------------------------------------
(* What waitForEvents collects.  The queue holds ids without a gap, so it   *)
(* is the end of the queue.                                                 *)

(* A set of naturals has a least element.                                   *)
LEMMA NatHasLeast ==
  \A S \in SUBSET Nat : S # {} => \E x \in S : \A y \in S : x <= y
  <1> SUFFICES ASSUME NEW S \in SUBSET Nat, S # {}
               PROVE  \E x \in S : \A y \in S : x <= y
    OBVIOUS
  <1> DEFINE R == OpToRel(<, Nat)
  <1>1. IsWellFoundedOn(R, Nat)
    BY NatLessThanWellFounded, Zenon
  <1>2. ASSUME NEW x \in Nat, NEW y \in Nat, y < x PROVE <<y, x>> \in R
    BY <1>2 DEF OpToRel
  <1> HIDE DEF R
  <1>3. PICK x \in S : \A y \in S : ~ (<<y, x>> \in R)
    BY <1>1, WFMin
  <1>4. \A y \in S : x <= y
    <2> TAKE y \in S
    <2>1. ~(y < x)
      BY <1>2, <1>3
    <2> QED BY <2>1
  <1> QED BY <1>4

(* The number of ids above n among the i ids that follow base.              *)
Above(base, i, n) ==
  IF base + i <= n THEN 0 ELSE IF n <= base THEN i ELSE base + i - n

(* The last of the first i elements, those above n.                         *)
IsEnd(out, i, es, base, n) ==
  out = [j \in 1 .. Above(base, i, n) |-> es[i - Above(base, i, n) + j]]

CollectStep(out, e, n, q) == IF e.id > n THEN Append(out, e) ELSE out

Collects == INSTANCE Inductions
  WITH Op <- CollectStep, Holds <- LAMBDA out, i, u : IsEnd(out, i, u[1], u[2], u[3])

LEMMA CollectsGrounded == Collects!Grounded
  BY NatHasLeast DEF Collects!Grounded

LEMMA NewerIsFold ==
  ASSUME NEW n
  PROVE  Newer(n) = Collects!Fold(<< >>, events, n, 0)
  BY DEF Newer, Collects!Fold, FoldLeft, MapThenFoldSet, Collects!MapThenFoldSet,
         Max, Collects!Greatest, CollectStep

LEMMA AppendEnd ==
  ASSUME NEW es, NEW i \in Nat \ {0}, NEW k \in Nat, k < i,
         NEW out, out = [j \in 1 .. k |-> es[i - 1 - k + j]]
  PROVE  Append(out, es[i]) = [j \in 1 .. k + 1 |-> es[i - (k + 1) + j]]
  <1> DEFINE S == {es[j] : j \in 0 .. i}
             longer == Append(out, es[i])
             end == [j \in 1 .. k + 1 |-> es[i - (k + 1) + j]]
  <1>1. out \in Seq(S) /\ Len(out) = k /\ \A j \in 1 .. k : out[j] = es[i - 1 - k + j]
    OBVIOUS
  <1>2. end \in Seq(S) /\ Len(end) = k + 1
        /\ \A j \in 1 .. k + 1 : end[j] = es[i - (k + 1) + j]
    OBVIOUS
  <1>3. es[i] \in S
    OBVIOUS
  <1> HIDE DEF S, end
  <1>4. /\ longer \in Seq(S) /\ Len(longer) = k + 1 /\ longer[k + 1] = es[i]
        /\ \A j \in 1 .. k : longer[j] = out[j]
    BY <1>1, <1>3, AppendProperties
  <1> HIDE DEF longer
  <1>5. ASSUME NEW j \in 1 .. k + 1 PROVE longer[j] = end[j]
    <2>1. CASE j = k + 1
      <3>1. i - (k + 1) + j = i
        BY <2>1
      <3> QED BY <1>2, <1>4, <2>1, <3>1
    <2>2. CASE j # k + 1
      <3>1. j \in 1 .. k /\ i - 1 - k + j = i - (k + 1) + j
        BY <2>2
      <3>2. longer[j] = out[j]
        BY <1>4, <3>1
      <3> QED BY <1>1, <1>2, <3>1, <3>2
    <2> QED BY <2>1, <2>2
  <1>6. longer = end
    BY <1>2, <1>4, <1>5, SeqEqual
  <1> QED BY <1>6 DEF longer, end

LEMMA NewerIsEnd ==
  ASSUME NEW E, events \in Seq(E), NEW base \in Nat, NEW n \in Nat,
         \A i \in 1 .. Len(events) : events[i].id = base + i
  PROVE  IsEnd(Newer(n), Len(events), events, base, n)
  <1> DEFINE u == <<events, base, n>>
  <1>1. u[1] = events /\ u[2] = base /\ u[3] = n
    OBVIOUS
  <1> HIDE DEF u
  <1>2. IsEnd(<< >>, 0, u[1], u[2], u[3])
    <2>1. Above(base, 0, n) = 0
      BY DEF Above
    <2> QED BY <1>1, <2>1 DEF IsEnd
  <1>3. ASSUME NEW i \in 1 .. Len(events), NEW out, IsEnd(out, i - 1, events, base, n)
        PROVE  IsEnd(CollectStep(out, events[i], n, 0), i, events, base, n)
    <2>1. events[i].id = base + i /\ Len(events) \in Nat
      OBVIOUS
    <2>2. CASE base + i <= n
      <3>1. Above(base, i - 1, n) = 0 /\ Above(base, i, n) = 0
        BY <2>1, <2>2 DEF Above
      <3>2. CollectStep(out, events[i], n, 0) = out
        BY <2>1, <2>2 DEF CollectStep
      <3> QED BY <1>3, <3>1, <3>2 DEF IsEnd
    <2>3. CASE base + i > n
      <3> DEFINE k == Above(base, i - 1, n)
      <3>1. k \in Nat /\ k < i /\ Above(base, i, n) = k + 1
        BY <2>1, <2>3 DEF Above
      <3>2. CollectStep(out, events[i], n, 0) = Append(out, events[i])
        BY <2>1, <2>3 DEF CollectStep
      <3>3. out = [j \in 1 .. k |-> events[i - 1 - k + j]]
        BY <1>3 DEF IsEnd
      <3> HIDE DEF k
      <3>4. Append(out, events[i]) = [j \in 1 .. k + 1 |-> events[i - (k + 1) + j]]
        BY <3>1, <3>3, AppendEnd
      <3> QED BY <3>1, <3>2, <3>4 DEF IsEnd
    <2> QED BY <2>1, <2>2, <2>3
  <1>4. \A i \in 1 .. Len(events) : \A out :
          IsEnd(out, i - 1, u[1], u[2], u[3])
            => IsEnd(CollectStep(out, events[i], n, 0), i, u[1], u[2], u[3])
    BY <1>1, <1>3
  <1>5. IsEnd(Collects!Fold(<< >>, events, n, 0), Len(events), u[1], u[2], u[3])
    <2> DEFINE none == << >>
    <2>1. IsEnd(none, 0, u[1], u[2], u[3])
      BY <1>2
    <2> HIDE DEF none
    <2>2. IsEnd(Collects!Fold(none, events, n, 0), Len(events), u[1], u[2], u[3])
      BY <1>4, <2>1, CollectsGrounded, Collects!FoldInduction
    <2> QED BY <2>2 DEF none
  <1> QED BY <1>1, <1>5, NewerIsFold

(* The answer to a client that has seen n: k events, the newest there are.  *)
Answers(es, k, top) ==
  /\ k \in Nat /\ DOMAIN es = 1 .. k
  /\ \A j \in 1 .. k : es[j].id = top - k + j

LEMMA NewerAnswers ==
  ASSUME EventsTypeOK, NEW n \in Nat
  PROVE  /\ Newer(n) \in EventSeqs(MaxEvents)
         /\ \E k \in 0 .. Len(events) :
              /\ Answers(Newer(n), k, nextId - 1)
              /\ k # 0 => n <= nextId - 1 - k
              /\ n \in nextId - 1 - Len(events) .. nextId - 1 => k = nextId - 1 - n
  <1> DEFINE L == Len(events)
             E == [id : 1 .. MaxPush, block : BOOLEAN]
  <1>1. PICK l \in 0 .. MaxEvents : events \in [1 .. l -> E]
    BY DEF EventsTypeOK, EventSeqs
  <1>2. MaxEvents \in Nat /\ MaxPush \in Nat
    BY EventsAssumption
  <1>3. events \in Seq(E) /\ L = l
    <2> HIDE DEF E
    <2>1. l \in Nat
      BY <1>2
    <2> QED BY <1>1, <2>1
  <1> HIDE DEF L
  <1> DEFINE base == nextId - 1 - L
  <1>4. nextId \in Nat \ {0} /\ L \in Nat /\ L <= MaxEvents /\ DOMAIN events = 1 .. L
    BY <1>1, <1>2, <1>3 DEF EventsTypeOK
  <1>5. \A i \in 1 .. L : events[i].id = base + i
    BY <1>4 DEF EventsTypeOK, L
  <1>6. base \in Nat
    <2>1. CASE L = 0
      BY <1>4, <2>1
    <2>2. CASE L # 0
      <3>1. events[1] \in E /\ events[1].id = base + 1
        BY <1>1, <1>3, <1>4, <1>5, <2>2
      <3> QED BY <1>2, <1>4, <3>1
    <2> QED BY <2>1, <2>2
  <1> DEFINE k == Above(base, L, n)
  <1>7. Newer(n) = [j \in 1 .. k |-> events[L - k + j]]
    <2>1. IsEnd(Newer(n), Len(events), events, base, n)
      <3> HIDE DEF E, base
      <3> QED BY <1>3, <1>5, <1>6, NewerIsEnd DEF L
    <2> QED BY <2>1 DEF IsEnd, L
  <1>8. /\ k \in 0 .. L
        /\ k # 0 => n <= nextId - 1 - k
        /\ n \in base .. nextId - 1 => k = nextId - 1 - n
    BY <1>4, <1>6 DEF Above
  <1> HIDE DEF k
  <1>9. \A j \in 1 .. k : L - k + j \in 1 .. L
    BY <1>4, <1>8
  <1>10. Newer(n) \in [1 .. k -> E]
    BY <1>1, <1>3, <1>7, <1>9
  <1>11. Newer(n) \in EventSeqs(MaxEvents)
    BY <1>2, <1>4, <1>8, <1>10 DEF EventSeqs
  <1>12. Answers(Newer(n), k, nextId - 1)
    <2>1. \A j \in 1 .. k : Newer(n)[j].id = nextId - 1 - k + j
      <3> TAKE j \in 1 .. k
      <3>1. Newer(n)[j].id = base + (L - k + j)
        BY <1>5, <1>7, <1>9
      <3>2. base + (L - k + j) = nextId - 1 - k + j
        BY <1>4, <1>8
      <3> QED BY <3>1, <3>2
    <2> QED BY <1>7, <1>8, <2>1 DEF Answers
  <1> QED BY <1>8, <1>11, <1>12 DEF L

------------------------------------------------------------------------------
(* Types of the event bus and its clients                                   *)

Event == [id : 1 .. MaxPush, block : BOOLEAN]

LEMMA EventSeqsAre ==
  ASSUME NEW n \in Nat, NEW k \in 0 .. n, NEW es \in [1 .. k -> Event]
  PROVE  es \in EventSeqs(n)
  BY DEF EventSeqs, Event

LEMMA EventSeqsHave ==
  ASSUME NEW n \in Nat, NEW es \in EventSeqs(n)
  PROVE  /\ Len(es) \in 0 .. n /\ es \in [1 .. Len(es) -> Event] /\ es \in Seq(Event)
         /\ DOMAIN es = 1 .. Len(es)
  <1>1. PICK k \in 0 .. n : es \in [1 .. k -> Event]
    BY DEF EventSeqs, Event
  <1>2. es \in Seq(Event) /\ Len(es) = k
    BY <1>1
  <1> QED BY <1>1, <1>2

LEMMA NoEvents == << >> \in EventSeqs(MaxEvents)
  <1>1. << >> \in [1 .. 0 -> Event] /\ 0 \in 0 .. MaxEvents
    BY EventsAssumption
  <1> QED BY <1>1, EventsAssumption, EventSeqsAre

LEMMA EventsTypeInit == EventsInit => EventsTypeOK
  <1> SUFFICES ASSUME EventsInit PROVE EventsTypeOK
    OBVIOUS
  <1>1. << >> \in EventSeqs(MaxEvents)
    BY NoEvents, EventsAssumption
  <1>2. 1 \in 1 .. MaxPush + 1 /\ 0 \in 0 .. MaxPush /\ 0 \in 0 .. MaxRestarts
    BY EventsAssumption
  <1> QED BY <1>1, <1>2 DEF EventsInit, EventsTypeOK

(* A push keeps the queue within its limit and its ids without a gap.       *)
LEMMA PushKeepsQueue ==
  ASSUME EventsTypeOK, NEW p \in Pushers, Push(p)
  PROVE  /\ nextId' \in 1 .. MaxPush + 1
         /\ events' \in EventSeqs(MaxEvents)
         /\ \A i \in DOMAIN events' : events'[i].id = nextId' - 1 - Len(events') + i
         /\ Len(events') = IF Len(events) < MaxEvents THEN Len(events) + 1 ELSE MaxEvents
  <1>1. PICK block \in BOOLEAN :
          LET queue == Append(events, [id |-> nextId, block |-> block])
          IN events' = IF Len(queue) > MaxEvents THEN Tail(queue) ELSE queue
    BY DEF Push
  <1> DEFINE e == [id |-> nextId, block |-> block]
             pushed == Append(events, e)
             L == Len(events)
  <1>2. nextId \in Nat /\ nextId \in 1 .. MaxPush /\ nextId' = nextId + 1
        /\ MaxEvents \in Nat \ {0} /\ MaxPush \in Nat
    BY EventsAssumption DEF Push, EventsTypeOK
  <1>3. e \in Event /\ e.id = nextId
    BY <1>2 DEF Event
  <1>4. L \in 0 .. MaxEvents /\ events \in Seq(Event) /\ DOMAIN events = 1 .. L
    BY <1>2, EventSeqsHave DEF EventsTypeOK
  <1>5. \A i \in 1 .. L : events[i].id = nextId - 1 - L + i
    BY <1>4 DEF EventsTypeOK
  <1> HIDE DEF e, L
  <1>6. /\ pushed \in Seq(Event) /\ Len(pushed) = L + 1 /\ pushed[L + 1] = e
        /\ \A i \in 1 .. L : pushed[i] = events[i]
    BY <1>3, <1>4, AppendProperties DEF L
  <1> HIDE DEF pushed
  <1>7. \A i \in 1 .. L + 1 : pushed[i].id = nextId - 1 - L + i
    BY <1>2, <1>3, <1>4, <1>5, <1>6
  <1>8. events' = IF Len(pushed) > MaxEvents THEN Tail(pushed) ELSE pushed
    BY <1>1 DEF pushed, e
  <1>9. CASE L < MaxEvents
    <2>1. events' = pushed /\ L + 1 \in 0 .. MaxEvents
      BY <1>2, <1>4, <1>6, <1>8, <1>9
    <2>2. pushed \in [1 .. L + 1 -> Event] /\ DOMAIN pushed = 1 .. L + 1
      BY <1>6
    <2>3. pushed \in EventSeqs(MaxEvents)
      BY <1>2, <2>1, <2>2, EventSeqsAre
    <2>4. \A i \in 1 .. L + 1 : pushed[i].id = nextId + 1 - 1 - (L + 1) + i
      BY <1>2, <1>4, <1>7
    <2>5. Len(events') = L + 1 /\ DOMAIN events' = 1 .. L + 1
      BY <1>6, <2>1, <2>2
    <2>6. \A i \in DOMAIN events' : events'[i].id = nextId' - 1 - Len(events') + i
      BY <1>2, <2>1, <2>4, <2>5
    <2> QED BY <1>2, <1>9, <2>1, <2>3, <2>5, <2>6 DEF L
  <1>10. CASE ~(L < MaxEvents)
    <2> DEFINE t == Tail(pushed)
    <2>1. L = MaxEvents /\ events' = t
      BY <1>2, <1>4, <1>6, <1>8, <1>10
    <2>2. /\ t \in Seq(Event) /\ Len(t) = L
          /\ \A i \in 1 .. L : t[i] = pushed[i + 1] /\ i + 1 \in 1 .. L + 1
      <3>1. pushed # << >>
        BY <1>4, <1>6
      <3>2. t \in Seq(Event) /\ Len(t) = Len(pushed) - 1 /\ \A i \in 1 .. Len(t) : t[i] = pushed[i + 1]
        BY <1>6, <3>1, HeadTailProperties
      <3> HIDE DEF t
      <3> QED BY <1>4, <1>6, <3>2
    <2> HIDE DEF t
    <2>3. t \in [1 .. L -> Event] /\ DOMAIN t = 1 .. L
      BY <2>2
    <2>4. t \in EventSeqs(MaxEvents)
      BY <1>2, <1>4, <2>3, EventSeqsAre
    <2>5. \A i \in 1 .. L : t[i].id = nextId + 1 - 1 - L + i
      <3> TAKE i \in 1 .. L
      <3>1. t[i].id = nextId - 1 - L + (i + 1)
        BY <1>7, <2>2
      <3> QED BY <1>2, <1>4, <3>1
    <2> QED BY <1>2, <1>4, <1>10, <2>1, <2>2, <2>3, <2>4, <2>5 DEF L
  <1> QED BY <1>9, <1>10

LEMMA LatestIdIs ==
  ASSUME EventsTypeOK
  PROVE  LatestId \in 0 .. MaxPush
  <1>1. CASE events = << >>
    BY <1>1, EventsAssumption DEF LatestId
  <1>2. CASE events # << >>
    <2>1. events \in [1 .. Len(events) -> Event] /\ Len(events) \in Nat /\ events \in Seq(Event)
      BY EventsAssumption, EventSeqsHave DEF EventsTypeOK
    <2>2. Len(events) # 0
      BY <1>2, <2>1
    <2>3. events[Len(events)] \in Event
      BY <2>1, <2>2
    <2> QED BY <1>2, <2>3, EventsAssumption DEF LatestId, Event
  <1> QED BY <1>1, <1>2

(* The step of one handler that leaves the bus and what clients remember.   *)
LEMMA HandlerTypes ==
  ASSUME EventsTypeOK, NEW c \in Clients, Handle(c)
  PROVE  EventsTypeOK'
  <1> USE DEF EventsTypeOK
  <1>1. UNCHANGED <<events, nextId, ppc, last, fetching, fetched, lagged, restarts>>
    BY DEF Handle, Poll, Wake, TimeOut, LoseAnswer, Leave, bus
  <1>2. last[c] \in Nat /\ after[c] \in Nat
    BY EventsAssumption
  <1>3. << >> \in EventSeqs(MaxEvents)
    BY NoEvents, EventsAssumption
  <1>4. \A n \in Nat : Newer(n) \in EventSeqs(MaxEvents)
    BY NewerAnswers
  <1>5. body' \in [Clients -> EventSeqs(MaxEvents)]
    <2>1. \/ body' = body
          \/ \E n \in Nat : body' = [body EXCEPT ![c] = Newer(n)]
          \/ body' = [body EXCEPT ![c] = << >>]
      BY <1>2 DEF Handle, Poll, Wake, TimeOut, LoseAnswer, Leave, Answer
    <2> QED BY <1>3, <1>4, <2>1
  <1>6. wpc' \in [Clients -> {"away", "waiting", "woken", "answered"}]
    BY DEF Handle, Poll, Wake, TimeOut, LoseAnswer, Leave, Answer
  <1>7. after' \in [Clients -> 0 .. MaxPush \cup {Stamp}]
    <2>1. 0 \in 0 .. MaxPush
      BY EventsAssumption
    <2> QED BY <2>1 DEF Handle, Poll, Wake, TimeOut, LoseAnswer, Leave
  <1> QED BY <1>1, <1>5, <1>6, <1>7

LEMMA ReceiveTypes ==
  ASSUME EventsTypeOK, NEW c \in Clients, Receive(c)
  PROVE  EventsTypeOK'
  <1> USE DEF EventsTypeOK
  <1>1. UNCHANGED <<events, nextId, ppc, fetched, lagged, restarts>>
    BY DEF Receive, StreamReceives, PageReceives, bus
  <1>2. << >> \in EventSeqs(MaxEvents) /\ 0 \in 0 .. MaxPush
    BY NoEvents, EventsAssumption
  <1>3. /\ body' \in [Clients -> EventSeqs(MaxEvents)]
        /\ wpc' \in [Clients -> {"away", "waiting", "woken", "answered"}]
        /\ after' \in [Clients -> 0 .. MaxPush \cup {Stamp}]
    <2>1. Leave(c)
      BY DEF Receive, StreamReceives, PageReceives
    <2> QED BY <1>2, <2>1 DEF Leave
  <1>4. fetching' \subseteq Pages
    BY DEF Receive, StreamReceives, PageReceives
  <1>5. last' \in [Clients -> 0 .. MaxPush \cup {Stamp}]
    <2>1. body[c] # << >> => body[c][Len(body[c])].id \in 0 .. MaxPush
      <3> SUFFICES ASSUME body[c] # << >> PROVE body[c][Len(body[c])].id \in 0 .. MaxPush
        OBVIOUS
      <3> DEFINE es == body[c]
      <3>1. es \in EventSeqs(MaxEvents)
        OBVIOUS
      <3> HIDE DEF es
      <3>2. Len(es) \in Nat /\ es \in [1 .. Len(es) -> Event] /\ es \in Seq(Event)
        BY <3>1, EventsAssumption, EventSeqsHave
      <3>3. Len(es) # 0
        BY <3>2 DEF es
      <3>4. es[Len(es)] \in Event
        BY <3>2, <3>3
      <3> QED BY <3>4, EventsAssumption DEF Event, es
    <2> QED BY <2>1 DEF Receive, StreamReceives, PageReceives
  <1> QED BY <1>1, <1>3, <1>4, <1>5

LEMMA EventsTypeStep == EventsTypeOK /\ [EventsNext]_evVars => EventsTypeOK'
  <1> SUFFICES ASSUME EventsTypeOK, [EventsNext]_evVars PROVE EventsTypeOK'
    OBVIOUS
  <1>1. ASSUME NEW p \in Pushers, Push(p) PROVE EventsTypeOK'
    <2>1. ppc' \in [Pushers -> {"idle", "notify"}] /\ lagged' \subseteq Clients
      BY <1>1 DEF Push, Falling, EventsTypeOK
    <2>2. UNCHANGED <<clients, restarts>>
      BY <1>1 DEF Push
    <2> QED BY <1>1, <2>1, <2>2, PushKeepsQueue DEF EventsTypeOK, clients
  <1>2. ASSUME NEW p \in Pushers, Notify(p) PROVE EventsTypeOK'
    BY <1>2 DEF Notify, EventsTypeOK
  <1>3. ASSUME NEW c \in Clients, Handle(c) \/ Receive(c) PROVE EventsTypeOK'
    BY <1>3, HandlerTypes, ReceiveTypes
  <1>4. ASSUME NEW c \in Pages, ServeLatest(c) \/ LoseLatest(c) \/ TakeLatest(c)
        PROVE  EventsTypeOK'
    <2> USE DEF EventsTypeOK
    <2>1. /\ UNCHANGED <<bus, wpc, after, body, lagged, restarts>>
          /\ fetching' \subseteq Pages
      BY <1>4 DEF ServeLatest, LoseLatest, TakeLatest
    <2>2. fetched' \in [Pages -> SUBSET (0 .. MaxPush)]
      BY <1>4, LatestIdIs DEF ServeLatest, LoseLatest, TakeLatest
    <2>3. last' \in [Clients -> 0 .. MaxPush \cup {Stamp}]
      BY <1>4 DEF ServeLatest, LoseLatest, TakeLatest
    <2> QED BY <2>1, <2>2, <2>3 DEF bus
  <1>5. CASE RestartBus
    <2>1. << >> \in EventSeqs(MaxEvents) /\ 1 \in 1 .. MaxPush + 1 /\ 0 \in 0 .. MaxPush
      BY NoEvents, EventsAssumption
    <2>2. restarts' \in 0 .. MaxRestarts
      BY <1>5, EventsAssumption DEF RestartBus, EventsTypeOK
    <2> QED BY <1>5, <2>1, <2>2 DEF RestartBus, EventsTypeOK
  <1>6. CASE UNCHANGED evVars
    BY <1>6 DEF evVars, bus, clients, EventsTypeOK
  <1> QED BY <1>1, <1>2, <1>3, <1>4, <1>5, <1>6 DEF EventsNext, EventsStep

------------------------------------------------------------------------------
LEMMA SameLength ==
  ASSUME NEW a \in Nat, NEW b \in Nat, 1 .. a = 1 .. b
  PROVE  a = b
  <1>1. \A i \in Int : i \in 1 .. a <=> i \in 1 .. b
    OBVIOUS
  <1>2. (1 <= a => a <= b) /\ (1 <= b => b <= a)
    BY <1>1
  <1> QED BY <1>2

(* What a stream is given.  Its handler works with the id it sent, its       *)
(* answer follows that id, and as long as it has not lagged the answer       *)
(* begins with the next one.                                                 *)

Heard(c) ==
  /\ seen[c] \in Seq(Nat) /\ last[c] \in 0 .. MaxPush
  /\ \A i \in DOMAIN seen[c] : seen[c][i] <= last[c]
  /\ \A i, j \in DOMAIN seen[c] : i < j => seen[c][i] < seen[c][j]
  /\ wpc[c] \in {"waiting", "woken"} => after[c] = last[c]
  /\ wpc[c] = "answered" =>
       \E k \in 0 .. MaxEvents, top \in 0 .. nextId - 1 :
         /\ Answers(body[c], k, top)
         /\ k # 0 => last[c] <= top - k
         /\ k # 0 /\ c \notin lagged => last[c] = top - k
  /\ c \notin lagged =>
       /\ last[c] < nextId /\ nextId <= last[c] + MaxEvents + 1
       /\ seen[c] = [i \in 1 .. last[c] |-> i]

(* The queue drops nothing before it is full.                               *)
QueueFilled == Len(events) = MaxEvents \/ Len(events) = nextId - 1

StreamInv ==
  /\ EventsTypeOK /\ QueueFilled
  /\ DOMAIN seen = Streams
  /\ \A c \in Streams : Heard(c)

LEMMA StreamInit == EventsInit => StreamInv
  <1> SUFFICES ASSUME EventsInit PROVE StreamInv
    OBVIOUS
  <1>1. QueueFilled
    BY DEF EventsInit, QueueFilled
  <1>2. ASSUME NEW c \in Streams PROVE Heard(c)
    <2>1. seen[c] = << >> /\ last[c] = 0 /\ wpc[c] = "away" /\ nextId = 1
      BY <1>2 DEF EventsInit, Clients
    <2>2. << >> = [i \in 1 .. 0 |-> i]
      OBVIOUS
    <2> QED BY <2>1, <2>2, EventsAssumption DEF Heard
  <1> QED BY <1>1, <1>2, EventsTypeInit DEF StreamInv, EventsInit

(* Events that are pushed leave what a stream was given, and may leave it   *)
(* behind.                                                                  *)
LEMMA HeardLater ==
  ASSUME EventsTypeOK, NEW c \in Streams, Heard(c),
         UNCHANGED <<seen[c], last[c], after[c], body[c]>>,
         wpc'[c] \in {wpc[c], "woken"}, wpc'[c] # wpc[c] => wpc[c] = "waiting",
         nextId' \in Nat, nextId <= nextId', lagged \subseteq lagged',
         c \notin lagged' => nextId' <= last[c] + MaxEvents + 1
  PROVE  Heard(c)'
  <1>1. nextId \in Nat /\ last[c] \in Nat
    BY EventsAssumption DEF EventsTypeOK, Heard
  <1>2. wpc'[c] = "answered" =>
          \E k \in 0 .. MaxEvents, top \in 0 .. nextId' - 1 :
            /\ Answers(body'[c], k, top)
            /\ k # 0 => last'[c] <= top - k
            /\ k # 0 /\ c \notin lagged' => last'[c] = top - k
    <2> SUFFICES ASSUME wpc'[c] = "answered"
                 PROVE  \E k \in 0 .. MaxEvents, top \in 0 .. nextId' - 1 :
                          /\ Answers(body'[c], k, top)
                          /\ k # 0 => last'[c] <= top - k
                          /\ k # 0 /\ c \notin lagged' => last'[c] = top - k
      OBVIOUS
    <2>1. PICK k \in 0 .. MaxEvents, top \in 0 .. nextId - 1 :
            /\ Answers(body[c], k, top)
            /\ k # 0 => last[c] <= top - k
            /\ k # 0 /\ c \notin lagged => last[c] = top - k
      BY DEF Heard
    <2>2. top \in 0 .. nextId' - 1
      BY <1>1
    <2> QED BY <2>1, <2>2
  <1>3. c \notin lagged' =>
          /\ last'[c] < nextId' /\ nextId' <= last'[c] + MaxEvents + 1
          /\ seen'[c] = [i \in 1 .. last'[c] |-> i]
    BY <1>1 DEF Heard
  <1> QED BY <1>2, <1>3 DEF Heard

(* An answer collected now follows what the stream has.                     *)
LEMMA HeardAnswer ==
  ASSUME EventsTypeOK, QueueFilled, NEW c \in Streams, Heard(c),
         UNCHANGED <<nextId, lagged, seen[c], last[c]>>,
         wpc'[c] = "answered", body'[c] = Newer(last[c])
  PROVE  Heard(c)'
  <1>1. /\ nextId \in Nat \ {0} /\ last[c] \in Nat /\ MaxEvents \in Nat
        /\ Len(events) \in 0 .. MaxEvents
    BY EventsAssumption, EventSeqsHave DEF EventsTypeOK, Heard
  <1>2. PICK k \in 0 .. Len(events) :
          /\ Answers(Newer(last[c]), k, nextId - 1)
          /\ k # 0 => last[c] <= nextId - 1 - k
          /\ last[c] \in nextId - 1 - Len(events) .. nextId - 1 => k = nextId - 1 - last[c]
    BY <1>1, NewerAnswers
  <1>3. c \notin lagged => k = nextId - 1 - last[c]
    <2> SUFFICES ASSUME c \notin lagged
                 PROVE  last[c] \in nextId - 1 - Len(events) .. nextId - 1
      BY <1>2
    <2>1. last[c] < nextId /\ nextId <= last[c] + MaxEvents + 1
      BY DEF Heard
    <2> QED BY <1>1, <2>1 DEF QueueFilled
  <1>4. k \in 0 .. MaxEvents /\ nextId - 1 \in 0 .. nextId - 1
    BY <1>1
  <1>5. \E n \in 0 .. MaxEvents, top \in 0 .. nextId' - 1 :
          /\ Answers(body'[c], n, top)
          /\ n # 0 => last'[c] <= top - n
          /\ n # 0 /\ c \notin lagged' => last'[c] = top - n
    <2>1. c \notin lagged => last[c] = nextId - 1 - k
      BY <1>1, <1>3
    <2> QED BY <1>2, <1>4, <2>1
  <1> QED BY <1>5 DEF Heard

LEMMA HeardAway ==
  ASSUME NEW c \in Streams, Heard(c), UNCHANGED <<nextId, lagged, seen[c], last[c]>>,
         \/ wpc'[c] = "away"
         \/ wpc'[c] = "waiting" /\ after'[c] = last[c]
  PROVE  Heard(c)'
  BY DEF Heard

(* The answer arrives: its ids follow those the stream has seen.            *)
LEMMA HeardReceive ==
  ASSUME EventsTypeOK, DOMAIN seen = Streams, NEW c \in Streams, Heard(c),
         StreamReceives(c)
  PROVE  Heard(c)'
  <1> DEFINE es == body[c]
             old == seen[c]
             n == Len(old)
  <1>1. PICK k \in 0 .. MaxEvents, top \in 0 .. nextId - 1 :
          /\ Answers(es, k, top)
          /\ k # 0 => last[c] <= top - k
          /\ k # 0 /\ c \notin lagged => last[c] = top - k
    BY DEF StreamReceives, Leave, Heard
  <1>2. /\ wpc'[c] = "away" /\ UNCHANGED <<nextId, lagged>>
        /\ seen' = [seen EXCEPT ![c] = @ \o IdsOf(es)]
        /\ last' = [last EXCEPT ![c] = IF es = << >> THEN @ ELSE es[Len(es)].id]
    BY DEF StreamReceives, Leave, bus, EventsTypeOK, Clients
  <1>3. DOMAIN last = Clients /\ c \in Clients /\ MaxPush \in Nat /\ MaxEvents \in Nat
        /\ nextId \in 1 .. MaxPush + 1 /\ nextId \in Nat
    BY EventsAssumption DEF EventsTypeOK, Clients
  <1>4. es \in Seq(Event) /\ Len(es) = k
    <2>1. es \in EventSeqs(MaxEvents)
      BY DEF EventsTypeOK, Clients
    <2> HIDE DEF es
    <2>2. es \in Seq(Event) /\ DOMAIN es = 1 .. Len(es) /\ Len(es) \in Nat
      BY <1>3, <2>1, EventSeqsHave
    <2>3. DOMAIN es = 1 .. k /\ k \in Nat
      BY <1>1 DEF Answers
    <2>4. Len(es) = k
      BY <2>2, <2>3, SameLength
    <2> QED BY <2>2, <2>4
  <1>5. CASE seen'[c] = old /\ last'[c] = last[c]
    BY <1>2, <1>5 DEF Heard
  <1>6. CASE k = 0
    <2>1. es = << >>
      BY <1>4, <1>6
    <2>2. last'[c] = last[c]
      BY <1>2, <1>3, <2>1
    <2>3. IdsOf(es) = << >>
      BY <2>1 DEF IdsOf
    <2>4. old \in Seq(Nat)
      BY DEF Heard
    <2> QED BY <1>2, <1>5, <2>2, <2>3, <2>4
  <1>7. CASE k # 0
    <2> DEFINE new == IdsOf(es)
    <2>1. /\ new \in Seq(Nat) /\ Len(new) = k /\ DOMAIN new = 1 .. k
          /\ \A j \in 1 .. k : new[j] = top - k + j
      <3>1. DOMAIN es = 1 .. k /\ \A j \in 1 .. k : es[j].id = top - k + j
        BY <1>1 DEF Answers
      <3>2. \A j \in 1 .. k : top - k + j \in Nat
        BY <1>1, <1>3, <1>7 DEF Heard
      <3>3. new = [j \in 1 .. k |-> top - k + j]
        BY <3>1 DEF IdsOf
      <3> HIDE DEF new
      <3> QED BY <3>2, <3>3
    <2>2. last'[c] = top
      <3>1. es # << >> /\ k \in 1 .. k
        BY <1>4, <1>7
      <3>2. es[Len(es)].id = top - k + k
        BY <1>1, <1>4, <3>1 DEF Answers
      <3> QED BY <1>2, <1>3, <3>1, <3>2
    <2>3. old \in Seq(Nat) /\ n \in Nat /\ DOMAIN old = 1 .. n
      BY DEF Heard
    <2> DEFINE s == old \o new
    <2>11. seen'[c] = s
      BY <1>2
    <2> HIDE DEF new, old, es
    <2>12. /\ s \in Seq(Nat) /\ Len(s) = n + k /\ DOMAIN s = 1 .. n + k
           /\ \A i \in 1 .. n : s[i] = old[i]
           /\ \A i \in n + 1 .. n + k : s[i] = new[i - n]
      <3>1. /\ s \in Seq(Nat) /\ Len(s) = n + k
            /\ \A i \in 1 .. n + k : s[i] = IF i <= n THEN old[i] ELSE new[i - n]
        BY <2>1, <2>3, ConcatProperties
      <3> HIDE DEF s
      <3>2. DOMAIN s = 1 .. n + k
        BY <3>1
      <3>3. \A i \in 1 .. n : s[i] = old[i]
        BY <2>3, <3>1
      <3>4. \A i \in n + 1 .. n + k : s[i] = new[i - n]
        BY <2>3, <3>1
      <3> QED BY <3>1, <3>2, <3>3, <3>4
    <2>13. /\ \A i \in 1 .. n : s[i] \in Nat /\ s[i] <= last[c]
           /\ \A i, j \in 1 .. n : i < j => s[i] < s[j]
      <3>1. \A i \in 1 .. n : old[i] \in Nat /\ old[i] <= last[c]
        BY <2>3 DEF Heard, old
      <3>2. \A i, j \in 1 .. n : i < j => old[i] < old[j]
        BY <2>3 DEF Heard, old
      <3> HIDE DEF s
      <3> QED BY <2>12, <3>1, <3>2
    <2>14. \A i \in n + 1 .. n + k : s[i] = top - k + (i - n)
      <3> TAKE i \in n + 1 .. n + k
      <3>1. i - n \in 1 .. k
        BY <2>3
      <3> QED BY <2>1, <2>12, <3>1
    <2>15. last[c] \in Nat /\ last[c] <= top - k /\ top <= MaxPush /\ top \in Nat
      BY <1>1, <1>3, <1>7 DEF Heard, es
    <2>16. \A i \in 1 .. n + k : i \in 1 .. n \/ i \in n + 1 .. n + k
      BY <2>3
    <2> HIDE DEF s
    <2>17. \A i \in 1 .. n + k : s[i] <= top
      <3> TAKE i \in 1 .. n + k
      <3>1. CASE i \in 1 .. n
        BY <2>13, <2>15, <3>1
      <3>2. CASE i \in n + 1 .. n + k
        BY <2>3, <2>14, <2>15, <3>2
      <3> QED BY <2>16, <3>1, <3>2
    <2>18. \A i, j \in 1 .. n + k : i < j => s[i] < s[j]
      <3> TAKE i, j \in 1 .. n + k
      <3> HAVE i < j
      <3>1. CASE j \in 1 .. n
        <4>1. i \in 1 .. n
          BY <2>3, <3>1
        <4> QED BY <2>13, <3>1, <4>1
      <3>2. CASE i \in 1 .. n /\ j \in n + 1 .. n + k
        <4>1. s[j] = top - k + (j - n) /\ s[i] <= last[c] /\ s[i] \in Nat /\ j - n >= 1
          BY <2>3, <2>13, <2>14, <3>2
        <4>2. last[c] < top - k + (j - n)
          BY <2>3, <2>15, <4>1
        <4> QED BY <2>3, <2>15, <4>1, <4>2
      <3>3. CASE i \in n + 1 .. n + k /\ j \in n + 1 .. n + k
        BY <2>3, <2>14, <2>15, <3>3
      <3> QED BY <2>3, <2>16, <3>1, <3>2, <3>3
    <2>19. c \notin lagged =>
            /\ top < nextId /\ nextId <= top + MaxEvents + 1
            /\ s = [i \in 1 .. top |-> i]
      <3> SUFFICES ASSUME c \notin lagged
                   PROVE  /\ top < nextId /\ nextId <= top + MaxEvents + 1
                          /\ s = [i \in 1 .. top |-> i]
        OBVIOUS
      <3>1. /\ last[c] = top - k /\ nextId <= last[c] + MaxEvents + 1
            /\ old = [i \in 1 .. last[c] |-> i]
        BY <1>1, <1>7 DEF Heard, es, old
      <3>2. n = last[c]
        BY <2>3, <2>15, <3>1
      <3>3. n + k = top
        BY <2>15, <3>1, <3>2
      <3>4. \A i \in 1 .. n + k : s[i] = i
        <4> TAKE i \in 1 .. n + k
        <4>1. CASE i \in 1 .. n
          BY <2>12, <3>1, <3>2, <4>1 DEF s
        <4>2. CASE i \in n + 1 .. n + k
          <5>1. s[i] = top - k + (i - n)
            BY <2>14, <4>2
          <5>2. k \in Nat /\ i \in Nat /\ k = top - n
            BY <1>3, <2>3, <2>15, <3>3
          <5> QED BY <2>3, <2>15, <5>1, <5>2
        <4> QED BY <2>16, <4>1, <4>2
      <3>5. s = [i \in 1 .. n + k |-> s[i]]
        <4>1. s \in Seq(Nat) /\ Len(s) = n + k
          BY <2>12
        <4>2. s \in [1 .. n + k -> Nat]
          BY <4>1, SeqDef
        <4> QED BY <4>2
      <3>6. s = [i \in 1 .. top |-> i]
        BY <3>3, <3>4, <3>5
      <3> QED BY <1>3, <2>15, <3>1, <3>6
    <2>20. s \in Seq(Nat) /\ DOMAIN s = 1 .. n + k
      BY <2>12 DEF s
    <2>21. top \in 0 .. MaxPush
      BY <2>15
    <2> HIDE DEF n
    <2>22. seen'[c] \in Seq(Nat) /\ last'[c] \in 0 .. MaxPush /\ wpc'[c] = "away"
      BY <1>2, <2>2, <2>11, <2>20, <2>21
    <2>23. \A i \in DOMAIN seen'[c] : seen'[c][i] <= last'[c]
      BY <2>2, <2>11, <2>17, <2>20
    <2>24. \A i, j \in DOMAIN seen'[c] : i < j => seen'[c][i] < seen'[c][j]
      BY <2>11, <2>18, <2>20
    <2>25. c \notin lagged' =>
             /\ last'[c] < nextId' /\ nextId' <= last'[c] + MaxEvents + 1
             /\ seen'[c] = [i \in 1 .. last'[c] |-> i]
      BY <1>2, <2>2, <2>11, <2>19
    <2> QED BY <2>22, <2>23, <2>24, <2>25 DEF Heard
  <1> QED BY <1>6, <1>7

LEMMA StreamStep == StreamInv /\ [EventsNext]_evVars => StreamInv'
  <1> SUFFICES ASSUME StreamInv, [EventsNext]_evVars PROVE StreamInv'
    OBVIOUS
  <1>0. EventsTypeOK /\ EventsTypeOK' /\ DOMAIN seen = Streams /\ Streams \subseteq Clients
    BY EventsTypeStep DEF StreamInv, Clients
  <1>1. ASSUME NEW p \in Pushers, Push(p) PROVE StreamInv'
    <2>1. /\ UNCHANGED <<wpc, after, body, last, seen>> /\ nextId' = nextId + 1
          /\ lagged' = lagged \cup Falling
      BY <1>1 DEF Push, clients
    <2>2. nextId \in Nat /\ nextId' \in Nat /\ nextId <= nextId'
      BY <1>0, <2>1, EventsAssumption DEF EventsTypeOK
    <2>3. ASSUME NEW c \in Streams PROVE Heard(c)'
      <3>1. Heard(c) /\ last[c] \in Nat /\ MaxEvents \in Nat
        BY EventsAssumption DEF StreamInv, Heard
      <3>2. c \notin lagged' => nextId' <= last[c] + MaxEvents + 1
        BY <1>0, <2>1, <2>2, <3>1 DEF Falling
      <3> QED BY <1>0, <2>1, <2>2, <3>1, <3>2, HeardLater
    <2>4. QueueFilled'
      <3>1. /\ Len(events') = IF Len(events) < MaxEvents THEN Len(events) + 1 ELSE MaxEvents
            /\ Len(events) \in 0 .. MaxEvents /\ MaxEvents \in Nat
        BY <1>0, <1>1, PushKeepsQueue, EventSeqsHave, EventsAssumption DEF EventsTypeOK
      <3>2. Len(events) = MaxEvents \/ Len(events) = nextId - 1
        BY DEF StreamInv, QueueFilled
      <3>3. Len(events') = MaxEvents \/ Len(events') = nextId' - 1
        BY <2>1, <2>2, <3>1, <3>2
      <3> QED BY <3>3 DEF QueueFilled
    <2> QED BY <1>0, <2>1, <2>3, <2>4 DEF StreamInv
  <1>2. ASSUME NEW c \in Clients, UNCHANGED <<bus, lagged>>, DOMAIN seen' = Streams,
               \A d \in Streams \ {c} :
                 UNCHANGED <<wpc[d], after[d], body[d], last[d], seen[d]>>,
               c \in Streams => Heard(c)'
        PROVE  StreamInv'
    <2>1. ASSUME NEW d \in Streams \ {c} PROVE Heard(d)'
      BY <1>2 DEF Heard, StreamInv, bus
    <2>2. QueueFilled'
      BY <1>2 DEF StreamInv, QueueFilled, bus
    <2> QED BY <1>0, <1>2, <2>1, <2>2 DEF StreamInv
  <1>3. ASSUME NEW p \in Pushers, Notify(p) PROVE StreamInv'
    <2>1. /\ UNCHANGED <<events, nextId, after, body, last, seen, lagged>>
          /\ \A c \in Clients : wpc'[c] = IF wpc[c] = "waiting" THEN "woken" ELSE wpc[c]
      BY <1>3 DEF Notify
    <2>2. nextId \in Nat
      BY <1>0 DEF EventsTypeOK
    <2>3. ASSUME NEW c \in Streams PROVE Heard(c)'
      <3>1. Heard(c)
        BY DEF StreamInv
      <3>2. c \notin lagged' => nextId' <= last[c] + MaxEvents + 1
        BY <2>1, <3>1 DEF Heard
      <3> QED BY <1>0, <2>1, <2>2, <3>1, <3>2, HeardLater
    <2>4. QueueFilled'
      BY <2>1 DEF StreamInv, QueueFilled
    <2> QED BY <1>0, <2>1, <2>3, <2>4 DEF StreamInv
  <1>4. ASSUME NEW c \in Clients, Handle(c) PROVE StreamInv'
    <2> USE DEF EventsTypeOK
    <2>1. UNCHANGED <<bus, lagged, last, seen>>
      BY <1>4 DEF Handle, Poll, Wake, TimeOut, LoseAnswer, Leave
    <2>2. \A d \in Streams \ {c} : UNCHANGED <<wpc[d], after[d], body[d]>>
      BY <1>0, <1>4 DEF Handle, Poll, Wake, TimeOut, LoseAnswer, Leave, Answer
    <2>3. ASSUME c \in Streams PROVE Heard(c)'
      <3>1. Heard(c) /\ QueueFilled /\ nextId' = nextId
        BY <2>1, <2>3 DEF StreamInv, bus
      <3>2. CASE Poll(c)
        <4>1. \/ wpc'[c] = "answered" /\ body'[c] = Newer(last[c])
              \/ wpc'[c] = "waiting" /\ after'[c] = last[c]
          BY <1>0, <3>2 DEF Poll, Answer
        <4> QED BY <1>0, <2>1, <2>3, <3>1, <4>1, HeardAnswer, HeardAway
      <3>3. CASE Wake(c) \/ TimeOut(c)
        <4>1. after[c] = last[c] /\ after' = after
          BY <3>1, <3>3 DEF Wake, TimeOut, Heard
        <4>2. \/ wpc'[c] = "answered" /\ body'[c] = Newer(after[c])
              \/ wpc'[c] = "waiting"
          BY <1>0, <3>3 DEF Wake, TimeOut, Answer
        <4> QED BY <1>0, <2>1, <2>3, <3>1, <4>1, <4>2, HeardAnswer, HeardAway
      <3>4. CASE LoseAnswer(c)
        <4>1. wpc'[c] = "away"
          BY <1>0, <3>4 DEF LoseAnswer, Leave
        <4> QED BY <2>1, <2>3, <3>1, <4>1, HeardAway
      <3> QED BY <1>4, <3>2, <3>3, <3>4 DEF Handle
    <2> QED BY <1>0, <1>2, <2>1, <2>2, <2>3
  <1>5. ASSUME NEW c \in Clients, Receive(c) PROVE StreamInv'
    <2>1. /\ UNCHANGED <<bus, lagged>>
          /\ \A d \in Streams \ {c} : UNCHANGED <<wpc[d], after[d], body[d], last[d], seen[d]>>
      BY <1>0, <1>5 DEF Receive, StreamReceives, PageReceives, Leave, EventsTypeOK
    <2>2. DOMAIN seen' = Streams
      BY <1>0, <1>5 DEF Receive, StreamReceives, PageReceives
    <2>3. c \in Streams => StreamReceives(c)
      BY <1>5, EventsAssumption DEF Receive, PageReceives
    <2>4. c \in Streams => Heard(c)'
      BY <1>0, <2>3, HeardReceive DEF StreamInv
    <2> QED BY <1>2, <2>1, <2>2, <2>4
  <1>6. ASSUME NEW c \in Pages, ServeLatest(c) \/ LoseLatest(c) \/ TakeLatest(c)
        PROVE  StreamInv'
    <2>1. UNCHANGED <<bus, wpc, after, body, seen, lagged>>
      BY <1>6 DEF ServeLatest, LoseLatest, TakeLatest
    <2>2. \A d \in Streams : last'[d] = last[d]
      BY <1>0, <1>6, EventsAssumption DEF ServeLatest, LoseLatest, TakeLatest, EventsTypeOK
    <2>3. c \in Clients /\ c \notin Streams
      BY EventsAssumption DEF Clients
    <2> QED BY <1>0, <1>2, <2>1, <2>2, <2>3
  <1>7. CASE RestartBus
    <2>1. /\ events' = << >> /\ nextId' = 1 /\ UNCHANGED <<last, seen>>
          /\ lagged' = lagged \cup {c \in Clients : last[c] > 0}
          /\ \A c \in Clients : wpc'[c] = "away"
      BY <1>7 DEF RestartBus
    <2>2. ASSUME NEW c \in Streams PROVE Heard(c)'
      <3>1. Heard(c) /\ last[c] \in Nat /\ MaxEvents \in Nat
        BY EventsAssumption DEF StreamInv, Heard
      <3>2. c \notin lagged' => last[c] = 0
        BY <1>0, <2>1, <3>1
      <3>3. c \notin lagged' => /\ last'[c] < nextId' /\ nextId' <= last'[c] + MaxEvents + 1
                                /\ seen'[c] = [i \in 1 .. last'[c] |-> i]
        BY <2>1, <3>1, <3>2 DEF Heard
      <3> QED BY <1>0, <2>1, <3>1, <3>3 DEF Heard
    <2>3. QueueFilled'
      BY <2>1 DEF QueueFilled
    <2> QED BY <1>0, <2>1, <2>2, <2>3 DEF StreamInv
  <1>8. CASE UNCHANGED evVars
    <2>1. UNCHANGED <<events, nextId, wpc, after, body, last, seen, lagged>>
      BY <1>8 DEF evVars, bus, clients
    <2>2. ASSUME NEW c \in Streams PROVE Heard(c)'
      BY <2>1 DEF StreamInv, Heard
    <2>3. QueueFilled'
      BY <2>1 DEF StreamInv, QueueFilled
    <2> QED BY <1>0, <2>1, <2>2, <2>3 DEF StreamInv
  <1> QED
    BY <1>1, <1>3, <1>4, <1>5, <1>6, <1>7, <1>8 DEF EventsNext, EventsStep

(* A stream that reconnects with Last-Event-ID is given every event at most *)
(* once and in order, and all of them while it keeps within MAX_EVENTS of   *)
(* the queue and the process lives (Events!StreamsAreServed), however many  *)
(* threads push and answers are lost.                                       *)
THEOREM StreamsHearInOrder == EventsSpec => []StreamsAreServed
  <1>1. StreamInv => StreamsAreServed
    BY DEF StreamInv, Heard, StreamsAreServed, InOrderOnce, NothingMissed
  <1> QED BY <1>1, StreamInit, StreamStep, PTL DEF EventsSpec

------------------------------------------------------------------------------
(* Multi-signature proposals: type correctness, and that no proposal is    *)
(* broadcast before M different signers asked to sign it, for any number   *)
(* of workers, signers and proposals and whatever overlapping requests     *)
(* overwrite.                                                              *)

Approvals(t) == {s \in Signer : <<t, s>> \in asked}

Enough(t) == \E p \in proposed : p[1] = t /\ Cardinality(Approvals(t)) >= p[2]

(* What makes the record of a proposal honest, wherever it is kept: it was   *)
(* proposed with its threshold, counts each signer once, and only signers  *)
(* that asked.  What is left of a cut line need not be.                    *)
Honest(r) ==
  r.txid \in Txid =>
    /\ <<r.txid, r.required>> \in proposed
    /\ r.signed_by \subseteq Approvals(r.txid)
    /\ r.collected_sigs = Cardinality(r.signed_by)

Lines(s) == {s[i] : i \in DOMAIN s}

HonestInv ==
  /\ \A r \in Lines(pending) : Honest(r)
  /\ \A w \in Worker : \A r \in Lines(all[w]) : Honest(r)
  /\ \A w \in Worker : pc[w] = "send" /\ txid[w] \in Txid => Enough(txid[w])
  /\ \A t \in Broadcast \cap Txid : Enough(t)

------------------------------------------------------------------------------
(* Lines                                                                   *)

(* No two lines have the same id.                                          *)
Distinct(lines) ==
  \A a, b \in DOMAIN lines : lines[a].txid = lines[b].txid => a = b

(* The first i of the lines, without those of t.                           *)
IsWithout(out, i, lines, t) ==
  /\ out \in Seq(Record)
  /\ \A a \in DOMAIN out : out[a].txid # t /\ \E b \in 1 .. i : out[a] = lines[b]
  /\ \A b \in 1 .. i : lines[b].txid # t => \E a \in DOMAIN out : out[a] = lines[b]
  /\ Distinct(lines) => Distinct(out)

WithoutStep(out, r, t, q) == IF r.txid = t THEN out ELSE Append(out, r)

Removes == INSTANCE Inductions
  WITH Op <- WithoutStep, Holds <- LAMBDA out, i, u : IsWithout(out, i, u[1], u[2])

LEMMA RemovesGrounded == Removes!Grounded
  BY NatHasLeast DEF Removes!Grounded

LEMMA WithoutIsFold ==
  ASSUME NEW t, NEW lines
  PROVE  Without(t, lines) = Removes!Fold(<< >>, lines, t, 0)
  BY DEF Without, Removes!Fold, FoldLeft, MapThenFoldSet, Removes!MapThenFoldSet,
         Max, Removes!Greatest, WithoutStep

(* One more line is left in or out.                                        *)
LEMMA WithoutOneMore ==
  ASSUME NEW t, NEW lines \in Seq(Record), NEW i \in 1 .. Len(lines), NEW out,
         IsWithout(out, i - 1, lines, t)
  PROVE  IsWithout(WithoutStep(out, lines[i], t, 0), i, lines, t)
  <1> DEFINE r == lines[i]
             k == Len(out)
             longer == Append(out, r)
  <1>1. /\ r \in Record /\ out \in Seq(Record) /\ k \in Nat /\ DOMAIN out = 1 .. k
        /\ DOMAIN lines = 1 .. Len(lines)
    BY DEF IsWithout
  <1>2. /\ \A a \in DOMAIN out : out[a].txid # t /\ \E b \in 1 .. i - 1 : out[a] = lines[b]
        /\ \A b \in 1 .. i - 1 : lines[b].txid # t => \E a \in DOMAIN out : out[a] = lines[b]
        /\ Distinct(lines) => Distinct(out)
    BY DEF IsWithout
  <1>3. \A b : b \in 1 .. i <=> b \in 1 .. i - 1 \/ b = i
    OBVIOUS
  <1>4. CASE r.txid = t
    <2>1. WithoutStep(out, r, t, 0) = out
      BY <1>4 DEF WithoutStep
    <2>2. \A a \in DOMAIN out : out[a].txid # t /\ \E b \in 1 .. i : out[a] = lines[b]
      BY <1>2, <1>3
    <2>3. \A b \in 1 .. i : lines[b].txid # t => \E a \in DOMAIN out : out[a] = lines[b]
      BY <1>2, <1>3, <1>4
    <2>4. out \in Seq(Record) /\ (Distinct(lines) => Distinct(out))
      BY <1>1, <1>2
    <2>5. IsWithout(out, i, lines, t)
      BY <2>2, <2>3, <2>4, Zenon DEF IsWithout
    <2> QED BY <2>1, <2>5
  <1>5. CASE r.txid # t
    <2>1. WithoutStep(out, r, t, 0) = longer
      BY <1>5 DEF WithoutStep
    <2>2. /\ longer \in Seq(Record) /\ DOMAIN longer = 1 .. k + 1 /\ longer[k + 1] = r
          /\ \A a \in 1 .. k : longer[a] = out[a]
      BY <1>1
    <2> HIDE DEF longer
    <2>3. \A a : a \in 1 .. k + 1 <=> a \in 1 .. k \/ a = k + 1
      BY <1>1
    <2>4. k + 1 \notin 1 .. k /\ i \notin 1 .. i - 1
      BY <1>1
    <2> HIDE DEF k, r
    <2>5. \A a \in DOMAIN longer : longer[a].txid # t /\ \E b \in 1 .. i : longer[a] = lines[b]
      <3> TAKE a \in DOMAIN longer
      <3>1. CASE a = k + 1
        BY <1>3, <1>5, <2>2, <3>1 DEF r
      <3>2. CASE a \in 1 .. k
        BY <1>1, <1>2, <1>3, <2>2, <3>2
      <3> QED BY <2>2, <2>3, <3>1, <3>2
    <2>6. ASSUME NEW b \in 1 .. i, lines[b].txid # t
          PROVE  \E a \in DOMAIN longer : longer[a] = lines[b]
      <3>1. CASE b = i
        BY <2>2, <2>3, <3>1 DEF r
      <3>2. CASE b \in 1 .. i - 1
        <4>1. PICK a \in DOMAIN out : out[a] = lines[b]
          BY <1>2, <2>6, <3>2
        <4> QED BY <1>1, <2>2, <2>3, <4>1
      <3> QED BY <1>3, <3>1, <3>2
    <2>7. ASSUME Distinct(lines), NEW a \in 1 .. k, longer[a].txid = r.txid
          PROVE  FALSE
      <3>1. PICK b \in 1 .. i - 1 : out[a] = lines[b]
        BY <1>1, <1>2
      <3>2. b \in DOMAIN lines /\ b # i
        BY <1>1, <2>4, <3>1
      <3> QED BY <1>1, <2>2, <2>7, <3>1, <3>2 DEF Distinct, r
    <2>8. Distinct(lines) => Distinct(longer)
      BY <1>1, <1>2, <2>2, <2>3, <2>7 DEF Distinct
    <2> QED BY <2>1, <2>2, <2>5, <2>6, <2>8 DEF IsWithout, r
  <1> QED BY <1>4, <1>5

(* What removePending writes back.                                         *)
LEMMA WithoutIs ==
  ASSUME NEW t, NEW lines \in Seq(Record)
  PROVE  IsWithout(Without(t, lines), Len(lines), lines, t)
  <1> DEFINE u == <<lines, t>>
             none == << >>
  <1>1. u[1] = lines /\ u[2] = t
    OBVIOUS
  <1> HIDE DEF u
  <1>2. IsWithout(none, 0, u[1], u[2])
    BY <1>1 DEF IsWithout, Distinct
  <1>3. \A i \in 1 .. Len(lines) : \A out :
          IsWithout(out, i - 1, u[1], u[2])
            => IsWithout(WithoutStep(out, lines[i], t, 0), i, u[1], u[2])
    BY <1>1, WithoutOneMore
  <1> HIDE DEF none
  <1>4. IsWithout(Removes!Fold(none, lines, t, 0), Len(lines), u[1], u[2])
    BY <1>2, <1>3, RemovesGrounded, Removes!FoldInduction
  <1> QED BY <1>1, <1>4, WithoutIsFold DEF none

(* What a cut line leaves is a record of an id that nobody was given.      *)
LEMMA TailsAre ==
  ASSUME NEW r \in Record,
         NEW k \in 0 .. r.collected_sigs + Cardinality(r.signed_by), NEW c \in Tails(r, k)
  PROVE  c \in Record /\ c.txid \in Scrap
  <1>1. /\ r.collected_sigs \in Nat /\ r.required \in Int /\ r.signed_by \subseteq Signer
        /\ IsFiniteSet(r.signed_by)
    <2>1. r.collected_sigs \in Nat /\ r.required \in Int /\ r.signed_by \subseteq Signer
      BY DEF Record
    <2> QED BY <2>1, MultisigAssumption, FS_Subset
  <1>2. Cardinality(r.signed_by) \in Nat
    BY <1>1, FS_CardinalityType
  <1>3. k \in Nat
    BY <1>1, <1>2
  <1>4. PICK id \in Scrap, left \in SUBSET r.signed_by :
          c = [txid           |-> id,
               required       |-> IF k = 0 THEN r.required ELSE IF k = 1 THEN Clock ELSE 1,
               collected_sigs |-> IF k <= r.collected_sigs THEN r.collected_sigs - k ELSE 0,
               signed_by      |-> left]
    BY DEF Tails
  <1>5. /\ (IF k = 0 THEN r.required ELSE IF k = 1 THEN Clock ELSE 1) \in Int
        /\ (IF k <= r.collected_sigs THEN r.collected_sigs - k ELSE 0) \in Nat
        /\ left \subseteq Signer /\ id \in Id
    BY <1>1, <1>3, MultisigAssumption DEF Id
  <1> QED BY <1>4, <1>5 DEF Record

(* What the end of the file holds are lines of it, but for a cut one.      *)
LEMMA EndsAre ==
  ASSUME pending \in Seq(Record), NEW end \in Ends
  PROVE  /\ end \in Seq(Record)
         /\ \A a \in DOMAIN end : \/ end[a].txid \in Scrap
                                 \/ \E b \in DOMAIN pending : end[a] = pending[b]
  <1> DEFINE n == Len(pending)
             After(i) == SubSeq(pending, i + 1, n)
             Cuts(i) == UNION {Tails(pending[i], k) :
                                 k \in 0 .. pending[i].collected_sigs
                                           + Cardinality(pending[i].signed_by)}
  <1>1. n \in Nat /\ DOMAIN pending = 1 .. n
    OBVIOUS
  <1>2. ASSUME NEW i \in DOMAIN pending
        PROVE  /\ After(i) \in Seq(Record)
               /\ \A a \in DOMAIN After(i) : \E b \in DOMAIN pending : After(i)[a] = pending[b]
    <2>1. i \in 1 .. n
      BY <1>1
    <2>2. /\ After(i) \in Seq(Record) /\ DOMAIN After(i) = 1 .. n - i
          /\ \A a \in 1 .. n - i : After(i)[a] = pending[i + a]
      BY <1>1, <2>1
    <2>3. \A a \in 1 .. n - i : i + a \in DOMAIN pending
      BY <1>1, <2>1
    <2> QED BY <2>2, <2>3
  <1>3. ASSUME NEW i \in DOMAIN pending, NEW c \in Cuts(i)
        PROVE  c \in Record /\ c.txid \in Scrap
    BY <1>1, <1>3, TailsAre
  <1>4. \/ end = << >>
        \/ \E i \in DOMAIN pending : end = After(i)
        \/ \E i \in DOMAIN pending : \E c \in Cuts(i) : end = <<c>> \o After(i)
    BY DEF Ends
  <1>5. CASE end = << >>
    BY <1>5
  <1>6. ASSUME NEW i \in DOMAIN pending, end = After(i)
        PROVE  /\ end \in Seq(Record)
               /\ \A a \in DOMAIN end : \E b \in DOMAIN pending : end[a] = pending[b]
    BY <1>2, <1>6
  <1>7. ASSUME NEW i \in DOMAIN pending, NEW c \in Cuts(i), end = <<c>> \o After(i)
        PROVE  /\ end \in Seq(Record)
               /\ \A a \in DOMAIN end : \/ end[a].txid \in Scrap
                                       \/ \E b \in DOMAIN pending : end[a] = pending[b]
    <2> DEFINE rest == After(i)
    <2>1. c \in Record /\ c.txid \in Scrap
      BY <1>3
    <2>2. /\ rest \in Seq(Record)
          /\ \A a \in DOMAIN rest : \E b \in DOMAIN pending : rest[a] = pending[b]
      BY <1>2
    <2> HIDE DEF rest, Cuts
    <2>3. /\ end \in Seq(Record) /\ DOMAIN end = 1 .. 1 + Len(rest) /\ end[1] = c
          /\ \A a \in 2 .. 1 + Len(rest) : end[a] = rest[a - 1]
      <3>1. end = <<c>> \o rest
        BY <1>7 DEF rest
      <3>2. <<c>> \in Seq(Record) /\ Len(<<c>>) = 1 /\ <<c>>[1] = c
        BY <2>1
      <3> QED BY <2>2, <3>1, <3>2
    <2>4. \A a \in 2 .. 1 + Len(rest) : a - 1 \in DOMAIN rest
      BY <2>2
    <2>5. \A a \in 1 .. 1 + Len(rest) : a = 1 \/ a \in 2 .. 1 + Len(rest)
      BY <2>2
    <2> QED BY <2>1, <2>2, <2>3, <2>4, <2>5
  <1> QED BY <1>4, <1>5, <1>6, <1>7

(* What a write leaves: its lines, and an end of what was there.           *)
LEMMA OverwrittenAre ==
  ASSUME pending \in Seq(Record), NEW lines \in Seq(Record), NEW q \in Overwritten(lines)
  PROVE  /\ q \in Seq(Record)
         /\ \A a \in DOMAIN q : \/ q[a].txid \in Scrap
                                \/ \E b \in DOMAIN pending : q[a] = pending[b]
                                \/ \E b \in DOMAIN lines : q[a] = lines[b]
         /\ pending = << >> => q = lines
  <1>1. CASE lines = << >>
    BY <1>1 DEF Overwritten
  <1>2. CASE lines # << >>
    <2>1. PICK end \in Ends : q = lines \o end
      BY <1>2 DEF Overwritten
    <2>2. /\ end \in Seq(Record)
          /\ \A a \in DOMAIN end : \/ end[a].txid \in Scrap
                                  \/ \E b \in DOMAIN pending : end[a] = pending[b]
      BY EndsAre
    <2>3. /\ q \in Seq(Record) /\ DOMAIN q = 1 .. Len(lines) + Len(end)
          /\ \A a \in 1 .. Len(lines) : q[a] = lines[a]
          /\ \A a \in Len(lines) + 1 .. Len(lines) + Len(end) : q[a] = end[a - Len(lines)]
      BY <2>1, <2>2
    <2>4. \A a \in DOMAIN q : \/ a \in DOMAIN lines
                            \/ /\ a \in Len(lines) + 1 .. Len(lines) + Len(end)
                               /\ a - Len(lines) \in DOMAIN end
      BY <2>2, <2>3
    <2>5. ASSUME pending = << >> PROVE q = lines
      <3>1. end = << >>
        BY <2>5 DEF Ends
      <3> QED BY <2>1, <3>1
    <2>6. \A a \in DOMAIN lines : q[a] = lines[a]
      BY <2>3
    <2>7. ASSUME NEW a \in DOMAIN q
          PROVE  \/ q[a].txid \in Scrap
                 \/ \E b \in DOMAIN pending : q[a] = pending[b]
                 \/ \E b \in DOMAIN lines : q[a] = lines[b]
      <3>1. CASE a \in DOMAIN lines
        BY <2>6, <3>1
      <3>2. ASSUME a \in Len(lines) + 1 .. Len(lines) + Len(end), a - Len(lines) \in DOMAIN end
            PROVE  \/ q[a].txid \in Scrap
                   \/ \E b \in DOMAIN pending : q[a] = pending[b]
        <4> DEFINE e == a - Len(lines)
        <4>1. e \in DOMAIN end /\ q[a] = end[e]
          BY <2>3, <3>2
        <4> HIDE DEF e
        <4> QED BY <2>2, <4>1
      <3> QED BY <2>4, <3>1, <3>2
    <2> QED BY <2>3, <2>5, <2>7
  <1> QED BY <1>1, <1>2

------------------------------------------------------------------------------
(* The set of approvals is finite and only grows.                          *)
LEMMA ApprovalsFinite ==
  ASSUME NEW t PROVE IsFiniteSet(Approvals(t)) /\ Cardinality(Approvals(t)) \in Nat
  <1>1. IsFiniteSet(Approvals(t))
    BY MultisigAssumption, FS_Subset DEF Approvals
  <1> QED BY <1>1, FS_CardinalityType

(* A signer added to a record that does not list it counts one more.       *)
LEMMA OneMoreSigner ==
  ASSUME NEW S, IsFiniteSet(S), NEW s, s \notin S
  PROVE  Cardinality(S \cup {s}) = Cardinality(S) + 1
  BY FS_AddElement

(* More proposals and signatures leave approvals enough and records honest. *)
LEMMA AskedGrows ==
  ASSUME SigTypeOK, asked \subseteq asked', proposed \subseteq proposed'
  PROVE  /\ \A t : Enough(t) => Enough(t)'
         /\ \A r : Honest(r) => Honest(r)'
  <1>1. ASSUME NEW t, NEW t1, t1 = t PROVE Approvals(t) \subseteq Approvals(t)'
    BY DEF Approvals
  <1>2. ASSUME NEW t, Enough(t) PROVE Enough(t)'
    <2>1. IsFiniteSet(Approvals(t)') /\ Cardinality(Approvals(t)') \in Nat
      <3>1. IsFiniteSet(Approvals(t)')
        BY MultisigAssumption, FS_Subset DEF Approvals
      <3> QED BY <3>1, FS_CardinalityType
    <2>2. Cardinality(Approvals(t)) <= Cardinality(Approvals(t)')
      BY <1>1, <2>1, FS_Subset
    <2>3. Cardinality(Approvals(t)) \in Nat
      BY ApprovalsFinite
    <2>4. PICK p \in proposed : p[1] = t /\ Cardinality(Approvals(t)) >= p[2]
      BY <1>2 DEF Enough
    <2>5. p[2] \in Int
      BY MultisigAssumption DEF SigTypeOK
    <2>6. Cardinality(Approvals(t)') >= p[2]
      BY <2>1, <2>2, <2>3, <2>4, <2>5
    <2> QED BY <2>4, <2>6 DEF Enough
  <1>3. ASSUME NEW r, Honest(r) PROVE Honest(r)'
    BY <1>3, <1>1 DEF Honest
  <1> QED BY <1>2, <1>3

------------------------------------------------------------------------------
LEMMA TypeInit == SigInit => SigTypeOK
  BY DEF SigInit, SigTypeOK, Record

LEMMA SignedType ==
  ASSUME NEW r \in Record, NEW s \in Signer
  PROVE  Signed(r, s) \in Record
  <1> DEFINE n == r.collected_sigs + 1
             S == r.signed_by \cup {s}
  <1>1. n \in Nat /\ S \in SUBSET Signer
    BY DEF Record
  <1> HIDE DEF n, S
  <1>2. [[r EXCEPT !.collected_sigs = n] EXCEPT !.signed_by = S] \in Record
    BY <1>1 DEF Record
  <1>3. Signed(r, s) = [[r EXCEPT !.collected_sigs = n] EXCEPT !.signed_by = S]
    BY DEF Signed, Record, n, S
  <1> QED BY <1>2, <1>3

LEMMA TypeStep == SigTypeOK /\ [SigNext]_sigVars => SigTypeOK'
  <1> SUFFICES ASSUME SigTypeOK, [SigNext]_sigVars PROVE SigTypeOK'
    OBVIOUS
  <1> USE DEF SigTypeOK, file
  <1>a. Txid \subseteq Id
    BY DEF Id
  <1>1. ASSUME NEW w \in Worker, NEW t \in Txid, NEW m \in Threshold, Propose(w, t, m)
        PROVE  SigTypeOK'
    <2> DEFINE new == [txid |-> t, required |-> m, collected_sigs |-> 0, signed_by |-> {}]
    <2>1. new \in Record
      BY <1>a, MultisigAssumption DEF Record
    <2>2. /\ proposed' = proposed \cup {<<t, m>>} /\ pending' = Append(pending, new)
          /\ requests' = requests + 1
          /\ calm' = (calm /\ Alone(w) /\ \A p \in proposed : p[1] # t)
          /\ UNCHANGED <<mempool, pc, txid, signer, all, asked, acknowledged>>
      BY <1>1 DEF Propose, Request
    <2> HIDE DEF new
    <2>3. pending' \in Seq(Record)
      BY <2>1, <2>2
    <2>4. calm' \in BOOLEAN /\ requests' \in Nat /\ proposed' \subseteq Txid \X Threshold
      BY <2>2
    <2> QED BY <2>2, <2>3, <2>4
  <1>2. ASSUME NEW w \in Worker, NEW t \in Id, NEW s \in Signer, SignLoad(w, t, s)
        PROVE  SigTypeOK'
    <2>1. all' \in [Worker -> Seq(Record)]
      <3>1. CASE all' = [all EXCEPT ![w] = pending]
        BY <3>1
      <3>2. ASSUME NEW i \in DOMAIN pending,
                   all' = [all EXCEPT ![w] = [pending EXCEPT ![i] = Signed(pending[i], s)]]
            PROVE  all' \in [Worker -> Seq(Record)]
        <4>1. pending[i] \in Record
          OBVIOUS
        <4>2. Signed(pending[i], s) \in Record
          BY <4>1, SignedType
        <4>3. [pending EXCEPT ![i] = Signed(pending[i], s)] \in Seq(Record)
          BY <4>2
        <4> QED BY <3>2, <4>3
      <3> QED BY <1>2, <3>1, <3>2 DEF SignLoad
    <2>2. /\ pc' = [pc EXCEPT ![w] = "truncate"]
          /\ txid' = [txid EXCEPT ![w] = t]
          /\ signer' = [signer EXCEPT ![w] = s]
          /\ asked' = asked \cup {<<t, s>>}
          /\ requests' = requests + 1 /\ calm' = (calm /\ Alone(w))
          /\ UNCHANGED <<pending, mempool, proposed, acknowledged>>
      BY <1>2 DEF SignLoad, Request
    <2>3. calm' \in BOOLEAN
      BY <2>2
    <2> QED BY <2>1, <2>2, <2>3
  <1>3. ASSUME NEW w \in Worker, NEW t \in Id, BroadcastLoad(w, t) PROVE SigTypeOK'
    BY <1>3 DEF BroadcastLoad, Request
  <1>4. ASSUME NEW w \in Worker, Send(w) PROVE SigTypeOK'
    BY <1>4 DEF Send, Continue
  <1>5. ASSUME NEW w \in Worker, Reload(w) PROVE SigTypeOK'
    <2>1. Without(txid[w], pending) \in Seq(Record)
      BY WithoutIs DEF IsWithout
    <2> QED BY <1>5, <2>1 DEF Reload, Continue
  <1>6. ASSUME NEW w \in Worker, Truncate(w) PROVE SigTypeOK'
    BY <1>6 DEF Truncate, Continue
  <1>7. ASSUME NEW w \in Worker, Write(w) PROVE SigTypeOK'
    <2>1. pending' \in Seq(Record)
      <3>1. pending' \in Overwritten(all[w]) /\ all[w] \in Seq(Record)
        BY <1>7 DEF Write
      <3> QED BY <3>1, OverwrittenAre
    <2>2. acknowledged' \subseteq Id \X Signer
      BY <1>7 DEF Write
    <2> QED BY <1>7, <2>1, <2>2 DEF Write, Continue
  <1>8. CASE RestartWorkers
    BY <1>8 DEF RestartWorkers
  <1>9. CASE UNCHANGED sigVars
    BY <1>9 DEF sigVars
  <1> QED
    BY <1>1, <1>2, <1>3, <1>4, <1>5, <1>6, <1>7, <1>8, <1>9
       DEF SigNext, Step, BroadcastUnsigned

(* Every variable of the module keeps its type, for every set of workers,  *)
(* proposals and signers.                                                  *)
THEOREM SignaturesTypeCorrect == SigSpec => []SigTypeOK
  BY TypeInit, TypeStep, PTL DEF SigSpec

------------------------------------------------------------------------------
LEMMA HonestInit == SigInit => HonestInv
  BY DEF SigInit, HonestInv, Lines, Broadcast

(* A record made from an honest one by a signer it does not list is honest  *)
(* once the signer's request is counted.                                   *)
LEMMA SignedIsHonest ==
  ASSUME SigTypeOK, NEW r \in Record, Honest(r), NEW s \in Signer, ~HasSigned(r, s),
         asked' = asked \cup {<<r.txid, s>>}, proposed' = proposed
  PROVE  Honest(Signed(r, s))'
  <1> SUFFICES ASSUME r.txid \in Txid PROVE Honest(Signed(r, s))'
    BY DEF Honest, Signed, Record
  <1> DEFINE q == Signed(r, s)
  <1>1. r.collected_sigs \in Nat /\ r.signed_by \subseteq Signer
    BY DEF Record
  <1>2. /\ q.txid = r.txid /\ q.required = r.required
        /\ q.collected_sigs = r.collected_sigs + 1 /\ q.signed_by = r.signed_by \cup {s}
    BY DEF Record, Signed
  <1>3. r.signed_by \cup {s} \subseteq Approvals(r.txid)'
    BY DEF Honest, Approvals
  <1>4. IsFiniteSet(r.signed_by)
    BY <1>1, MultisigAssumption, FS_Subset
  <1>5. Cardinality(r.signed_by \cup {s}) = Cardinality(r.signed_by) + 1
    BY <1>4, OneMoreSigner DEF HasSigned
  <1> HIDE DEF q
  <1>6. Honest(q)'
    BY <1>2, <1>3, <1>5 DEF Honest
  <1> QED BY <1>6 DEF q

(* A record of a proposal with enough signatures has enough approvals.     *)
LEMMA ReadyIsEnough ==
  ASSUME SigTypeOK, NEW r \in Record, r.txid \in Txid, Honest(r), IsReady(r)
  PROVE  Enough(r.txid)
  <1>1. Cardinality(r.signed_by) <= Cardinality(Approvals(r.txid))
    BY ApprovalsFinite, FS_Subset DEF Honest
  <1>2. /\ Cardinality(Approvals(r.txid)) \in Nat /\ r.collected_sigs \in Nat
        /\ r.required \in Int
    BY ApprovalsFinite DEF Record
  <1>3. /\ <<r.txid, r.required>> \in proposed
        /\ r.collected_sigs = Cardinality(r.signed_by) /\ r.collected_sigs >= r.required
    BY DEF Honest, IsReady
  <1> DEFINE p == <<r.txid, r.required>>
  <1>4. p \in proposed /\ p[1] = r.txid /\ p[2] = r.required
    BY <1>3
  <1> HIDE DEF p
  <1>5. Cardinality(Approvals(r.txid)) >= p[2]
    BY <1>1, <1>2, <1>3, <1>4
  <1> QED BY <1>4, <1>5 DEF Enough

LEMMA SentIsAdded ==
  ASSUME mempool \in Seq(Id), NEW t \in Id, mempool' = Append(mempool, t)
  PROVE  Broadcast' = Broadcast \cup {t}
  <1>1. /\ DOMAIN mempool' = DOMAIN mempool \cup {Len(mempool) + 1}
        /\ mempool'[Len(mempool) + 1] = t
        /\ \A i \in DOMAIN mempool : mempool'[i] = mempool[i]
    OBVIOUS
  <1> QED BY <1>1 DEF Broadcast

LEMMA HonestStep == SigTypeOK /\ HonestInv /\ [SigNext]_sigVars => HonestInv'
  <1> SUFFICES ASSUME SigTypeOK, HonestInv, [SigNext]_sigVars PROVE HonestInv'
    OBVIOUS
  <1> USE DEF SigTypeOK, file
  <1>0. asked \subseteq asked' /\ proposed \subseteq proposed'
    BY DEF SigNext, Step, Propose, SignLoad, BroadcastLoad, BroadcastUnsigned, Send, Reload,
           Truncate, Write, RestartWorkers, Continue, sigVars
  <1>a. /\ \A t : Enough(t) => Enough(t)'
        /\ \A r : Honest(r) => Honest(r)'
    BY <1>0, AskedGrows
  <1>b. mempool' = mempool => \A t \in Broadcast' \cap Txid : Enough(t)'
    BY <1>a DEF HonestInv, Broadcast
  <1>c. /\ \A r \in Lines(pending) : Honest(r)'
        /\ \A w \in Worker : \A r \in Lines(all[w]) : Honest(r)'
        /\ \A r : r.txid \in Scrap => Honest(r)'
    <2>1. \A r : r.txid \in Scrap => Honest(r)'
      BY MultisigAssumption DEF Honest
    <2> QED BY <2>1, <1>a DEF HonestInv
  (* What is left to show of a step: the lines of the file and those a     *)
  (* worker holds are honest, and who sends may.                           *)
  <1>d. ASSUME mempool' = mempool,
               \A r \in Lines(pending') : Honest(r)',
               \A v \in Worker : \A r \in Lines(all'[v]) : Honest(r)',
               \A v \in Worker : pc'[v] = "send" =>
                 \/ pc[v] = "send" /\ txid'[v] = txid[v]
                 \/ txid'[v] \in Txid => Enough(txid'[v])
        PROVE  HonestInv'
    <2>1. \A v \in Worker : pc'[v] = "send" /\ txid'[v] \in Txid => Enough(txid'[v])
      BY <1>d DEF HonestInv
    <2>2. \A v \in Worker : pc'[v] = "send" /\ txid'[v] \in Txid => (Enough(txid[v]))'
      <3> TAKE v \in Worker
      <3> DEFINE t == txid'[v]
      <3>1. PICK u : u = t
        OBVIOUS
      <3>2. Enough(u) => Enough(u)'
        BY <1>a
      <3> QED BY <2>1, <3>1, <3>2 DEF Enough, Approvals
    <2>3. \A r \in Lines(pending)' : Honest(r)'
      BY <1>d DEF Lines
    <2>4. \A v \in Worker : \A r \in Lines(all[v])' : Honest(r)'
      BY <1>d DEF Lines
    <2> QED BY <1>b, <1>d, <2>2, <2>3, <2>4 DEF HonestInv
  <1>1. ASSUME NEW w \in Worker, NEW t \in Txid, NEW m \in Threshold, Propose(w, t, m)
        PROVE  HonestInv'
    <2> DEFINE new == [txid |-> t, required |-> m, collected_sigs |-> 0, signed_by |-> {}]
    <2>1. /\ pending' = Append(pending, new) /\ UNCHANGED <<mempool, pc, txid, all>>
          /\ proposed' = proposed \cup {<<t, m>>}
      BY <1>1 DEF Propose
    <2>2. Honest(new)'
      BY <2>1, FS_EmptySet DEF Honest
    <2> HIDE DEF new
    <2>3. Lines(pending') \subseteq Lines(pending) \cup {new}
      BY <2>1 DEF Lines
    <2> QED BY <2>1, <2>2, <2>3, <1>c, <1>d
  <1>2. ASSUME NEW w \in Worker, NEW t \in Id, NEW s \in Signer, SignLoad(w, t, s)
        PROVE  HonestInv'
    <2>1. /\ UNCHANGED <<pending, mempool, proposed>> /\ asked' = asked \cup {<<t, s>>}
          /\ pc' = [pc EXCEPT ![w] = "truncate"]
          /\ txid' = [txid EXCEPT ![w] = t]
      BY <1>2 DEF SignLoad
    <2>2. \A v \in Worker : \A q \in Lines(all'[v]) : Honest(q)'
      <3>1. CASE all' = [all EXCEPT ![w] = pending]
        <4>1. \A v \in Worker : all'[v] = all[v] \/ all'[v] = pending
          BY <3>1
        <4> QED BY <4>1, <1>c
      <3>2. ASSUME NEW i \in DOMAIN pending, IsFirst(i, t), ~HasSigned(pending[i], s),
                   all' = [all EXCEPT ![w] = [pending EXCEPT ![i] = Signed(pending[i], s)]]
            PROVE  \A v \in Worker : \A q \in Lines(all'[v]) : Honest(q)'
        <4>1. PICK r \in Record : r = pending[i]
          OBVIOUS
        <4>2. r.txid = t /\ Honest(r) /\ ~HasSigned(r, s)
          BY <4>1, <3>2 DEF IsFirst, HonestInv, Lines
        <4>3. Honest(Signed(r, s))'
          BY <4>2, <2>1, SignedIsHonest
        <4>4. PICK new : new = Signed(r, s)
          OBVIOUS
        <4>5. Honest(new)'
          BY <4>3, <4>4
        <4>6. \A v \in Worker : all'[v] = all[v] \/ all'[v] = [pending EXCEPT ![i] = new]
          BY <3>2, <4>1, <4>4
        <4>7. Lines([pending EXCEPT ![i] = new]) \subseteq Lines(pending) \cup {new}
          BY DEF Lines
        <4> QED BY <4>5, <4>6, <4>7, <1>c
      <3> QED BY <1>2, <3>1, <3>2 DEF SignLoad
    <2>3. \A v \in Worker : pc'[v] = "send" => pc[v] = "send" /\ txid'[v] = txid[v]
      BY <2>1
    <2> QED BY <2>1, <2>2, <2>3, <1>c, <1>d
  <1>3. ASSUME NEW w \in Worker, NEW t \in Id, BroadcastLoad(w, t) PROVE HonestInv'
    <2>1. t \in Txid => Enough(t)
      <3>1. PICK i \in DOMAIN pending : IsFirst(i, t) /\ IsReady(pending[i])
        BY <1>3 DEF BroadcastLoad
      <3>2. PICK r \in Record : r = pending[i]
        OBVIOUS
      <3>3. r.txid = t /\ Honest(r) /\ IsReady(r)
        BY <3>1, <3>2 DEF IsFirst, HonestInv, Lines
      <3> QED BY <3>3, ReadyIsEnough
    <2>2. /\ UNCHANGED <<pending, mempool, all>>
          /\ pc' = [pc EXCEPT ![w] = "send"]
          /\ txid' = [txid EXCEPT ![w] = t]
      BY <1>3 DEF BroadcastLoad
    <2>3. \A v \in Worker : pc'[v] = "send" =>
            \/ pc[v] = "send" /\ txid'[v] = txid[v]
            \/ txid'[v] = t
      BY <2>2
    <2> QED BY <2>1, <2>2, <2>3, <1>c, <1>d
  <1>4. ASSUME NEW w \in Worker, Send(w) PROVE HonestInv'
    <2>1. /\ UNCHANGED <<pending, txid, all, asked, proposed>>
          /\ pc' = [pc EXCEPT ![w] = "reload"]
          /\ mempool' = Append(mempool, txid[w])
          /\ txid[w] \in Id /\ pc[w] = "send"
      BY <1>4 DEF Send
    <2>2. txid[w] \in Txid => Enough(txid[w])
      BY <2>1 DEF HonestInv
    <2>3. Broadcast' = Broadcast \cup {txid[w]}
      BY <2>1, SentIsAdded
    <2>4. \A t \in Broadcast' \cap Txid : Enough(t)'
      BY <2>2, <2>3, <1>a DEF HonestInv
    <2>5. \A v \in Worker : pc'[v] = "send" /\ txid'[v] \in Txid => Enough(txid[v])'
      BY <2>1 DEF HonestInv, Enough, Approvals
    <2>6. /\ \A r \in Lines(pending)' : Honest(r)'
          /\ \A v \in Worker : \A r \in Lines(all[v])' : Honest(r)'
      BY <2>1, <1>c DEF Lines
    <2> QED BY <2>4, <2>5, <2>6 DEF HonestInv
  <1>5. ASSUME NEW w \in Worker, Reload(w) PROVE HonestInv'
    <2>1. /\ UNCHANGED <<pending, mempool, txid>>
          /\ pc' = [pc EXCEPT ![w] = "truncate"]
          /\ all' = [all EXCEPT ![w] = Without(txid[w], pending)]
      BY <1>5 DEF Reload
    <2>2. Lines(Without(txid[w], pending)) \subseteq Lines(pending)
      <3>1. IsWithout(Without(txid[w], pending), Len(pending), pending, txid[w])
        BY WithoutIs
      <3> QED BY <3>1 DEF IsWithout, Lines
    <2>3. \A v \in Worker : \/ all'[v] = all[v]
                            \/ Lines(all'[v]) \subseteq Lines(pending)
      BY <2>1, <2>2
    <2>4. \A v \in Worker : pc'[v] = "send" => pc[v] = "send" /\ txid'[v] = txid[v]
      BY <2>1
    <2> QED BY <2>1, <2>3, <2>4, <1>c, <1>d
  <1>6. ASSUME NEW w \in Worker, Truncate(w) PROVE HonestInv'
    <2>1. /\ UNCHANGED <<mempool, txid, all>> /\ pending' = << >>
          /\ pc' = [pc EXCEPT ![w] = "write"]
      BY <1>6 DEF Truncate
    <2>2. Lines(pending') = {}
      BY <2>1 DEF Lines
    <2>3. \A v \in Worker : pc'[v] = "send" => pc[v] = "send" /\ txid'[v] = txid[v]
      BY <2>1
    <2> QED BY <2>1, <2>2, <2>3, <1>c, <1>d
  <1>7. ASSUME NEW w \in Worker, Write(w) PROVE HonestInv'
    <2>1. /\ UNCHANGED mempool /\ pending' \in Overwritten(all[w])
          /\ pc' = [pc EXCEPT ![w] = "idle"]
          /\ txid' = [txid EXCEPT ![w] = None]
          /\ all' = [all EXCEPT ![w] = << >>]
      BY <1>7 DEF Write
    <2>2. \A r \in Lines(pending') : \/ r.txid \in Scrap
                                     \/ r \in Lines(pending)
                                     \/ r \in Lines(all[w])
      BY <2>1, OverwrittenAre DEF Lines
    <2>3. \A v \in Worker : Lines(all'[v]) \subseteq Lines(all[v])
      <3>1. Lines(<< >>) = {}
        BY DEF Lines
      <3> QED BY <2>1, <3>1
    <2>4. \A v \in Worker : pc'[v] = "send" => pc[v] = "send" /\ txid'[v] = txid[v]
      BY <2>1
    <2> QED BY <2>1, <2>2, <2>3, <2>4, <1>c, <1>d
  <1>8. CASE RestartWorkers
    <2>1. /\ UNCHANGED <<pending, mempool>>
          /\ pc' = [w \in Worker |-> "idle"] /\ all' = [w \in Worker |-> << >>]
      BY <1>8 DEF RestartWorkers
    <2>2. \A v \in Worker : Lines(all'[v]) = {} /\ pc'[v] # "send"
      <3>1. Lines(<< >>) = {}
        BY DEF Lines
      <3> QED BY <2>1, <3>1
    <2> QED BY <2>1, <2>2, <1>c, <1>d
  <1>9. CASE UNCHANGED sigVars
    BY <1>9, <1>c, <1>d DEF sigVars
  <1> QED
    BY <1>1, <1>2, <1>3, <1>4, <1>5, <1>6, <1>7, <1>8, <1>9
       DEF SigNext, Step, BroadcastUnsigned

(* What a set of lines has to keep while nothing overlaps: one record for   *)
(* each proposal that was not broadcast, with every signature that was      *)
(* acknowledged, and no other record.                                       *)
Keeps(lines) ==
  /\ Distinct(lines)
  /\ \A r \in Lines(lines) : r.txid \in Proposals \ Broadcast
  /\ \A t \in Proposals \ Broadcast :
       \E r \in Lines(lines) :
         r.txid = t /\ \A s \in Signer : <<t, s>> \in acknowledged => s \in r.signed_by

(* The lines that count are those of the file, until a worker is about to   *)
(* write others: then they are the ones it carries.                         *)
Carries(w) ==
  /\ pc[w] = "send" => Keeps(pending) /\ \E r \in Lines(pending) : r.txid = txid[w]
  /\ pc[w] = "reload" => Keeps(Without(txid[w], pending))
  /\ pc[w] \in {"truncate", "write"} =>
       /\ Keeps(all[w])
       /\ \A r \in Lines(all[w]) : r.txid = txid[w] => signer[w] \in r.signed_by \cup {None}
  /\ pc[w] = "write" => pending = << >>

OneAtATime == \A v, w \in Worker : pc[v] # "idle" /\ pc[w] # "idle" => v = w

CalmInv ==
  calm =>
    /\ OneAtATime
    /\ Broadcast \subseteq Proposals
    /\ \A t \in Id, s \in Signer : <<t, s>> \in acknowledged => t \in Proposals
    /\ Quiet => Keeps(pending)
    /\ \A w \in Worker : Carries(w)
    /\ SentOnceWhileCalm

LEMMA CalmInit == SigInit => CalmInv
  BY DEF SigInit, CalmInv, OneAtATime, Broadcast, Proposals, Quiet, Keeps, Distinct, Lines,
         Carries, SentOnceWhileCalm

(* The same lines are kept by a step that changes nothing they stand for.  *)
LEMMA KeepsSame ==
  ASSUME NEW lines, Keeps(lines), UNCHANGED <<mempool, proposed, acknowledged>>
  PROVE  Keeps(lines)'
  BY DEF Keeps, Broadcast, Proposals

LEMMA CalmStep == SigTypeOK /\ CalmInv /\ [SigNext]_sigVars => CalmInv'
  <1> SUFFICES ASSUME SigTypeOK, CalmInv, [SigNext]_sigVars, calm' PROVE CalmInv'
    BY DEF CalmInv
  <1>0. CASE UNCHANGED sigVars
    <2>1. /\ UNCHANGED <<pending, mempool, proposed, acknowledged, pc, txid, signer, all>> /\ calm
      BY <1>0 DEF sigVars, file
    <2>2. /\ Broadcast' = Broadcast /\ Proposals' = Proposals /\ SentOnceWhileCalm'
          /\ OneAtATime' = OneAtATime /\ Quiet' = Quiet
      BY <2>1 DEF CalmInv, Broadcast, Proposals, SentOnceWhileCalm, OneAtATime, Quiet
    <2>3. (Keeps(pending))' = Keeps(pending)
          /\ \A w \in Worker : /\ (Keeps(all[w]))' = Keeps(all[w])
                               /\ (Keeps(Without(txid[w], pending)))'
                                    = Keeps(Without(txid[w], pending))
      <3>1. ASSUME NEW lines PROVE Keeps(lines)' = Keeps(lines)
        BY <2>1, <2>2 DEF Keeps
      <3> QED BY <2>1, <2>2 DEF Keeps
    <2>4. \A w \in Worker : Carries(w)' = Carries(w)
      BY <2>1, <2>3 DEF Carries
    <2> QED BY <2>1, <2>2, <2>3, <2>4 DEF CalmInv
  <1>1. ASSUME NEW w \in Worker, Step(w), ~RestartWorkers PROVE CalmInv'
    <2>1. calm /\ Alone(w)
      BY <1>1 DEF Step, Propose, BroadcastLoad, BroadcastUnsigned, SignLoad, Send, Reload,
                  Truncate, Write, Continue
    <2>2. \A v \in Worker \ {w} : pc[v] = "idle" /\ pc'[v] = "idle"
      BY <1>1, <2>1 DEF Alone, SigTypeOK, Step, Propose, BroadcastLoad, BroadcastUnsigned,
                        SignLoad, Send, Reload, Truncate, Write
    <2>3. OneAtATime' /\ \A v \in Worker \ {w} : Carries(v)'
      BY <2>2 DEF OneAtATime, Carries
    <2>4. /\ Broadcast \subseteq Proposals /\ SentOnceWhileCalm
          /\ \A t \in Id, s \in Signer : <<t, s>> \in acknowledged => t \in Proposals
          /\ pc[w] = "idle" => Keeps(pending)
          /\ Carries(w)
      BY <2>1, <2>2 DEF CalmInv, Quiet
    <2>5. pc'[w] # "idle" => ~Quiet'
      BY DEF Quiet
    (* A step that only loads or carries lines on. *)
    <2>a. ASSUME UNCHANGED <<mempool, proposed, acknowledged>>, pc'[w] # "idle", Carries(w)'
          PROVE  CalmInv'
      <3>1. Broadcast' = Broadcast /\ Proposals' = Proposals /\ SentOnceWhileCalm'
        BY <2>1, <2>4, <2>a DEF Broadcast, Proposals, SentOnceWhileCalm
      <3> QED BY <2>3, <2>4, <2>5, <2>a, <3>1 DEF CalmInv
    <2>6. ASSUME NEW t \in Txid, NEW m \in Threshold, Propose(w, t, m) PROVE CalmInv'
      <3> DEFINE new == [txid |-> t, required |-> m, collected_sigs |-> 0, signed_by |-> {}]
      <3>1. /\ pc[w] = "idle" /\ \A p \in proposed : p[1] # t
            /\ proposed' = proposed \cup {<<t, m>>} /\ pending' = Append(pending, new)
            /\ UNCHANGED <<mempool, pc, txid, signer, all, acknowledged>>
        BY <2>6 DEF Propose
      <3>2. new.txid = t /\ t \in Id
        BY DEF Id
      <3> HIDE DEF new
      <3>3. /\ Broadcast' = Broadcast /\ Proposals' = Proposals \cup {t} /\ t \notin Proposals
            /\ \A s \in Signer : <<t, s>> \notin acknowledged
        <4>1. Broadcast' = Broadcast /\ Proposals' = Proposals \cup {t} /\ t \notin Proposals
          <5> DEFINE p == <<t, m>>
          <5>1. p[1] = t /\ proposed' = proposed \cup {p}
            BY <3>1
          <5> HIDE DEF p
          <5> QED BY <3>1, <5>1 DEF Broadcast, Proposals
        <4> QED BY <2>4, <3>2, <4>1
      <3>4. /\ Lines(pending') = Lines(pending) \cup {new}
            /\ Distinct(pending) /\ (\A r \in Lines(pending) : r.txid # t) => Distinct(pending')
        <4>1. /\ DOMAIN pending' = DOMAIN pending \cup {Len(pending) + 1}
              /\ pending'[Len(pending) + 1] = new
              /\ \A i \in DOMAIN pending : pending'[i] = pending[i]
          BY <3>1 DEF SigTypeOK
        <4> QED BY <3>2, <4>1 DEF Lines, Distinct
      <3>5. Keeps(pending)
        BY <2>4, <3>1
      <3>6. \A r \in Lines(pending) : r.txid # t
        BY <3>3, <3>5 DEF Keeps
      <3>7. Distinct(pending')
        BY <3>4, <3>5, <3>6 DEF Keeps
      <3>8. \A r \in Lines(pending') : r.txid \in Proposals' \ Broadcast'
        BY <2>4, <3>2, <3>3, <3>4, <3>5 DEF Keeps
      <3>9. \A u \in Proposals' \ Broadcast' : \E r \in Lines(pending') :
              r.txid = u /\ \A s \in Signer : <<u, s>> \in acknowledged' => s \in r.signed_by
        BY <3>1, <3>2, <3>3, <3>4, <3>5 DEF Keeps
      <3>10. (Keeps(pending))'
        BY <3>7, <3>8, <3>9 DEF Keeps, Lines, Distinct
      <3>11. SentOnceWhileCalm'
        BY <2>1, <2>4, <3>1 DEF SentOnceWhileCalm
      <3>12. Carries(w)'
        BY <3>1 DEF Carries
      <3> QED BY <2>3, <2>4, <3>1, <3>3, <3>10, <3>11, <3>12 DEF CalmInv
    <2>7. ASSUME NEW t \in Id, NEW s \in Signer, SignLoad(w, t, s) PROVE CalmInv'
      <3>1. /\ pc[w] = "idle" /\ pc'[w] = "truncate" /\ txid'[w] = t /\ signer'[w] = s
            /\ UNCHANGED <<pending, mempool, proposed, acknowledged>>
        BY <2>7 DEF SignLoad, file, SigTypeOK
      <3>2. Keeps(pending)
        BY <2>4, <3>1
      <3>3. PICK lines : /\ lines = all'[w] /\ Keeps(lines)
                         /\ \A r \in Lines(lines) : r.txid = t => s \in r.signed_by
        <4>1. CASE /\ \A i \in DOMAIN pending : pending[i].txid # t
                   /\ all' = [all EXCEPT ![w] = pending]
          <5>1. all'[w] = pending
            BY <4>1 DEF SigTypeOK
          <5>2. \A r \in Lines(pending) : r.txid # t
            BY <4>1 DEF Lines
          <5> QED BY <3>2, <5>1, <5>2
        <4>2. ASSUME NEW i \in DOMAIN pending, IsFirst(i, t),
                     all' = [all EXCEPT ![w] = [pending EXCEPT ![i] = Signed(pending[i], s)]]
              PROVE  \E lines : /\ lines = all'[w] /\ Keeps(lines)
                                /\ \A q \in Lines(lines) : q.txid = t => s \in q.signed_by
          <5> DEFINE r == pending[i]
                     new == Signed(r, s)
                     lines == [pending EXCEPT ![i] = new]
          <5>1. all'[w] = lines
            BY <4>2 DEF SigTypeOK
          <5>2. r \in Record /\ r \in Lines(pending) /\ r.txid = t
            BY <4>2 DEF SigTypeOK, Lines, IsFirst
          <5>3. new.txid = t /\ r.signed_by \subseteq new.signed_by /\ s \in new.signed_by
            BY <5>2 DEF Signed, Record
          <5> HIDE DEF new
          <5>4. /\ DOMAIN lines = DOMAIN pending /\ lines[i] = new
                /\ \A j \in DOMAIN pending \ {i} : lines[j] = pending[j]
            OBVIOUS
          <5>5. \A j \in DOMAIN pending : pending[j].txid = t => j = i
            BY <3>2, <5>2 DEF Keeps, Distinct, r
          <5> HIDE DEF lines
          <5>6. Distinct(lines)
            BY <3>2, <5>2, <5>3, <5>4 DEF Keeps, Distinct, r
          <5>7. \A q \in Lines(lines) : q = new \/ (q \in Lines(pending) /\ q.txid # t)
            BY <5>4, <5>5 DEF Lines
          <5>8. new \in Lines(lines) /\ \A q \in Lines(pending) : q.txid # t => q \in Lines(lines)
            BY <5>2, <5>4 DEF Lines, r
          <5>9. \A q \in Lines(pending) : q.txid = t => q = r
            BY <5>5 DEF Lines, r
          <5>10. \A q \in Lines(lines) : q.txid \in Proposals \ Broadcast
            BY <3>2, <5>2, <5>3, <5>7 DEF Keeps
          <5>11. ASSUME NEW u \in Proposals \ Broadcast
                 PROVE  \E q \in Lines(lines) :
                          q.txid = u /\ \A x \in Signer : <<u, x>> \in acknowledged => x \in q.signed_by
            <6>1. PICK q \in Lines(pending) :
                    q.txid = u /\ \A x \in Signer : <<u, x>> \in acknowledged => x \in q.signed_by
              BY <3>2 DEF Keeps
            <6> QED BY <5>3, <5>8, <5>9, <6>1
          <5>12. Keeps(lines)
            BY <5>6, <5>10, <5>11 DEF Keeps
          <5> QED BY <5>1, <5>3, <5>7, <5>12
        <4> QED BY <2>7, <4>1, <4>2 DEF SignLoad
      <3>4. Keeps(lines)'
        BY <3>1, <3>3, KeepsSame
      <3>5. (Keeps(all[w]))' /\ \A r \in Lines(all'[w]) : r.txid = txid'[w] => signer'[w] \in r.signed_by
        BY <3>1, <3>3, <3>4 DEF Keeps
      <3>6. Carries(w)'
        BY <3>1, <3>5 DEF Carries, Lines
      <3> QED BY <2>a, <3>1, <3>6
    <2>8. ASSUME NEW t \in Id, BroadcastLoad(w, t) PROVE CalmInv'
      <3>1. /\ pc[w] = "idle" /\ pc'[w] = "send" /\ txid'[w] = t
            /\ \E r \in Lines(pending) : r.txid = t
            /\ UNCHANGED <<pending, mempool, proposed, acknowledged>>
        BY <2>8 DEF BroadcastLoad, IsFirst, Lines, file, SigTypeOK
      <3>2. (Keeps(pending))'
        <4>1. PICK lines : lines = pending /\ Keeps(lines)
          BY <2>4, <3>1
        <4>2. Keeps(lines)'
          BY <3>1, <4>1, KeepsSame
        <4> QED BY <3>1, <4>1, <4>2 DEF Keeps
      <3>3. Carries(w)'
        BY <3>1, <3>2 DEF Carries
      <3> QED BY <2>a, <3>1, <3>3
    <2>9. CASE Send(w)
      <3>1. /\ pc[w] = "send" /\ pc'[w] = "reload" /\ mempool' = Append(mempool, txid[w])
            /\ UNCHANGED <<pending, proposed, txid, acknowledged>>
        BY <2>9 DEF Send, SigTypeOK
      <3>2. mempool \in Seq(Id) /\ txid[w] \in Id /\ pending \in Seq(Record)
        BY <3>1 DEF SigTypeOK
      <3>3. Keeps(pending) /\ txid[w] \in Proposals \ Broadcast
        BY <2>4, <3>1 DEF Carries, Keeps
      <3>4. Broadcast' = Broadcast \cup {txid[w]} /\ Proposals' = Proposals
        BY <3>1, <3>2, SentIsAdded DEF Proposals
      <3>5. SentOnceWhileCalm'
        BY <2>1, <2>4, <3>1, <3>2, <3>3 DEF SentOnceWhileCalm, Broadcast
      <3> DEFINE rest == Without(txid[w], pending)
      <3>6. IsWithout(rest, Len(pending), pending, txid[w])
        BY <3>2, WithoutIs
      <3>7. /\ Distinct(rest)
            /\ \A r \in Lines(rest) : r \in Lines(pending) /\ r.txid # txid[w]
            /\ \A r \in Lines(pending) : r.txid # txid[w] => r \in Lines(rest)
        <4>1. /\ DOMAIN pending = 1 .. Len(pending) /\ Distinct(pending)
          BY <3>2, <3>3 DEF Keeps
        <4>2. /\ \A a \in DOMAIN rest : /\ rest[a].txid # txid[w]
                                        /\ \E b \in DOMAIN pending : rest[a] = pending[b]
              /\ \A b \in DOMAIN pending : pending[b].txid # txid[w]
                   => \E a \in DOMAIN rest : rest[a] = pending[b]
              /\ Distinct(rest)
          BY <3>6, <4>1 DEF IsWithout
        <4> HIDE DEF rest
        <4> QED BY <4>2 DEF Lines
      <3>8. rest' = rest
        BY <3>1
      <3> HIDE DEF rest
      <3>9. /\ \A r \in Lines(rest) : r.txid \in Proposals' \ Broadcast'
            /\ \A t \in Proposals' \ Broadcast' :
                 \E r \in Lines(rest) :
                   r.txid = t /\ \A s \in Signer : <<t, s>> \in acknowledged' => s \in r.signed_by
        BY <3>1, <3>3, <3>4, <3>7 DEF Keeps
      <3>10. (Keeps(rest))'
        BY <3>7, <3>8, <3>9 DEF Keeps, Lines, Distinct
      <3>11. Carries(w)'
        BY <3>1, <3>10 DEF Carries, rest
      <3> QED BY <2>3, <2>4, <2>5, <3>1, <3>3, <3>4, <3>5, <3>11 DEF CalmInv
    <2>10. CASE Reload(w)
      <3>1. /\ pc[w] = "reload" /\ pc'[w] = "truncate" /\ all'[w] = Without(txid[w], pending)
            /\ UNCHANGED <<pending, mempool, proposed, txid, signer, acknowledged>>
            /\ pending \in Seq(Record)
        BY <2>10 DEF Reload, file, SigTypeOK
      <3>2. PICK lines : lines = all'[w] /\ Keeps(lines)
        BY <2>4, <3>1 DEF Carries
      <3>3. \A r \in Lines(lines) : r.txid # txid[w]
        <4>1. IsWithout(lines, Len(pending), pending, txid[w])
          BY <3>1, <3>2, WithoutIs
        <4> QED BY <4>1 DEF IsWithout, Lines
      <3>4. Keeps(lines)'
        BY <3>1, <3>2, KeepsSame
      <3>5. (Keeps(all[w]))'
        BY <3>2, <3>4 DEF Keeps
      <3>6. Carries(w)'
        BY <3>1, <3>2, <3>3, <3>5 DEF Carries, Lines
      <3> QED BY <2>a, <3>1, <3>6
    <2>11. CASE Truncate(w)
      <3>1. /\ pc[w] = "truncate" /\ pc'[w] = "write" /\ pending' = << >>
            /\ UNCHANGED <<mempool, proposed, txid, signer, all, acknowledged>>
        BY <2>11 DEF Truncate, SigTypeOK
      <3>2. (Keeps(all[w]))'
            /\ \A r \in Lines(all'[w]) : r.txid = txid'[w] => signer'[w] \in r.signed_by \cup {None}
        <4>1. PICK lines :
                /\ lines = all[w] /\ Keeps(lines)
                /\ \A r \in Lines(lines) : r.txid = txid[w] => signer[w] \in r.signed_by \cup {None}
          BY <2>4, <3>1 DEF Carries
        <4>2. Keeps(lines)'
          BY <3>1, <4>1, KeepsSame
        <4> QED BY <3>1, <4>1, <4>2 DEF Keeps
      <3>3. Carries(w)'
        BY <3>1, <3>2 DEF Carries, Lines
      <3> QED BY <2>a, <3>1, <3>3
    <2>12. CASE Write(w)
      <3>1. /\ pc[w] = "write" /\ pc'[w] = "idle" /\ pending' \in Overwritten(all[w])
            /\ acknowledged' = acknowledged \cup
                 {<<txid[w], s>> : s \in {x \in {signer[w]} \ {None} :
                    \E i \in DOMAIN all[w] : all[w][i].txid = txid[w]}}
            /\ UNCHANGED <<mempool, proposed>> /\ all[w] \in Seq(Record) /\ pending \in Seq(Record)
        BY <2>12 DEF Write, SigTypeOK
      <3>2. /\ Broadcast' = Broadcast /\ Proposals' = Proposals /\ SentOnceWhileCalm'
        BY <2>1, <2>4, <3>1 DEF Broadcast, Proposals, SentOnceWhileCalm
      <3>3. /\ Keeps(all[w]) /\ pending = << >>
            /\ \A r \in Lines(all[w]) : r.txid = txid[w] => signer[w] \in r.signed_by \cup {None}
        BY <2>4, <3>1 DEF Carries
      <3>4. PICK lines : lines = all[w] /\ pending' = lines
        BY <3>1, <3>3, OverwrittenAre
      <3>5. \A t, s : <<t, s>> \in acknowledged' =>
              \/ <<t, s>> \in acknowledged
              \/ t = txid[w] /\ s = signer[w] /\ s # None /\ \E r \in Lines(lines) : r.txid = t
        BY <3>1, <3>4 DEF Lines
      <3>6. Distinct(lines) /\ \A r \in Lines(lines) : r.txid \in Proposals' \ Broadcast'
        BY <3>2, <3>3, <3>4 DEF Keeps
      <3>7. ASSUME NEW t \in Proposals \ Broadcast
            PROVE  \E r \in Lines(lines) :
                     r.txid = t /\ \A s \in Signer : <<t, s>> \in acknowledged' => s \in r.signed_by
        <4>1. PICK r \in Lines(lines) :
                r.txid = t /\ \A s \in Signer : <<t, s>> \in acknowledged => s \in r.signed_by
          BY <3>3, <3>4 DEF Keeps
        <4> QED BY <3>3, <3>4, <3>5, <4>1
      <3>8. (Keeps(pending))'
        BY <3>2, <3>4, <3>6, <3>7 DEF Keeps, Lines, Distinct
      <3>9. \A t \in Id, s \in Signer : <<t, s>> \in acknowledged' => t \in Proposals'
        BY <2>4, <3>2, <3>5, <3>6
      <3>10. Carries(w)'
        BY <3>1 DEF Carries
      <3> QED BY <2>3, <2>4, <3>1, <3>2, <3>8, <3>9, <3>10 DEF CalmInv
    <2> QED BY <1>1, <2>6, <2>7, <2>8, <2>9, <2>10, <2>11, <2>12 DEF Step, BroadcastUnsigned
  <1>2. CASE RestartWorkers
    <2>1. /\ calm /\ Quiet /\ \A w \in Worker : pc'[w] = "idle"
          /\ UNCHANGED <<pending, mempool, proposed, acknowledged>>
      BY <1>2 DEF RestartWorkers, Quiet, file
    <2>2. Broadcast' = Broadcast /\ Proposals' = Proposals /\ SentOnceWhileCalm'
      BY <2>1 DEF CalmInv, Broadcast, Proposals, SentOnceWhileCalm
    <2>3. (Keeps(pending))'
      BY <2>1, <2>2 DEF CalmInv, Keeps
    <2>4. OneAtATime' /\ \A w \in Worker : Carries(w)'
      BY <2>1 DEF OneAtATime, Carries
    <2> QED BY <2>1, <2>2, <2>3, <2>4 DEF CalmInv
  <1> QED BY <1>0, <1>1, <1>2 DEF SigNext

(* As long as no two requests overlapped, every proposal keeps each         *)
(* signature that was acknowledged until it is broadcast, and none is       *)
(* broadcast twice (Multisig!CalmIsSafe): restarts that cut off no request  *)
(* included, for any number of workers, proposals and signers.              *)
THEOREM CalmStaysSafe == SigSpec => []CalmIsSafe
  <1>1. CalmInv => CalmIsSafe
    BY DEF CalmInv, CalmIsSafe, KeptWhileCalm, SentOnceWhileCalm, Keeps, Lines
  <1> QED BY <1>1, CalmInit, CalmStep, TypeInit, TypeStep, PTL DEF SigSpec

(* A proposal enters the mempool only after M different signers asked to    *)
(* sign it: requests that overlap may lose signatures, repeat a broadcast   *)
(* or broadcast what is left of a cut line, but they make up no approval    *)
(* of a proposal; and as long as none overlapped, nothing but proposals is  *)
(* broadcast (Multisig!BroadcastIsApproved).                                *)
THEOREM BroadcastNeedsApprovals == SigSpec => []BroadcastIsApproved
  <1>1. SigInit => SigTypeOK /\ HonestInv /\ CalmInv
    BY TypeInit, HonestInit, CalmInit
  <1>2. SigTypeOK /\ HonestInv /\ CalmInv /\ [SigNext]_sigVars
          => SigTypeOK' /\ HonestInv' /\ CalmInv'
    BY TypeStep, HonestStep, CalmStep
  <1>3. HonestInv /\ CalmInv => BroadcastIsApproved
    BY DEF HonestInv, CalmInv, BroadcastIsApproved, Enough, Approvals
  <1> QED BY <1>1, <1>2, <1>3, PTL DEF SigSpec

------------------------------------------------------------------------------
(* All services in one process.  They share no variable, so a step of the  *)
(* process is a step, or none, of each.                                    *)
LEMMA ServicesProject ==
  [ServicesNext]_<<evVars, sigVars, focus>> => [EventsNext]_evVars /\ [SigNext]_sigVars
  <1> SUFFICES ASSUME [ServicesNext]_<<evVars, sigVars, focus>>
               PROVE  [EventsNext]_evVars /\ [SigNext]_sigVars
    OBVIOUS
  <1>1. ASSUME NEW cs \in {Streams, Pages}, EventsStep(cs) PROVE EventsNext
    <2>1. cs \subseteq Clients
      BY DEF Clients
    <2> QED BY <1>1, <2>1 DEF EventsStep, EventsNext
  <1> HIDE DEF EventsNext, EventsStep, SigNext, evVars, sigVars
  <1> QED BY <1>1 DEF ServicesNext

(* What is proved of the bus and of the proposals above holds of both in   *)
(* one process: no wake-up is lost, streams hear in order, broadcasts are  *)
(* approved and calm requests safe (Services!NoLostWakeup,                 *)
(* StreamsAreServed, BroadcastIsApproved, CalmIsSafe).                     *)
THEOREM ServicesStaySafe ==
  ServicesSpec =>
    [](NoLostWakeup /\ StreamsAreServed /\ BroadcastIsApproved /\ CalmIsSafe)
  <1>1. ServicesInit => EventsInit /\ SigInit
    BY DEF ServicesInit
  <1>2. ServicesSpec => SigSpec
    BY <1>1, ServicesProject, PTL DEF ServicesSpec, SigSpec
  <1>3. WakeInv => NoLostWakeup
    BY DEF WakeInv
  <1>4. ServicesSpec => []NoLostWakeup
    BY <1>1, <1>3, WakeInit, WakeStep, ServicesProject, PTL DEF ServicesSpec
  <1>5. StreamInv => StreamsAreServed
    BY DEF StreamInv, Heard, StreamsAreServed, InOrderOnce, NothingMissed
  <1>6. ServicesSpec => []StreamsAreServed
    BY <1>1, <1>5, StreamInit, StreamStep, ServicesProject, PTL DEF ServicesSpec
  <1> QED BY <1>2, <1>4, <1>6, BroadcastNeedsApprovals, CalmStaysSafe, PTL

(* Every variable of the services keeps its type while one process serves  *)
(* all of them, and the event queue holds the newest ids without a gap and *)
(* never more than MAX_EVENTS of them (Services!ServicesTypeOK).           *)
THEOREM ServicesTypeCorrect == ServicesSpec => []ServicesTypeOK
  <1>1. ServicesInit => EventsTypeOK /\ SigTypeOK
    BY EventsTypeInit, TypeInit DEF ServicesInit
  <1> QED BY <1>1, EventsTypeStep, TypeStep, ServicesProject, PTL
          DEF ServicesSpec, ServicesTypeOK
==============================================================================

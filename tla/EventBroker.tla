------------------------------ MODULE EventBroker ------------------------------
(***************************************************************************)
(* The event stream of one tenant and mode in one API server: SseBroker's   *)
(* ring and subscriber queues, the handler of GET /events:stream that       *)
(* writes what it iterates, and the clients that connect again.             *)
(*                                                                         *)
(* What is published is numbered in that order.  The tailer may publish a   *)
(* row of event_log again (EventTailer), so two publications may have one   *)
(* id.  JavaScript runs each callback to its end, so publish, subscribe and *)
(* each turn of the iterator are steps.  What was written to a connection that breaks before *)
(* it arrived is, to the client, not yet iterated: sockets have no state    *)
(* here.  A restart, or another server behind the load balancer, has an     *)
(* empty ring.  A client that connects again may send the last id it was    *)
(* sent as Last-Event-ID.  A page of the dashboard is a client as well: its *)
(* feed asks the dashboard's server, which opens a stream of its own and    *)
(* relays it (with the token of that server, which auth.ts lets pass when   *)
(* demo data is on).                                                        *)
(***************************************************************************)
EXTENDS Naturals, Sequences, SequencesExt, FiniteSets, FiniteSetsExt, Filters

CONSTANTS
  Client,
  EventType,
  TypeFilter,            \* Client -> the types it asked for, {} for all
  RingCapacity,          \* capacity, 4096 in the code
  SubscriberCapacity,    \* 256 in the code
  MaxEvents              \* bound: publications

ASSUME BrokerAssumption ==
  /\ TypeFilter \in [Client -> SUBSET EventType]
  /\ RingCapacity \in Nat \ {0}
  /\ SubscriberCapacity \in Nat \ {0}
  /\ MaxEvents \in Nat

VARIABLES
  feeds,                 \* the clients that are LiveActivityFeeds; never changes
  published,             \* the id and the type of each publication so far
  ring,                  \* the publications a new subscriber can be given
  subscriber,            \* the subscription of each client
  remembered,            \* the publication whose id each client was sent last, 0 for none
  received,              \* history: the publications each client was sent
  firstEvent,            \* history: the first publication each client could expect
  toldUpTo,              \* history: the highest one an overflow marker named
  unresumed,             \* history: clients that came back with no id, or with
                         \* that of a publication that is no longer in the ring
  rewound                \* history: clients that came back with an id that the ring
                         \* holds of an earlier publication as well

brokerVars == <<feeds, published, ring, subscriber, remembered, received, firstEvent,
                toldUpTo, unresumed, rewound>>

clientVars == <<feeds, remembered, received, firstEvent, toldUpTo, unresumed, rewound>>

Ids == 1..MaxEvents

NotSubscribed ==
  [open |-> FALSE, queue |-> <<>>, overflowed |-> FALSE, lastSeen |-> 0, waiting |-> FALSE]

\* In particular a queue never outgrows its capacity, or the ring that was
\* replayed into it.
BrokerTypeOK ==
  /\ feeds \subseteq Client
  /\ published \in Seq([id : Ids, type : EventType]) /\ Len(published) <= MaxEvents
  /\ ring \in Seq(Ids) /\ Len(ring) <= RingCapacity
  /\ subscriber \in [Client ->
       [open : BOOLEAN, queue : Seq(Ids), overflowed : BOOLEAN,
        lastSeen : 0..MaxEvents, waiting : BOOLEAN]]
  /\ \A c \in Client :
       Len(subscriber[c].queue) <= Max({RingCapacity, SubscriberCapacity})
  /\ remembered \in [Client -> 0..MaxEvents]
  /\ received \in [Client -> SUBSET Ids]
  /\ firstEvent \in [Client -> 0..(MaxEvents + 1)]
  /\ toldUpTo \in [Client -> 0..MaxEvents]
  /\ unresumed \subseteq Client /\ rewound \subseteq Client

\* A feed names no types.
TypesOf(c) == IF c \in feeds THEN {} ELSE TypeFilter[c]

Matches(c, type) == TypesOf(c) = {} \/ type \in TypesOf(c)

-----------------------------------------------------------------------------
(* SseBroker.                                                              *)

\* The last n elements.
Latest(s, n) == IF Len(s) > n THEN SubSeq(s, Len(s) - n + 1, Len(s)) ELSE s

\* Faulty: a full queue drops its oldest event without a word.
EnqueuedSilently(s, e) ==
  IF Len(s.queue) >= SubscriberCapacity
    THEN [s EXCEPT !.queue = Append(Tail(@), e), !.lastSeen = e, !.waiting = FALSE]
    ELSE [s EXCEPT !.queue = Append(@, e), !.lastSeen = e, !.waiting = FALSE]

\* Faulty: the subscriber is woken only when its queue overflows.
EnqueuedAsleep(s, e) ==
  IF Len(s.queue) >= SubscriberCapacity
    THEN [s EXCEPT !.queue = Append(Tail(@), e), !.overflowed = TRUE,
                   !.lastSeen = e, !.waiting = FALSE]
    ELSE [s EXCEPT !.queue = Append(@, e), !.lastSeen = e]

\* A full queue loses its oldest event; the subscriber is to be told.
Enqueued(s, e) ==
  IF Len(s.queue) >= SubscriberCapacity
    THEN [s EXCEPT !.queue = Append(Tail(@), e), !.overflowed = TRUE,
                   !.lastSeen = e, !.waiting = FALSE]
    ELSE [s EXCEPT !.queue = Append(@, e), !.lastSeen = e, !.waiting = FALSE]

\* What the tailer may publish: a new row, or one it has published before.
Rows == [id : {Len(published) + 1}, type : EventType] \cup ToSet(published)

Publish(row) ==
  LET e == Len(published) + 1 IN
  /\ e <= MaxEvents
  /\ published' = Append(published, row)
  /\ ring' = Latest(Append(ring, e), RingCapacity)
  /\ subscriber' = [c \in Client |->
       IF subscriber[c].open /\ Matches(c, row.type) THEN Enqueued(subscriber[c], e)
                                                 ELSE subscriber[c]]
  /\ UNCHANGED clientVars

SameId(e, f) == published[e].id = published[f].id

\* Faulty: the event of the id is sent again.
ReplayedFrom(e) ==
  {i \in DOMAIN ring : \/ \E j \in 1..i : SameId(ring[j], e)
                       \/ \A j \in DOMAIN ring : ~SameId(ring[j], e)}

\* The places of the ring after the first that has the id of e; all of them when none
\* has it.
ReplayedAfter(e) ==
  {i \in DOMAIN ring : \/ \E j \in 1..(i - 1) : SameId(ring[j], e)
                       \/ \A j \in DOMAIN ring : ~SameId(ring[j], e)}

\* LiveActivityFeed: after an error the feed makes a new EventSource, with the id
\* that ReconnectStrategy remembers, if any, in the query.  An id is named by the
\* publication it was sent with.
FeedConnection(c) == [lastEventId |-> 0, query |-> remembered[c]]

\* tenantStream, whose request to the API has the query and the Last-Event-ID of the
\* one it got; the API reads the id from the header only.
TenantStream(connection) == connection.lastEventId

\* The ids with which a client may subscribe.
ResumesAt(c) == IF c \in feeds THEN {TenantStream(FeedConnection(c))} ELSE {0, remembered[c]}

\* subscribe: without an id, only what is published from now on.
Subscribe(c) ==
  \E e \in ResumesAt(c) :
    LET replay == IF e = 0 THEN {} ELSE ReplayedAfter(e) IN
    /\ ~subscriber[c].open
    /\ subscriber' = [subscriber EXCEPT ![c] =
         [NotSubscribed EXCEPT
            !.open = TRUE,
            !.queue = Filtered(ring, {i \in replay : Matches(c, published[ring[i]].type)})]]
    /\ firstEvent' = [firstEvent EXCEPT ![c] = IF @ = 0 THEN Len(published) + 1 ELSE @]
    /\ unresumed' = unresumed \cup
         (IF firstEvent[c] # 0 /\ ~Contains(ring, e) THEN {c} ELSE {})
    /\ rewound' = rewound \cup
         (IF e # 0 /\ \E i \in DOMAIN ring : ring[i] < e /\ SameId(ring[i], e) THEN {c} ELSE {})
    /\ UNCHANGED <<feeds, published, ring, remembered, received, toldUpTo>>

\* The iterator yields the overflow marker.  Its id is the last event queued,
\* and the client remembers it as it does any id.
YieldMarker(c) ==
  LET s == subscriber[c] IN
  /\ s.open /\ ~s.waiting /\ s.overflowed
  /\ subscriber' = [subscriber EXCEPT ![c].overflowed = FALSE]
  /\ remembered' = [remembered EXCEPT ![c] = s.lastSeen]
  /\ toldUpTo' = [toldUpTo EXCEPT ![c] = Max({@, s.lastSeen})]
  /\ UNCHANGED <<feeds, published, ring, received, firstEvent, unresumed, rewound>>

YieldEvent(c) ==
  LET s == subscriber[c] IN
  /\ s.open /\ ~s.waiting /\ ~s.overflowed /\ s.queue # <<>>
  /\ subscriber' = [subscriber EXCEPT ![c].queue = Tail(@)]
  /\ remembered' = [remembered EXCEPT ![c] = Head(s.queue)]
  /\ received' = [received EXCEPT ![c] = @ \cup {Head(s.queue)}]
  /\ UNCHANGED <<feeds, published, ring, firstEvent, toldUpTo, unresumed, rewound>>

\* Nothing to yield: wait for publish.
AwaitEvent(c) ==
  LET s == subscriber[c] IN
  /\ s.open /\ ~s.waiting /\ ~s.overflowed /\ s.queue = <<>>
  /\ subscriber' = [subscriber EXCEPT ![c].waiting = TRUE]
  /\ UNCHANGED <<published, ring, clientVars>>

\* The connection breaks: the handler closes the subscription.
Disconnect(c) ==
  /\ subscriber[c].open
  /\ subscriber' = [subscriber EXCEPT ![c] = NotSubscribed]
  /\ UNCHANGED <<published, ring, clientVars>>

RestartServer ==
  /\ ring # <<>>
  /\ ring' = <<>>
  /\ subscriber' = [c \in Client |-> NotSubscribed]
  /\ UNCHANGED <<published, clientVars>>

-----------------------------------------------------------------------------
BrokerInit ==
  /\ feeds \in SUBSET Client
  /\ published = <<>>
  /\ ring = <<>>
  /\ subscriber = [c \in Client |-> NotSubscribed]
  /\ remembered = [c \in Client |-> 0]
  /\ received = [c \in Client |-> {}]
  /\ firstEvent = [c \in Client |-> 0]
  /\ toldUpTo = [c \in Client |-> 0]
  /\ unresumed = {} /\ rewound = {}

Iterate(c) == YieldMarker(c) \/ YieldEvent(c) \/ AwaitEvent(c)

BrokerNext ==
  \/ \E row \in Rows : Publish(row)
  \/ \E c \in Client : Subscribe(c) \/ Iterate(c) \/ Disconnect(c)
  \/ RestartServer

BrokerFairness == \A c \in Client : WF_brokerVars(Iterate(c))

-----------------------------------------------------------------------------
\* What a client should have got: the publications of its types since it first came.
Expected(c) ==
  {e \in 1..Len(published) :
     firstEvent[c] # 0 /\ e >= firstEvent[c] /\ Matches(c, published[e].type)}

\* However often a client reconnects, what was published before the id it would resume
\* from was sent to it, or lies below an id an overflow marker told it of.  No overflow,
\* no replay, no marker's id and no row that is published again makes an event disappear
\* without a word, unless the client came back with no id, or with that of a publication
\* the ring had lost (a later publication of the same id then hides what was between).
LossIsTold ==
  \A c \in Client \ unresumed : \A e \in Expected(c) :
    e <= remembered[c] => e \in received[c] \/ e <= toldUpTo[c]

\* What waits to be sent was published, in that order, after all that was sent: through
\* overflows, replays and the ids of markers the broker sends no publication late or
\* twice, unless the ring was replayed to a client with an unknown id, or from an
\* earlier publication of its id.  (An event that was published twice does come twice.)
InOrder ==
  \A c \in Client \ (unresumed \cup rewound) :
    LET queue == subscriber[c].queue IN
    /\ \A i, j \in DOMAIN queue : i < j => queue[i] < queue[j]
    /\ \A e \in ToSet(queue), f \in received[c] : f < e

\* An event for a client that stays connected is sent to it, or an overflow
\* marker tells of it: no wake-up is lost between the iterator and publish.
EventuallyTold ==
  \A c \in Client : \A e \in Ids :
    (subscriber[c].open /\ e \in ToSet(subscriber[c].queue))
      ~> (~subscriber[c].open \/ e \in received[c] \/ e <= toldUpTo[c])

=============================================================================

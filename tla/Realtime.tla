------------------------------ MODULE Realtime ------------------------------
(***************************************************************************)
(* Live delivery: the in-process hub of the api (a ring of recent events   *)
(* and a bounded channel per subscription), the websocket route that       *)
(* forwards one subscription, and the client thread that remembers the     *)
(* events it received.  Event i is the i-th event the hub ever accepted;   *)
(* 0 is the empty Last-Event-ID.                                           *)
(***************************************************************************)
EXTENDS Integers, Sequences, FiniteSets, Functions

CONSTANTS
  Topics,      \* what an event can be about
  KeySets,     \* the sets of topics a client subscribes to
  RingLimit,   \* recentLimit: how many events are kept for replay
  ChanLimit,   \* the capacity of a subscription's channel
  MaxEvents,   \* bound: how many events are published
  Disturb      \* bound: how often each disturbance happens

Disturbances == {"cut", "fail", "crash", "hub", "resubscribe"}

ASSUME RealtimeAssumption ==
  /\ KeySets \subseteq SUBSET Topics
  /\ {RingLimit, ChanLimit} \subseteq Nat \ {0}
  /\ MaxEvents \in Nat
  /\ Disturb \in [Disturbances -> Nat]

VARIABLES
  topic,   \* topic[i] is the topic of event i (history)
  ring,    \* recentEvents
  sub,     \* the subscription of the connection, and what became of its events
  wire,    \* the events written to the socket and not yet read
  client,  \* the client thread: its program counter and its memory
  store,   \* the client's database: the events received, the handlers' runs
  spent    \* how often each disturbance has happened

realtimeVars == <<topic, ring, sub, wire, client, store, spent>>

---------------------------------------------------------------------------
(* The hub. *)

\* The ring with event i, trimmed to the newest RingLimit events.
Keep(R, i) ==
  LET S == R \cup {i} IN {j \in S : Cardinality({k \in S : k > j}) < RingLimit}

\* Mutant: the event after the resume point is taken for the resume point.
BugReplay(keys, k) ==
  IF k \in ring THEN {i \in ring : i > k + 1 /\ topic[i] \in keys} ELSE {}

\* replayLocked: what follows event k in the ring; nothing when k is not there.
Replay(keys, k) ==
  IF k \in ring THEN {i \in ring : i > k /\ topic[i] \in keys} ELSE {}

\* Subscribe: registered, and given its replay, under one lock.  first, sent and
\* lost are history: the events it answers for, forwarded, and dropped.
Subscription(keys, k) ==
  [open |-> TRUE, keys |-> keys, ch |-> <<>>, replay |-> Replay(keys, k), last |-> k,
   first |-> IF k \in ring THEN k + 1 ELSE Len(topic) + 1, sent |-> <<>>, lost |-> {}]

Closed == [open |-> FALSE, keys |-> {}, ch |-> <<>>, replay |-> {}, last |-> 0,
           first |-> 1, sent |-> <<>>, lost |-> {}]

\* The event goes to the channel, or is dropped when the channel is full.
Offer(s, i) ==
  IF Len(s.ch) < ChanLimit THEN [s EXCEPT !.ch = Append(@, i)]
  ELSE [s EXCEPT !.lost = @ \cup {i}]

Publish(t) ==
  LET i == Len(topic) + 1 IN
  /\ i <= MaxEvents
  /\ topic' = Append(topic, t)
  /\ ring' = Keep(ring, i)
  /\ sub' = IF sub.open /\ t \in sub.keys THEN Offer(sub, i) ELSE sub
  /\ UNCHANGED <<wire, client, store, spent>>

\* The goroutine of Subscribe waits for room in the channel; live events enter
\* the channel meanwhile.
ReplayOne ==
  \E i \in sub.replay :
    /\ \A j \in sub.replay : i <= j
    /\ Len(sub.ch) < ChanLimit
    /\ sub' = [sub EXCEPT !.replay = @ \ {i}, !.ch = Append(@, i)]
    /\ UNCHANGED <<topic, ring, wire, client, store, spent>>

---------------------------------------------------------------------------
(* The websocket route. *)

Forward ==
  /\ sub.ch # <<>>
  /\ wire' = Append(wire, Head(sub.ch))
  /\ sub' = [sub EXCEPT !.ch = Tail(@), !.last = Head(sub.ch), !.sent = Append(@, Head(sub.ch))]
  /\ UNCHANGED <<topic, ring, client, store, spent>>

---------------------------------------------------------------------------
(* The client thread. *)

Spend(d) == spent[d] < Disturb[d] /\ spent' = [spent EXCEPT ![d] = @ + 1]

\* connect_once: the last event id goes into the header of the handshake.
Connect(keys) ==
  /\ client.pc = "down"
  /\ sub' = Subscription(keys, client.last)
  /\ client' = [client EXCEPT !.pc = "up"]
  /\ UNCHANGED <<topic, ring, wire, store, spent>>

\* A new subscribe message on an open connection: the route subscribes again
\* from the last event it wrote, and drops the old channel.
Resubscribe(keys) ==
  /\ client.pc # "down" /\ sub.open /\ Spend("resubscribe")
  /\ sub' = Subscription(keys, sub.last)
  /\ UNCHANGED <<topic, ring, wire, client, store>>

\* insert_received_event, a transaction of its own: a duplicate is skipped, and
\* moves the resume point.
Receive ==
  LET i == Head(wire) IN
  /\ client.pc = "up" /\ wire # <<>>
  /\ wire' = Tail(wire)
  /\ store' = [store EXCEPT !.received = @ \cup {i}]
  /\ client' = IF i \in store.received THEN [client EXCEPT !.last = i]
               ELSE [client EXCEPT !.pc = "handle", !.event = i]
  /\ UNCHANGED <<topic, ring, sub, spent>>

Handle ==
  /\ client.pc = "handle"
  /\ store' = [store EXCEPT !.handled = Append(@, client.event)]
  /\ client' = [client EXCEPT !.pc = "up", !.last = client.event]
  /\ UNCHANGED <<topic, ring, sub, wire, spent>>

\* No decoder for the event's kind, or a payload that does not decode.
Ignore ==
  /\ client.pc = "handle"
  /\ client' = [client EXCEPT !.pc = "up", !.last = client.event]
  /\ UNCHANGED <<topic, ring, sub, wire, store, spent>>

\* A handler's error ends connect_once; the event stays marked as received.
HandleFails ==
  /\ client.pc = "handle" /\ Spend("fail")
  /\ client' = [client EXCEPT !.pc = "down"]
  /\ sub' = Closed /\ wire' = <<>>
  /\ UNCHANGED <<topic, ring, store>>

\* The read fails once the socket is closed and empty.
Notice ==
  /\ client.pc = "up" /\ ~sub.open /\ wire = <<>>
  /\ client' = [client EXCEPT !.pc = "down"]
  /\ UNCHANGED <<topic, ring, sub, wire, store, spent>>

---------------------------------------------------------------------------
(* Disturbances. *)

\* What was on its way arrives up to some event.
Truncate == \E k \in 0..Len(wire) : wire' = SubSeq(wire, 1, k)

Cut ==
  /\ sub.open /\ Spend("cut")
  /\ sub' = Closed /\ Truncate
  /\ UNCHANGED <<topic, ring, client, store>>

\* The api process restarts: its ring and its subscriptions are gone.
HubRestart ==
  /\ Spend("hub")
  /\ ring' = {} /\ sub' = Closed /\ Truncate
  /\ UNCHANGED <<topic, client, store>>

\* The client process restarts: its database stays, its resume point does not.
ClientRestart ==
  /\ Spend("crash")
  /\ client' = [pc |-> "down", event |-> 0, last |-> 0]
  /\ sub' = Closed /\ wire' = <<>>
  /\ UNCHANGED <<topic, ring, store>>

---------------------------------------------------------------------------
RealtimeInit ==
  /\ topic = <<>> /\ ring = {} /\ sub = Closed /\ wire = <<>>
  /\ client = [pc |-> "down", event |-> 0, last |-> 0]
  /\ store = [received |-> {}, handled |-> <<>>]
  /\ spent = [d \in Disturbances |-> 0]

ClientStep == Receive \/ Handle \/ Ignore \/ Notice

RealtimeNext ==
  \/ \E t \in Topics : Publish(t)
  \/ ReplayOne \/ Forward
  \/ \E keys \in KeySets : Connect(keys) \/ Resubscribe(keys)
  \/ ClientStep \/ HandleFails
  \/ Cut \/ HubRestart \/ ClientRestart

RealtimeSpec == RealtimeInit /\ [][RealtimeNext]_realtimeVars

\* The replay goroutine, the route's loop and the client's loop keep running.
RealtimeFairness ==
  WF_realtimeVars(ReplayOne) /\ WF_realtimeVars(Forward) /\ WF_realtimeVars(ClientStep)

---------------------------------------------------------------------------
(* Properties. *)

Events == 1..Len(topic)

\* The type invariant: the ring and the channel keep their sizes.
RealtimeTypeOK ==
  /\ topic \in Seq(Topics) /\ Len(topic) <= MaxEvents
  /\ ring \subseteq Events /\ Cardinality(ring) <= RingLimit
  /\ sub \in [open : BOOLEAN, keys : SUBSET Topics, ch : Seq(Events), replay : SUBSET Events,
              last : Events \cup {0}, first : 1..(Len(topic) + 1), sent : Seq(Events),
              lost : SUBSET Events]
  /\ Len(sub.ch) <= ChanLimit
  /\ wire \in Seq(Events)
  /\ client \in [pc : {"down", "up", "handle"}, event : Events \cup {0}, last : Events \cup {0}]
  /\ store \in [received : SUBSET Events, handled : Seq(Events)]
  /\ spent \in [Disturbances -> Nat]

\* The events a subscription answers for.
Due == IF sub.open THEN {i \in Events : i >= sub.first /\ topic[i] \in sub.keys} ELSE {}

\* Each event a subscription answers for is in exactly one place, once: still to
\* be replayed, in the channel, forwarded, or dropped and counted.  The ring and
\* the live stream neither overlap nor leave a gap where they meet (Subscribe).
DeliveredExactlyOnce ==
  LET out == sub.sent \o sub.ch IN
  sub.open =>
    /\ IsInjective(out)
    /\ Range(out) \cup sub.replay \cup sub.lost = Due
    /\ Range(out) \cap (sub.replay \cup sub.lost) = {} /\ sub.replay \cap sub.lost = {}

\* However often an event is sent again, by a replay after a cut, a failed handler
\* or a restart, its handler runs to the end at most once (process_event).
HandledAtMostOnce ==
  IsInjective(store.handled) /\ Range(store.handled) \subseteq store.received

\* Both ends of a delivery: the hub neither loses nor repeats what it answers for, and
\* what a reconnect sends again is not handled again.
DeliveryIsExact == DeliveredExactlyOnce /\ HandledAtMostOnce

\* An event a subscription answers for and did not drop reaches the client,
\* unless the connection ends first.
EventuallyReceived ==
  \A i \in 1..MaxEvents :
    i \in Due \ sub.lost ~> (i \in store.received \/ i \notin Due \ sub.lost)
=============================================================================

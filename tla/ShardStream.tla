----------------------------- MODULE ShardStream -----------------------------
(***************************************************************************)
(* One live view of a shard resource: the change observer of the provider,  *)
(* the subscription's refresh loop behind it, the channel of one event, and *)
(* the socket it was asked for on: the loop that reads requests, the        *)
(* goroutine that forwards its events, and the one that checks the          *)
(* credential again. A snapshot is the version of the data.                 *)
(***************************************************************************)
EXTENDS Naturals, Sequences, SequencesExt

CONSTANTS
  MaxVersion,      \* bound: versions of the data
  StreamLimit,     \* MaxSubscriptionsPerPrincipal
  SocketLimit,     \* subscriptionLimit of a socket
  StreamConfigs    \* [observed, flips, errors]: whether the provider reports changes or the
                   \* loop polls, and bounds on changes of permission and on failures

ASSUME StreamAssumption ==
  /\ MaxVersion \in Nat /\ {StreamLimit, SocketLimit} \subseteq Nat \ {0}
  /\ \A c \in StreamConfigs : c.observed \in BOOLEAN /\ {c.flips, c.errors} \subseteq Nat

VARIABLES
  data,      \* the version of the data
  allowed,   \* the release is the one asked for and the principal may read it
  watch,     \* the change stream: off, on, or on with a change still to be signalled
  signal,    \* the channel of changes, of capacity one, is full
  loop,      \* the subscription: where its goroutine is, the snapshot it read, the last it
             \* sent, the next sequence number, and whether its place was given back
  channel,   \* the channel of events, of capacity one
  closed,    \* the channel of events is closed
  places,    \* the principal's subscriptions, the others' and this one's
  socket,    \* where its reading loop is, whether its context lives, whether the subscription
             \* is in its map, whether the credential is still good
  got,       \* what the socket has forwarded
  view       \* the profile, the others' subscriptions, and the bounds that are left

streamState == <<data, allowed, watch, signal, loop, channel, closed, places, socket, got>>
streamVars == <<streamState, view>>

Versions == 0 .. MaxVersion
Event(seq, version) == [seq |-> seq, version |-> version]
IsError(e) == e.version > MaxVersion
TheError == Event(0, MaxVersion + 1)

\* The type invariant: the places taken stay within the principal's limit.
StreamTypeOK ==
  /\ data \in Versions /\ allowed \in BOOLEAN /\ watch \in {"off", "on", "pending"} /\ signal \in BOOLEAN
  /\ loop \in [at : {"new", "placed", "first", "waiting", "woken", "read", "failing", "ended"},
               read : Versions, last : Versions, seq : 0 .. MaxVersion + 1, freed : BOOLEAN]
  /\ socket \in [at : {"asked", "made", "reading", "returned"}, open : BOOLEAN, listed : BOOLEAN, valid : BOOLEAN]
  /\ Len(channel) <= 1 /\ closed \in BOOLEAN /\ places \in 0 .. StreamLimit

StreamInit ==
  /\ data = 0 /\ allowed = TRUE /\ watch = "off" /\ signal = FALSE
  /\ loop = [at |-> "new", read |-> 0, last |-> 0, seq |-> 0, freed |-> FALSE]
  /\ channel = <<>> /\ closed = FALSE /\ got = <<>>
  /\ socket = [at |-> "asked", open |-> TRUE, listed |-> FALSE, valid |-> TRUE]
  /\ \E c \in StreamConfigs, n \in 0 .. StreamLimit, k \in {0, SocketLimit} :
       /\ places = n /\ k <= n
       /\ view = [observed |-> c.observed, others |-> n, same |-> k, flips |-> c.flips, errors |-> c.errors]

Spent(what) == view[what] > 0 /\ view' = [view EXCEPT ![what] = @ - 1]

-----------------------------------------------------------------------------
(* The provider. *)

\* A write; its event wakes the change stream.
ChangeData ==
  /\ data < MaxVersion
  /\ data' = data + 1
  /\ watch' = IF watch = "on" THEN "pending" ELSE watch
  /\ UNCHANGED <<allowed, signal, loop, channel, closed, places, socket, got, view>>

\* Another release is activated, or the principal loses or regains access.
ChangePermission ==
  /\ Spent("flips")
  /\ allowed' = ~allowed
  /\ UNCHANGED <<data, watch, signal, loop, channel, closed, places, socket, got>>

\* ObserveChanges waits until its last signal was taken: changes in between are one.
SignalChange ==
  /\ watch = "pending" /\ ~signal
  /\ signal' = TRUE /\ watch' = "on"
  /\ UNCHANGED <<data, allowed, loop, channel, closed, places, socket, got, view>>

-----------------------------------------------------------------------------
(* The subscription. *)

\* Closing gives the place back once, whoever closes first.
Free == IF loop.freed THEN places ELSE places - 1

\* The context of the subscription, a child of the socket's.
Cancelled == loop.freed \/ ~socket.open

\* Within the socket's limit, resolved for "observe", and within the principal's.
Admitted == view.same < SocketLimit /\ socket.open /\ allowed /\ places < StreamLimit

Subscribe ==
  /\ loop.at = "new"
  /\ IF Admitted
     THEN places' = places + 1 /\ loop' = [loop EXCEPT !.at = "placed"] /\ UNCHANGED socket
     ELSE /\ loop' = [loop EXCEPT !.at = "ended", !.freed = TRUE] /\ UNCHANGED places
          /\ socket' = [socket EXCEPT !.at = "reading"]
  /\ UNCHANGED <<data, allowed, watch, signal, channel, closed, got, view>>

\* The change stream first, then the page of the first snapshot.
ObserveChanges ==
  /\ loop.at = "placed"
  /\ IF view.observed /\ watch = "off"
     THEN watch' = "on" /\ UNCHANGED loop
     ELSE loop' = [loop EXCEPT !.at = "first", !.read = data] /\ UNCHANGED watch
  /\ UNCHANGED <<data, allowed, signal, channel, closed, places, socket, got, view>>

\* The release is checked after the provider was read.
SendInitial ==
  /\ loop.at = "first"
  /\ IF allowed /\ socket.open
     THEN /\ channel' = <<Event(0, loop.read)>>
          /\ loop' = [loop EXCEPT !.at = "waiting", !.last = loop.read, !.seq = 1]
          /\ socket' = [socket EXCEPT !.at = "made"]
          /\ UNCHANGED <<closed, places>>
     ELSE /\ loop' = [loop EXCEPT !.at = "ended", !.freed = TRUE]
          /\ socket' = [socket EXCEPT !.at = "reading"]
          /\ places' = Free /\ closed' = TRUE /\ UNCHANGED channel
  /\ UNCHANGED <<data, allowed, watch, signal, got, view>>

\* A tick, or a change: an observed view has no ticker.
Wake ==
  /\ loop.at = "waiting" /\ ~Cancelled /\ (view.observed => signal)
  /\ signal' = FALSE
  /\ loop' = [loop EXCEPT !.at = "woken"]
  /\ UNCHANGED <<data, allowed, watch, channel, closed, places, socket, got, view>>

\* An undelivered snapshot gives way to the error.
Fail == <<TheError>>

Failing ==
  /\ channel' = Fail
  /\ loop' = [loop EXCEPT !.at = "failing"]

\* The target is resolved again, and the page is read.
Refresh ==
  /\ loop.at = "woken"
  /\ IF allowed THEN loop' = [loop EXCEPT !.at = "read", !.read = data] /\ UNCHANGED channel
                ELSE Failing
  /\ UNCHANGED <<data, allowed, watch, signal, closed, places, socket, got, view>>

BugSendNext ==
  /\ loop.at = "read"
  /\ IF ~allowed THEN Failing
     ELSE IF loop.read = loop.last THEN loop' = [loop EXCEPT !.at = "waiting"] /\ UNCHANGED channel
     ELSE /\ channel' = <<Event(loop.seq, loop.read)>>
          /\ loop' = [loop EXCEPT !.at = "waiting", !.last = loop.read, !.seq = @ + 1]
  /\ UNCHANGED <<data, allowed, watch, signal, closed, places, socket, got, view>>

\* Checked, compared with what was sent last, and sent unless the consumer is too slow.
SendNext ==
  /\ loop.at = "read"
  /\ IF ~allowed THEN Failing
     ELSE IF loop.read = loop.last THEN loop' = [loop EXCEPT !.at = "waiting"] /\ UNCHANGED channel
     ELSE IF channel # <<>> THEN Failing
     ELSE /\ channel' = <<Event(loop.seq, loop.read)>>
          /\ loop' = [loop EXCEPT !.at = "waiting", !.last = loop.read, !.seq = @ + 1]
  /\ UNCHANGED <<data, allowed, watch, signal, closed, places, socket, got, view>>

\* The provider fails, or the change stream breaks off.
ProviderFails ==
  /\ loop.at \in {"woken", "read"} \/ (loop.at = "waiting" /\ view.observed)
  /\ Spent("errors") /\ Failing
  /\ UNCHANGED <<data, allowed, watch, signal, closed, places, socket, got>>

\* The goroutine returns, after its error or because its context has ended.
EndLoop ==
  /\ loop.at = "failing" \/ (Cancelled /\ loop.at \in {"waiting", "woken", "read"})
  /\ loop' = [loop EXCEPT !.at = "ended", !.freed = TRUE]
  /\ places' = Free /\ closed' = TRUE
  /\ UNCHANGED <<data, allowed, watch, signal, channel, socket, got, view>>

-----------------------------------------------------------------------------
(* The socket. *)

CloseSubscription == loop' = [loop EXCEPT !.freed = TRUE] /\ places' = Free

\* The identity goes out before any event does; when it cannot, the handler returns.
Reply ==
  /\ socket.at = "made"
  /\ IF socket.open
     THEN socket' = [socket EXCEPT !.at = "reading", !.listed = TRUE] /\ UNCHANGED <<loop, places>>
     ELSE socket' = [socket EXCEPT !.at = "returned"] /\ CloseSubscription
  /\ UNCHANGED <<data, allowed, watch, signal, channel, closed, got, view>>

ForwardEvent ==
  /\ channel # <<>> /\ socket.at = "reading" /\ socket.open
  /\ got' = Append(got, Head(channel)) /\ channel' = Tail(channel)
  /\ UNCHANGED <<data, allowed, watch, signal, loop, closed, places, socket, view>>

\* The goroutine that forwards ends with the channel, or when it cannot write.
EndForward ==
  /\ socket.listed /\ IF channel = <<>> THEN closed ELSE ~socket.open
  /\ socket' = [socket EXCEPT !.listed = FALSE]
  /\ CloseSubscription
  /\ UNCHANGED <<data, allowed, watch, signal, channel, closed, got, view>>

\* What was read before is still forwarded.
Unsubscribe ==
  /\ socket.at = "reading" /\ socket.open /\ socket.listed
  /\ socket' = [socket EXCEPT !.listed = FALSE]
  /\ CloseSubscription
  /\ UNCHANGED <<data, allowed, watch, signal, channel, closed, got, view>>

Unread == UNCHANGED <<data, allowed, watch, signal, loop, channel, closed, places, got, view>>

\* The client is gone, or a write of this or of another subscription took too long.
Break ==
  /\ socket.open /\ socket' = [socket EXCEPT !.open = FALSE] /\ Unread

\* The session ends, or its token is revoked.
EndSession ==
  /\ socket.valid /\ socket' = [socket EXCEPT !.valid = FALSE] /\ Unread

\* "Recheck the exact credential against the auth store periodically."
CheckCredential ==
  /\ ~socket.valid /\ socket.open /\ socket' = [socket EXCEPT !.open = FALSE] /\ Unread

\* Mutant: what the map holds is not closed.
BugReturn ==
  /\ socket.at = "reading" /\ ~socket.open
  /\ socket' = [socket EXCEPT !.at = "returned", !.listed = FALSE]
  /\ UNCHANGED <<loop, places>>
  /\ UNCHANGED <<data, allowed, watch, signal, channel, closed, got, view>>

\* The read fails; on return everything in the map is closed.
Return ==
  /\ socket.at = "reading" /\ ~socket.open
  /\ socket' = [socket EXCEPT !.at = "returned", !.listed = FALSE]
  /\ IF socket.listed THEN CloseSubscription ELSE UNCHANGED <<loop, places>>
  /\ UNCHANGED <<data, allowed, watch, signal, channel, closed, got, view>>

-----------------------------------------------------------------------------
LoopStep == Subscribe \/ ObserveChanges \/ SendInitial \/ Refresh \/ SendNext \/ EndLoop
SocketStep == Reply \/ EndForward \/ Return

StreamNext ==
  \/ ChangeData \/ ChangePermission \/ SignalChange
  \/ LoopStep \/ Wake \/ ProviderFails
  \/ ForwardEvent \/ SocketStep \/ Unsubscribe
  \/ Break \/ EndSession \/ CheckCredential

StreamSpec == StreamInit /\ [][StreamNext]_streamVars

\* The goroutines run, the tickers tick, and the socket takes what it is given.
StreamFairness ==
  /\ WF_streamState(LoopStep) /\ WF_streamState(Wake) /\ WF_streamState(SignalChange)
  /\ WF_streamState(ForwardEvent) /\ WF_streamState(SocketStep) /\ WF_streamState(CheckCredential)

-----------------------------------------------------------------------------
(* Properties. *)

\* stream.go: "it never silently drops a sequence number": what the client gets
\* is numbered from zero without a gap, each snapshot newer than the one before,
\* and nothing follows an error.
GotInSequence ==
  \A n \in 1 .. Len(got) :
    /\ IsError(got[n]) => n = Len(got)
    /\ ~IsError(got[n]) => got[n].seq = n - 1 /\ (n > 1 => got[n].version > got[n - 1].version)

\* stream.go: "sensitive data cannot be delivered after this subscription
\* observes revocation": once the loop has failed, the socket gets no snapshot.
SilentAfterFailure ==
  [][loop.at = "failing" /\ got' # got => IsError(Last(got'))]_streamVars

\* A place of the principal's limit is held by a subscription from its admission
\* until it is closed by the client, by the socket or by its own failure, and no longer.
PlacesBalance ==
  places = view.others + IF loop.at = "new" \/ loop.freed THEN 0 ELSE 1

\* A change right before, between or after the watch and the first snapshot is
\* not missed: a subscription that lives ends with the latest data.
StreamConverges ==
  <>[](\/ loop.at \in {"ended", "new"} \/ Cancelled
       \/ got # <<>> /\ Last(got).version = data)

\* stream.go: "Periodic authorized reads reconcile missed outbox notifications":
\* a view whose release or permission is gone is told so and ends.
Reconciled == ~allowed ~> (allowed \/ loop.at \in {"new", "ended"} \/ Cancelled)
\* So it is where the loop polls; where the store tells it of changes it does not.
PollsReconcile == ~view.observed => Reconciled

\* shard_resources.go: "Authentication on the upgrade alone is insufficient for a long-lived
\* socket": a socket does not outlive its credential for long, and leaves nothing running.
SessionsEnd == ~socket.valid ~> (~socket.open /\ loop.at = "ended")

\* Whoever notices the end first, while a subscription is made, answered, forwarded or
\* failing: a handler that has returned leaves no subscription that holds a place.
SocketLeavesNothing == socket.at = "returned" => loop.freed /\ ~socket.listed

\* Subscribers are served in order and to the end: what they get is numbered, nothing
\* follows a failure, and their places are given back once, also when the socket ends.
SubscribersAreServed == [](GotInSequence /\ PlacesBalance /\ SocketLeavesNothing) /\ SilentAfterFailure
=============================================================================

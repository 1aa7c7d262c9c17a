------------------------------ MODULE MCLive ------------------------------
(* Instances of what clients see live, and what is fair about them. *)
EXTENDS Live, TLC

CONSTANTS u1, u2, a, b, g1, g2

\* Two tenants, a node each.
MCUsers == {u1, u2}
MCNodes == {a, b}
MCOwner == (a :> u1) @@ (b :> u2)

\* One client, a topic it always follows and one it may add; each disturbance once.
MCTopics == {"frame", "notification"}
MCKeySets == {{"frame"}, MCTopics}
MCDisturb == [d \in Disturbances |-> 1]
\* Only what cuts the connection or loses the process.
MCCut == [d \in Disturbances |-> IF d \in {"cut", "crash", "fail"} THEN 1 ELSE 0]

\* A provider that tells of changes and one that is polled.
MCStreams == {[observed |-> TRUE, flips |-> 1, errors |-> 1], [observed |-> FALSE, flips |-> 2, errors |-> 1]}

\* A turn that breaks, or a server that restarts.
MCTurnFaults == {[breaks |-> 1, restarts |-> 0, losses |-> 0], [breaks |-> 0, restarts |-> 1, losses |-> 0]}

\* A write that fails, or an engine that restarts.
MCAlertFaults == {[errors |-> 1, crashes |-> 0], [errors |-> 0, crashes |-> 1]}
NoAlertFaults == {[errors |-> 0, crashes |-> 0]}

\* A watcher may leave before it has arrived, or only after; a connection may break.
MCHubs == {[early |-> early, breaks |-> 1] : early \in BOOLEAN}
MCLateLeavers == {[early |-> FALSE, breaks |-> 1]}

\* A split before a dividend, and both on a day; a reverse split; a dividend of more than
\* the price; entries without a rate, of no effect or only announced; an unknown symbol;
\* and two charts at once.
Split(ex, n, d) == [type |-> "split", ex |-> ex, amount |-> <<n, d>>]
Cash(ex, n) == [type |-> "dividend", ex |-> ex, amount |-> <<n, 1>>]
PriceCase(w, a_, l, m, k, f, n) ==
  [worth |-> w, actions |-> a_, limit |-> l, mode |-> m, listed |-> k, faults |-> f, runs |-> n]
MCPrices ==
  {PriceCase(<<8, 8, 8>>, {Split(2, 4, 1), Cash(3, 1)}, 3, g1 :> m, TRUE, 1, 1) : m \in {"splits", "total"}}
  \cup {PriceCase(<<8, 6, 6>>, {Split(2, 2, 1), Cash(2, 2), Split(3, 0, 1)}, 3, g1 :> "total", TRUE, 0, 2),
        PriceCase(<<8, 7, 4>>, {Split(2, 1, 2), Split(3, 4, 1)}, 2, g1 :> "splits", TRUE, 1, 1),
        PriceCase(<<8, 8>>, {Cash(2, 9), Split(3, 2, 1), Split(2, 1, 1)}, 2, g1 :> "total", FALSE, 1, 2),
        PriceCase(<<8, 8>>, {Cash(2, 9), Split(2, 3, 2), Split(3, 2, 1)}, 2, (g1 :> "total") @@ (g2 :> "none"), TRUE, 0, 1)}

\* Fairness, of the modules; guarded for the components that would have something to
\* do as they begin.
FeedFairness ==
  /\ WF_vars(part = "feed" /\ DrainStep)
  /\ WF_vars(part = "feed" /\ (\E t \in running : Commit(t)) /\ UNCHANGED feedVars)

ProviderFairness ==
  /\ WF_streamState(part = "stream" /\ LoopStep) /\ WF_streamState(part = "stream" /\ Wake)
  /\ WF_streamState(part = "stream" /\ SignalChange) /\ WF_streamState(part = "stream" /\ ForwardEvent)
  /\ WF_streamState(part = "stream" /\ SocketStep) /\ WF_streamState(part = "stream" /\ CheckCredential)

EngineFairness ==
  /\ WF_alertState(part = "alerts" /\ ListActive) /\ WF_alertState(part = "alerts" /\ FetchSnapshot)
  /\ WF_alertState(part = "alerts" /\ SendReconcile)
  /\ SF_alertState(part = "alerts" /\ ApplyReconcile) /\ WF_alertState(part = "alerts" /\ FireDue)

LiveFairSpec ==
  /\ LiveSpec
  /\ FeedFairness /\ RealtimeFairness /\ ProviderFairness /\ CopilotFairness /\ EngineFairness /\ HubFairness

\* What changes on the server reaches who follows it: outbox rows the hub, events the
\* client, and data and revocations the readers of a shard.
ChangesArrive ==
  /\ EventuallyPublished /\ EventuallyReceived /\ StreamConverges /\ PollsReconcile
  /\ (part = "stream" => SessionsEnd)
=============================================================================

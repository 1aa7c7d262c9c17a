----------------------------- MODULE Changefeed -----------------------------
(***************************************************************************)
(* The drain: one goroutine of the api process that reads the outbox of    *)
(* OutboxLog in windows below the horizon and publishes each row to the    *)
(* realtime hub.  Its cursor is in memory only; it is seeded at the        *)
(* horizon on every start, and a publication that fails is retried.        *)
(***************************************************************************)
EXTENDS OutboxLog

CONSTANTS
  PruneBudget,    \* bound: how often the outbox is pruned
  ErrorBudget,    \* bound: how often a read of the log fails
  RestartBudget   \* bound: how often the drain restarts

ASSUME ChangefeedAssumption ==
  PruneBudget \in Nat /\ ErrorBudget \in Nat /\ RestartBudget \in Nat

VARIABLES
  drain,      \* where the goroutine is: its program counter and its locals
  seed,       \* the horizon its cursor was last seeded at
  published,  \* the rows the hub has accepted
  left        \* what is left of the three bounds

feedVars == <<drain, seed, published, left>>
vars == <<logVars, feedVars>>

---------------------------------------------------------------------------
(* What the hub accepts. *)

AllowedKinds == {"any", "artifact", "folder", "page", "copilot", "notification"}
BroadcastKinds == {"any", "quote"}

\* ResolvePublishKeys rejects a resource kind outside the stream's list, and
\* Publish returns its error.
Refused(r) == r.kind \notin IF r.user = NoUser THEN BroadcastKinds ELSE AllowedKinds

---------------------------------------------------------------------------
(* The drain. *)

Boot == [pc |-> "boot", cursor |-> 0, h |-> 0, batch |-> {}, next |-> 0]

\* initCursor: not zero, so a start never replays the whole outbox.
Seed ==
  /\ drain.pc = "boot"
  /\ drain' = [drain EXCEPT !.pc = "tick", !.cursor = Horizon]
  /\ seed' = Horizon
  /\ UNCHANGED <<logVars, published, left>>

\* A tick: DrainSince reads the horizon, and in another statement the window.
ReadHorizon ==
  /\ drain.pc = "tick"
  /\ drain' = [drain EXCEPT !.pc = "select", !.h = Horizon]
  /\ UNCHANGED <<logVars, seed, published, left>>

SelectBatch ==
  LET W == Within(rows, drain.cursor, drain.h) IN
  \E B \in SUBSET W :
    /\ drain.pc = "select"
    /\ Batch(B, W)
    /\ drain' = [drain EXCEPT !.pc = "publish", !.batch = B,
                              !.next = NextCursor(B, drain.h)]
    /\ UNCHANGED <<logVars, seed, published, left>>

\* The rows of the batch that may come next, in xid order.
Heads == {r \in drain.batch : \A s \in drain.batch : r.xid <= s.xid}

PublishRow ==
  \E r \in Heads :
    /\ drain.pc = "publish" /\ ~Refused(r)
    /\ published' = published \cup {r}
    /\ drain' = [drain EXCEPT !.batch = @ \ {r}]
    /\ UNCHANGED <<logVars, seed, left>>

\* Mutant: the tick ends, and the failed row is left behind.
BugPublishFails ==
  \E r \in Heads :
    /\ drain.pc = "publish" /\ Refused(r)
    /\ drain' = [drain EXCEPT !.pc = "tick", !.cursor = drain.next, !.batch = {}]
    /\ UNCHANGED <<logVars, seed, published, left>>

\* The rest of the window, from the failed row on, is read again.
PublishFails ==
  \E r \in Heads :
    /\ drain.pc = "publish" /\ Refused(r)
    /\ drain' = [drain EXCEPT !.pc = "tick", !.cursor = r.xid, !.batch = {}]
    /\ UNCHANGED <<logVars, seed, published, left>>

EndTick ==
  /\ drain.pc = "publish" /\ drain.batch = {}
  /\ drain' = [drain EXCEPT !.pc = "tick", !.cursor = drain.next]
  /\ UNCHANGED <<logVars, seed, published, left>>

---------------------------------------------------------------------------
(* Disturbances. *)

Take(d) == left[d] > 0 /\ left' = [left EXCEPT ![d] = @ - 1]

\* DrainSince fails: the cursor stays, the next tick tries again.
ReadFails ==
  /\ drain.pc = "select" /\ Take("error")
  /\ drain' = [drain EXCEPT !.pc = "tick"]
  /\ UNCHANGED <<logVars, seed, published>>

\* The api process restarts, or the goroutine panics and is started again.
Restart ==
  /\ drain.pc # "boot" /\ Take("restart")
  /\ drain' = Boot
  /\ UNCHANGED <<logVars, seed, published>>

PruneLog == Take("prune") /\ (\E P \in SUBSET rows : Prune(P)) /\ UNCHANGED <<drain, seed, published>>

---------------------------------------------------------------------------
Init ==
  /\ LogInit
  /\ drain = Boot /\ seed = 0 /\ published = {}
  /\ left = [prune |-> PruneBudget, error |-> ErrorBudget, restart |-> RestartBudget]

DrainStep ==
  Seed \/ ReadHorizon \/ SelectBatch \/ PublishRow \/ PublishFails \/ EndTick

ServerWrite == Write /\ UNCHANGED feedVars

Next == ServerWrite \/ DrainStep \/ ReadFails \/ Restart \/ PruneLog

Spec == Init /\ [][Next]_vars

\* The ticker never stops, and every transaction ends.
Fairness ==
  /\ WF_vars(DrainStep)
  /\ WF_vars((\E t \in running : Commit(t)) /\ UNCHANGED feedVars)

FairSpec == Spec /\ Fairness

---------------------------------------------------------------------------
(* Properties. *)

DrainState ==
  [pc : {"boot", "tick", "select", "publish"}, cursor : Nat, h : Nat,
   batch : SUBSET Row, next : Nat]

\* The type invariant of the drain and of the log it reads.
FeedTypeOK ==
  /\ LogTypeOK
  /\ drain \in DrainState
  /\ seed \in Nat
  /\ published \subseteq Row
  /\ left \in [{"prune", "error", "restart"} -> Nat]

\* Whatever the outbox still holds between the seed and the cursor has been
\* published: the cursor never advances over a row that became visible late, that
\* did not fit the batch, or that the hub refused (drainOnce, nextCursor).
DrainCovers ==
  \A r \in rows : seed <= r.xid /\ r.xid < drain.cursor => r \in published

\* A row published for the first time is not behind any row published before it,
\* across failed publications and restarts: a client that applies what it
\* receives in order never needs to go back (DrainSince, "in xid order").
PublishedInOrder ==
  [][\A r \in published' \ published : \A s \in published : s.xid <= r.xid]_vars

\* What is committed is published in the end, unless the drain was seeded past
\* it or it was pruned first.
EventuallyPublished ==
  \A x \in 1..MaxXid :
    (\E r \in rows : r.xid = x) ~> (\A r \in rows : r.xid = x => r \in published \/ x < seed)

\* A tenant's data rows are published in the end, whatever application events are in
\* the log ("one poison row must not wedge the drain for EVERY user", DrainSince).
\* The code does not keep this (see the README's findings).
PoisonDoesNotWedge ==
  \A x \in 1..MaxXid :
    (\E r \in rows : r.xid = x /\ r.type = "data_event")
      ~> (\A r \in rows : r.xid = x => r \in published \/ x < seed)
=============================================================================

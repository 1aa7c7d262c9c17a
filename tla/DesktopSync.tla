---------------------------- MODULE DesktopSync ----------------------------
(***************************************************************************)
(* One desktop client replicating a tenant's workspace from the outbox of  *)
(* OutboxLog: the server's Pull handler, the client's pull loop (run by    *)
(* the heartbeat thread and by the websocket thread on connect), the live  *)
(* frames, sign-in and sign-out.  Every SQL statement of the handler and   *)
(* every transaction on the local SQLite cache is a step of its own.       *)
(***************************************************************************)
EXTENDS OutboxLog, FiniteSets

CONSTANTS
  Pullers,     \* the client's threads that run pull_and_apply
  Socket,      \* the one of them that also owns the websocket
  Budget,      \* bound: how often each kind of disturbance happens
  Mixed        \* bound: how many kinds of disturbance one behaviour has

Disturbances == {"prune", "signout", "restore", "failure", "disconnect"}

ASSUME DesktopAssumption ==
  /\ Socket \in Pullers
  /\ Budget \in [Disturbances -> Nat]

VARIABLES
  cache,     \* the local tables: cache[n] is the row of entity n, tombstones included
  cursor,    \* sync_state.workspace_cursor, 0 when never set
  session,   \* whose token SyncHandle.config holds, NoUser when signed out
  clearing,  \* db_clear_workspace has been called and has not run
  ws,        \* whose websocket is open, NoUser when none is
  pull,      \* pull[p]: where thread p is in pull_and_apply, and its locals
  spent      \* spent[d]: how often disturbance d has happened

desktopVars == <<cache, cursor, session, clearing, ws, pull, spent>>
vars == <<logVars, desktopVars>>

---------------------------------------------------------------------------
(* The cache. *)

\* stored_seq of an entity never seen is 0.
Missing == [seq |-> 0, ver |-> [deleted |-> FALSE, at |-> [f \in Fields |-> 0]]]

\* Mutant: apply without the seq guard; the frame applied last wins.
BugApplyNoGuard(c, E) ==
  [n \in Nodes |->
     IF \E e \in E : e.id = n
     THEN LET e == CHOOSE f \in E : f.id = n IN [seq |-> e.seq, ver |-> e.ver]
     ELSE c[n]]

\* apply_frame on frames that carry the entities E, in any order: the guard
\* leaves each row at its highest seq, and a row that has it already as it is.
ApplyEnts(c, E) ==
  [n \in Nodes |->
     LET newer == {e \in E : e.id = n /\ e.seq > c[n].seq} IN
     IF newer = {} THEN c[n]
     ELSE LET e == CHOOSE f \in newer : \A g \in newer : g.seq <= f.seq
          IN [seq |-> e.seq, ver |-> e.ver]]

\* Mutant: the REPLACE also drops the tombstones the snapshot omits.
BugRetainOnly(c, ids) == [n \in Nodes |-> IF n \in Tree \ ids THEN Missing ELSE c[n]]

\* retain_only: a live tree row the snapshot omits is removed, not tombstoned.
RetainOnly(c, ids) ==
  [n \in Nodes |-> IF n \in Tree \ ids /\ ~c[n].ver.deleted THEN Missing ELSE c[n]]

---------------------------------------------------------------------------
(* What the server reads. *)

DataRows(u) == {r \in rows : r.user = u /\ r.type = "data_event"}

\* The entities, tombstones included, that the SyncSources of S return.
Snapshot(u, S) ==
  {EntityAt(n, versions[n]) : n \in {m \in S : Owner[m] = u /\ versions[m] # <<>>}}

---------------------------------------------------------------------------
(* pull_and_apply, on the client up to the request. *)

\* A thread at a point of the call, with what it has captured so far.
At(pc, u, c) == [pc |-> pc, user |-> u, cursor |-> c, h |-> 0,
                 ents |-> {}, next |-> 0, mode |-> "delta"]

Idle == At("idle", NoUser, 0)

Goto(p, r) == pull' = [pull EXCEPT ![p] = r]

Server == <<logVars, spent>>
Client == <<cache, cursor, session, clearing, ws>>

\* The heartbeat tick: the config is cloned once for the whole call.
Tick(p) ==
  /\ p # Socket /\ pull[p].pc = "idle" /\ session # NoUser
  /\ Goto(p, At("read", session, 0))
  /\ UNCHANGED <<Server, Client>>

\* connect_once: subscribe, then pull_now on the same thread.
Connect ==
  /\ ws = NoUser /\ session # NoUser /\ pull[Socket].pc = "idle"
  /\ ws' = session
  /\ Goto(Socket, At("read", session, 0))
  /\ UNCHANGED <<Server, cache, cursor, session, clearing>>

\* One turn of the loop: read the cursor and send the request.  The server
\* answers a zero cursor with a snapshot.
ReadCursor(p) ==
  /\ pull[p].pc = "read"
  /\ Goto(p, At(IF cursor = 0 THEN "tree" ELSE "min", pull[p].user, cursor))
  /\ UNCHANGED <<Server, Client>>

---------------------------------------------------------------------------
(* Service.Pull, one step per statement. *)

AtServer(p, at) == pull[p].pc = at /\ UNCHANGED <<Server, Client>>

\* MinXid: a cursor below the oldest retained row needs a snapshot; a user
\* with no retained row does not.
MinXid(p) ==
  LET R == DataRows(pull[p].user) IN
  /\ AtServer(p, "min")
  /\ Goto(p, [pull[p] EXCEPT !.pc =
       IF R # {} /\ pull[p].cursor < MinOf({r.xid : r \in R}) THEN "tree" ELSE "check"])

\* A cursor beyond the horizon comes from another database's log.
CheckHorizon(p) ==
  /\ AtServer(p, "check")
  /\ Goto(p, [pull[p] EXCEPT !.pc = IF pull[p].cursor > Horizon THEN "tree" ELSE "since"])

\* Mutant: the next transaction id instead of the oldest one in progress.
BugSinceHorizon(p) ==
  /\ AtServer(p, "since")
  /\ Goto(p, [pull[p] EXCEPT !.pc = "select", !.h = nextXid])

\* PullSince reads the horizon and then, in another statement, the window.
SinceHorizon(p) ==
  /\ AtServer(p, "since")
  /\ Goto(p, [pull[p] EXCEPT !.pc = "select", !.h = Horizon])

Window(p) == Within(DataRows(pull[p].user), pull[p].cursor, pull[p].h)

Select(p) ==
  \E B \in SUBSET Window(p) :
    /\ AtServer(p, "select")
    /\ Batch(B, Window(p))
    /\ Goto(p, [pull[p] EXCEPT !.pc = "reply", !.next = NextCursor(B, pull[p].h),
                               !.ents = UNION {r.ents : r \in B}, !.mode = "delta"])

\* snapshot: the tree source, then the other sources, then the horizon.
ReadTree(p) ==
  /\ AtServer(p, "tree")
  /\ Goto(p, [pull[p] EXCEPT !.pc = "other", !.ents = Snapshot(pull[p].user, Tree)])

ReadOther(p) ==
  /\ AtServer(p, "other")
  /\ Goto(p, [pull[p] EXCEPT !.pc = "horizon",
                             !.ents = @ \cup Snapshot(pull[p].user, Nodes \ Tree)])

SnapshotHorizon(p) ==
  /\ AtServer(p, "horizon")
  /\ Goto(p, [pull[p] EXCEPT !.pc = "reply", !.next = Horizon, !.mode = "snapshot"])

---------------------------------------------------------------------------
(* The response, on the client. *)

\* No frames: the cursor advances, the cache is left alone, the loop ends.
ApplyNothing(p) ==
  /\ pull[p].pc = "reply" /\ pull[p].ents = {}
  /\ cursor' = IF pull[p].next > pull[p].cursor THEN pull[p].next ELSE cursor
  /\ Goto(p, Idle)
  /\ UNCHANGED <<Server, cache, session, clearing, ws>>

\* The frames, the REPLACE of a snapshot and the cursor, in one transaction;
\* the loop goes on while the cursor moves.
ApplyFrames(p) ==
  LET c == ApplyEnts(cache, pull[p].ents) IN
  /\ pull[p].pc = "reply" /\ pull[p].ents # {}
  /\ cache' = IF pull[p].mode = "snapshot"
              THEN RetainOnly(c, {e.id : e \in pull[p].ents}) ELSE c
  /\ cursor' = pull[p].next
  /\ Goto(p, IF pull[p].next <= pull[p].cursor THEN Idle
             ELSE At("read", pull[p].user, 0))
  /\ UNCHANGED <<Server, session, clearing, ws>>

\* A live frame: any committed row of the socket's user the drain has passed,
\* lost, late, repeated or out of order.  The websocket thread reads no frame
\* while it runs its recovery pull.
LiveApply ==
  \E r \in log :
    /\ ws # NoUser /\ pull[Socket].pc = "idle"
    /\ r.user = ws /\ r.type = "data_event" /\ r.xid < Horizon
    /\ cache' = ApplyEnts(cache, r.ents)
    /\ UNCHANGED <<Server, cursor, session, clearing, ws, pull>>

---------------------------------------------------------------------------
(* Disturbances. *)

Spend(d) ==
  /\ spent[d] < Budget[d] /\ Cardinality({e \in Disturbances \ {d} : spent[e] > 0}) < Mixed
  /\ spent' = [spent EXCEPT ![d] = @ + 1]

\* The request fails; the thread gives up until its next tick or connect.
PullFails(p) ==
  /\ pull[p].pc \notin {"idle", "read"}
  /\ Spend("failure") /\ Goto(p, Idle)
  /\ UNCHANGED <<logVars, Client>>

Disconnect ==
  /\ ws # NoUser /\ pull[Socket].pc = "idle"
  /\ Spend("disconnect") /\ ws' = NoUser
  /\ UNCHANGED <<logVars, cache, cursor, session, clearing, pull>>

\* realtime-boot on "anonymous": drop the config, then clear the workspace.
\* Nothing stops a pull in flight or closes the socket.
SignOut ==
  /\ session # NoUser
  /\ Spend("signout") /\ session' = NoUser /\ clearing' = TRUE
  /\ UNCHANGED <<logVars, cache, cursor, ws, pull>>

ClearWorkspace ==
  /\ clearing
  /\ cache' = [n \in Nodes |-> Missing] /\ cursor' = 0 /\ clearing' = FALSE
  /\ UNCHANGED <<logVars, session, ws, pull, spent>>

SignIn(u) ==
  /\ session = NoUser /\ ~clearing
  /\ session' = u
  /\ UNCHANGED <<logVars, cache, cursor, clearing, ws, pull, spent>>

PruneOutbox == Spend("prune") /\ (\E P \in SUBSET rows : Prune(P)) /\ UNCHANGED <<Client, pull>>

\* The database is restored to the moment transaction x would have begun (x = 1:
\* rebuilt empty); requests in progress fail with it.
Restore(x) ==
  LET kept == {r \in log : r.xid < x}
      seqs(n) == {0} \cup {e.seq : e \in {f \in UNION {r.ents : r \in kept} : f.id = n}}
  IN
  /\ Spend("restore") /\ x \in 1..Horizon
  /\ nextXid' = x /\ running' = {}
  /\ versions' = [n \in Nodes |-> SubSeq(versions[n], 1, MaxOf(seqs(n)))]
  /\ log' = kept /\ rows' = rows \cap kept
  /\ pull' = [p \in Pullers |-> IF pull[p].pc \in {"idle", "read"} THEN pull[p] ELSE Idle]
  /\ UNCHANGED Client

---------------------------------------------------------------------------
\* A signed-in client that has never pulled.
Init ==
  /\ LogInit
  /\ cache = [n \in Nodes |-> Missing] /\ cursor = 0
  /\ session \in Users /\ clearing = FALSE /\ ws = NoUser
  /\ pull = [p \in Pullers |-> Idle]
  /\ spent = [d \in Disturbances |-> 0]

ServerWrite == Write /\ UNCHANGED desktopVars

PullStep(p) ==
  \/ ReadCursor(p)
  \/ MinXid(p) \/ CheckHorizon(p) \/ SinceHorizon(p) \/ Select(p)
  \/ ReadTree(p) \/ ReadOther(p) \/ SnapshotHorizon(p)
  \/ ApplyNothing(p) \/ ApplyFrames(p)

Next ==
  \/ ServerWrite
  \/ \E p \in Pullers : Tick(p) \/ PullStep(p) \/ PullFails(p)
  \/ Connect \/ LiveApply \/ Disconnect
  \/ SignOut \/ ClearWorkspace \/ \E u \in Users : SignIn(u)
  \/ PruneOutbox
  \/ \E x \in 1..Horizon : Restore(x)

Spec == Init /\ [][Next]_vars

\* A client in steady state: its user has one retained row, and the client has
\* pulled past it.
Established ==
  \E n \in Nodes :
    LET vs == <<Touch(n, <<>>, Fields)>>
        row == DataRow([xid |-> 1, user |-> Owner[n]], 1, {EntityAt(n, vs)})
    IN
    /\ nextXid = 2 /\ running = {} /\ rows = {row} /\ log = {row}
    /\ versions = [m \in Nodes |-> IF m = n THEN vs ELSE <<>>]
    /\ cache = ApplyEnts([m \in Nodes |-> Missing], row.ents) /\ cursor = 2
    /\ session = Owner[n] /\ clearing = FALSE /\ ws = NoUser
    /\ pull = [p \in Pullers |-> Idle]
    /\ spent = [d \in Disturbances |-> 0]

EstablishedSpec == Established /\ [][Next]_vars

\* The heartbeat thread never stops, and every transaction ends.
Fairness ==
  /\ \A p \in Pullers \ {Socket} : WF_vars(Tick(p)) /\ WF_vars(PullStep(p))
  /\ WF_vars((\E t \in running : Commit(t)) /\ UNCHANGED desktopVars)

FairSpec == EstablishedSpec /\ Fairness

---------------------------------------------------------------------------
(* Properties. *)

PullState ==
  [pc : {"idle", "read", "min", "check", "since", "select",
         "tree", "other", "horizon", "reply"},
   user : Users \cup {NoUser}, cursor : Nat, h : Nat, ents : SUBSET Entity,
   next : Nat, mode : {"delta", "snapshot"}]

\* The type invariant of the client and of the server it pulls from.
DesktopTypeOK ==
  /\ LogTypeOK
  /\ cache \in [Nodes -> [seq : Nat, ver : Version]]
  /\ cursor \in Nat
  /\ session \in Users \cup {NoUser} /\ clearing \in BOOLEAN
  /\ ws \in Users \cup {NoUser}
  /\ pull \in [Pullers -> PullState]
  /\ spent \in [Disturbances -> Nat]

\* The durable cursor, and every cursor a response in flight may make durable,
\* stays at or below each transaction still open: what commits later is read by
\* a later pull ("the cursor never passes an in-flight xid", PullSince), as long as
\* the database is not restored under the client.
CursorBehindInFlight ==
  spent["restore"] = 0 =>
    \A t \in running :
      /\ cursor <= t.xid
      /\ \A p \in Pullers : pull[p].h <= t.xid /\ pull[p].next <= t.xid

\* Whatever was committed for the signed-in user below the durable cursor is in
\* the cache, at that seq or a later one: nothing will ever be pulled again, so
\* nothing may be missing ("no gap", PullSince; set_cursor).
CursorCovers ==
  \A r \in log : \A e \in r.ents :
    r.user = session /\ r.xid < cursor => cache[e.id].seq >= e.seq

\* Once the cache holds a tombstone it never again shows that or an older state
\* of the entity, until the workspace is cleared ("a stale lower-seq upsert
\* can't resurrect it", nodes.rs).
NoResurrection ==
  [][\A n \in Nodes :
       cache[n].ver.deleted => cache'[n].seq >= cache[n].seq \/ ClearWorkspace]_vars

\* What the server commits reaches the cache, or is overtaken by something
\* newer that does, with the live stream off or lossy: the heartbeat alone
\* heals every miss.
EventuallyDelivered ==
  \A n \in Nodes : \A k \in 1..(2 * MaxXid) :
    Seq_(n) >= k /\ Owner[n] = session ~> cache[n].seq >= k

\* The properties below state what comments of the code promise; the code
\* does not keep them (see the README's findings).

\* When MinXid sends a request down the delta path, every row the client has
\* not pulled is still in the outbox ("a client whose durable cursor falls below
\* the retained window is routed to a cold-start snapshot", PruneOutbox).
RetentionRoutesToSnapshot ==
  [][\A p \in Pullers :
       MinXid(p) /\ pull'[p].pc = "check" =>
         \A r \in log : r.user = pull[p].user /\ r.type = "data_event"
                         /\ r.xid >= pull[p].cursor => r \in rows]_vars

\* The cursor of an empty workspace leaves zero only with a snapshot ("resets the
\* local workspace to empty; the next pull/live stream repopulates", pages.rs).
EmptyWorkspaceTakesSnapshot ==
  [][cursor = 0 /\ cursor' # 0 =>
       \E p \in Pullers : pull[p].pc = "reply" /\ pull[p].mode = "snapshot"
                          /\ pull'[p] # pull[p]]_vars

\* The replica contract this client implements, with the cache as its view.
Contract == INSTANCE ReplicaContract WITH view <- cache
ImplementsContract == Contract!ContractSpec
=============================================================================

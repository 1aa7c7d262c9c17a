----------------------------- MODULE OutboxLog -----------------------------
(***************************************************************************)
(* The PostgreSQL side of workspace sync: the canonical entity tables, the *)
(* transactions that write them, and the transactional outbox those        *)
(* transactions append to.  A write transaction takes the user's advisory  *)
(* lock, bumps the entity's seq, and appends a frame that commits with it. *)
(* Readers use the log horizon, pg_snapshot_xmin, as an exclusive bound.   *)
(***************************************************************************)
EXTENDS Integers, Sequences, FiniteSets

CONSTANTS
  Users,      \* tenants that own entities
  NoUser,     \* the sentinel owner of broadcast rows and of unrelated transactions
  Nodes,      \* ids of synced entities
  Tree,       \* the entities that live in tree_nodes; the others live in shard_kv
  Owner,      \* Owner[n] is the tenant of entity n
  Fields,     \* the columns of an entity that producers write independently
  AppKinds,   \* the resource kinds of the application events of a tenant
  BatchLimit, \* outboxBatchLimit: how many rows one read of the log returns
  MaxXid      \* bound: no transaction begins once nextXid exceeds it

ASSUME OutboxAssumption ==
  /\ NoUser \notin Users
  /\ Tree \subseteq Nodes
  /\ Owner \in [Nodes -> Users]
  /\ IsFiniteSet(Nodes)
  /\ BatchLimit \in Nat \ {0}
  /\ MaxXid \in Nat

VARIABLES
  nextXid,    \* the next transaction id the cluster will assign
  running,    \* the transactions that hold an id and have not ended
  versions,   \* versions[n][k]: what entity n held at seq k; the table holds the last
  rows,       \* the rows of outbox_events
  log         \* every row ever committed, pruned or not (history, no code reads it)

logVars == <<nextXid, running, versions, rows, log>>

---------------------------------------------------------------------------
(* Data. *)

\* One state of an entity: its tombstone, and for each column the seq at
\* which it was last written.
Version == [deleted : BOOLEAN, at : [Fields -> Nat]]

Seq_(n) == Len(versions[n])

\* A frame entity: id, seq, and the light data (or the tombstone) it carries.
Entity == [id : Nodes, seq : Nat \ {0}, ver : Version]

\* idx tells apart the rows of one transaction; kind is the resource kind of an
\* application event.
Row == [xid : Nat \ {0}, idx : {1, 2}, user : Users \cup {NoUser},
        type : {"data_event", "app_event"}, kind : AppKinds \cup {"any", "quote"},
        ents : SUBSET Entity]

Txn == [xid : Nat \ {0}, user : Users \cup {NoUser}]

\* pg_snapshot_xmin(pg_current_snapshot()): the smallest id in progress, or
\* the next id when none is.
Oldest(X, next) == IF X = {} THEN next ELSE CHOOSE x \in X : \A y \in X : x <= y

\* Mutant: the next id instead of the oldest one still in progress.
BugHorizonIsNextXid == nextXid

Horizon == Oldest({t.xid : t \in running}, nextXid)

\* The bump of EmitNodeUpsert: a write of the columns F at the next seq.  A
\* tree row keeps its tombstone; a guarded write revives a shard_kv key.
Touch(n, vs, F) ==
  LET k == Len(vs) + 1 IN
  IF vs = <<>> THEN [deleted |-> FALSE, at |-> [f \in Fields |-> k]]
  ELSE [deleted |-> vs[Len(vs)].deleted /\ n \in Tree,
        at |-> [f \in Fields |-> IF f \in F THEN k ELSE vs[Len(vs)].at[f]]]

\* Mutant: the seq read before the bump.
BugEntityAt(n, vs) == [id |-> n, seq |-> Len(vs) - 1, ver |-> vs[Len(vs)]]

\* The canonical row read back inside the transaction, after the bump.
EntityAt(n, vs) == [id |-> n, seq |-> Len(vs), ver |-> vs[Len(vs)]]

DataRow(t, i, E) ==
  [xid |-> t.xid, idx |-> i, user |-> t.user, type |-> "data_event",
   kind |-> "any", ents |-> E]

AppRow(t, k) ==
  [xid |-> t.xid, idx |-> 1, user |-> t.user, type |-> "app_event",
   kind |-> k, ents |-> {}]

Append_(R) == rows' = rows \cup R /\ log' = log \cup R

End(t) == running' = running \ {t} /\ UNCHANGED nextXid

---------------------------------------------------------------------------
(* Transactions. *)

\* Mutant: the write does not take the user's advisory lock.
BugBeginWithoutLock(u) ==
  /\ nextXid <= MaxXid
  /\ running' = running \cup {[xid |-> nextXid, user |-> u]}
  /\ nextXid' = nextXid + 1
  /\ UNCHANGED <<versions, rows, log>>

\* withUserTx: LockUser waits until no transaction of the user is open, and
\* only then does the first write assign the id.
BeginUserTx(u) ==
  /\ nextXid <= MaxXid
  /\ \A t \in running : t.user # u
  /\ running' = running \cup {[xid |-> nextXid, user |-> u]}
  /\ nextXid' = nextXid + 1
  /\ UNCHANGED <<versions, rows, log>>

\* Every other transaction of the cluster: it takes no user lock, and holds
\* the horizon back as long as it runs.
BeginOtherTx ==
  /\ nextXid <= MaxXid
  /\ running' = running \cup {[xid |-> nextXid, user |-> NoUser]}
  /\ nextXid' = nextXid + 1
  /\ UNCHANGED <<versions, rows, log>>

\* A create or an update of one entity: mutate, bump, read back, append one
\* frame, commit.
CommitWrite(t, n, F) ==
  LET vs == Append(versions[n], Touch(n, versions[n], F)) IN
  /\ t.user = Owner[n]
  /\ versions' = [versions EXCEPT ![n] = vs]
  /\ Append_({DataRow(t, 1, {EntityAt(n, vs)})})
  /\ End(t)

\* UpdateArtifactGraph with a folder: the move and the patch each bump the
\* seq and each append a frame, so one transaction leaves two rows.
CommitMoveAndPatch(t, n, F, G) ==
  LET v1 == Append(versions[n], Touch(n, versions[n], F))
      v2 == Append(v1, Touch(n, v1, G))
  IN
  /\ t.user = Owner[n] /\ n \in Tree /\ versions[n] # <<>>
  /\ versions' = [versions EXCEPT ![n] = v2]
  /\ Append_({DataRow(t, 1, {EntityAt(n, v1)}), DataRow(t, 2, {EntityAt(n, v2)})})
  /\ End(t)

\* DeleteBrowserNode: every node of the subtree, tombstoned before or not, gets
\* a tombstone at its next seq, and one frame carries them all.  A shard_kv
\* key is deleted alone, and only if it is live.
Tombstone(vs) == Append(vs, [deleted |-> TRUE, at |-> vs[Len(vs)].at])

CommitDelete(t, S) ==
  /\ S # {} /\ \A n \in S : t.user = Owner[n] /\ versions[n] # <<>>
  /\ S \subseteq Tree \/ \E n \in Nodes : S = {n} /\ ~versions[n][Seq_(n)].deleted
  /\ versions' = [n \in Nodes |-> IF n \in S THEN Tombstone(versions[n]) ELSE versions[n]]
  /\ Append_({DataRow(t, 1, {EntityAt(n, Tombstone(versions[n])) : n \in S})})
  /\ End(t)

\* An application event: a user's (build status, alert, stored record) or, in a
\* transaction that holds no user lock, a broadcast market quote.
CommitApp(t, k) ==
  /\ k \in IF t.user = NoUser THEN {"quote"} ELSE AppKinds
  /\ Append_({AppRow(t, k)})
  /\ End(t)
  /\ UNCHANGED versions

\* A rollback, or the commit of a transaction that appended nothing.
EndQuietly(t) == End(t) /\ UNCHANGED <<versions, rows, log>>

\* One batch of PruneOutbox.  Rows are chosen by the wall-clock age of their
\* transaction, in no order of xid, and a batch takes any of them.
Prune(P) ==
  /\ P # {} /\ P \subseteq rows
  /\ rows' = rows \ P
  /\ UNCHANGED <<nextXid, running, versions, log>>

---------------------------------------------------------------------------
(* Reading the log: the window and the batch of PullSince and DrainSince. *)

MinOf(X) == CHOOSE x \in X : \A y \in X : x <= y
MaxOf(X) == CHOOSE x \in X : \A y \in X : y <= x

\* Mutant: the window excludes its lower end.
BugWithin(R, c, h) == {r \in R : c < r.xid /\ r.xid < h}

\* The half-open window [cursor, horizon).
Within(R, c, h) == {r \in R : c <= r.xid /\ r.xid < h}

\* ORDER BY xid LIMIT: a prefix of the window, ties broken either way.
Batch(B, W) ==
  /\ Cardinality(B) = IF Cardinality(W) < BatchLimit THEN Cardinality(W) ELSE BatchLimit
  /\ \A r \in B, s \in W \ B : r.xid <= s.xid

\* Mutant: a full batch resumes at its last row.
BugResumeAtLast(B, h) ==
  IF Cardinality(B) = BatchLimit THEN MaxOf({r.xid : r \in B}) ELSE h

\* nextCursor: a full batch resumes after the last row it read.
NextCursor(B, h) ==
  IF Cardinality(B) = BatchLimit THEN MaxOf({r.xid : r \in B}) + 1 ELSE h

---------------------------------------------------------------------------
LogInit ==
  /\ nextXid = 1
  /\ running = {}
  /\ versions = [n \in Nodes |-> <<>>]
  /\ rows = {}
  /\ log = {}

Commit(t) ==
  \/ \E n \in Nodes, F \in SUBSET Fields : CommitWrite(t, n, F)
  \/ \E n \in Nodes, F \in SUBSET Fields, G \in SUBSET Fields : CommitMoveAndPatch(t, n, F, G)
  \/ \E S \in SUBSET Nodes : CommitDelete(t, S)
  \/ \E k \in AppKinds \cup {"quote"} : CommitApp(t, k)
  \/ EndQuietly(t)

Write ==
  \/ \E u \in Users : BeginUserTx(u)
  \/ BeginOtherTx
  \/ \E t \in running : Commit(t)

LogNext == Write \/ \E P \in SUBSET rows : Prune(P)

LogSpec == LogInit /\ [][LogNext]_logVars

---------------------------------------------------------------------------
(* Properties. *)

\* The type invariant of the tables, the open transactions and the outbox.
LogTypeOK ==
  /\ nextXid \in Nat \ {0}
  /\ running \subseteq Txn
  /\ versions \in [Nodes -> Seq(Version)]
  /\ rows \subseteq Row
  /\ log \subseteq Row

\* The horizon never moves back, and a row that becomes visible is never
\* below the horizon of the moment before: whoever has read the rows below a
\* horizon has read all there will ever be ("gap-free regardless of commit
\* order", Horizon and PullSince).
GapFree ==
  [][Horizon' >= Horizon /\ \A r \in log' \ log : r.xid >= Horizon]_logVars

\* For one entity, the order of xids is the order of seqs: the rows a pull
\* returns in xid order never step an entity back.  This is what the user's
\* advisory lock buys (LockUser).
XidOrderIsSeqOrder ==
  \A r, s \in log : \A e \in r.ents, f \in s.ents :
     e.id = f.id /\ r.xid < s.xid => e.seq < f.seq

=============================================================================

--------------------------- MODULE ShardResources ---------------------------
(***************************************************************************)
(* The records of one shard dataset: releases staged and activated by the   *)
(* manager, mutations that resolve the active release first and reach the   *)
(* store later, receipts that make a request repeatable, and the archive.   *)
(*                                                                         *)
(* The releases live in Postgres. The records live in Postgres, in the same *)
(* transactions, or in MongoDB, where a fence stands in for the lock.       *)
(***************************************************************************)
EXTENDS Integers, FiniteSets

CONSTANTS
  Shapes,        \* schema versions a contract may declare the dataset with
  Without,       \* the contract that does not declare the dataset
  NoContract,    \* nothing is active
  Requests,      \* request ids of the clients
  Attempts,      \* bound: attempts of requests under way at a time
  NamedIds,      \* record ids clients choose
  RandomIds,     \* record ids the server generates
  NoId,          \* an insert that leaves the id to the server
  ShardConfigs   \* [store, quota, tries, activations, crashes, losses]: the store, the quota of
                 \* receipts, and bounds on attempts of one request, on activations, crashes
                 \* and losses of the data

Contracts == Shapes \cup {Without}

ASSUME ShardAssumption ==
  /\ Without \notin Shapes /\ NoContract \notin Contracts /\ NoId \notin NamedIds \cup RandomIds
  /\ NamedIds \cap RandomIds = {}
  /\ IsFiniteSet(Requests) /\ IsFiniteSet(RandomIds) /\ Cardinality(Requests) <= Cardinality(RandomIds)
  /\ \A c \in ShardConfigs : c.store \in {"postgres", "mongo"} /\ {c.quota, c.tries, c.activations, c.crashes, c.losses} \subseteq Nat

VARIABLES
  staged,    \* the rows of shard_resource_releases
  active,    \* the row of shard_resource_active
  manager,   \* the activations under way
  frozen,    \* the fence of the MongoDB namespace
  rows,      \* the records, tombstones included
  receipts,  \* the receipts of requests
  archive,   \* an exported archive
  command,   \* the command of each request, chosen once
  attempt,   \* the attempts of requests in the server
  told,      \* the answers each client has had
  shop       \* the store, whether the service is down, and the bounds that are left

resourceState == <<staged, active, manager, frozen, rows, receipts, archive, command, attempt, told>>
resourceVars == <<resourceState, shop>>

Ids == NamedIds \cup RandomIds
Revisions == 0 .. Cardinality(Requests)
Managers == Contracts

NoRow == [rev |-> 0, shape |-> Without, live |-> FALSE]
NoCommand == [op |-> "none", id |-> NoId, base |-> 0, contract |-> NoContract]
NoReceipt == [hash |-> <<>>, ok |-> FALSE, id |-> NoId, rev |-> 0]
NoArchive == [contract |-> NoContract, complete |-> FALSE, rows |-> [i \in Ids |-> NoRow],
              receipts |-> [q \in Requests |-> NoReceipt]]
NoAttempt == [at |-> "free", req |-> CHOOSE q \in Requests : TRUE, answer |-> <<>>]

Commands ==
  {c \in [op : {"insert", "update", "delete"}, id : NamedIds \cup {NoId}, base : Revisions, contract : Contracts] :
     (c.op = "insert" => c.base = 0) /\ (c.op # "insert" => c.base > 0 /\ c.id # NoId)}

\* The type invariant: no shard has more receipts than its quota.
ResourceTypeOK ==
  /\ staged \subseteq Contracts /\ active \in Contracts \cup {NoContract}
  /\ manager \in [Managers -> {"idle", "frozen", "activated"}] /\ frozen \in BOOLEAN
  /\ rows \in [Ids -> [rev : Revisions, shape : Contracts, live : BOOLEAN]]
  /\ \A q \in Requests : receipts[q].ok \in BOOLEAN /\ receipts[q].rev \in Revisions
  /\ \A a \in Attempts : attempt[a].at \in {"free", "received", "resolved", "stored"}
  /\ Cardinality({q \in Requests : receipts[q] # NoReceipt}) <= shop.quota

ResourceInit ==
  /\ staged = {} /\ active = NoContract /\ manager = [m \in Managers |-> "idle"] /\ frozen = FALSE
  /\ rows = [i \in Ids |-> NoRow] /\ receipts = [q \in Requests |-> NoReceipt] /\ archive = NoArchive
  /\ command = [q \in Requests |-> NoCommand] /\ attempt = [a \in Attempts |-> NoAttempt]
  /\ told = [q \in Requests |-> {}]
  /\ shop \in {[store |-> c.store, quota |-> c.quota, activations |-> c.activations, crashes |-> c.crashes,
                losses |-> c.losses, down |-> FALSE, tries |-> [q \in Requests |-> c.tries]] : c \in ShardConfigs}

Use(what) == shop[what] > 0 /\ shop' = [shop EXCEPT ![what] = @ - 1]

-----------------------------------------------------------------------------
(* The release manager. *)

\* A release is kept under the generation of the active one: every release of a
\* shard has the same generation.
StageResourceBuild(c) ==
  /\ c \notin staged
  /\ staged' = staged \cup {c}
  /\ UNCHANGED <<active, manager, frozen, rows, receipts, archive, command, attempt, told, shop>>

\* Postgres has no fence: the manager goes on to the activation at once.
FreezeNamespace(c) ==
  /\ manager[c] = "idle" /\ c \in staged /\ c # active /\ Use("activations")
  /\ manager' = [manager EXCEPT ![c] = "frozen"]
  /\ frozen' = (shop.store = "mongo")
  /\ UNCHANGED <<staged, active, rows, receipts, archive, command, attempt, told>>

SchemaUnchanged(c) == active \in Shapes /\ c \in Shapes => c = active

BugStoredConforms(c) == SchemaUnchanged(c)

\* The records in Postgres must have the schema of the release, in MongoDB none are looked at.
StoredConforms(c) ==
  shop.store = "postgres" /\ c \in Shapes => \A i \in Ids : rows[i].live => rows[i].shape = c

\* One transaction, which may refuse; the fence is lifted afterwards in either case.
ActivateResourceRelease(c) ==
  /\ manager[c] = "frozen"
  /\ manager' = [manager EXCEPT ![c] = "activated"]
  /\ active' = IF SchemaUnchanged(c) /\ StoredConforms(c) THEN c ELSE active
  /\ UNCHANGED <<staged, frozen, rows, receipts, archive, command, attempt, told, shop>>

UnfreezeNamespace(c) ==
  /\ manager[c] = "activated"
  /\ manager' = [manager EXCEPT ![c] = "idle"]
  /\ frozen' = FALSE
  /\ UNCHANGED <<staged, active, rows, receipts, archive, command, attempt, told, shop>>

\* The process dies between the freeze and its deferred unfreeze.
ManagerCrashes(c) ==
  /\ manager[c] # "idle" /\ Use("crashes")
  /\ manager' = [manager EXCEPT ![c] = "idle"]
  /\ UNCHANGED <<staged, active, frozen, rows, receipts, archive, command, attempt, told>>

-----------------------------------------------------------------------------
(* A mutation. The client sends one command under its request id, and sends it again. *)

Known == {rows[i].rev : i \in Ids} \cup {0}

SendMutation(a, q) ==
  /\ attempt[a].at = "free" /\ ~shop.down /\ shop.tries[q] > 0
  /\ \E c \in Commands :
       /\ command[q] = NoCommand => c.contract = active /\ c.contract \in Shapes /\ c.base \in Known
       /\ command[q] # NoCommand => c = command[q]
       /\ command' = [command EXCEPT ![q] = c]
  /\ attempt' = [attempt EXCEPT ![a] = [at |-> "received", req |-> q, answer |-> <<>>]]
  /\ shop' = [shop EXCEPT !.tries[q] = @ - 1]
  /\ UNCHANGED <<staged, active, manager, frozen, rows, receipts, archive, told>>

Answered(a, answer) ==
  /\ told' = [told EXCEPT ![attempt[a].req] = @ \cup {answer}]
  /\ attempt' = [attempt EXCEPT ![a] = NoAttempt]

\* What the client asked for is checked against the release that is active now.
ResolveMutation(a) ==
  LET c == command[attempt[a].req] IN
  /\ attempt[a].at = "received"
  /\ IF active = c.contract /\ c.contract \in Shapes
     THEN attempt' = [attempt EXCEPT ![a].at = "resolved"] /\ UNCHANGED told
     ELSE Answered(a, <<"contract-changed">>)
  /\ UNCHANGED <<staged, active, manager, frozen, rows, receipts, archive, command, shop>>

\* What a command does to the rows: [failure] or the new row of its id.
Refusal(c, id) ==
  IF c.op = "insert" THEN IF rows[id].rev > 0 THEN "conflict" ELSE "none"
  ELSE IF ~rows[id].live THEN "not-found"
  ELSE IF rows[id].rev # c.base THEN "conflict" ELSE "none"

Applied(c, id) ==
  [rows EXCEPT ![id] = [rev |-> @.rev + 1, shape |-> c.contract, live |-> c.op # "delete"]]

Outcome(r) == IF r.ok THEN <<"ok", r.id, r.rev>> ELSE <<"failed", r.rev>>

BugReceiptsLeft == Cardinality({q \in Requests : receipts[q] # NoReceipt}) <= shop.quota

ReceiptsLeft == Cardinality({q \in Requests : receipts[q] # NoReceipt}) < shop.quota

\* The receipt answers a repeated request; another command under the id is refused.
Replay(a, hash) ==
  LET r == receipts[attempt[a].req] IN
  /\ r # NoReceipt
  /\ IF r.hash = hash THEN attempt' = [attempt EXCEPT ![a].at = "stored", ![a].answer = Outcome(r)] /\ UNCHANGED told
     ELSE Answered(a, <<"mismatch">>)
  /\ UNCHANGED <<rows, receipts>>

\* applyResourceCommand, then the receipt, failures included.
FirstTime(a, c, id, hash) ==
  LET q == attempt[a].req
      ok == Refusal(c, id) = "none"
      r == [hash |-> hash, ok |-> ok, id |-> id, rev |-> IF ok THEN rows[id].rev + 1 ELSE 0] IN
  /\ receipts[q] = NoReceipt /\ ReceiptsLeft
  /\ rows' = IF ok THEN Applied(c, id) ELSE rows
  /\ receipts' = [receipts EXCEPT ![q] = r]
  /\ attempt' = [attempt EXCEPT ![a].at = "stored", ![a].answer = Outcome(r)]
  /\ UNCHANGED told

OverQuota(a) ==
  /\ receipts[attempt[a].req] = NoReceipt /\ ~ReceiptsLeft
  /\ Answered(a, <<"quota">>)
  /\ UNCHANGED <<rows, receipts>>

\* Which unused id is drawn makes no difference.
IdOf(c) == IF c.id # NoId THEN c.id ELSE CHOOSE i \in RandomIds : rows[i].rev = 0

Run(a, c, id, hash) == Replay(a, hash) \/ FirstTime(a, c, id, hash) \/ OverQuota(a)

\* Under the namespace lock the release is checked again; an id is drawn after
\* the command is hashed.
PostgresMutate(a, c) ==
  IF active # c.contract THEN Answered(a, <<"contract-changed">>) /\ UNCHANGED <<rows, receipts>>
  ELSE Run(a, c, IdOf(c), <<c>>)

\* Transactions of the namespace conflict on its control document, and one sees
\* whether the fence is up. An id is drawn before the command is hashed.
MongoMutate(a, c) ==
  IF frozen THEN Answered(a, <<"frozen">>) /\ UNCHANGED <<rows, receipts>>
  ELSE Run(a, c, IdOf(c), <<c, IdOf(c)>>)

StoreMutate(a) ==
  LET c == command[attempt[a].req] IN
  /\ attempt[a].at = "resolved"
  /\ \/ shop.store = "postgres" /\ PostgresMutate(a, c)
     \/ shop.store = "mongo" /\ MongoMutate(a, c)
  /\ UNCHANGED <<staged, active, manager, frozen, archive, command, shop>>

\* A release that changed meanwhile hides the outcome of a committed command.
AnswerMutation(a) ==
  /\ attempt[a].at = "stored"
  /\ Answered(a, IF active = command[attempt[a].req].contract THEN attempt[a].answer ELSE <<"contract-changed">>)
  /\ UNCHANGED <<staged, active, manager, frozen, rows, receipts, archive, command, shop>>

\* The client's connection or the process goes away; the client may send the request again.
LoseAttempt(a) ==
  /\ attempt[a].at # "free"
  /\ attempt' = [attempt EXCEPT ![a] = NoAttempt]
  /\ UNCHANGED <<staged, active, manager, frozen, rows, receipts, archive, command, told, shop>>

-----------------------------------------------------------------------------
(* The Postgres archive. *)

\* Under the namespace lock; a writer that fails leaves an archive without its last lines.
\* Nobody exports the empty namespace over the archive that is to be restored.
ExportResourceData ==
  /\ shop.store = "postgres" /\ active # NoContract /\ shop.losses > 0 /\ ~shop.down
  /\ \E whole \in BOOLEAN :
       archive' = [contract |-> active, complete |-> whole, rows |-> rows,
                   receipts |-> IF whole THEN receipts ELSE NoArchive.receipts]
  /\ UNCHANGED <<staged, active, manager, frozen, rows, receipts, command, attempt, told, shop>>

\* The namespace's data is gone and its releases are not: the case the archive is
\* for. What was written after the export would be lost, whatever the code does;
\* the service is down until the restore.
LoseNamespaceData ==
  /\ archive.complete /\ archive.rows = rows /\ archive.receipts = receipts
  /\ shop.losses > 0 /\ shop' = [shop EXCEPT !.losses = @ - 1, !.down = TRUE]
  /\ rows' = [i \in Ids |-> NoRow] /\ receipts' = [q \in Requests |-> NoReceipt]
  /\ attempt' = [a \in Attempts |-> NoAttempt]
  /\ UNCHANGED <<staged, active, manager, frozen, archive, command, told>>

Occupied == (\E i \in Ids : rows[i].rev > 0) \/ \E q \in Requests : receipts[q] # NoReceipt

BugRestoreResourceData ==
  /\ archive.complete /\ archive.contract = active /\ ~Occupied
  /\ \A i \in Ids : archive.rows[i].rev > 0 => archive.rows[i].shape = active
  /\ rows' = archive.rows /\ shop' = [shop EXCEPT !.down = FALSE]
  /\ UNCHANGED <<staged, active, manager, frozen, receipts, archive, command, attempt, told>>

\* All of a complete archive of this release, into an empty namespace, in one transaction.
RestoreResourceData ==
  /\ archive.complete /\ archive.contract = active /\ ~Occupied
  /\ \A i \in Ids : archive.rows[i].rev > 0 => archive.rows[i].shape = active
  /\ rows' = archive.rows /\ receipts' = archive.receipts /\ shop' = [shop EXCEPT !.down = FALSE]
  /\ UNCHANGED <<staged, active, manager, frozen, archive, command, attempt, told>>

-----------------------------------------------------------------------------
ResourceNext ==
  \/ \E c \in Contracts : \/ StageResourceBuild(c) \/ FreezeNamespace(c) \/ ActivateResourceRelease(c)
                          \/ UnfreezeNamespace(c) \/ ManagerCrashes(c)
  \/ \E a \in Attempts, q \in Requests : SendMutation(a, q)
  \/ \E a \in Attempts : ResolveMutation(a) \/ StoreMutate(a) \/ AnswerMutation(a) \/ LoseAttempt(a)
  \/ ExportResourceData \/ LoseNamespaceData \/ RestoreResourceData

ResourceSpec == ResourceInit /\ [][ResourceNext]_resourceVars

-----------------------------------------------------------------------------
(* Properties. *)

\* The revisions of every record are in one-to-one correspondence with the
\* receipts that produced them: no command is applied twice or lost under another
\* with the same base, whatever was retried, raced, exported or restored.
RevisionsHaveReceipts ==
  \A i \in Ids :
    {receipts[q].rev : q \in {p \in Requests : receipts[p].ok /\ receipts[p].id = i}} = 1 .. rows[i].rev
    /\ Cardinality({p \in Requests : receipts[p].ok /\ receipts[p].id = i}) = rows[i].rev

\* postgres.go, activation: "Verify every active stored record for each declared
\* owned dataset, including schema versions": what is stored has the schema of
\* the contract it is read under, late writes and restores included.
Conforming == active \in Shapes => \A i \in Ids : rows[i].live => rows[i].shape = active
\* So it is in PostgreSQL, where activation and mutation take one lock.
StoredMatchesActive == shop.store = "postgres" => Conforming

\* A request is answered by its receipt: however often it is sent, the client
\* never learns of two outcomes.
Outcomes(q) == {t \in told[q] : t[1] \in {"ok", "failed", "mismatch"}}
ReplaysAgree == \A q \in Requests : Cardinality(Outcomes(q)) <= 1
\* So it is in PostgreSQL, where the receipt is read under that lock.
OneOutcome == shop.store = "postgres" => ReplaysAgree

\* However often a command is sent, it is applied once and tells one outcome.
AppliedOnce == RevisionsHaveReceipts /\ OneOutcome
=============================================================================

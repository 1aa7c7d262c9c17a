------------------------------ MODULE Pipeline ------------------------------
(***************************************************************************)
(* The enrichment pipeline of a record: stages that run as tasks of a      *)
(* queue, retried on error and on a worker's crash, their fan-out, the      *)
(* capture that starts them and the reaper that re-drives what is stuck.    *)
(*                                                                         *)
(* The queue (asynq on Redis) is external: a task id exists from enqueue to *)
(* acknowledgement, an archived task keeps its id, and enqueuing an id that *)
(* exists is reported as a conflict, which the code counts as success.      *)
(***************************************************************************)
EXTENDS Naturals, Sequences, FiniteSets, SequencesExt

CONSTANTS
  Records,        \* canonical records
  MaxRev,         \* bound: the greatest source revision
  StageRetries,   \* defaultStageMaxRetry
  PipeConfigs     \* what the process may be configured to run, and the bounds on
                  \* how many attempts of tasks then fail, and lose their worker

ASSUME PipeAssumption ==
  /\ MaxRev \in Nat /\ StageRetries \in Nat
  /\ \A c \in PipeConfigs :
       c.branches \subseteq {"tenant_match", "low_confidence", "graph"} /\ {c.fails, c.crashes} \subseteq Nat

VARIABLES
  record,    \* the rows of records, with the revisions of their entity mentions
  task,      \* the queue: the task of each record and stage
  handoff,   \* upserted rows whose first-pass enqueue is still to come
  branches,  \* the stages beside the chain: low_confidence and graph are configured;
             \* tenant_match is always on, and an instance may leave it out
  pipeLeft   \* how many fails and crashes are left

pipeState == <<record, task, handoff, pipeLeft>>
pipeVars == <<pipeState, branches>>

Stages == {"first_pass", "tenant_match", "resolve", "low_confidence", "graph", "embed"}
Revs == 0 .. MaxRev
Statuses == {"none", "captured", "enriched", "complete", "failed"}

NoTask == [at |-> "none", rev |-> 0, tries |-> 0, next |-> 0]

\* Waiting for a worker, held by one that has read what it works on, past its
\* write and forwarding to its followers, or out of attempts.
TaskStates == {"none", "pending", "loaded", "forwarding", "archived"}

\* The type invariant: revisions and attempts stay within their bounds.
PipeTypeOK ==
  /\ record \in [Records -> [rev : Revs, status : Statuses, enriched : Revs, vector : Revs,
                             firm : SUBSET Revs, unsure : SUBSET Revs]]
  /\ task \in [Records -> [Stages -> [at : TaskStates, rev : Revs, tries : 0 .. StageRetries, next : 0 .. 3]]]
  /\ handoff \subseteq [rec : Records, rev : Revs]

PipeInit ==
  /\ record = [r \in Records |-> [rev |-> 0, status |-> "none", enriched |-> 0, vector |-> 0,
                                  firm |-> {}, unsure |-> {}]]
  /\ task = [r \in Records |-> [s \in Stages |-> NoTask]]
  /\ handoff = {}
  /\ \E c \in PipeConfigs : branches = c.branches /\ pipeLeft = [fails |-> c.fails, crashes |-> c.crashes]

Terminal(status) == status \in {"complete", "failed"}
Disturbed(how) == pipeLeft[how] > 0 /\ pipeLeft' = [pipeLeft EXCEPT ![how] = @ - 1]

-----------------------------------------------------------------------------
(* The queue. *)

EnqueueStage(tasks, r, s, rev) ==
  IF tasks[r][s].at = "none"
  THEN [tasks EXCEPT ![r][s] = [at |-> "pending", rev |-> rev, tries |-> 0, next |-> 0]]
  ELSE tasks

Move(r, s, at) == [task EXCEPT ![r][s].at = at]

BugAgain(t, retries) ==
  IF t.tries > retries THEN [t EXCEPT !.at = "archived", !.next = 0]
  ELSE [t EXCEPT !.at = "pending", !.tries = @ + 1, !.next = 0]

\* What a failed attempt becomes: another attempt, or an archived task that keeps its id.
Again(t, retries) ==
  IF t.tries >= retries THEN [t EXCEPT !.at = "archived", !.next = 0]
  ELSE [t EXCEPT !.at = "pending", !.tries = @ + 1, !.next = 0]

-----------------------------------------------------------------------------
(* Capture: the upsert of a newer revision, then the hand-off. *)

UpsertCanonical(row, rev) ==
  [row EXCEPT !.rev = rev, !.status = IF @ = "none" THEN "captured" ELSE @]

Capture(r) ==
  /\ record[r].rev < MaxRev
  /\ record' = [record EXCEPT ![r] = UpsertCanonical(@, @.rev + 1)]
  /\ handoff' = handoff \cup {[rec |-> r, rev |-> record[r].rev + 1]}
  /\ UNCHANGED <<task, pipeLeft>>

EnqueueGlobalFirstPass(h) ==
  /\ task' = EnqueueStage(task, h.rec, "first_pass", h.rev)
  /\ handoff' = handoff \ {h}
  /\ UNCHANGED <<record, pipeLeft>>

\* The worker stops, or the enqueue fails, after the upsert: the retried page
\* upserts the same revision, which is not a change any more.
LoseHandoff(h) ==
  /\ handoff' = handoff \ {h}
  /\ UNCHANGED <<record, task, pipeLeft>>

-----------------------------------------------------------------------------
(* The workers. *)

\* A worker takes the task and runs up to its write, having read the record of
\* revision rev (or only the payload, where the stage loads no record).
TakeTask(r, s, rev) ==
  /\ task' = [task EXCEPT ![r][s].at = "loaded", ![r][s].rev = rev]
  /\ UNCHANGED <<record, handoff, pipeLeft>>

\* A payload of a superseded revision is dropped, and reported as done: the chain goes on.
DropTask(r, s) ==
  /\ task' = Move(r, s, "forwarding")
  /\ UNCHANGED <<record, handoff, pipeLeft>>

Superseded(r, s) == task[r][s].rev > 0 /\ record[r].rev > task[r][s].rev

TakeOrDrop(r, s) == IF Superseded(r, s) THEN DropTask(r, s) ELSE TakeTask(r, s, record[r].rev)

RunGlobalFirstPass(r) == TakeTask(r, "first_pass", task[r]["first_pass"].rev)

\* The match is stored for the revision of the record as it is now.
RunTenantMatch(r) == TakeTask(r, "tenant_match", record[r].rev)

RunResolveEntities(r) == TakeOrDrop(r, "resolve")

RunResolveLowConfidence(r) == TakeOrDrop(r, "low_confidence")

RunGraphProject(r) == TakeTask(r, "graph", task[r]["graph"].rev)

RunEmbed(r) == TakeOrDrop(r, "embed")

RunStage(r, s) ==
  /\ task[r][s].at = "pending"
  /\ \/ s = "first_pass" /\ RunGlobalFirstPass(r)
     \/ s = "tenant_match" /\ RunTenantMatch(r)
     \/ s = "resolve" /\ RunResolveEntities(r)
     \/ s = "low_confidence" /\ RunResolveLowConfidence(r)
     \/ s = "graph" /\ RunGraphProject(r)
     \/ s = "embed" /\ RunEmbed(r)

BugSaveEnrichment(row, rev) == [row EXCEPT !.enriched = rev, !.status = "enriched"]

\* Nothing is persisted when the row has moved on to another revision.
SaveEnrichment(row, rev) ==
  IF row.rev = rev THEN [row EXCEPT !.enriched = rev, !.status = "enriched"] ELSE row

SaveEmbedding(row, rev) ==
  IF row.rev = rev THEN [row EXCEPT !.vector = rev, !.status = "complete"] ELSE row

Written(row, s, rev) ==
  CASE s = "first_pass"     -> SaveEnrichment(row, rev)
    [] s = "resolve"        -> [row EXCEPT !.firm = @ \cup {rev}]
    [] s = "low_confidence" -> [row EXCEPT !.unsure = @ \cup {rev}]
    [] s = "embed"          -> SaveEmbedding(row, rev)
    [] OTHER                -> row

AfterEntities == IF "graph" \in branches THEN <<"graph", "embed">> ELSE <<"embed">>

Followers(s) ==
  CASE s = "first_pass" -> IF "tenant_match" \in branches THEN <<"tenant_match", "resolve">> ELSE <<"resolve">>
    [] s = "resolve"    -> IF "low_confidence" \in branches THEN <<"low_confidence">> ELSE AfterEntities
    [] s = "low_confidence" -> AfterEntities
    [] OTHER -> <<>>

\* The stage's write. An enrichment that was not persisted ends the task without followers.
StoreResult(r, s) ==
  /\ task[r][s].at = "loaded"
  /\ record' = [record EXCEPT ![r] = Written(@, s, task[r][s].rev)]
  /\ task' = [task EXCEPT ![r][s].at = "forwarding",
                          ![r][s].next = IF s = "first_pass" /\ record[r].rev # task[r][s].rev
                                         THEN Len(Followers(s)) ELSE 0]
  /\ UNCHANGED <<handoff, pipeLeft>>

\* OnDone, one enqueue at a time; the payload is forwarded with its revision.
ForwardNext(r, s) ==
  LET t == task[r][s] IN
  /\ t.at = "forwarding" /\ t.next < Len(Followers(s))
  /\ task' = EnqueueStage([task EXCEPT ![r][s].next = @ + 1], r, Followers(s)[t.next + 1], t.rev)
  /\ UNCHANGED <<record, handoff, pipeLeft>>

\* The handler returned nil: the queue deletes the task and its id is free.
AcknowledgeTask(r, s) ==
  /\ task[r][s].at = "forwarding" /\ task[r][s].next = Len(Followers(s))
  /\ task' = [task EXCEPT ![r][s] = NoTask]
  /\ UNCHANGED <<record, handoff, pipeLeft>>

MarkFailed(row) == IF Terminal(row.status) THEN row ELSE [row EXCEPT !.status = "failed"]

Working(r, s) == task[r][s].at \in {"loaded", "forwarding"}

\* The handler returns an error. When the attempts are used up the error handler
\* marks the record failed before the queue archives the task.
FailTransient(r, s) ==
  /\ Working(r, s) /\ Disturbed("fails")
  /\ record' = IF task[r][s].tries >= StageRetries THEN [record EXCEPT ![r] = MarkFailed(@)] ELSE record
  /\ task' = [task EXCEPT ![r][s] = Again(@, StageRetries)]
  /\ UNCHANGED <<handoff>>

\* The worker dies: the queue finds the expired lease and retries or archives
\* the task itself, without the error handler.
CrashWorker(r, s) ==
  /\ Working(r, s) /\ Disturbed("crashes")
  /\ task' = [task EXCEPT ![r][s] = Again(@, StageRetries)]
  /\ UNCHANGED <<record, handoff>>

\* A permanent error of the first pass: the record is failed and the task is done.
RejectPermanent(r) ==
  /\ task[r]["first_pass"].at = "loaded" /\ Disturbed("fails")
  /\ record' = [record EXCEPT ![r] = MarkFailed(@)]
  /\ task' = [task EXCEPT ![r]["first_pass"] = NoTask]
  /\ UNCHANGED <<handoff>>

-----------------------------------------------------------------------------
(* Recovery. *)

StageFor(status) == IF status = "enriched" THEN "resolve" ELSE "first_pass"

BugListStuck == {r \in Records : record[r].status = "enriched"}

\* How long a record has been untouched is not modelled: any that is not
\* terminal may be listed. The row is read and re-enqueued in one step: a row
\* read earlier is a payload enqueued earlier.
ListStuck == {r \in Records : record[r].status \in {"captured", "enriched"}}

Redrive(r) ==
  /\ r \in ListStuck
  /\ task' = EnqueueStage(task, r, StageFor(record[r].status), record[r].rev)
  /\ UNCHANGED <<record, handoff, pipeLeft>>

\* The user asks for a failed record to be tried again.
ResetForRetry(r) ==
  /\ record[r].status = "failed"
  /\ record' = [record EXCEPT ![r].status = "captured"]
  /\ UNCHANGED <<task, handoff, pipeLeft>>

-----------------------------------------------------------------------------
PipeWorker(r, s) ==
  RunStage(r, s) \/ StoreResult(r, s) \/ ForwardNext(r, s) \/ AcknowledgeTask(r, s)

PipeStep ==
  \/ \E r \in Records : Capture(r) \/ Redrive(r) \/ RejectPermanent(r) \/ ResetForRetry(r)
  \/ \E h \in handoff : EnqueueGlobalFirstPass(h) \/ LoseHandoff(h)
  \/ \E r \in Records, s \in Stages : PipeWorker(r, s) \/ FailTransient(r, s) \/ CrashWorker(r, s)

PipeNext == PipeStep /\ UNCHANGED branches

PipeSpec == PipeInit /\ [][PipeNext]_pipeVars

\* A free worker takes a waiting task and a handler returns; the reaper is a
\* ticker under supervision.
PipeFairness ==
  /\ \A r \in Records, s \in Stages : WF_pipeState(PipeWorker(r, s))
  /\ \A r \in Records : WF_pipeState(Redrive(r))

-----------------------------------------------------------------------------
(* Properties. *)

\* handler.go: a record is not embedded, and so not complete, before the entities
\* of the same revision are resolved, the unsure ones included when the search
\* for them is configured: neither a stale payload, nor a re-drive, nor a task id
\* that was still taken lets the last stage overtake the chain.
EmbeddedAfterEntities ==
  \A r \in Records : LET k == record[r].vector IN
    k > 0 => /\ k \in record[r].firm
             /\ "low_confidence" \in branches => k \in record[r].unsure

\* record_repo.go: results that arrive late never replace those of a newer
\* revision, and what is written is of the revision the row has at that moment.
RevisionsOnlyAdvance ==
  [][\A r \in Records :
       /\ record'[r].enriched >= record[r].enriched
       /\ record'[r].enriched # record[r].enriched => record'[r].enriched = record[r].rev
       /\ record'[r].vector >= record[r].vector
       /\ record'[r].vector # record[r].vector => record'[r].vector = record[r].rev]_pipeVars

\* The stages of a record keep their order, within a revision and between revisions.
StagesInOrder == []EmbeddedAfterEntities /\ RevisionsOnlyAdvance

DeadLettered(r) == \E s \in Stages : task[r][s].at = "archived"

\* Handoffs lost or swallowed by a taken id, dropped payloads and dead workers
\* never strand a captured record: it ends complete or failed, unless one of its
\* tasks used up its attempts.
CapturedSettles ==
  \A r \in Records :
    record[r].status = "captured" ~> (Terminal(record[r].status) \/ DeadLettered(r))

\* record_repo.go says of ResetForRetry that it moves a failed record back to
\* captured "so the reaper re-drives it".
RetryIsRedriven ==
  \A r \in Records : record[r].status = "captured" ~> record[r].status # "captured"
=============================================================================

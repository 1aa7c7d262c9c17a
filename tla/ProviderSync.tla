---------------------------- MODULE ProviderSync ----------------------------
(***************************************************************************)
(* One provider stream: the scheduler that claims it and chooses a cycle    *)
(* for its turn, the tasks that fetch a page and hand its posts over, the   *)
(* seen marks, and the recovery of a stream whose worker went silent.       *)
(*                                                                         *)
(* Posts are numbered in the order the provider published them, and its     *)
(* listing shows the newest first. Sync tasks carry no id of their own, so  *)
(* a stream claimed again has two tasks.                                    *)
(***************************************************************************)
EXTENDS Naturals, FiniteSets, FiniteSetsExt

CONSTANTS
  MaxPosts,      \* bound: posts the provider publishes
  PageSize,      \* posts of one listing page
  Cycles,        \* ids of sync cycles; the id of a finished one nothing refers to is used again
  Tasks,         \* bound: slots for sync tasks, reused
  SyncRetries,   \* MaxRetry of a sync task
  SyncConfigs    \* [listed, paging, hydrates, ticks, late, fails, crashes]: posts already
                 \* there, how the provider pages, whether posts are hydrated, and budgets

ASSUME SyncAssumption ==
  /\ MaxPosts \in Nat /\ PageSize \in Nat \ {0} /\ SyncRetries \in Nat /\ 0 \notin Cycles
  /\ \A c \in SyncConfigs : c.listed \in 0 .. MaxPosts /\ c.paging \in {"after", "offset"} /\ c.hydrates \in BOOLEAN
                            /\ {c.ticks, c.late, c.fails, c.crashes} \subseteq Nat

VARIABLES
  published,   \* how many posts the provider has
  stream,      \* the row of provider_streams
  cycle,       \* the rows of sync_cycles
  turn,        \* the job the scheduler has built for a claimed stream
  sync,        \* the sync tasks in the queue and in the workers
  seen,        \* the seen marks in Redis
  stored,      \* posts upserted as canonical records
  setup,       \* the configuration, fixed
  syncLeft     \* what is left of the budgets

syncState == <<published, stream, cycle, turn, sync, seen, stored, syncLeft>>
syncVars == <<syncState, setup>>

Posts == 1 .. MaxPosts
NoCycle == [kind |-> "refresh", status |-> "none", cursor |-> 0, head |-> 0, fresh |-> FALSE, due |-> FALSE]
NoTurn == [at |-> "none", cycle |-> 0, kind |-> "refresh", cursor |-> 0]
NoSync == [at |-> "none", cycle |-> 0, kind |-> "refresh", cursor |-> 0, tries |-> 0,
           page |-> {}, more |-> FALSE, next |-> 0]

\* The type invariant: what the tables, the queue and the workers hold, retries in bounds.
SyncTypeOK ==
  /\ published \in 0 .. MaxPosts /\ seen \subseteq Posts /\ stored \subseteq Posts
  /\ stream \in [status : {"idle", "queued", "syncing"}, stale : BOOLEAN, due : BOOLEAN, never : BOOLEAN]
  /\ cycle \in [Cycles -> [kind : {"refresh", "hydration"}, status : {"none", "active", "running", "over"},
                           cursor : 0 .. MaxPosts, head : 0 .. MaxPosts, fresh : BOOLEAN, due : BOOLEAN]]
  /\ turn \in [at : {"none", "claimed", "built"}, cycle : Cycles \cup {0},
               kind : {"refresh", "hydration"}, cursor : 0 .. MaxPosts]
  /\ sync \in [Tasks -> [at : {"none", "waiting", "executing", "accepting", "remembering", "advancing", "settling"},
                         cycle : Cycles \cup {0}, kind : {"refresh", "hydration"}, cursor : 0 .. MaxPosts,
                         tries : 0 .. SyncRetries, page : SUBSET Posts, more : BOOLEAN, next : 0 .. MaxPosts]]

SyncInit ==
  /\ seen = {} /\ stored = {}
  /\ stream = [status |-> "idle", stale |-> FALSE, due |-> TRUE, never |-> TRUE]
  /\ cycle = [c \in Cycles |-> NoCycle]
  /\ turn = NoTurn
  /\ sync = [t \in Tasks |-> NoSync]
  /\ setup \in SyncConfigs /\ published = setup.listed
  /\ syncLeft = [ticks |-> setup.ticks, late |-> setup.late, fails |-> setup.fails, crashes |-> setup.crashes]

Spend(what) == syncLeft[what] > 0 /\ syncLeft' = [syncLeft EXCEPT ![what] = @ - 1]

-----------------------------------------------------------------------------
(* The statements on sync_cycles. A job may name a row that was never inserted *)
(* (0): a statement on it changes nothing.                                     *)

OpenCycles == {c \in Cycles : cycle[c].status \in {"active", "running"}}
Referred == {turn.cycle} \cup {sync[t].cycle : t \in Tasks}
FreeCycles == {c \in Cycles : c \notin OpenCycles /\ c \notin Referred}

TouchCycle(cycles, c, row) == IF c = 0 THEN cycles ELSE [cycles EXCEPT ![c] = row]
CycleRow(c) == IF c = 0 THEN NoCycle ELSE cycle[c]
HeadOnce(old, head) == IF old = 0 THEN head ELSE old

MarkRunning(c) == TouchCycle(cycle, c, [CycleRow(c) EXCEPT !.status = "running"])

UpdateProgress(c, cursor, head) ==
  TouchCycle(cycle, c, [CycleRow(c) EXCEPT !.status = "active", !.cursor = cursor, !.due = FALSE, !.head = HeadOnce(@, head)])

CompleteCycle(c, head) == TouchCycle(cycle, c, [CycleRow(c) EXCEPT !.status = "over", !.head = HeadOnce(@, head)])

MarkCycleFailed(c) == TouchCycle(cycle, c, [CycleRow(c) EXCEPT !.status = "over"])

\* ON CONFLICT DO NOTHING: one open cycle per kind and target. A refresh has the
\* empty target; the target of a hydration is the post it is about, its head here.
TargetTaken(kind, target) ==
  \E c \in OpenCycles : cycle[c].kind = kind /\ (kind = "hydration" => cycle[c].head = target)

-----------------------------------------------------------------------------
(* The provider and the clock. *)

PublishPost ==
  /\ published < MaxPosts
  /\ published' = published + 1
  /\ UNCHANGED <<stream, cycle, turn, sync, seen, stored, syncLeft>>

\* The refresh interval has passed: cycles created so far belong to an earlier window.
RefreshFallsDue ==
  /\ ~stream.due /\ Spend("ticks")
  /\ stream' = [stream EXCEPT !.due = TRUE]
  /\ cycle' = [c \in Cycles |-> [cycle[c] EXCEPT !.fresh = FALSE]]
  /\ UNCHANGED <<published, turn, sync, seen, stored>>

HydrationFallsDue(c) ==
  /\ cycle[c].kind = "hydration" /\ cycle[c].status = "active" /\ ~cycle[c].due /\ Spend("ticks")
  /\ cycle' = [cycle EXCEPT ![c].due = TRUE]
  /\ UNCHANGED <<published, stream, turn, sync, seen, stored>>

Executing == \E t \in Tasks : sync[t].at = "executing"
StreamHeld == turn.at # "none" \/ \E t \in Tasks : sync[t].at # "none"

\* 90 seconds without a heartbeat: nobody holds the stream, or its task waits in
\* the queue, is past its fetch or is too slow.
GoesStale ==
  /\ stream.status # "idle" /\ ~stream.stale
  /\ IF StreamHeld THEN Spend("late") ELSE UNCHANGED syncLeft
  /\ stream' = [stream EXCEPT !.stale = TRUE]
  /\ UNCHANGED <<published, cycle, turn, sync, seen, stored>>

Beat ==
  /\ Executing /\ stream.stale
  /\ stream' = [stream EXCEPT !.stale = FALSE]
  /\ UNCHANGED <<published, cycle, turn, sync, seen, stored, syncLeft>>

-----------------------------------------------------------------------------
(* The scheduler. *)

DueCycles == {c \in Cycles : cycle[c].status = "active" /\ (cycle[c].kind = "hydration" => cycle[c].due)}

StreamClaimable ==
  \/ stream.status = "idle" /\ (DueCycles # {} \/ stream.never \/ stream.due)
  \/ stream.status # "idle" /\ stream.stale

ClaimStreams ==
  /\ turn.at = "none" /\ StreamClaimable
  /\ stream' = [stream EXCEPT !.status = "queued", !.stale = FALSE]
  /\ turn' = [NoTurn EXCEPT !.at = "claimed"]
  /\ UNCHANGED <<published, cycle, sync, seen, stored, syncLeft>>

RefreshDue == stream.never \/ stream.due

ShouldCreateRefresh ==
  LET refreshes == {c \in OpenCycles : cycle[c].kind = "refresh"} IN
  IF stream.never THEN refreshes = {} ELSE \A c \in refreshes : ~cycle[c].fresh

BuildJob(c) ==
  turn' = [at |-> "built", cycle |-> c, kind |-> CycleRow(c).kind, cursor |-> CycleRow(c).cursor]

\* The decision: a running cycle blocks the stream; a due refresh comes first,
\* then due hydrations, then the pages of an earlier refresh.
SkipTurn ==
  /\ (\E c \in OpenCycles : cycle[c].status = "running") \/ (~(RefreshDue /\ ShouldCreateRefresh) /\ DueCycles = {})
  /\ stream' = [stream EXCEPT !.status = "idle"]
  /\ turn' = NoTurn
  /\ UNCHANGED <<published, cycle, sync, seen, stored, syncLeft>>

CreateRefresh ==
  /\ \A c \in OpenCycles : cycle[c].status # "running"
  /\ RefreshDue /\ ShouldCreateRefresh
  /\ IF TargetTaken("refresh", 0)
     THEN BuildJob(0) /\ UNCHANGED cycle
     ELSE LET c == CHOOSE c \in FreeCycles : TRUE IN
          /\ FreeCycles # {}
          /\ cycle' = [cycle EXCEPT ![c] = [NoCycle EXCEPT !.status = "active", !.fresh = TRUE]]
          /\ turn' = [NoTurn EXCEPT !.at = "built", !.cycle = c]
  /\ UNCHANGED <<published, stream, sync, seen, stored, syncLeft>>

RunCycle ==
  /\ \A c \in OpenCycles : cycle[c].status # "running"
  /\ ~(RefreshDue /\ ShouldCreateRefresh)
  /\ \E c \in DueCycles :
       /\ (\E d \in DueCycles : cycle[d].kind = "hydration") => cycle[c].kind = "hydration"
       /\ BuildJob(c)
  /\ UNCHANGED <<published, stream, cycle, sync, seen, stored, syncLeft>>

ChooseCycle == turn.at = "claimed" /\ (SkipTurn \/ CreateRefresh \/ RunCycle)

Dispatch ==
  /\ turn.at = "built"
  /\ \E t \in Tasks :
       /\ sync[t].at = "none" /\ (\A u \in Tasks : sync[u].at = "none" => t <= u)
       /\ sync' = [sync EXCEPT ![t] = [NoSync EXCEPT !.at = "waiting", !.cycle = turn.cycle,
                                                     !.kind = turn.kind, !.cursor = turn.cursor]]
  /\ turn' = NoTurn
  /\ UNCHANGED <<published, stream, cycle, seen, stored, syncLeft>>

\* The queue refuses the task, or the worker stops: only the log knows.
LoseTurn ==
  /\ turn.at # "none" /\ Spend("fails")
  /\ turn' = NoTurn
  /\ UNCHANGED <<published, stream, cycle, sync, seen, stored>>

-----------------------------------------------------------------------------
(* The worker. *)

SyncTo(t, at) == [sync EXCEPT ![t].at = at]

StartSync(t) ==
  /\ sync[t].at = "waiting"
  /\ stream' = [stream EXCEPT !.status = "syncing", !.stale = FALSE]
  /\ cycle' = MarkRunning(sync[t].cycle)
  /\ sync' = SyncTo(t, "executing")
  /\ UNCHANGED <<published, turn, seen, stored, syncLeft>>

\* The listing behind a cursor: reddit answers the posts older than the one the
\* cursor names, hackernews is asked for all of them and read from an offset on.
ListingAfter(name) == {p \in 1 .. published : name > 0 => p < name}

ListingFrom(offset) == {p \in 1 .. published : published - p >= offset}

Listing(cursor) == IF setup.paging = "after" THEN ListingAfter(cursor) ELSE ListingFrom(cursor)

PageOf(cursor) == {p \in Listing(cursor) : Cardinality({q \in Listing(cursor) : q > p}) < PageSize}

NextOf(cursor) ==
  IF setup.paging = "after" THEN Min(PageOf(cursor)) ELSE cursor + Cardinality(PageOf(cursor))

\* The seen marks are read after the listing; posts are accepted up to the first
\* one seen, which ends the refresh.
UpToSeen(page) == {p \in page : \A q \in page : q >= p => q \notin seen}

Fetched(t, next) ==
  LET page == PageOf(sync[t].cursor)
      more == page \cap seen = {} /\ Listing(sync[t].cursor) # page IN
  /\ sync' = [sync EXCEPT ![t].at = "accepting", ![t].page = UpToSeen(page),
                          ![t].more = more, ![t].next = IF more THEN next ELSE 0]
  /\ UNCHANGED <<published, stream, cycle, turn, seen, stored, syncLeft>>

ExecuteReddit(t) ==
  setup.paging = "after" /\ Fetched(t, NextOf(sync[t].cursor))

ExecuteHackerNews(t) ==
  setup.paging = "offset" /\ Fetched(t, NextOf(sync[t].cursor))

Execute(t) ==
  /\ sync[t].at = "executing" /\ sync[t].kind = "refresh"
  /\ ExecuteReddit(t) \/ ExecuteHackerNews(t)

\* A hydration fetches its post again, and goes on until the post is cold.
ExecuteHydration(t) ==
  /\ sync[t].at = "executing" /\ sync[t].kind = "hydration"
  /\ \E warm \in BOOLEAN :
       sync' = [sync EXCEPT ![t].at = "accepting", ![t].page = {CycleRow(sync[t].cycle).head},
                            ![t].more = warm, ![t].next = 0]
  /\ UNCHANGED <<published, stream, cycle, turn, seen, stored, syncLeft>>

\* NewestOf first, as the listing has them.
PagePrefixes(page) == {{p \in page : p > k} : k \in 0 .. MaxPosts}

BugAcceptRecords(t) ==
  /\ sync[t].at = "accepting"
  /\ \E some \in PagePrefixes(sync[t].page) : stored' = stored \cup some
  /\ sync' = SyncTo(t, "remembering")
  /\ UNCHANGED <<published, stream, cycle, turn, seen, syncLeft>>

AcceptRecords(t) ==
  /\ sync[t].at = "accepting"
  /\ stored' = stored \cup sync[t].page
  /\ sync' = SyncTo(t, "remembering")
  /\ UNCHANGED <<published, stream, cycle, turn, seen, syncLeft>>

\* The follow-up cycles of hot posts, then the seen marks.
MarkSeen(t) ==
  /\ sync[t].at = "remembering"
  /\ \/ UNCHANGED cycle
     \/ \E p \in sync[t].page :
          /\ setup.hydrates /\ sync[t].kind = "refresh" /\ FreeCycles # {} /\ ~TargetTaken("hydration", p)
          /\ cycle' = [cycle EXCEPT ![CHOOSE c \in FreeCycles : TRUE] =
                         [NoCycle EXCEPT !.kind = "hydration", !.status = "active", !.head = p]]
  /\ seen' = seen \cup sync[t].page
  /\ sync' = SyncTo(t, "advancing")
  /\ UNCHANGED <<published, stream, turn, stored, syncLeft>>

NewestOf(page) == IF page = {} THEN 0 ELSE Max(page)

\* handlePageProgress and handleCompletion: the cycle first, then the stream.
AdvanceCycle(t) ==
  LET s == sync[t] IN
  /\ s.at = "advancing"
  /\ cycle' = IF s.more THEN UpdateProgress(s.cycle, s.next, NewestOf(s.page)) ELSE CompleteCycle(s.cycle, NewestOf(s.page))
  /\ sync' = SyncTo(t, "settling")
  /\ UNCHANGED <<published, stream, turn, seen, stored, syncLeft>>

SettleStream(t) ==
  LET s == sync[t]
      synced == ~s.more /\ s.kind = "refresh" IN
  /\ s.at = "settling"
  /\ stream' = IF synced THEN [stream EXCEPT !.status = "idle", !.due = FALSE, !.never = FALSE]
                         ELSE [stream EXCEPT !.status = "idle"]
  /\ sync' = [sync EXCEPT ![t] = NoSync]
  /\ UNCHANGED <<published, cycle, turn, seen, stored, syncLeft>>

RetriedSync(t) ==
  IF sync[t].tries >= SyncRetries THEN [sync EXCEPT ![t] = NoSync]
  ELSE [sync EXCEPT ![t].at = "waiting", ![t].tries = @ + 1, ![t].page = {}, ![t].more = FALSE, ![t].next = 0]

InHand(t) == sync[t].at \notin {"none", "waiting"}

\* The posts a task that stops here has stored: some of its page when it stops while accepting.
StoredSoFar(t) ==
  IF sync[t].at = "accepting" THEN \E some \in PagePrefixes(sync[t].page) : stored' = stored \cup some
  ELSE UNCHANGED stored

\* The handler returns an error: the stream is released when the fetch or a
\* post failed, and the error handler ends the cycle when the attempts are used up.
SyncFails(t) ==
  LET exhausted == sync[t].tries >= SyncRetries IN
  /\ InHand(t) /\ Spend("fails") /\ StoredSoFar(t)
  /\ stream' = IF exhausted \/ sync[t].at \in {"executing", "accepting"}
               THEN [stream EXCEPT !.status = "idle"] ELSE stream
  /\ cycle' = IF exhausted THEN MarkCycleFailed(sync[t].cycle) ELSE cycle
  /\ sync' = RetriedSync(t)
  /\ UNCHANGED <<published, turn, seen>>

\* The worker dies: the queue retries or archives the task, and no handler runs.
SyncCrashes(t) ==
  /\ InHand(t) /\ Spend("crashes") /\ StoredSoFar(t)
  /\ sync' = RetriedSync(t)
  /\ UNCHANGED <<published, stream, cycle, turn, seen>>

-----------------------------------------------------------------------------
SyncWorker(t) ==
  \/ StartSync(t) \/ Execute(t) \/ ExecuteHydration(t) \/ AcceptRecords(t)
  \/ MarkSeen(t) \/ AdvanceCycle(t) \/ SettleStream(t)

Scheduler == ClaimStreams \/ ChooseCycle \/ Dispatch

SyncStep ==
  \/ PublishPost \/ RefreshFallsDue \/ GoesStale \/ Beat
  \/ \E c \in Cycles : HydrationFallsDue(c)
  \/ Scheduler \/ LoseTurn
  \/ \E t \in Tasks : SyncWorker(t) \/ SyncFails(t) \/ SyncCrashes(t)

SyncNext == SyncStep /\ UNCHANGED setup

SyncSpec == SyncInit /\ [][SyncNext]_syncVars

\* Workers and the scheduler's loop run, and 90 seconds pass.
SyncFairness ==
  /\ \A t \in Tasks : WF_syncState(SyncWorker(t))
  /\ WF_syncState(Scheduler)
  /\ WF_syncState(GoesStale)

-----------------------------------------------------------------------------
(* Properties. *)

\* Correctness Rules, capture boundary: a post is marked seen, which stops every
\* later page at it, only when its canonical record is stored, whatever failed or
\* ran twice in between.
SeenIsStored == seen \subseteq stored

\* The posts between the place a page was read from and the place the cycle resumes at.
Spanned(s) ==
  IF s.cursor = 0 THEN {p \in Posts : s.next <= p /\ p <= NewestOf(s.page)}
  ELSE {p \in Posts : s.next <= p /\ p < s.cursor}

\* result_handler.go: a cursor that names a post is moved on only when every post up to
\* it was handed over, whatever was published, seen, retried or taken twice meanwhile:
\* none is skipped inside or in front of the page.
PagesAreHandedOver ==
  \A t \in Tasks :
    /\ sync[t].at \in {"remembering", "advancing"} /\ sync[t].kind = "refresh" /\ sync[t].more
    /\ setup.paging = "after"
    => Spanned(sync[t]) \subseteq stored

\* Nothing a later page would stop at or start behind is missing in the store.
PassedIsStored == SeenIsStored /\ PagesAreHandedOver

\* The same of a cycle as a whole: from the head of the refresh to its cursor. Two tasks of
\* one cycle that read their first pages apart, and offsets that new posts have moved,
\* leave a hole.
PassedBy(c) ==
  LET row == cycle[c] IN
  IF setup.paging = "after" THEN {p \in Posts : row.cursor <= p /\ p <= row.head}
  ELSE {p \in Posts : p <= row.head /\ row.head - p < row.cursor}
CursorPassesStored ==
  \A c \in Cycles : cycle[c].kind = "refresh" /\ cycle[c].status = "active" /\ cycle[c].cursor > 0
                    => PassedBy(c) \subseteq stored

\* provider_stream_repo.go: a stream taken by a scheduler or a worker that is
\* gone is given back: it is idle again, and so can be picked, again and again.
StreamIsReleased == stream.status # "idle" ~> stream.status = "idle"

\* The rule the documentation states for progress: when a refresh has marked the
\* stream synced, no post it listed is left behind.
Quiescent == stream.status = "idle" /\ turn.at = "none" /\ (\A t \in Tasks : sync[t].at = "none")
           /\ \A c \in OpenCycles : cycle[c].kind # "refresh"
SyncedLeavesNothing ==
  Quiescent => \A p \in Posts, q \in stored : p < q => p \in stored
=============================================================================

---------------------------- MODULE WorkerProcess ----------------------------
(***************************************************************************)
(* The worker: it connects to what it needs, starts its loops, its          *)
(* scheduler and the server of the task queue, and takes all of it down     *)
(* again.  Loops are started again when they panic; the scheduler is not.   *)
(* Its heartbeat in the database is all the api knows of it.                *)
(*                                                                         *)
(* What a sweep or a task does is the business of other modules.            *)
(***************************************************************************)
EXTENDS Naturals, Sequences, Functions

CONSTANTS
  Loops,         \* the supervised loops, the heartbeat among them
  Heartbeat,
  Jobs,          \* tasks of the queue
  WorkerCases    \* instances: [panics, kills, stops], bounds on panics, on deaths, and on the
                 \* signals that end the process

ASSUME WorkerAssumption ==
  /\ Heartbeat \in Loops
  /\ \A c \in WorkerCases : {c.panics, c.kills, c.stops} \subseteq Nat

VARIABLES
  worker,    \* the process: where Run is, whether its context lives, what is connected, and
             \* whether it died
  looping,   \* where each loop is
  job,       \* the tasks: in the queue, taken by the server, done
  handling,  \* the tasks a handler is at work on in this process
  beat,      \* worker_heartbeat is younger than workerHeartbeatStaleAfter
  odds       \* the bounds that are left

workerVars == <<worker, looping, job, handling, beat, odds>>

\* What Run connects to, in order; its deferred calls close them in the opposite order.
Needs == <<"postgres", "redis", "queue", "inspector">>
Connected == worker.open = Len(Needs)

NewWorker == [at |-> "composing", live |-> TRUE, open |-> 0, died |-> FALSE]

\* The type invariant.
WorkerTypeOK ==
  /\ worker \in [at : {"composing", "serving", "closing", "over"}, live : BOOLEAN,
                 open : 0 .. Len(Needs), died : BOOLEAN]
  /\ looping \in [Loops -> {"planned", "waiting", "sweeping", "backoff", "returned"}]
  /\ job \in [Jobs -> {"queued", "taken", "done"}] /\ handling \subseteq Jobs /\ beat \in BOOLEAN

WorkerInit ==
  /\ worker = NewWorker /\ looping = [l \in Loops |-> "planned"]
  /\ job = [j \in Jobs |-> "queued"] /\ handling = {} /\ beat = FALSE
  /\ odds \in WorkerCases

Chance(what) == odds[what] > 0 /\ odds' = [odds EXCEPT ![what] = @ - 1]

-----------------------------------------------------------------------------
(* Run. *)

\* The process is gone, with all that ran in it.
Gone(died) ==
  /\ worker' = [worker EXCEPT !.at = "over", !.died = died, !.open = 0]
  /\ looping' = [l \in Loops |-> "planned"] /\ handling' = {}

\* What cannot be reached ends the process, before anything was started.
Compose ==
  /\ worker.at = "composing" /\ ~Connected
  /\ \/ worker' = [worker EXCEPT !.open = @ + 1] /\ UNCHANGED <<looping, handling, odds>>
     \/ Gone(FALSE) /\ Chance("kills")
  /\ UNCHANGED <<job, beat>>

\* The heartbeat beats before it waits.
Started(l) == IF l = Heartbeat THEN "sweeping" ELSE "waiting"

\* Supervisor.Run: the loops and the scheduler, then the server, which may fail to start.
StartAll ==
  /\ worker.at = "composing" /\ Connected
  /\ looping' = [l \in Loops |-> Started(l)]
  /\ \/ worker' = [worker EXCEPT !.at = "serving"] /\ UNCHANGED odds
     \/ worker' = [worker EXCEPT !.at = "closing", !.live = FALSE] /\ Chance("kills")
  /\ UNCHANGED <<job, handling, beat>>

\* SIGTERM, while the server runs.
Signal ==
  /\ worker.at = "serving" /\ worker.live /\ Chance("stops")
  /\ worker' = [worker EXCEPT !.live = FALSE]
  /\ UNCHANGED <<looping, job, handling, beat>>

\* Mutant: the server is told to end, and nobody waits for it.
BugShutdown ==
  /\ worker.at = "serving" /\ ~worker.live
  /\ worker' = [worker EXCEPT !.at = "closing"]
  /\ UNCHANGED <<looping, job, handling, beat, odds>>

\* "Context cancellation shuts the server down and waits for Run to return": the server waits
\* for its handlers, and gives back the tasks of those that take too long.
Shutdown ==
  /\ worker.at = "serving" /\ ~worker.live
  /\ job' = [j \in Jobs |-> IF job[j] = "taken" THEN "queued" ELSE job[j]]
  /\ worker' = [worker EXCEPT !.at = "closing"]
  /\ UNCHANGED <<looping, handling, beat, odds>>

\* The deferred calls; nobody waits for the loops.
Close ==
  /\ worker.at = "closing"
  /\ IF worker.open = 0 THEN Gone(FALSE)
     ELSE worker' = [worker EXCEPT !.open = @ - 1] /\ UNCHANGED <<looping, handling>>
  /\ UNCHANGED <<job, beat, odds>>

\* The machine, or a panic that nothing recovers: the scheduler's.
Die ==
  /\ worker.at \in {"composing", "serving", "closing"} /\ Chance("kills")
  /\ Gone(TRUE) /\ UNCHANGED <<job, beat>>

\* The process is started again; the queue takes back what a dead one had taken.
StartAgain ==
  /\ worker.at = "over" /\ Chance("stops")
  /\ worker' = NewWorker
  /\ job' = [j \in Jobs |-> IF job[j] = "taken" THEN "queued" ELSE job[j]]
  /\ UNCHANGED <<looping, handling, beat>>

-----------------------------------------------------------------------------
(* The loops, under safego.Supervise. *)

Turn(l, at) == looping' = [looping EXCEPT ![l] = at]

Tick(l) ==
  /\ looping[l] = "waiting" /\ worker.live
  /\ Turn(l, "sweeping") /\ UNCHANGED <<worker, job, handling, beat, odds>>

\* An error is logged, and the next tick tries again; a beat is one statement.
EndTurn(l) ==
  /\ looping[l] = "sweeping"
  /\ Turn(l, "waiting")
  /\ beat' = (beat \/ (l = Heartbeat /\ worker.live /\ worker.open > 0))
  /\ UNCHANGED <<worker, job, handling, odds>>

Panic(l) ==
  /\ looping[l] = "sweeping" /\ Chance("panics")
  /\ Turn(l, "backoff") /\ UNCHANGED <<worker, job, handling, beat>>

\* Mutant: a panic is recovered, and the loop is left.
BugSupervise(l) ==
  /\ looping[l] = "backoff" /\ Turn(l, "returned")
  /\ UNCHANGED <<worker, job, handling, beat, odds>>

\* After the pause the body runs again, unless the context has ended.
Supervise(l) ==
  /\ looping[l] = "backoff" /\ Turn(l, IF worker.live THEN Started(l) ELSE "returned")
  /\ UNCHANGED <<worker, job, handling, beat, odds>>

LeaveLoop(l) ==
  /\ looping[l] = "waiting" /\ ~worker.live
  /\ Turn(l, "returned") /\ UNCHANGED <<worker, job, handling, beat, odds>>

-----------------------------------------------------------------------------
(* The server of the queue, and the heartbeat's reader. *)

Take(j) ==
  /\ worker.at = "serving" /\ job[j] = "queued" /\ j \notin handling
  /\ job' = [job EXCEPT ![j] = "taken"] /\ handling' = handling \cup {j}
  /\ UNCHANGED <<worker, looping, beat, odds>>

\* Done, or to be tried again; what became of a task that was given back counts for nothing.
Handled(j) ==
  /\ j \in handling /\ handling' = handling \ {j}
  /\ \/ job[j] = "taken" /\ \E at \in {"done", "queued"} : job' = [job EXCEPT ![j] = at]
     \/ job[j] # "taken" /\ UNCHANGED job
  /\ UNCHANGED <<worker, looping, beat, odds>>

\* Two minutes pass: four beats, while there are any.
Age ==
  /\ beat /\ ~(worker.live /\ worker.at = "serving")
  /\ beat' = FALSE /\ UNCHANGED <<worker, looping, job, handling, odds>>

\* WorkerStatus.
WorkerUp == beat

-----------------------------------------------------------------------------
RunStep == Compose \/ StartAll \/ Shutdown \/ Close
LoopTurn(l) == Tick(l) \/ EndTurn(l) \/ Supervise(l) \/ LeaveLoop(l)

WorkerNext ==
  \/ RunStep \/ Signal \/ Die \/ StartAgain \/ Age
  \/ \E l \in Loops : LoopTurn(l) \/ Panic(l)
  \/ \E j \in Jobs : Take(j) \/ Handled(j)

WorkerSpec == WorkerInit /\ [][WorkerNext]_workerVars

-----------------------------------------------------------------------------
(* Properties. *)

\* supervisor.go: however the process stops, a task it still answers for has the
\* connections its handler needs, and a process that was not killed leaves none taken.
TasksAreKept ==
  /\ \A j \in handling : job[j] = "taken" => Connected
  /\ worker.at = "over" /\ ~worker.died => \A j \in Jobs : job[j] # "taken"

\* safego.go: "a panic no longer ends the subsystem": while the process serves, every
\* loop sweeps again.
LoopsComeBack ==
  \A l \in Loops : []<>(looping[l] = "sweeping" \/ ~worker.live \/ worker.at # "serving")

\* repository.go: "a stale/absent heartbeat means the worker is down": one that serves is
\* seen, and one that is gone is not for long.
StatusIsTrue ==
  /\ []<>(WorkerUp \/ ~worker.live \/ worker.at # "serving")
  /\ worker.at = "over" ~> (~WorkerUp \/ worker.at # "over")

\* A signal ends the process.
SignalEnds == worker.at = "serving" /\ ~worker.live ~> worker.at = "over"

WorkerSettles == []TasksAreKept /\ LoopsComeBack /\ StatusIsTrue /\ SignalEnds
=============================================================================

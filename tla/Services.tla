------------------------------ MODULE Services ------------------------------
(***************************************************************************)
(* What the server does behind the clients' backs, and what agents do to    *)
(* pages, one component at a time: a behaviour is one of the component      *)
(* "part" names, in any of its instances; the others stay as they begin.    *)
(* The components share no state.                                          *)
(***************************************************************************)
EXTENDS Pipeline, ProviderSync, EntityMerge, SurfaceRelease, SurfaceFiles, ContentIndex, SourceMatches,
  WorkerProcess

CONSTANT Parts   \* the components to look at

VARIABLE part

ASSUME ServicesParts == Parts \subseteq {"pipe", "sync", "entity", "page", "files", "index", "matches", "worker"}

\* One of the instances, for the components that are not looked at.
OneOf(S) == CHOOSE s \in S : TRUE

ServicesInit ==
  /\ part \in Parts
  /\ part = "matches" \/ LET c == OneOf(SourceCases) IN
       world = [asks |-> c.asks, posts |-> c.posts, reads |-> c.reads, crashes |-> c.crashes, faults |-> c.faults,
                blind |-> FALSE, removed |-> FALSE]
  /\ SourceInit
  /\ PipeInit /\ (part = "pipe" \/ branches = OneOf(PipeConfigs).branches)
  /\ SyncInit /\ (part = "sync" \/ setup = OneOf(SyncConfigs))
  /\ EntityInit /\ (part = "entity" \/ registry = OneOf(Registries))
  /\ ReleaseInit /\ (part = "page" \/ page = OneOf(Pages))
  /\ SurfaceFilesInit /\ (part = "files" \/ (source = NoFile /\ order = OneOf(Mixes)))
  /\ IndexInit /\ (part = "index" \/ corpus = OneOf(IndexPlans))
  /\ WorkerInit /\ (part = "worker" \/ odds = OneOf(WorkerCases))

ServicesNext ==
  \/ part = "pipe" /\ PipeNext
     /\ UNCHANGED <<part, syncVars, entityVars, releaseVars, fileVars, indexVars, sourceVars, workerVars>>
  \/ part = "sync" /\ SyncNext
     /\ UNCHANGED <<part, pipeVars, entityVars, releaseVars, fileVars, indexVars, sourceVars, workerVars>>
  \/ part = "entity" /\ EntityNext
     /\ UNCHANGED <<part, pipeVars, syncVars, releaseVars, fileVars, indexVars, sourceVars, workerVars>>
  \/ part = "page" /\ ReleaseNext
     /\ UNCHANGED <<part, pipeVars, syncVars, entityVars, fileVars, indexVars, sourceVars, workerVars>>
  \/ part = "files" /\ SurfaceFilesNext
     /\ UNCHANGED <<part, pipeVars, syncVars, entityVars, releaseVars, indexVars, sourceVars, workerVars>>
  \/ part = "index" /\ IndexNext
     /\ UNCHANGED <<part, pipeVars, syncVars, entityVars, releaseVars, fileVars, sourceVars, workerVars>>
  \/ part = "matches" /\ SourceNext
     /\ UNCHANGED <<part, pipeVars, syncVars, entityVars, releaseVars, fileVars, indexVars, workerVars>>
  \/ part = "worker" /\ WorkerNext
     /\ UNCHANGED <<part, pipeVars, syncVars, entityVars, releaseVars, fileVars, indexVars, sourceVars>>

ServicesSpec ==
  ServicesInit
  /\ [][ServicesNext]_<<part, pipeVars, syncVars, entityVars, releaseVars, fileVars, indexVars, sourceVars, workerVars>>

\* The type invariant of the component that is looked at; the others do not move.
ServicesTypeOK ==
  /\ part = "pipe" => PipeTypeOK
  /\ part = "sync" => SyncTypeOK
  /\ part = "entity" => EntityTypeOK
  /\ part = "page" => ReleaseTypeOK
  /\ part = "files" => SurfaceFilesTypeOK
  /\ part = "index" => IndexTypeOK
  /\ part = "matches" => SourceTypeOK
  /\ part = "worker" => WorkerTypeOK
=============================================================================

--------------------------- MODULE SurfaceRelease ---------------------------
(***************************************************************************)
(* One shard page from its sources to what is served: builds of the draft   *)
(* and published channels by several agents, their status rows, the preview *)
(* tab they share, verification, and the releases that are staged and      *)
(* activated. A legacy page is served from dist/ on disk, a page with a     *)
(* contract from its active release.                                        *)
(*                                                                         *)
(* A version of the sources is good; broken, it does not compile; blank, it *)
(* does not mount; or lame, a route, an anchor or a reference of it is missing.  *)
(***************************************************************************)
EXTENDS Integers, FiniteSets

CONSTANTS
  Agents,         \* who work on the page, one command each
  Pages,          \* [contract, renderer, quality, commands]: the pages to consider
  BuildLimit,     \* how many builds a channel retains
  ReleaseFaults   \* [crashes, vendor, tabs, activations, records]: how many of each may happen

ASSUME ReleaseAssumption ==
  /\ BuildLimit \in Nat /\ "nobody" \notin Agents
  /\ ReleaseFaults \in [crashes : Nat, vendor : Nat, tabs : Nat, activations : Nat, records : Nat]
  /\ \A p \in Pages :
       /\ p.contract \in BOOLEAN /\ p.commands \in [Agents -> {"save", "preview", "publish"}]
       /\ 1 \in DOMAIN p.quality /\ DOMAIN p.quality \subseteq Nat \ {0}
       /\ \A v \in DOMAIN p.quality : p.quality[v] \in {"good", "broken", "blank", "lame"}

VARIABLES
  page, version,    \* the page, and the version of its sources
  dist,             \* the files of a channel: the versions of the bundle and of the rest
  builder,          \* who holds the page's build lock
  stagedBuilds, live, \* releases: those stored, and the active one
  status,           \* shard_build_state
  tab,              \* what the preview tab of the page shows
  agent,            \* where an agent is, the channel it builds, and its result
  releaseFaults

releaseState == <<version, dist, builder, stagedBuilds, live, status, tab, agent>>
releaseVars == <<releaseState, page, releaseFaults>>

Channels == {"draft", "published"}
SourceVersions == DOMAIN page.quality
NoBuild == [version |-> 0, channel |-> "draft"]
NoAgent == "nobody"
AgentPhases == {"unsent", "recording", "compiling", "linking", "staging", "activating", "settling", "failing",
           "opening", "sandboxing", "loading", "checking", "publishing", "done", "refused"}

\* The type invariant: what is live is stored, and no channel stores more builds than it
\* may.
ReleaseTypeOK ==
  /\ version \in SourceVersions /\ builder \in Agents \cup {NoAgent}
  /\ \A a \in Agents : agent[a].at \in AgentPhases /\ agent[a].channel \in Channels
  /\ \A c \in Channels : live[c] # NoBuild => <<c, live[c]>> \in stagedBuilds
  /\ \A c \in Channels : Cardinality({s \in stagedBuilds : s[1] = c}) <= BuildLimit
  /\ \A c \in Channels : {dist[c].bundle, dist[c].rest} \subseteq SourceVersions \cup {0}
  /\ \A c \in Channels : status[c] \in {"none", "building", "ok", "failed"}

ReleaseInit ==
  /\ page \in Pages /\ version = 1
  /\ dist = [c \in Channels |-> [bundle |-> 0, rest |-> 0]] /\ builder = NoAgent
  /\ stagedBuilds = {} /\ live = [c \in Channels |-> NoBuild] /\ status = [c \in Channels |-> "none"]
  /\ tab = NoBuild
  /\ agent = [a \in Agents |-> [at |-> "unsent", channel |-> "draft", result |-> NoBuild, last |-> FALSE]]
  /\ releaseFaults = ReleaseFaults

Goes(a, place) == agent' = [agent EXCEPT ![a].at = place]
Suffers(what) == releaseFaults[what] > 0 /\ releaseFaults' = [releaseFaults EXCEPT ![what] = @ - 1]
Quality(build) == IF build.version = 0 THEN "none" ELSE page.quality[build.version]

-----------------------------------------------------------------------------
(* ShardBuildService.Build *)

\* The row, best effort.
RecordRow(c, what) ==
  \/ status' = [status EXCEPT ![c] = what] /\ UNCHANGED releaseFaults
  \/ Suffers("records") /\ UNCHANGED status

RecordBuilding(a) ==
  /\ agent[a].at = "recording"
  /\ RecordRow(agent[a].channel, "building") /\ Goes(a, "compiling")
  /\ UNCHANGED <<page, version, dist, builder, stagedBuilds, live, tab>>

\* lockPage.
Locked(a) == builder # NoAgent

\* esbuild writes the bundle of a legacy page before its imports are resolved; the
\* outputs of a page with a contract stay in memory.
Compile(a) ==
  /\ agent[a].at = "compiling" /\ ~Locked(a)
  /\ LET c == agent[a].channel
     IN IF page.quality[version] = "broken" THEN Goes(a, "failing") /\ UNCHANGED <<dist, builder>>
        ELSE /\ agent' = [agent EXCEPT ![a].result = [version |-> version, channel |-> c],
                                       ![a].at = IF page.contract THEN "staging" ELSE "linking"]
             /\ IF page.contract THEN UNCHANGED <<dist, builder>>
                ELSE dist' = [dist EXCEPT ![c].bundle = version] /\ builder' = a
  /\ UNCHANGED <<page, version, stagedBuilds, live, status, tab, releaseFaults>>

\* The import map and the marker follow, unless a dependency cannot be fetched.
Link(a) ==
  /\ agent[a].at = "linking" /\ builder' = NoAgent
  /\ \/ dist' = [dist EXCEPT ![agent[a].channel].rest = agent[a].result.version]
        /\ Goes(a, "settling") /\ UNCHANGED releaseFaults
     \/ Suffers("vendor") /\ Goes(a, "failing") /\ UNCHANGED dist
  /\ UNCHANGED <<page, version, stagedBuilds, live, status, tab>>

\* The retained builds are never deleted.
Fits(c, build) == <<c, build>> \in stagedBuilds \/ Cardinality({s \in stagedBuilds : s[1] = c}) < BuildLimit

Stage(a) ==
  /\ agent[a].at = "staging"
  /\ IF Fits(agent[a].channel, agent[a].result)
     THEN /\ stagedBuilds' = stagedBuilds \cup {<<agent[a].channel, agent[a].result>>}
          /\ Goes(a, IF agent[a].channel = "draft" THEN "activating" ELSE "settling")
     ELSE Goes(a, "failing") /\ UNCHANGED stagedBuilds
  /\ UNCHANGED <<page, version, dist, builder, live, status, tab, releaseFaults>>

\* Stored records that the contract does not fit refuse the activation.
Activates(a, c, next, otherwise) ==
  \/ live' = [live EXCEPT ![c] = agent[a].result] /\ Goes(a, next) /\ UNCHANGED releaseFaults
  \/ Suffers("activations") /\ Goes(a, otherwise) /\ UNCHANGED live

ActivateDraft(a) ==
  /\ agent[a].at = "activating" /\ Activates(a, "draft", "settling", "failing")
  /\ UNCHANGED <<page, version, dist, builder, stagedBuilds, status, tab>>

\* What a command does once its build is there.
AfterBuild(a) == IF page.commands[a] = "save" \/ agent[a].last THEN "done" ELSE "opening"

Ended(a) == IF agent[a].at = "settling" THEN "ok" ELSE "failed"

RecordOutcome(a) ==
  /\ agent[a].at \in {"settling", "failing"}
  /\ RecordRow(agent[a].channel, Ended(a))
  /\ Goes(a, IF agent[a].at = "settling" THEN AfterBuild(a) ELSE IF agent[a].last THEN "done" ELSE "refused")
  /\ UNCHANGED <<page, version, dist, builder, stagedBuilds, live, tab>>

-----------------------------------------------------------------------------
(* PreviewSessions.Open, and verification. *)

\* The build of a page with a contract runs in the draft sandbox, also when it is
\* to be published.
OpenPreview(a) ==
  /\ agent[a].at = "opening"
  /\ IF ~page.contract THEN Goes(a, "loading") /\ UNCHANGED stagedBuilds
     ELSE IF Fits("draft", agent[a].result)
     THEN stagedBuilds' = stagedBuilds \cup {<<"draft", agent[a].result>>} /\ Goes(a, "sandboxing")
     ELSE Goes(a, "refused") /\ UNCHANGED stagedBuilds
  /\ UNCHANGED <<page, version, dist, builder, live, status, tab, releaseFaults>>

ActivateSandbox(a) ==
  /\ agent[a].at = "sandboxing" /\ Activates(a, "draft", "loading", "refused")
  /\ UNCHANGED <<page, version, dist, builder, stagedBuilds, status, tab>>

\* The document the tab is given: the build itself, or the bundle on disk.
Document(a) ==
  IF page.contract THEN agent[a].result
  ELSE [version |-> dist[agent[a].channel].bundle, channel |-> agent[a].channel]

BugUnrendered == "publishing"

\* Without a renderer nothing was verified: a legacy page is published with a warning.
Unrendered == IF page.contract THEN "refused" ELSE "publishing"

LoadTab(a) ==
  /\ agent[a].at = "loading"
  /\ IF ~page.renderer
     THEN Goes(a, IF page.commands[a] = "publish" THEN Unrendered ELSE "refused") /\ UNCHANGED tab
     ELSE /\ tab' = Document(a)
          /\ Goes(a, IF page.commands[a] = "preview" THEN "done"
                     ELSE IF Quality(Document(a)) = "blank" THEN "refused" ELSE "checking")
  /\ UNCHANGED <<page, version, dist, builder, stagedBuilds, live, status, releaseFaults>>

\* The anchors and the other routes are looked up in whatever the tab shows by then; a
\* tab that is gone fails a route, but not the anchors of the first.
CheckRoutes(a) ==
  /\ agent[a].at = "checking"
  /\ \/ Goes(a, "publishing") /\ Quality(tab) \in {"none", "good"}
     \/ Goes(a, "refused") /\ Quality(tab) # "good"
  /\ UNCHANGED <<page, version, dist, builder, stagedBuilds, live, status, tab, releaseFaults>>

\* The tab is closed, reaped or evicted, or the browser restarted.
TabGoes ==
  /\ tab # NoBuild /\ Suffers("tabs") /\ tab' = NoBuild
  /\ UNCHANGED <<page, version, dist, builder, stagedBuilds, live, status, agent>>

-----------------------------------------------------------------------------
(* The commands. *)

SaveFile(a) ==
  /\ page.commands[a] = "save" /\ agent[a].at = "unsent"
  /\ version + 1 \in SourceVersions /\ version' = version + 1
  /\ Goes(a, "recording")
  /\ UNCHANGED <<page, dist, builder, stagedBuilds, live, status, tab, releaseFaults>>

\* Perhaps after files were written with build=false.
PreviewOpen(a) ==
  /\ page.commands[a] = "preview" /\ agent[a].at = "unsent" /\ Goes(a, "recording")
  /\ version' \in {version, version + 1} \cap SourceVersions
  /\ UNCHANGED <<page, dist, builder, stagedBuilds, live, status, tab, releaseFaults>>

PublishBegins(a) ==
  /\ page.commands[a] = "publish" /\ agent[a].at = "unsent"
  /\ agent' = [agent EXCEPT ![a].channel = "published", ![a].at = "recording"]
  /\ UNCHANGED <<page, version, dist, builder, stagedBuilds, live, status, tab, releaseFaults>>

\* The verified build goes live, and the draft is built again; the references of a
\* legacy page may not resolve.
PublishEnds(a) ==
  /\ agent[a].at = "publishing"
  /\ \/ agent' = [agent EXCEPT ![a].at = "recording", ![a].channel = "draft", ![a].last = TRUE]
        /\ live' = [live EXCEPT !["published"] = IF page.contract THEN agent[a].result ELSE @]
        /\ UNCHANGED releaseFaults
     \/ page.contract /\ Suffers("activations") /\ Goes(a, "refused") /\ UNCHANGED live
     \/ ~page.contract /\ Quality(agent[a].result) = "lame" /\ Goes(a, "refused") /\ UNCHANGED <<live, releaseFaults>>
  /\ UNCHANGED <<page, version, dist, builder, stagedBuilds, status, tab>>

\* The process dies with the locks, tabs and commands it had.
ServerDies ==
  /\ Suffers("crashes")
  /\ builder' = NoAgent /\ tab' = NoBuild
  /\ agent' = [a \in Agents |-> IF agent[a].at \in {"unsent", "done"} THEN agent[a] ELSE [agent[a] EXCEPT !.at = "refused"]]
  /\ UNCHANGED <<page, version, dist, stagedBuilds, live, status>>

BuildStep(a) ==
  RecordBuilding(a) \/ Compile(a) \/ Link(a) \/ Stage(a) \/ ActivateDraft(a) \/ RecordOutcome(a)
PreviewStep(a) == OpenPreview(a) \/ ActivateSandbox(a) \/ LoadTab(a) \/ CheckRoutes(a)

ReleaseNext ==
  \/ \E a \in Agents : \/ SaveFile(a) \/ PreviewOpen(a) \/ PublishBegins(a) \/ PublishEnds(a)
                       \/ BuildStep(a) \/ PreviewStep(a)
  \/ TabGoes \/ ServerDies

ReleaseSpec == ReleaseInit /\ [][ReleaseNext]_releaseVars

\* A command that was sent goes on; the build lock is handed to those that wait.
ReleaseFairness ==
  \A a \in Agents : /\ WF_releaseState(RecordBuilding(a) \/ Link(a) \/ Stage(a) \/ ActivateDraft(a) \/ RecordOutcome(a))
                    /\ SF_releaseState(Compile(a))
                    /\ WF_releaseState(PreviewStep(a)) /\ WF_releaseState(PublishEnds(a))

-----------------------------------------------------------------------------
(* Properties. *)

Spared(what) == releaseFaults[what] = ReleaseFaults[what]
AllAnswered == \A a \in Agents : agent[a].at \in {"unsent", "done", "refused"}

\* Publish: "previous release remains active": what is live was built and mounted when
\* it was loaded as that very build, whoever else builds, previews or closes the tab.
PublishedMounted == live["published"] # NoBuild => Quality(live["published"]) \notin {"broken", "blank"}

\* builder.builds: "two agents can't race on the same dist/bundle.js and corrupt it":
\* unless a build fails or dies half way, the files of a channel are of one build.
DistIsOneBuild ==
  builder = NoAgent /\ Spared("crashes") /\ Spared("vendor") => \A c \in Channels : dist[c].bundle = dist[c].rest

\* What is served of a channel is one build, and what is live of the page was mounted.
ReleasesAreWhole == PublishedMounted /\ DistIsOneBuild

\* The status of a channel leaves building, unless the process died or the row could not
\* be written: every build that was announced ends, in success or not.
BuildsEnd == []<>(Spared("crashes") /\ Spared("records") => \A c \in Channels : status[c] # "building")

\* "preventing a transport adapter from publishing stale or unchecked bytes"
\* (publication.go): what is live passed the checks of every route.
PublishedWasChecked == live["published"] # NoBuild => Quality(live["published"]) = "good"

\* write_file: "a DRAFT build runs automatically ... the user sees the draft update
\* live": once the commands are answered the draft is the latest version.
DraftIsLatest ==
  AllAnswered /\ page.contract /\ live["draft"] # NoBuild /\ page.quality[version] # "broken" => live["draft"].version = version
=============================================================================

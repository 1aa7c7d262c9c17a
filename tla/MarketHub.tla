------------------------------ MODULE MarketHub ------------------------------
(***************************************************************************)
(* The demand-driven quote hub for one symbol: the calls that subscribe and *)
(* unsubscribe, whose counting, resolving and telling the stream are steps  *)
(* of their own; the upstream stream the hub starts, idles and restarts;    *)
(* and the session that dials, carries the wanted symbol upstream, breaks   *)
(* and is dialled again.                                                    *)
(*                                                                         *)
(* A watcher subscribes once and unsubscribes once, by requests of their    *)
(* own; in some behaviours the second may overtake the first.               *)
(***************************************************************************)
EXTENDS Integers, FiniteSets

CONSTANTS
  Watchers,  \* views, and the alert engine, that want the symbol for a while
  HubCases   \* [early, breaks]: whether an unsubscribe may overtake its subscribe,
             \* and how often a session may break

ASSUME HubAssumption ==
  /\ IsFiniteSet(Watchers)
  /\ \A h \in HubCases : h.early \in BOOLEAN /\ h.breaks \in Nat

VARIABLES
  count,       \* refcount of the symbol
  subCall, unsubCall,  \* the calls of a watcher: where they are, and the connection they write to
  known,       \* idBySymbol holds the instrument of the symbol
  unresolved,  \* history: resolving the symbol failed
  alive,       \* the goroutines that run the stream
  holder,      \* the goroutine whose cancel the hub holds: none, running, cancelled
  idleTimer,
  wanted,      \* the stream's set holds the symbol
  session,     \* of the stream: down, dialled, opened, up
  dialled,     \* how many connections were opened; the last is the current one
  conn,        \* the connection in Stream.conn, 0 for none
  carried,     \* the upstream sends trades of the symbol on the current connection
  hub

hubState == <<count, subCall, unsubCall, known, unresolved, alive, holder, idleTimer, wanted, session, dialled, conn, carried>>
hubVars == <<hubState, hub>>

Places == {"unsent", "starting", "resolving", "telling", "writing", "releasing", "done"}

\* The type invariant: the reference count is that of the calls, and only a session
\* carries the symbol.
HubTypeOK ==
  /\ count = Cardinality({w \in Watchers : subCall[w].at # "unsent"}) - Cardinality({w \in Watchers : unsubCall[w].counted})
  /\ \A w \in Watchers : {subCall[w].at, unsubCall[w].at} \subseteq Places /\ {subCall[w].conn, unsubCall[w].conn} \subseteq 0 .. dialled
  /\ holder \in {"none", "running", "cancelled"} /\ alive \in Nat
  /\ session \in {"down", "dialled", "opened", "up"} /\ conn \in 0 .. dialled
  /\ carried => session # "down"

HubInit ==
  /\ count = 0 /\ known = FALSE /\ unresolved = FALSE
  /\ subCall = [w \in Watchers |-> [at |-> "unsent", conn |-> 0]]
  /\ unsubCall = [w \in Watchers |-> [at |-> "unsent", conn |-> 0, counted |-> FALSE]]
  /\ alive = 0 /\ holder = "none" /\ idleTimer = FALSE
  /\ wanted = FALSE /\ session = "down" /\ dialled = 0 /\ conn = 0 /\ carried = FALSE
  /\ hub \in HubCases

SubAt(w, place) == subCall' = [subCall EXCEPT ![w].at = place]
UnsubAt(w, place) == unsubCall' = [unsubCall EXCEPT ![w].at = place]
upstream == <<alive, holder, idleTimer, wanted, session, dialled, conn, carried>>

-----------------------------------------------------------------------------
(* The upstream lifecycle, under the hub's mutex. *)

StartStream ==
  IF holder # "none" THEN UNCHANGED <<alive, holder, idleTimer>>
  ELSE alive' = alive + 1 /\ holder' = "running" /\ idleTimer' = FALSE

ScheduleIdleStop == idleTimer' = (idleTimer \/ holder # "none")

BugCancel == holder' = "none"

\* runCancel: the hub holds it until the goroutine has stopped.
Cancel == holder' = "cancelled"

IdleStop ==
  /\ idleTimer /\ idleTimer' = FALSE
  /\ IF count = 0 /\ holder # "none" THEN Cancel ELSE UNCHANGED holder
  /\ UNCHANGED <<count, subCall, unsubCall, known, unresolved, alive, wanted, session, dialled, conn, carried, hub>>

BugRestartStream == alive' = alive - 1 /\ holder' = "none"

\* Demand that came while the goroutine was stopping starts it again.
RestartStream == IF count > 0 THEN alive' = alive /\ holder' = "running" ELSE alive' = alive - 1 /\ holder' = "none"

StreamStopped ==
  /\ holder = "cancelled" /\ alive > 0 /\ session = "down"
  /\ RestartStream
  /\ UNCHANGED <<count, subCall, unsubCall, known, unresolved, idleTimer, wanted, session, dialled, conn, carried, hub>>

-----------------------------------------------------------------------------
(* Subscribe and Unsubscribe. *)

CountUp(w) ==
  /\ subCall[w].at = "unsent"
  /\ count' = count + 1
  /\ SubAt(w, IF count = 0 THEN "starting" ELSE "done")
  /\ UNCHANGED <<unsubCall, known, unresolved, upstream, hub>>

SubscribeStarts(w) ==
  /\ subCall[w].at = "starting"
  /\ StartStream /\ SubAt(w, "resolving")
  /\ UNCHANGED <<count, unsubCall, known, unresolved, wanted, session, dialled, conn, carried, hub>>

Resolves(w) ==
  /\ subCall[w].at = "resolving"
  /\ \/ known' = TRUE /\ UNCHANGED unresolved
     \/ unresolved' = TRUE /\ UNCHANGED known
  /\ SubAt(w, "telling")
  /\ UNCHANGED <<count, unsubCall, upstream, hub>>

\* Stream.Subscribe: what is new in the set is written, if there is a connection.
SubscribeTells(w) ==
  /\ subCall[w].at = "telling"
  /\ wanted' = TRUE
  /\ subCall' = [subCall EXCEPT ![w] = IF wanted \/ conn = 0 THEN [at |-> "done", conn |-> 0] ELSE [at |-> "writing", conn |-> conn]]
  /\ UNCHANGED <<count, unsubCall, known, unresolved, alive, holder, idleTimer, session, dialled, conn, carried, hub>>

\* What is written to a connection that is closed is lost.
OnWire(at) == at = dialled /\ session # "down"

SubscribeWrites(w) ==
  /\ subCall[w].at = "writing"
  /\ carried' = (carried \/ OnWire(subCall[w].conn)) /\ SubAt(w, "done")
  /\ UNCHANGED <<count, unsubCall, known, unresolved, alive, holder, idleTimer, wanted, session, dialled, conn, hub>>

\* The instrument goes with the last reference, and only then.
Forget == count > 1 /\ known

CountDown(w) ==
  /\ unsubCall[w].at = "unsent" /\ IF hub.early THEN subCall[w].at # "unsent" ELSE subCall[w].at = "done"
  /\ IF count = 0 THEN UnsubAt(w, "releasing") /\ UNCHANGED <<count, known>>
     ELSE /\ count' = count - 1 /\ known' = Forget
          /\ unsubCall' = [unsubCall EXCEPT ![w].counted = TRUE, ![w].at = IF count = 1 THEN "telling" ELSE "releasing"]
  /\ UNCHANGED <<subCall, unresolved, upstream, hub>>

UnsubscribeTells(w) ==
  /\ unsubCall[w].at = "telling"
  /\ wanted' = FALSE
  /\ IF wanted /\ conn # 0 THEN unsubCall' = [unsubCall EXCEPT ![w].at = "writing", ![w].conn = conn] ELSE UnsubAt(w, "releasing")
  /\ UNCHANGED <<count, subCall, known, unresolved, alive, holder, idleTimer, session, dialled, conn, carried, hub>>

UnsubscribeWrites(w) ==
  /\ unsubCall[w].at = "writing"
  /\ carried' = (carried /\ ~OnWire(unsubCall[w].conn)) /\ UnsubAt(w, "releasing")
  /\ UNCHANGED <<count, subCall, known, unresolved, alive, holder, idleTimer, wanted, session, dialled, conn, hub>>

UnsubscribeReleases(w) ==
  /\ unsubCall[w].at = "releasing"
  /\ IF count = 0 THEN ScheduleIdleStop ELSE UNCHANGED idleTimer
  /\ UnsubAt(w, "done")
  /\ UNCHANGED <<count, subCall, known, unresolved, alive, holder, wanted, session, dialled, conn, carried, hub>>

-----------------------------------------------------------------------------
(* The session. *)

served == <<count, subCall, unsubCall, known, unresolved, alive, holder, idleTimer, wanted>>

Dial ==
  /\ holder = "running" /\ session = "down"
  /\ session' = "dialled" /\ dialled' = dialled + 1
  /\ UNCHANGED <<served, conn, carried, hub>>

\* conn and the live set are taken together.
OpenSession ==
  /\ session = "dialled"
  /\ conn' = dialled /\ session' = IF wanted THEN "opened" ELSE "up"
  /\ UNCHANGED <<served, dialled, carried, hub>>

ResubscribeLive ==
  /\ session = "opened"
  /\ carried' = TRUE /\ session' = "up"
  /\ UNCHANGED <<served, dialled, conn, hub>>

\* A read error, an upstream error frame or a missed pong; or the run is cancelled.
SessionEnds ==
  /\ session # "down"
  /\ \/ hub.breaks > 0 /\ hub' = [hub EXCEPT !.breaks = @ - 1]
     \/ holder = "cancelled" /\ UNCHANGED hub
  /\ session' = "down" /\ conn' = 0 /\ carried' = FALSE
  /\ UNCHANGED <<served, dialled>>

SessionStep == Dial \/ OpenSession \/ ResubscribeLive \/ (holder = "cancelled" /\ SessionEnds)
SubscribeStep(w) == SubscribeStarts(w) \/ Resolves(w) \/ SubscribeTells(w) \/ SubscribeWrites(w)
UnsubscribeStep(w) == UnsubscribeTells(w) \/ UnsubscribeWrites(w) \/ UnsubscribeReleases(w)

HubNext ==
  \/ \E w \in Watchers : CountUp(w) \/ CountDown(w) \/ SubscribeStep(w) \/ UnsubscribeStep(w)
  \/ IdleStop \/ StreamStopped \/ SessionStep \/ SessionEnds

HubSpec == HubInit /\ [][HubNext]_hubVars

\* Calls that were sent are served; the supervisor and Run never give up.
HubFairness ==
  /\ \A w \in Watchers : WF_hubState(SubscribeStep(w)) /\ WF_hubState(UnsubscribeStep(w))
  /\ WF_hubState(IdleStop) /\ WF_hubState(StreamStopped) /\ WF_hubState(SessionStep)

-----------------------------------------------------------------------------
(* Properties. *)

Answered == \A w \in Watchers : subCall[w].at \in {"unsent", "done"} /\ unsubCall[w].at \in {"unsent", "done"}

\* service.go: the hub drives one upstream stream, which holds the one slot the vendor
\* grants, though the last stops while the next is asked for.
OneUpstream == alive <= 1

\* onTrade drops the ticks of a symbol whose instrument is not known: once the calls
\* are answered a watched symbol is known, unless resolving it failed, in whatever
\* order the counting and the resolving of concurrent calls interleave.
WatchedIsKnown == Answered /\ count > 0 => known \/ unresolved

\* What the hub asks of the vendor and keeps in memory is what its watchers need.
HubServesItsWatchers == OneUpstream /\ WatchedIsKnown

\* While someone watches, a session comes up: after a break, after an idle stop the
\* demand raced, and after a stop that was under way when it came.
DemandIsServed == []<>(count = 0 \/ session = "up")

\* "The hub refcounts, so this never unsubscribes a UI-watched symbol" (alert/engine.go):
\* once the calls are answered the upstream sends what is watched.
WatchedIsCarried == Answered /\ count > 0 /\ session = "up" => carried
=============================================================================

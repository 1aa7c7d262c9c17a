----------------------------- MODULE PriceAlerts -----------------------------
(***************************************************************************)
(* The price alerts of one symbol: the rows, the engine that evaluates them *)
(* on live ticks in memory, the reconcile that reloads the rows, the users  *)
(* who create, pause and delete, and the transaction that fires.            *)
(*                                                                         *)
(* A price is one of three levels: at least a band below the thresholds,    *)
(* within a band of them, or past them going up. The velocity over the      *)
(* rolling window is up, down or below the floor, and is left open.         *)
(***************************************************************************)
EXTENDS Integers, Sequences

CONSTANTS
  Alerts,       \* the alerts a behaviour may create
  Rising,       \* those of direction "above"
  TickBuffer,   \* the capacity of the tick channel
  AlertFaults   \* [errors, crashes]: failed database or snapshot calls, and restarts

ASSUME AlertAssumption == Rising \subseteq Alerts /\ TickBuffer \in Nat \ {0}

VARIABLES
  alertRow,   \* the row: whether it is there, armed and active, and what armed began as
  level,      \* where the market is
  ticks,      \* tickCh
  index,      \* the engine's copy of the active alerts: armed, disarmed or none
  lastLevel,  \* the price before the tick, Unseen before the first
  reload,     \* what the reconcile goroutine has read: rows, and the snapshot
  cmd,        \* cmdCh
  due,        \* the alerts whose fire the eval goroutine has still to write
  notified,   \* how often the user was notified of an alert, up to 2
  retreated,  \* history: the alerts whose price was a band back since the last notice
  rearmed,    \* history: the alerts re-armed in memory by a pullback that was seen
  alertFaults

alertState == <<alertRow, level, ticks, index, lastLevel, reload, cmd, due, notified, retreated, rearmed>>
alertVars == <<alertState, alertFaults>>

Unborn == [there |-> FALSE, armed |-> FALSE, active |-> FALSE, began |-> FALSE]
Deleted == [Unborn EXCEPT !.began = TRUE]
Unseen == 3
Levels == 0 .. 2
NoReload == [at |-> "idle", rows |-> <<>>, seed |-> Unseen]

\* The type invariant: the buffers keep their sizes, and an alert on its way to the
\* database is disarmed in the engine.
AlertTypeOK ==
  /\ alertRow \in [Alerts -> [there : BOOLEAN, armed : BOOLEAN, active : BOOLEAN, began : BOOLEAN]]
  /\ level \in Levels /\ lastLevel \in Levels \cup {Unseen}
  /\ Len(ticks) <= TickBuffer /\ Len(cmd) <= 1
  /\ index \in [Alerts -> {"none", "armed", "disarmed"}]
  /\ \A a \in due : index[a] = "disarmed"
  /\ notified \in [Alerts -> 0 .. 2]

AlertInit ==
  /\ alertRow = [a \in Alerts |-> Unborn] /\ level \in Levels /\ ticks = <<>>
  /\ index = [a \in Alerts |-> "none"] /\ lastLevel = Unseen
  /\ reload = NoReload /\ cmd = <<>> /\ due = {}
  /\ notified = [a \in Alerts |-> 0] /\ retreated = {} /\ rearmed = {}
  /\ alertFaults \in AlertFaults

Falls(what) == alertFaults[what] > 0 /\ alertFaults' = [alertFaults EXCEPT ![what] = @ - 1]

\* satisfied, and a full band on the other side.
Past(a, price) == price = IF a \in Rising THEN 2 ELSE 0
Back(a, price) == price = IF a \in Rising THEN 0 ELSE 2
Toward(a) == IF a \in Rising THEN "up" ELSE "down"
Away(a) == IF a \in Rising THEN "down" ELSE "up"

-----------------------------------------------------------------------------
(* The users and the market. *)

\* An alert already satisfied, or too near, is created disarmed; without a
\* snapshot it is armed.
InitialArmed(a, seed) == seed = Unseen \/ Back(a, seed)

CreateAlert(a) ==
  /\ alertRow[a] = Unborn
  /\ \E seed \in {level, Unseen} :
       alertRow' = [alertRow EXCEPT ![a] = [there |-> TRUE, armed |-> InitialArmed(a, seed), active |-> TRUE,
                                            began |-> InitialArmed(a, seed)]]
  /\ retreated' = retreated \ {a}
  /\ UNCHANGED <<level, ticks, index, lastLevel, reload, cmd, due, notified, rearmed, alertFaults>>

DeleteAlert(a) ==
  /\ alertRow[a].there
  /\ alertRow' = [alertRow EXCEPT ![a] = Deleted]
  /\ UNCHANGED <<level, ticks, index, lastLevel, reload, cmd, due, notified, retreated, rearmed, alertFaults>>

PauseAlert(a) ==
  /\ alertRow[a].there /\ alertRow' = [alertRow EXCEPT ![a].active = FALSE]
  /\ UNCHANGED <<level, ticks, index, lastLevel, reload, cmd, due, notified, retreated, rearmed, alertFaults>>

\* The tick channel takes a tick or, full, sheds it.
Offered(price) == IF Len(ticks) < TickBuffer THEN {Append(ticks, price)} ELSE {ticks}

\* A trade: the tick reaches the engine, or it does not because the stream is down or
\* does not carry the symbol.
OnTick(price) ==
  /\ level' = price
  /\ retreated' = retreated \cup {a \in Alerts : Back(a, price)}
  /\ ticks' \in {ticks} \cup Offered(price)
  /\ UNCHANGED <<alertRow, index, lastLevel, reload, cmd, due, notified, rearmed, alertFaults>>

-----------------------------------------------------------------------------
(* The eval goroutine. *)

\* EvalAlert.
Fires(a, price, velocity) ==
  index[a] = "armed" /\ ~Past(a, lastLevel) /\ Past(a, price) /\ velocity = Toward(a)
Rearms(a, price, velocity) == index[a] = "disarmed" /\ Back(a, price) /\ velocity = Away(a)

\* The first tick of a symbol seeds the baseline. What re-arms does so in memory.
OnTickEval ==
  /\ due = {} /\ ticks # <<>>
  /\ ticks' = Tail(ticks)
  /\ IF \A a \in Alerts : index[a] = "none" THEN UNCHANGED <<lastLevel, index, due, rearmed>>
     ELSE /\ lastLevel' = Head(ticks)
          /\ IF lastLevel = Unseen THEN UNCHANGED <<index, due, rearmed>>
             ELSE \E velocity \in {"up", "down", "flat"} :
                    LET firing == {a \in Alerts : Fires(a, Head(ticks), velocity)}
                        arming == {a \in Alerts : Rearms(a, Head(ticks), velocity)}
                    IN /\ due' = firing /\ rearmed' = rearmed \cup arming
                       /\ index' = [a \in Alerts |-> IF a \in firing THEN "disarmed"
                                                     ELSE IF a \in arming THEN "armed" ELSE index[a]]
  /\ UNCHANGED <<alertRow, level, reload, cmd, notified, retreated, alertFaults>>

BugBackstop(rows, seed) == {}

\* Armed alerts that the snapshot shows past their threshold.
Backstop(rows, seed) == {a \in DOMAIN rows : rows[a] /\ seed # Unseen /\ Past(a, seed)}

\* The index is rebuilt from the rows that were read; the baseline is seeded for a
\* symbol that has none, and dropped with its last alert.
ApplyReconcile ==
  /\ due = {} /\ cmd # <<>>
  /\ LET rows == cmd[1].rows
         late == Backstop(rows, cmd[1].seed)
     IN /\ due' = late
        /\ index' = [a \in Alerts |-> IF a \notin DOMAIN rows THEN "none"
                                          ELSE IF rows[a] /\ a \notin late THEN "armed" ELSE "disarmed"]
        /\ lastLevel' = IF DOMAIN rows = {} THEN Unseen ELSE IF lastLevel = Unseen THEN cmd[1].seed ELSE lastLevel
  /\ cmd' = <<>> /\ rearmed' = {}
  /\ UNCHANGED <<alertRow, level, ticks, reload, notified, retreated, alertFaults>>

BugFire(a) ==
  /\ alertRow' = [alertRow EXCEPT ![a].armed = FALSE]
  /\ notified' = [notified EXCEPT ![a] = IF alertRow[a].there /\ @ < 2 THEN @ + 1 ELSE @]

\* One transaction: the row is disarmed if it is armed, and only then is the user
\* notified and the event appended to the outbox.
Fire(a) ==
  IF ~alertRow[a].armed THEN UNCHANGED <<alertRow, notified>>
  ELSE /\ alertRow' = [alertRow EXCEPT ![a].armed = FALSE]
       /\ notified' = [notified EXCEPT ![a] = IF @ = 2 THEN 2 ELSE @ + 1]

\* Rolled back, and logged.
FireFails(a) == UNCHANGED <<alertRow, notified>>

FireDue ==
  /\ \E a \in due :
       /\ due' = due \ {a} /\ rearmed' = rearmed \ {a}
       /\ \/ Fire(a) /\ UNCHANGED alertFaults
             /\ retreated' = IF notified' = notified THEN retreated ELSE retreated \ {a}
          \/ Falls("errors") /\ FireFails(a) /\ UNCHANGED retreated
  /\ UNCHANGED <<level, ticks, index, lastLevel, reload, cmd>>

-----------------------------------------------------------------------------
(* The reconcile goroutine, and the process. *)

ListActive ==
  /\ reload.at = "idle"
  /\ LET active == {a \in Alerts : alertRow[a].active}
     IN reload' = [at |-> "loaded", rows |-> [a \in active |-> alertRow[a].armed], seed |-> Unseen]
  /\ UNCHANGED <<alertRow, level, ticks, index, lastLevel, cmd, due, notified, retreated, rearmed, alertFaults>>

FetchSnapshot ==
  /\ reload.at = "loaded"
  /\ \/ reload' = [reload EXCEPT !.at = "seeded", !.seed = IF DOMAIN reload.rows = {} THEN Unseen ELSE level]
        /\ UNCHANGED alertFaults
     \/ Falls("errors") /\ reload' = [reload EXCEPT !.at = "seeded"]
  /\ UNCHANGED <<alertRow, level, ticks, index, lastLevel, cmd, due, notified, retreated, rearmed>>

SendReconcile ==
  /\ reload.at = "seeded" /\ cmd = <<>>
  /\ cmd' = <<[rows |-> reload.rows, seed |-> reload.seed]>> /\ reload' = NoReload
  /\ UNCHANGED <<alertRow, level, ticks, index, lastLevel, due, notified, retreated, rearmed, alertFaults>>

\* The API process dies and starts again: only the rows are left.
RestartEngine ==
  /\ Falls("crashes")
  /\ ticks' = <<>> /\ index' = [a \in Alerts |-> "none"] /\ lastLevel' = Unseen
  /\ reload' = NoReload /\ cmd' = <<>> /\ due' = {} /\ rearmed' = {}
  /\ UNCHANGED <<alertRow, level, notified, retreated>>

AlertNext ==
  \/ \E a \in Alerts : CreateAlert(a) \/ DeleteAlert(a) \/ PauseAlert(a)
  \/ \E price \in Levels : OnTick(price)
  \/ OnTickEval \/ ApplyReconcile \/ FireDue
  \/ ListActive \/ FetchSnapshot \/ SendReconcile \/ RestartEngine

AlertSpec == AlertInit /\ [][AlertNext]_alertVars

\* Both goroutines are supervised, the ticker never stops, and select takes a
\* command though ticks keep coming.
AlertFairness ==
  /\ WF_alertState(ListActive) /\ WF_alertState(FetchSnapshot) /\ WF_alertState(SendReconcile)
  /\ SF_alertState(ApplyReconcile) /\ WF_alertState(FireDue)

-----------------------------------------------------------------------------
(* Properties. *)

\* PostgresAlertRepository: no crash, failed write or stale copy in the engine leaves
\* a row disarmed without the notification that goes with it.
DisarmedWasNotified ==
  \A a \in Alerts : alertRow[a].there /\ alertRow[a].began /\ ~alertRow[a].armed => notified[a] > 0

\* The user hears of an alert again only after the price was a band back: neither a
\* tick, nor the snapshot of a reconcile whose rows were read before the alert
\* fired, repeats a notification.
NoRepeatWithoutPullback ==
  [][\A a \in Alerts : notified'[a] # notified[a] => notified[a] = 0 \/ a \in retreated]_alertVars

\* Each cross is told once: neither lost by a disarmed row nor repeated.
CrossIsToldOnce == []DisarmedWasNotified /\ NoRepeatWithoutPullback

\* applyReconcile, the snapshot backstop: an armed, active alert does not stay
\* armed while the price stays past its threshold, whatever ticks were shed, writes
\* failed or restarts came in between.
StandingCrossFires ==
  \A a \in Alerts :
    []<>~(alertRow[a].armed /\ alertRow[a].active /\ Past(a, level))

\* "recurring, self-re-arming" (alert/service.go): a crossing seen after a pullback
\* that re-armed the alert notifies again.
Recurring ==
  [][\A a \in due \ due' : a \in rearmed /\ alertFaults' = alertFaults /\ alertRow[a].there
        => notified'[a] = notified[a] + 1]_alertVars
=============================================================================

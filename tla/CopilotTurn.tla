---------------------------- MODULE CopilotTurn ----------------------------
(***************************************************************************)
(* The turns of one copilot thread: the service that reserves the thread,   *)
(* persists the user's message and consumes the turn's events, the sidecar  *)
(* that runs the agent and holds a gated tool open, the stream between      *)
(* them, and the user who cancels, approves or rejects while it flows.      *)
(*                                                                         *)
(* A turn proposes at most one gated action; the action bears its turn's    *)
(* name. Tokens and ungated tools only pass through and are left out.       *)
(***************************************************************************)
EXTENDS Integers, Sequences

CONSTANTS
  Turns,         \* the sends of a behaviour
  CopilotFaults  \* [breaks, restarts, losses]: bounds on failures of a call or of the
                 \* stream, restarts of the server, and lost replies to an approval

ASSUME CopilotAssumption == CopilotFaults \subseteq [breaks : Nat, restarts : Nat, losses : Nat]

VARIABLES
  chat,      \* the messages of the thread in the order of their seq
  reserved,  \* the registry: turns under way
  turn,      \* a turn in the service: phase, prompt, final, whether its ctx is over
  pending,   \* the approval registry
  click,     \* the user's decision on an action: none, on its way to the sidecar, delivered
  agreed,    \* the actions the user approved
  card,      \* what was last published of an action
  side,      \* a turn in the sidecar
  frames,      \* the events of a turn on their way
  halting,   \* cancels on their way to the sidecar
  ran,       \* the gated tools that ran
  faults

copilotState == <<chat, reserved, turn, pending, click, agreed, card, side, frames, halting, ran>>
copilotVars == <<copilotState, faults>>

Phases == {"unsent", "conflict", "reserved", "loading", "ready", "streaming", "closing", "closed", "ended"}
Nobody == "nobody"

\* The type invariant: a thread is reserved by the turns between their send and their end,
\* and a turn's stream of frames stays short.
CopilotTypeOK ==
  /\ \A i \in DOMAIN chat : chat[i].role \in {"user", "assistant"} /\ chat[i].turn \in Turns
  /\ \A t \in Turns : turn[t].phase \in Phases /\ turn[t].prompt \in Turns \cup {Nobody}
  /\ reserved = {t \in Turns : turn[t].phase \notin {"unsent", "conflict", "ended"}}
  /\ pending \cup agreed \cup ran \cup halting \subseteq Turns
  /\ \A t \in Turns :
       /\ card[t] \in {"none", "shown", "failed", "done"}
       /\ side[t] \in {"none", "running", "asked", "holding", "acting", "over"}
       /\ Len(frames[t]) <= 5

CopilotInit ==
  /\ chat = <<>> /\ reserved = {} /\ pending = {} /\ agreed = {} /\ ran = {} /\ halting = {}
  /\ turn = [t \in Turns |-> [phase |-> "unsent", prompt |-> Nobody, final |-> FALSE, over |-> FALSE]]
  /\ click = [t \in Turns |-> "none"] /\ card = [t \in Turns |-> "none"]
  /\ side = [t \in Turns |-> "none"] /\ frames = [t \in Turns |-> <<>>]
  /\ faults \in CopilotFaults

SpendFault(what) == faults[what] > 0 /\ faults' = [faults EXCEPT ![what] = @ - 1]
Phase(t, phase) == turn' = [turn EXCEPT ![t].phase = phase]
Emit(t, event) == frames' = [frames EXCEPT ![t] = Append(@, event)]

\* The deferred release.
Release(t) == Phase(t, "ended") /\ reserved' = reserved \ {t}

-----------------------------------------------------------------------------
(* The service. *)

\* One turn per thread, under the registry's mutex.
ThreadFree(t) == reserved = {}

SendMessage(t) ==
  /\ turn[t].phase = "unsent"
  /\ IF ThreadFree(t) THEN Phase(t, "reserved") /\ reserved' = reserved \cup {t}
     ELSE Phase(t, "conflict") /\ UNCHANGED reserved
  /\ UNCHANGED <<chat, pending, click, agreed, card, side, frames, halting, ran, faults>>

BugAppendFailed(t) == Phase(t, "conflict") /\ UNCHANGED reserved

\* The user's message was not stored: no turn starts.
AppendFailed(t) == Release(t)

AppendUserMessage(t) ==
  /\ turn[t].phase = "reserved"
  /\ \/ chat' = Append(chat, [role |-> "user", turn |-> t]) /\ Phase(t, "loading") /\ UNCHANGED <<reserved, faults>>
     \/ SpendFault("breaks") /\ AppendFailed(t) /\ UNCHANGED chat
  /\ UNCHANGED <<pending, click, agreed, card, side, frames, halting, ran>>

\* The prompt is whatever the thread ends with; a cancelled ctx fails the read.
LoadConversation(t) ==
  /\ turn[t].phase = "loading"
  /\ IF turn[t].over \/ chat = <<>> \/ chat[Len(chat)].role # "user" THEN Release(t)
     ELSE turn' = [turn EXCEPT ![t].phase = "ready", ![t].prompt = chat[Len(chat)].turn] /\ UNCHANGED reserved
  /\ UNCHANGED <<chat, pending, click, agreed, card, side, frames, halting, ran, faults>>

StartTurn(t) ==
  /\ turn[t].phase = "ready"
  /\ \/ ~turn[t].over /\ side' = [side EXCEPT ![t] = "running"] /\ Phase(t, "streaming") /\ UNCHANGED <<reserved, faults>>
     \/ turn[t].over /\ Release(t) /\ UNCHANGED <<side, faults>>
     \/ SpendFault("breaks") /\ Release(t) /\ UNCHANGED side
  /\ UNCHANGED <<chat, pending, click, agreed, card, frames, halting, ran>>

\* Entries older than the TTL go when one is registered; the TTL outlasts a hold.
Register(t) == \E old \in SUBSET {u \in pending : side[u] # "holding"} : pending' = (pending \ old) \cup {t}

ReceiveEvent(t) ==
  /\ turn[t].phase = "streaming" /\ frames[t] # <<>>
  /\ LET event == Head(frames[t])
     IN /\ frames' = [frames EXCEPT ![t] = Tail(@)]
        /\ turn' = [turn EXCEPT ![t].phase = IF event = "done" THEN "closing" ELSE "streaming",
                                ![t].final = (@ \/ event = "message")]
        /\ card' = [card EXCEPT ![t] = CASE event = "proposed" -> "shown" [] event = "denied" -> "failed"
                                         [] event = "result" -> "done" [] OTHER -> card[t]]
        /\ IF event = "proposed" THEN Register(t)
           ELSE pending' = IF event \in {"denied", "result"} THEN pending \ {t} ELSE pending
  /\ UNCHANGED <<chat, reserved, click, agreed, side, halting, ran, faults>>

\* The channel closes without done: the stream ended, the ctx is over, or no
\* heartbeat came in time. What was still on its way is lost.
StreamBreaks(t) ==
  /\ turn[t].phase = "streaming"
  /\ \/ ((frames[t] = <<>> /\ side[t] = "over") \/ turn[t].over) /\ UNCHANGED faults
     \/ SpendFault("breaks")
  /\ Phase(t, "closing") /\ frames' = [frames EXCEPT ![t] = <<>>]
  /\ UNCHANGED <<chat, reserved, pending, click, agreed, card, side, halting, ran>>

\* The answer is kept with a ctx of its own, also when the turn was cancelled.
PersistAnswer(t) ==
  /\ turn[t].phase = "closing" /\ Phase(t, "closed")
  /\ chat' = IF turn[t].final THEN Append(chat, [role |-> "assistant", turn |-> t]) ELSE chat
  /\ UNCHANGED <<reserved, pending, click, agreed, card, side, frames, halting, ran, faults>>

FinishTurn(t) ==
  /\ turn[t].phase = "closed" /\ Release(t)
  /\ UNCHANGED <<chat, pending, click, agreed, card, side, frames, halting, ran, faults>>

BugCancelRegistered(t) == turn' = [turn EXCEPT ![t].over = TRUE] /\ reserved' = reserved \ {t}

\* Cancelling ends the ctx; the turn keeps its reservation until it returns.
CancelRegistered(t) == turn' = [turn EXCEPT ![t].over = TRUE] /\ UNCHANGED reserved

CancelTurn(t) ==
  /\ t \in reserved /\ ~turn[t].over /\ CancelRegistered(t) /\ halting' = halting \cup {t}
  /\ UNCHANGED <<chat, pending, click, agreed, card, side, frames, ran, faults>>

TurnDeadline(t) ==
  /\ t \in reserved /\ turn' = [turn EXCEPT ![t].over = TRUE]
  /\ UNCHANGED <<chat, reserved, pending, click, agreed, card, side, frames, halting, ran, faults>>

\* Whoever takes the entry is the only one to resolve it; a second click finds none.
TakePending(t) == t \in pending /\ pending' = pending \ {t}

Decide(t, yes) ==
  /\ card[t] # "none" /\ click[t] \notin {"approve", "reject"} /\ TakePending(t)
  /\ click' = [click EXCEPT ![t] = IF yes THEN "approve" ELSE "reject"]
  /\ agreed' = IF yes THEN agreed \cup {t} ELSE agreed
  /\ UNCHANGED <<chat, reserved, turn, card, side, frames, halting, ran, faults>>

\* Any error of the call counts as a hold that is gone.
Resolve(t) ==
  LET yes == click[t] = "approve"
  IN /\ click[t] \in {"approve", "reject"}
     /\ click' = [click EXCEPT ![t] = "delivered"]
     /\ \/ /\ side[t] = "holding"
           /\ side' = [side EXCEPT ![t] = IF yes THEN "acting" ELSE "asked"]
           /\ Emit(t, IF yes THEN "approved" ELSE "denied")
           /\ \/ UNCHANGED <<card, faults>>
              \/ SpendFault("losses") /\ card' = [card EXCEPT ![t] = "failed"]
        \/ /\ side[t] # "holding"
           /\ card' = [card EXCEPT ![t] = "failed"]
           /\ UNCHANGED <<side, frames, faults>>
     /\ UNCHANGED <<chat, reserved, turn, pending, agreed, halting, ran>>

\* Registries and goroutines die with the server; chat and cards stay.
RestartServer ==
  /\ SpendFault("restarts")
  /\ turn' = [t \in Turns |-> IF t \in reserved THEN [turn[t] EXCEPT !.phase = "ended"] ELSE turn[t]]
  /\ reserved' = {} /\ pending' = {} /\ halting' = {}
  /\ click' = [t \in Turns |-> IF click[t] = "none" THEN "none" ELSE "delivered"]
  /\ frames' = [t \in Turns |-> <<>>]
  /\ UNCHANGED <<chat, agreed, card, side, ran>>

-----------------------------------------------------------------------------
(* The sidecar. *)

SideStep(t, from, to, events) ==
  /\ side[t] = from /\ side' = [side EXCEPT ![t] = to]
  /\ frames' = [frames EXCEPT ![t] = IF turn[t].phase = "streaming" THEN @ \o events ELSE <<>>]

HoldTool(t) ==
  /\ SideStep(t, "running", "holding", <<"proposed">>)
  /\ UNCHANGED <<chat, reserved, turn, pending, click, agreed, card, halting, ran, faults>>

BugAfterTimeout(t) == SideStep(t, "holding", "acting", <<"approved">>)
AfterTimeout(t) == SideStep(t, "holding", "asked", <<"denied">>)

HoldTimesOut(t) ==
  /\ AfterTimeout(t)
  /\ UNCHANGED <<chat, reserved, turn, pending, click, agreed, card, halting, ran, faults>>

RunGatedTool(t) ==
  /\ SideStep(t, "acting", "asked", <<"result">>) /\ ran' = ran \cup {t}
  /\ UNCHANGED <<chat, reserved, turn, pending, click, agreed, card, halting, faults>>

\* A run ends with an answer or, failed, with none; done comes last in either case.
EndRun(t) ==
  /\ \E from \in {"running", "asked"}, said \in {<<"message", "done">>, <<"done">>} : SideStep(t, from, "over", said)
  /\ UNCHANGED <<chat, reserved, turn, pending, click, agreed, card, halting, ran, faults>>

\* A closed response or a cancel ends the turn and denies a hold quietly.
EndTurn(t) ==
  /\ side[t] \notin {"none", "over"} /\ (turn[t].phase # "streaming" \/ t \in halting)
  /\ side' = [side EXCEPT ![t] = "over"] /\ halting' = halting \ {t}
  /\ UNCHANGED <<chat, reserved, turn, pending, click, agreed, card, frames, ran, faults>>

SidecarDies(t) ==
  /\ side[t] \notin {"none", "over"} /\ SpendFault("breaks") /\ side' = [side EXCEPT ![t] = "over"]
  /\ UNCHANGED <<chat, reserved, turn, pending, click, agreed, card, frames, halting, ran>>

ServiceStep(t) ==
  AppendUserMessage(t) \/ LoadConversation(t) \/ StartTurn(t) \/ ReceiveEvent(t) \/ StreamBreaks(t)
    \/ PersistAnswer(t) \/ FinishTurn(t)

CopilotNext ==
  \/ \E t \in Turns :
       \/ SendMessage(t) \/ ServiceStep(t) \/ CancelTurn(t) \/ TurnDeadline(t)
       \/ Decide(t, TRUE) \/ Decide(t, FALSE) \/ Resolve(t)
       \/ HoldTool(t) \/ HoldTimesOut(t) \/ RunGatedTool(t) \/ EndRun(t) \/ EndTurn(t) \/ SidecarDies(t)
  \/ RestartServer

\* The turn's goroutine runs and its context has a deadline; nothing is owed by
\* the sidecar or the user.
CopilotFairness == \A t \in Turns : WF_copilotState(ServiceStep(t)) /\ WF_copilotState(TurnDeadline(t))

CopilotSpec == CopilotInit /\ [][CopilotNext]_copilotVars

-----------------------------------------------------------------------------
(* Properties. *)

\* A turn answers the message it was sent with, though it finds it as the last one
\* of the thread, after the send returned (SendMessage, runAgent).
PromptIsOwn == \A t \in Turns : turn[t].prompt \in {t, Nobody}

\* The answer of a turn directly follows its question, cancelled turns included:
\* what one turn still persists never lands behind the next user's message.
AnswersFollowQuestions ==
  \A i \in DOMAIN chat : chat[i].role = "assistant" => i > 1 /\ chat[i-1] = [role |-> "user", turn |-> chat[i].turn]

\* The thread reads as it was held: each question with the answer it was given.
ThreadReadsAsAsked == PromptIsOwn /\ AnswersFollowQuestions

\* A gated tool runs only if the user approved that call, whatever timeouts,
\* cancels and repeated clicks do to the hold (makeCanUseTool, Gateway.Resolve).
GatedToolsWereApproved == ran \subseteq agreed

\* An action published as failed or expired never ran (ApproveAction).
FailedActionsNeverRan == \A t \in Turns : card[t] = "failed" => t \notin ran

\* What ran, what the user agreed to and what the cards tell are the same story.
ToolsMatchApprovals == GatedToolsWereApproved /\ FailedActionsNeverRan

\* A conversation is kept as it was held, and acts only as it was agreed.
TurnsAreTrue == ThreadReadsAsAsked /\ ToolsMatchApprovals

\* A thread never stays reserved: the turn that holds it returns.
TurnsReturn == \A t \in Turns : t \in reserved ~> t \notin reserved
=============================================================================

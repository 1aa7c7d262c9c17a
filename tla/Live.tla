-------------------------------- MODULE Live --------------------------------
(***************************************************************************)
(* What clients see live, one component at a time: a behaviour is one of    *)
(* the component "part" names, in any of its instances; the others stay as  *)
(* they begin. The components share no state.                              *)
(***************************************************************************)
EXTENDS Changefeed, Realtime, ShardStream, CopilotTurn, PriceAlerts, MarketHub, PriceHistory

CONSTANT Parts   \* the components to look at

VARIABLE part

ASSUME LiveParts == Parts \subseteq {"feed", "hub", "stream", "copilot", "alerts", "market", "prices"}

\* The first of the instances, for the components that are not looked at.
First(S) == CHOOSE x \in S : TRUE

Quiet(c) == market.worth = c.worth /\ market.actions = c.actions /\ market.mode = c.mode /\ market.limit = c.limit

LiveInit ==
  /\ part \in Parts
  /\ Init
  /\ RealtimeInit
  /\ StreamInit /\ (part = "stream" \/ (places = 0 /\ view.observed /\ view.same = 0))
  /\ CopilotInit /\ (part = "copilot" \/ faults = First(CopilotFaults))
  /\ AlertInit /\ (part = "alerts" \/ (alertFaults = First(AlertFaults) /\ level = 0))
  /\ HubInit /\ (part = "market" \/ hub = First(HubCases))
  /\ PriceInit /\ (part = "prices" \/ Quiet(First(PriceCases)))

LiveNext ==
  \/ part = "feed" /\ Next /\ UNCHANGED <<part, realtimeVars, streamVars, copilotVars, alertVars, hubVars, priceVars>>
  \/ part = "hub" /\ RealtimeNext /\ UNCHANGED <<part, vars, streamVars, copilotVars, alertVars, hubVars, priceVars>>
  \/ part = "stream" /\ StreamNext /\ UNCHANGED <<part, vars, realtimeVars, copilotVars, alertVars, hubVars, priceVars>>
  \/ part = "copilot" /\ CopilotNext /\ UNCHANGED <<part, vars, realtimeVars, streamVars, alertVars, hubVars, priceVars>>
  \/ part = "alerts" /\ AlertNext /\ UNCHANGED <<part, vars, realtimeVars, streamVars, copilotVars, hubVars, priceVars>>
  \/ part = "market" /\ HubNext /\ UNCHANGED <<part, vars, realtimeVars, streamVars, copilotVars, alertVars, priceVars>>
  \/ part = "prices" /\ PriceNext /\ UNCHANGED <<part, vars, realtimeVars, streamVars, copilotVars, alertVars, hubVars>>

LiveSpec == LiveInit /\ [][LiveNext]_<<part, vars, realtimeVars, streamVars, copilotVars, alertVars, hubVars, priceVars>>

\* The type invariants of the components.
LiveTypeOK == FeedTypeOK /\ RealtimeTypeOK /\ StreamTypeOK /\ CopilotTypeOK /\ AlertTypeOK /\ HubTypeOK /\ (part = "prices" => PriceTypeOK)
=============================================================================

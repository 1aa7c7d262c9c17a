--------------------------- MODULE MCDesktopSync ---------------------------
(* One tenant, a tree node and a shard_kv key, one desktop client.         *)
EXTENDS DesktopSync, TLC

CONSTANTS u1, a, key, heartbeat, socket,
          Prunes, SignOuts, Restores, Failures, Disconnects

MCUsers == {u1}
MCNodes == {a, key}
MCTree == {a}
NoTree == {}
MCOwner == [n \in MCNodes |-> u1]
MCPullers == {heartbeat, socket}
MCBudget == [d \in Disturbances |->
  CASE d = "prune" -> Prunes [] d = "signout" -> SignOuts
    [] d = "restore" -> Restores [] d = "failure" -> Failures
    [] d = "disconnect" -> Disconnects]
=============================================================================

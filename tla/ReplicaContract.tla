-------------------------- MODULE ReplicaContract --------------------------
(***************************************************************************)
(* What workspace sync promises a client, with no log, cursor or message:  *)
(* the server publishes versions of entities, and a replica shows for each *)
(* entity some published version, moving only forward.                     *)
(***************************************************************************)
EXTENDS Integers, Sequences

CONSTANTS Nodes

VARIABLES
  versions,   \* versions[n][k]: what entity n was at seq k
  view        \* view[n]: the seq, and the version, the replica holds of n

contractVars == <<versions, view>>

\* The server publishes further versions of any entities.
Publish ==
  /\ \A n \in Nodes : Len(versions[n]) <= Len(versions'[n])
                      /\ SubSeq(versions'[n], 1, Len(versions[n])) = versions[n]
  /\ UNCHANGED view

\* The replica catches up on any entities, each to any later version.
Observe ==
  /\ UNCHANGED versions
  /\ \A n \in Nodes :
       view'[n] = view[n]
       \/ \E k \in 1..Len(versions[n]) :
            k > view[n].seq /\ view'[n] = [seq |-> k, ver |-> versions[n][k]]

ContractInit ==
  \A n \in Nodes :
    view[n].seq = 0 \/ \E k \in 1..Len(versions[n]) :
                          view[n] = [seq |-> k, ver |-> versions[n][k]]

ContractSpec == ContractInit /\ [][Publish \/ Observe]_contractVars
=============================================================================

----------------------------- MODULE Workspace -----------------------------
(***************************************************************************)
(* What users keep on the server, one component at a time: a behaviour is   *)
(* one of the component "part" names, in any of its instances; the others   *)
(* stay as they begin.  The components share no state.                     *)
(***************************************************************************)
EXTENDS ShardResources, ArtifactTree, Credentials, Connections, Ingestion, PageEdits, UserLists,
  ShardQueries

CONSTANT Parts   \* the components to look at

VARIABLE part

ASSUME WorkspaceParts == Parts \subseteq {"shard", "tree", "auth", "links", "docs", "pages", "lists", "queries"}

\* One of the instances, for the components that are not looked at.
OneOf(S) == CHOOSE s \in S : TRUE

WorkspaceInit ==
  /\ part \in Parts
  /\ part = "docs" \/ (part # "docs" /\ library = OneOf(Archives))
  /\ part = "queries" \/ (part # "queries" /\ shelf = OneOf({s \in QueryScenes : Compiles(s.contracts[1])}))
  /\ LET one == OneOf(Scenes)
     IN \/ part = "pages"
        \/ /\ part # "pages" /\ turn = [a \in Agents |-> NoTurn(one.tools[a])]
           /\ typing = one.typing /\ tagging = one.tagging /\ faults = one.faults
  /\ LET one == OneOf(ListScenes)
     IN \/ part = "lists"
        \/ part # "lists" /\ vendor = one.vendor /\ want = [r \in ListAsks |-> NewWant(one.asks[r])]
  /\ ResourceInit /\ (part = "shard" \/ (shop.store = "mongo" /\ shop.crashes = 1))
  /\ TreeInit
  /\ CredentialInit /\ (part = "auth" \/ \A c \in Calls : call[c].route = OneOf(CallPlans)[c])
  /\ ConnectionInit /\ (part = "links" \/ \A c \in LinkCalls : asked[c].op = OneOf(LinkPlans)[c])
  /\ IngestInit /\ PageInit /\ ListInit /\ QueryInit

WorkspaceNext ==
  \/ part = "shard" /\ ResourceNext
     /\ UNCHANGED <<part, treeVars, credentialVars, connectionVars, ingestVars, pageVars, listVars, queryVars>>
  \/ part = "tree" /\ TreeNext
     /\ UNCHANGED <<part, resourceVars, credentialVars, connectionVars, ingestVars, pageVars, listVars, queryVars>>
  \/ part = "auth" /\ CredentialNext
     /\ UNCHANGED <<part, resourceVars, treeVars, connectionVars, ingestVars, pageVars, listVars, queryVars>>
  \/ part = "links" /\ ConnectionNext
     /\ UNCHANGED <<part, resourceVars, treeVars, credentialVars, ingestVars, pageVars, listVars, queryVars>>
  \/ part = "docs" /\ IngestNext
     /\ UNCHANGED <<part, resourceVars, treeVars, credentialVars, connectionVars, pageVars, listVars, queryVars>>
  \/ part = "pages" /\ PageNext
     /\ UNCHANGED <<part, resourceVars, treeVars, credentialVars, connectionVars, ingestVars, listVars, queryVars>>
  \/ part = "lists" /\ ListNext
     /\ UNCHANGED <<part, resourceVars, treeVars, credentialVars, connectionVars, ingestVars, pageVars, queryVars>>
  \/ part = "queries" /\ QueryNext
     /\ UNCHANGED <<part, resourceVars, treeVars, credentialVars, connectionVars, ingestVars, pageVars, listVars>>

WorkspaceSpec ==
  WorkspaceInit
  /\ [][WorkspaceNext]_<<part, resourceVars, treeVars, credentialVars, connectionVars, ingestVars, pageVars, listVars,
                      queryVars>>

\* The type invariant of the component that is looked at; the others do not move.
WorkspaceTypeOK ==
  /\ part = "shard" => ResourceTypeOK
  /\ part = "tree" => TreeTypeOK
  /\ part = "auth" => CredentialTypeOK
  /\ part = "links" => ConnectionTypeOK
  /\ part = "docs" => IngestTypeOK
  /\ part = "pages" => PageTypeOK
  /\ part = "lists" => ListTypeOK
  /\ part = "queries" => QueryTypeOK
=============================================================================

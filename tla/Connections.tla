---------------------------- MODULE Connections ----------------------------
(***************************************************************************)
(* Connections of a user to providers, whose secrets Nango keeps: the rows  *)
(* of provider_connections follow what Nango lists and announces, by a      *)
(* synchronisation the user asks for and by webhooks that come late or      *)
(* twice.  Disconnecting takes three calls in a row, one of them to Nango.  *)
(***************************************************************************)
EXTENDS Naturals, FiniteSets

CONSTANTS
  Linked,           \* connections Nango may hold, by their external ids
  ConnectionRows,   \* ids of rows
  LinkCalls,        \* requests to the service
  LinkPlans,        \* instances: what each request asks
  LinkFaults,       \* how many calls to Nango fail or processes die
  NoLink

ASSUME ConnectionAssumption ==
  /\ LinkPlans \subseteq [LinkCalls -> {"sync", "webhook", "disconnect", "credentials"}]
  /\ LinkFaults \in Nat /\ NoLink \notin Linked

VARIABLES
  remote,    \* what Nango holds, and what it held before
  link,      \* provider_connections
  streaming, \* rows whose provider streams are to be synchronised
  asked,     \* the requests
  mishaps    \* faults left

connectionVars == <<remote, link, streaming, asked, mishaps>>

NoConnection == [of |-> NoLink, status |-> "none"]
NewAsk(op) == [op |-> op, at |-> "unsent", row |-> 0, todo |-> {}, outcome |-> "none"]

\* The type invariant.
ConnectionTypeOK ==
  /\ remote \in [held : SUBSET Linked, gone : SUBSET Linked] /\ remote.held \cap remote.gone = {}
  /\ link \in [ConnectionRows -> [of : Linked \cup {NoLink}, status : {"none", "active", "disconnected"}]]
  /\ streaming \subseteq {r \in ConnectionRows : link[r].status # "none"}
  /\ mishaps \in 0 .. LinkFaults

ConnectionInit ==
  /\ remote = [held |-> {}, gone |-> {}]
  /\ link = [r \in ConnectionRows |-> NoConnection]
  /\ streaming = {} /\ mishaps = LinkFaults
  /\ \E plan \in LinkPlans : asked = [c \in LinkCalls |-> NewAsk(plan[c])]

-----------------------------------------------------------------------------
(* Nango and the user. *)

\* The user goes through the provider's consent (StartConnect): Nango makes a new
\* connection, under an id it never gives again, and queues a webhook.
Consent ==
  \E x \in Linked \ (remote.held \cup remote.gone) :
    /\ remote' = [remote EXCEPT !.held = @ \cup {x}]
    /\ UNCHANGED <<link, streaming, asked, mishaps>>

\* Streams are made for an active connection by what reads it; assumed of the reader: not
\* while a request of the service has its row in hand.
Subscribe ==
  \E r \in ConnectionRows :
    /\ link[r].status = "active" /\ r \notin streaming /\ link[r].of \in remote.held
    /\ \A c \in LinkCalls : asked[c].row # r
    /\ streaming' = streaming \cup {r} /\ UNCHANGED <<remote, link, asked, mishaps>>

-----------------------------------------------------------------------------
(* Requests. *)

Now(c, changes) == asked' = [asked EXCEPT ![c] = changes]
Done(c, outcome) == Now(c, [asked[c] EXCEPT !.at = "done", !.outcome = outcome])
Mishap(c, outcome) == mishaps > 0 /\ mishaps' = mishaps - 1 /\ Done(c, outcome)

\* UpsertProviderConnection: the row of that id, of whatever status, becomes active; the
\* table has no constraint that would stop two statements from both inserting.
RowsOf(x) == {r \in ConnectionRows : link[r].of = x}
Free == {r \in ConnectionRows : link[r].status = "none"}
UpsertProviderConnection(x, saw) ==
  \/ \E r \in saw : link' = [link EXCEPT ![r].status = "active"]
  \/ saw = {} /\ \E r \in Free : link' = [link EXCEPT ![r] = [of |-> x, status |-> "active"]]

\* SyncConnections: what Nango lists for the user, or its error.
ListRemote(c) ==
  /\ asked[c].op = "sync" /\ asked[c].at = "unsent"
  /\ \/ Now(c, [asked[c] EXCEPT !.at = "upsert", !.todo = remote.held]) /\ UNCHANGED mishaps
     \/ Mishap(c, "failed")
  /\ UNCHANGED <<remote, link, streaming>>

\* One row after the other; an error ends the request with what was saved.
UpsertListed(c) ==
  /\ asked[c].op = "sync" /\ asked[c].at = "upsert"
  /\ \/ asked[c].todo = {} /\ Done(c, "ok") /\ UNCHANGED <<link, mishaps>>
     \/ \E x \in asked[c].todo :
          /\ UpsertProviderConnection(x, RowsOf(x))
          /\ Now(c, [asked[c] EXCEPT !.todo = @ \ {x}]) /\ UNCHANGED mishaps
     \/ Mishap(c, "failed") /\ UNCHANGED link
  /\ UNCHANGED <<remote, streaming>>

\* HandleNangoWebhook of a creation, which names the user: it may come when the connection
\* is long gone, again, or while a synchronisation saw no row either.
ReadForWebhook(c) ==
  /\ asked[c].op = "webhook" /\ asked[c].at = "unsent"
  /\ \E x \in remote.held \cup remote.gone :
       Now(c, [asked[c] EXCEPT !.at = IF RowsOf(x) = {} THEN "insert" ELSE "update", !.todo = {x}])
  /\ UNCHANGED <<remote, link, streaming, mishaps>>

HandleNangoWebhook(c) ==
  /\ asked[c].op = "webhook" /\ asked[c].at \in {"insert", "update"}
  /\ \E x \in asked[c].todo :
       UpsertProviderConnection(x, IF asked[c].at = "insert" THEN {} ELSE RowsOf(x))
  /\ Done(c, "ok")
  /\ UNCHANGED <<remote, streaming, mishaps>>

\* Disconnect: the row must be active as it is listed.
FindActive(c) ==
  /\ asked[c].op = "disconnect" /\ asked[c].at = "unsent"
  /\ \E r \in ConnectionRows :
       IF link[r].status = "active" THEN Now(c, [asked[c] EXCEPT !.at = "delete", !.row = r])
       ELSE Done(c, "missing")
  /\ UNCHANGED <<remote, link, streaming, mishaps>>

\* Mutant: an error of Nango is passed over.
BugDeleteRemote(c) ==
  LET x == link[asked[c].row].of
  IN /\ asked[c].op = "disconnect" /\ asked[c].at = "delete"
     /\ \/ remote' = [held |-> remote.held \ {x}, gone |-> remote.gone \cup {x}] /\ UNCHANGED mishaps
        \/ mishaps > 0 /\ mishaps' = mishaps - 1 /\ UNCHANGED remote
     /\ Now(c, [asked[c] EXCEPT !.at = "mark"])
     /\ UNCHANGED <<link, streaming>>

\* The connection at Nango first: if that fails, or it is gone there already, nothing
\* else is touched.
DeleteRemote(c) ==
  LET x == link[asked[c].row].of
  IN /\ asked[c].op = "disconnect" /\ asked[c].at = "delete"
     /\ \/ x \in remote.held /\ remote' = [held |-> remote.held \ {x}, gone |-> remote.gone \cup {x}]
           /\ Now(c, [asked[c] EXCEPT !.at = "mark"]) /\ UNCHANGED mishaps
        \/ x \notin remote.held /\ Done(c, "failed") /\ UNCHANGED <<remote, mishaps>>
        \/ Mishap(c, "failed") /\ UNCHANGED remote
     /\ UNCHANGED <<link, streaming>>

\* DisconnectProviderConnection, WHERE active: another request may have been faster.
MarkDisconnected(c) ==
  LET r == asked[c].row
  IN /\ asked[c].op = "disconnect" /\ asked[c].at = "mark"
     /\ \/ link[r].status = "active" /\ link' = [link EXCEPT ![r].status = "disconnected"]
           /\ Now(c, [asked[c] EXCEPT !.at = "disable"]) /\ UNCHANGED mishaps
        \/ link[r].status # "active" /\ Done(c, "missing") /\ UNCHANGED <<link, mishaps>>
        \/ Mishap(c, "failed") /\ UNCHANGED link
     /\ UNCHANGED <<remote, streaming>>

DisableProviderStreams(c) ==
  /\ asked[c].op = "disconnect" /\ asked[c].at = "disable"
  /\ \/ streaming' = streaming \ {asked[c].row} /\ Done(c, "ok") /\ UNCHANGED mishaps
     \/ Mishap(c, "failed") /\ UNCHANGED streaming
  /\ UNCHANGED <<remote, link>>

\* GetConnectionCredentials: an active row, then what Nango has under it.
FindForCredentials(c) ==
  /\ asked[c].op = "credentials" /\ asked[c].at = "unsent"
  /\ \E r \in ConnectionRows :
       IF link[r].status = "active" THEN Now(c, [asked[c] EXCEPT !.at = "fetch", !.row = r])
       ELSE Done(c, "missing")
  /\ UNCHANGED <<remote, link, streaming, mishaps>>

GetConnectionCredentials(c) ==
  /\ asked[c].op = "credentials" /\ asked[c].at = "fetch"
  /\ Done(c, IF link[asked[c].row].of \in remote.held THEN "ok" ELSE "failed")
  /\ UNCHANGED <<remote, link, streaming, mishaps>>

ConnectionNext ==
  \/ Consent \/ Subscribe
  \/ \E c \in LinkCalls :
       \/ ListRemote(c) \/ UpsertListed(c)
       \/ ReadForWebhook(c) \/ HandleNangoWebhook(c)
       \/ FindActive(c) \/ DeleteRemote(c) \/ MarkDisconnected(c) \/ DisableProviderStreams(c)
       \/ FindForCredentials(c) \/ GetConnectionCredentials(c)

ConnectionSpec == ConnectionInit /\ [][ConnectionNext]_connectionVars

-----------------------------------------------------------------------------
(* Properties. *)

Disconnected == {asked[c].row : c \in {d \in LinkCalls : asked[d].op = "disconnect" /\ asked[d].outcome = "ok"}}

\* service.go: once a disconnect has answered, Nango holds the secrets no more and the
\* streams of the row rest, also when a webhook or an older list made the row active again.
DisconnectIsWhole ==
  \A r \in Disconnected : link[r].of \notin remote.held /\ r \notin streaming

\* Nor is anybody given credentials of a connection whose disconnect was answered, though
\* its row was read while it was active.
NoCredentialsAfter ==
  \A c \in LinkCalls : asked'[c].op = "credentials" /\ asked'[c].outcome = "ok" /\ asked[c].outcome # "ok"
    => asked[c].row \notin Disconnected

\* An answered disconnect holds.
DisconnectsHold == [][DisconnectIsWhole' /\ NoCredentialsAfter]_connectionVars

\* A user's row per connection at Nango, which every reader of the table assumes; two
\* upserts that both saw none insert two.
OneRowEach == \A x \in Linked : Cardinality(RowsOf(x)) <= 1
=============================================================================

------------------------------ MODULE UserLists ------------------------------
(***************************************************************************)
(* What a user keeps besides the tree: watchlists and their members, where   *)
(* they are in a document, and research folders.  A write is one            *)
(* transaction under the user's lock, and appends a frame that says what    *)
(* the row has become; a list's frame carries its members.  What comes      *)
(* before a write - finding the list a name means, making it when there is  *)
(* none, counting the lists, looking an instrument up with the vendor,      *)
(* checking the parent - is read without the lock.                          *)
(***************************************************************************)
EXTENDS Naturals, Sequences, FiniteSets, SequencesExt, Functions

CONSTANTS
  ListAsks,     \* requests
  ListScenes,   \* who asks for what, and what there is
  Tickers,      \* symbols
  NoTicker

ListOps == {"add", "read", "universe", "remove", "create", "rename", "delete", "turn", "research", "revise", "uproot"}
ListAsk == [op : ListOps, name : STRING, list : Nat, symbol : Tickers \cup {NoTicker}, instrument : Nat,
            parent : Nat, page : Nat]
ASSUME ListAssumption ==
  /\ NoTicker \notin Tickers
  /\ \A s \in ListScenes :
       /\ s.asks \in [ListAsks -> ListAsk] /\ s.vendor \in [Tickers -> {"active", "halted", "unknown"}]
       /\ s.known \in Seq([symbol : Tickers, active : BOOLEAN])
       /\ \A i, j \in DOMAIN s.known : s.known[i].symbol = s.known[j].symbol => i = j
       \* An instrument is named by who has seen it.
       /\ \A r \in ListAsks : s.asks[r].op = "add" /\ s.asks[r].symbol = NoTicker => s.asks[r].instrument \in DOMAIN s.known

VARIABLES
  catalogue,  \* instruments, in the order they were recorded: a symbol, and whether it is traded
  vendor,     \* what the vendor answers for a symbol
  watchlists, \* the lists, in the order they were made; a deleted one stays
  members,    \* watchlist_items: a list and an instrument
  readings,   \* reading_positions of a document
  nodes,      \* tree nodes: one plain folder, and research folders
  strategies, \* research_strategies: a node and its hypothesis
  frames,     \* the outbox
  want        \* the requests

listVars == <<catalogue, vendor, watchlists, members, readings, nodes, strategies, frames, want>>

Undeleted(rows) == {i \in DOMAIN rows : ~rows[i].deleted}
Traded(symbol) == {i \in DOMAIN catalogue : catalogue[i].symbol = symbol /\ catalogue[i].active}

\* ORDER BY position, created_at LIMIT 1.
DefaultWatchlistID ==
  {i \in Undeleted(watchlists) : \A j \in Undeleted(watchlists) :
     \/ watchlists[i].position < watchlists[j].position
     \/ watchlists[i].position = watchlists[j].position /\ i <= j}

(* A frame holds the row as the transaction leaves it; of a deleted row only that. *)
LightWatchlist(w, i, items) ==
  IF w.deleted THEN [op |-> "delete"]
  ELSE [op |-> "upsert", name |-> w.name, position |-> w.position, items |-> {m[2] : m \in {n \in items : n[1] = i}}]
LightFolder(n) == IF n.deleted THEN [op |-> "delete"]
                ELSE [op |-> "upsert", title |-> n.title, parent |-> n.parent, position |-> n.position]
LightReading(r) == [op |-> "upsert", page |-> r.page]
FrameOf(kind, i, seq, says) == [kind |-> kind, id |-> i, seq |-> seq, says |-> says]

NewWant(ask) == [ask |-> ask, stage |-> "idle", instrument |-> 0, list |-> 0, place |-> 0, answer |-> "none"]

ListInit ==
  \E s \in ListScenes :
    /\ catalogue = s.known /\ vendor = s.vendor
    /\ watchlists = <<>> /\ members = {}
    /\ readings = [page |-> 0, seq |-> 0]
    /\ nodes = <<[kind |-> "folder", title |-> "f", parent |-> 0, position |-> 1, seq |-> 0, deleted |-> FALSE]>>
    /\ strategies = {}
    /\ frames = <<>>
    /\ want = [r \in ListAsks |-> NewWant(s.asks[r])]

Op(r) == want[r].ask.op
Stands(r, stage) == want[r].stage = stage
To(r, stage) == want' = [want EXCEPT ![r].stage = stage]
Answers(r, a) == want' = [want EXCEPT ![r].stage = "done", ![r].answer = a]
OnlyAsks == UNCHANGED <<catalogue, vendor, watchlists, members, readings, nodes, strategies, frames>>

(***************************************************************************)
(* The instrument: the registry first; a symbol it does not have is fetched *)
(* from the vendor, recorded, and looked up again.                          *)
(***************************************************************************)
Lookup(r, stage, missed) ==
  /\ Stands(r, stage)
  /\ IF Traded(want[r].ask.symbol) # {}
     THEN want' = [want EXCEPT ![r].stage = "resolve", ![r].instrument = CHOOSE i \in Traded(want[r].ask.symbol) : TRUE]
     ELSE missed
  /\ OnlyAsks
BySymbol(r) == Op(r) = "add" /\ want[r].ask.symbol # NoTicker
ResolveInstrumentID(r) == BySymbol(r) /\ Lookup(r, "idle", To(r, "fetch"))
FetchInstrument(r) ==
  /\ Stands(r, "fetch")
  /\ IF vendor[want[r].ask.symbol] = "unknown" THEN Answers(r, "unknown") ELSE To(r, "upsert")
  /\ OnlyAsks
\* The unique index is on the symbols that are traded.
UpsertInstruments(r) ==
  /\ Stands(r, "upsert")
  /\ catalogue' = LET s == want[r].ask.symbol IN
       IF vendor[s] = "active" /\ Traded(s) # {} THEN catalogue
       ELSE Append(catalogue, [symbol |-> s, active |-> vendor[s] = "active"])
  /\ To(r, "again")
  /\ UNCHANGED <<vendor, watchlists, members, readings, nodes, strategies, frames>>
LookupAgain(r) == Lookup(r, "again", Answers(r, "unknown"))

(***************************************************************************)
(* The list: the routes name it by id; the tools by its name, or as the      *)
(* default, and make it when it is not there - also to read it.             *)
(***************************************************************************)
ByName(r) == Op(r) \in {"add", "read", "universe", "remove"} /\ want[r].ask.list = 0
Resolving(r) == Stands(r, IF BySymbol(r) THEN "resolve" ELSE "idle")
Named(name) == {i \in Undeleted(watchlists) : watchlists[i].name = name}

ResolveListID(r) ==
  /\ Resolving(r)
  /\ Op(r) \in {"add", "read", "universe", "remove", "rename", "delete"}
  /\ LET name == want[r].ask.name
         found == IF ~ByName(r) THEN {want[r].ask.list}
                  ELSE IF name = "" THEN DefaultWatchlistID ELSE Named(name)
     IN IF found = {} THEN To(r, "count")
        ELSE want' = [want EXCEPT ![r].stage = "act", ![r].list = CHOOSE i \in found : TRUE]
  /\ OnlyAsks

\* CreateWatchlist counts the lists, and then inserts behind them.
CountLists(r) ==
  /\ \/ Stands(r, "count")
     \/ Op(r) = "create" /\ Stands(r, "idle")
  /\ want' = [want EXCEPT ![r].stage = "insert", ![r].place = Cardinality(Undeleted(watchlists))]
  /\ OnlyAsks
CreateWatchlist(r) ==
  /\ Stands(r, "insert")
  /\ LET i == Len(watchlists) + 1
         w == [name |-> IF want[r].ask.name = "" THEN "Watchlist" ELSE want[r].ask.name,
               position |-> want[r].place, seq |-> 1, deleted |-> FALSE]
     IN /\ watchlists' = Append(watchlists, w)
        /\ frames' = Append(frames, FrameOf("watchlist", i, 1, LightWatchlist(w, i, {})))
        /\ want' = IF Op(r) = "create" THEN [want EXCEPT ![r].stage = "done", ![r].answer = "ok"]
                   ELSE [want EXCEPT ![r].stage = "act", ![r].list = i]
  /\ UNCHANGED <<catalogue, vendor, members, readings, nodes, strategies>>

(***************************************************************************)
(* The writes of a list.                                                   *)
(***************************************************************************)
IsDoing(r, op) == Stands(r, "act") /\ Op(r) = op
Exists(i) == i \in Undeleted(watchlists)

\* A mutant: the frame is read before the members change.
BugEmitUpsert(i, w, items) ==
  LET now == [w EXCEPT !.seq = @ + 1]
  IN /\ watchlists' = [watchlists EXCEPT ![i] = now]
     /\ members' = items
     /\ frames' = Append(frames, FrameOf("watchlist", i, now.seq, LightWatchlist(now, i, members)))
\* Its own seq, and what it has become; the caller changed the row or the members.
EmitUpsert(i, w, items) ==
  LET now == [w EXCEPT !.seq = @ + 1]
  IN /\ watchlists' = [watchlists EXCEPT ![i] = now]
     /\ members' = items
     /\ frames' = Append(frames, FrameOf("watchlist", i, now.seq, LightWatchlist(now, i, items)))
Nothing == UNCHANGED <<watchlists, members, frames>>
ListWrite(r) == UNCHANGED <<catalogue, vendor, readings, nodes, strategies>>

Member(r) == IF BySymbol(r) THEN want[r].instrument ELSE want[r].ask.instrument
\* The list must be there for the insert; the answer is the same when it is not.
AddItem(r) ==
  /\ IsDoing(r, "add")
  /\ LET i == want[r].list
         m == <<i, Member(r)>>
     IN IF Exists(i) /\ m \notin members
        THEN EmitUpsert(i, watchlists[i], members \cup {m}) ELSE Nothing
  /\ Answers(r, "ok") /\ ListWrite(r)
RemoveItem(r) ==
  /\ IsDoing(r, "remove")
  /\ LET i == want[r].list
         m == <<i, want[r].ask.instrument>>
     IN IF m \in members THEN EmitUpsert(i, watchlists[i], members \ {m}) ELSE Nothing
  /\ Answers(r, "ok") /\ ListWrite(r)
RenameWatchlist(r) ==
  /\ IsDoing(r, "rename")
  /\ IF Exists(want[r].list)
     THEN EmitUpsert(want[r].list, [watchlists[want[r].list] EXCEPT !.name = want[r].ask.name], members) /\ Answers(r, "ok")
     ELSE Nothing /\ Answers(r, "not found")
  /\ ListWrite(r)
\* The members go, and the row stays as a tombstone.
DeleteWatchlist(r) ==
  /\ IsDoing(r, "delete")
  /\ LET i == want[r].list
     IN IF Exists(i)
        THEN EmitUpsert(i, [watchlists[i] EXCEPT !.deleted = TRUE], {m \in members : m[1] # i}) /\ Answers(r, "ok")
        ELSE Nothing /\ Answers(r, "not found")
  /\ ListWrite(r)
ListItems(r) ==
  /\ IsDoing(r, "read") \/ (Stands(r, "items") /\ Op(r) = "universe")
  /\ Answers(r, "ok") /\ OnlyAsks
ResolveInstruments(r) ==
  /\ IsDoing(r, "universe")
  /\ IF Exists(want[r].list) THEN To(r, "items") ELSE Answers(r, "not found")
  /\ OnlyAsks

(***************************************************************************)
(* Where the user is in a document: the last report wins.                   *)
(***************************************************************************)
PutReadingPosition(r) ==
  /\ Op(r) = "turn" /\ Stands(r, "idle")
  /\ LET now == [page |-> want[r].ask.page, seq |-> readings.seq + 1]
     IN readings' = now /\ frames' = Append(frames, FrameOf("reading_position", 1, now.seq, LightReading(now)))
  /\ Answers(r, "ok")
  /\ UNCHANGED <<catalogue, vendor, watchlists, members, nodes, strategies>>

(***************************************************************************)
(* Research folders: a node, and the strategy that goes with it.            *)
(***************************************************************************)
ParentIsFolder(r) ==
  /\ Op(r) = "research" /\ Stands(r, "idle")
  /\ LET p == want[r].ask.parent
     IN IF p = 0 \/ (p \in Undeleted(nodes) /\ nodes[p].kind = "folder") THEN To(r, "place") ELSE Answers(r, "refused")
  /\ OnlyAsks
Siblings(p) == {i \in Undeleted(nodes) : nodes[i].parent = p}
NextResearchPosition(r) ==
  /\ Stands(r, "place")
  /\ want' = [want EXCEPT ![r].stage = "plant",
                             ![r].place = 1 + Max({0} \cup {nodes[i].position : i \in Siblings(want[r].ask.parent)})]
  /\ OnlyAsks

NodeWrite(i, n, hypotheses) ==
  LET now == [n EXCEPT !.seq = @ + 1]
  IN /\ nodes' = IF i > Len(nodes) THEN Append(nodes, now) ELSE [nodes EXCEPT ![i] = now]
     /\ strategies' = hypotheses
     /\ frames' = Append(frames, FrameOf("node", i, now.seq, LightFolder(now)))
OnlyNodes == UNCHANGED <<catalogue, vendor, watchlists, members, readings>>

CreateResearchFolder(r) ==
  /\ Stands(r, "plant")
  /\ NodeWrite(Len(nodes) + 1,
               [kind |-> "research", title |-> "r", parent |-> want[r].ask.parent, position |-> want[r].place,
                seq |-> 0, deleted |-> FALSE],
               strategies \cup {<<Len(nodes) + 1, "">>})
  /\ Answers(r, "ok") /\ OnlyNodes
\* A title, a hypothesis, or both.
UpdateResearchFolder(r) ==
  /\ Op(r) = "revise" /\ Stands(r, "idle")
  /\ LET i == want[r].ask.parent
         title == want[r].ask.name # ""
     IN IF i \in Undeleted(nodes) /\ nodes[i].kind = "research"
        THEN /\ NodeWrite(i, [nodes[i] EXCEPT !.title = IF title THEN want[r].ask.name ELSE @],
                          IF title THEN strategies
                          ELSE {s \in strategies : s[1] # i} \cup {<<i, "thesis">>})
             /\ Answers(r, "ok")
        ELSE UNCHANGED <<nodes, strategies, frames>> /\ Answers(r, "not found")
  /\ OnlyNodes
\* The tree's own deletion: the folder with what is in it by then.
DeleteFolder(r) ==
  /\ Op(r) = "uproot" /\ Stands(r, "idle")
  /\ LET gone == {i \in Undeleted(nodes) : i = 1 \/ nodes[i].parent = 1}
     IN /\ nodes' = [i \in DOMAIN nodes |->
              IF i \in gone THEN [nodes[i] EXCEPT !.deleted = TRUE, !.seq = @ + 1] ELSE nodes[i]]
        /\ \E list \in [1 .. Cardinality(gone) -> gone] :
             /\ Range(list) = gone /\ \A j, k \in DOMAIN list : j < k => list[j] < list[k]
             /\ frames' = frames \o [k \in DOMAIN list |-> FrameOf("node", list[k], nodes[list[k]].seq + 1, [op |-> "delete"])]
  /\ Answers(r, "ok") /\ UNCHANGED strategies /\ OnlyNodes

ListStep(r) ==
  \/ ResolveInstrumentID(r) \/ FetchInstrument(r) \/ UpsertInstruments(r) \/ LookupAgain(r)
  \/ ResolveListID(r) \/ CountLists(r) \/ CreateWatchlist(r)
  \/ AddItem(r) \/ RemoveItem(r) \/ RenameWatchlist(r) \/ DeleteWatchlist(r) \/ ListItems(r) \/ ResolveInstruments(r)
  \/ PutReadingPosition(r)
  \/ ParentIsFolder(r) \/ NextResearchPosition(r) \/ CreateResearchFolder(r) \/ UpdateResearchFolder(r) \/ DeleteFolder(r)
ListNext == \E r \in ListAsks : ListStep(r)

ListSpec == ListInit /\ [][ListNext]_listVars

ListTypeOK ==
  /\ \A m \in members : m[1] \in DOMAIN watchlists /\ m[2] \in DOMAIN catalogue
  /\ \A i \in DOMAIN catalogue : catalogue[i].symbol \in Tickers /\ catalogue[i].active \in BOOLEAN
  /\ \A i \in DOMAIN watchlists : watchlists[i].position \in Nat /\ watchlists[i].seq \in 1 .. Len(frames)
  /\ \A r \in ListAsks : want[r].answer \in {"none", "ok", "unknown", "not found", "refused"}

(***************************************************************************)
(* Properties                                                              *)
(***************************************************************************)

(* Whoever applies the frames, each under the guard that only a greater seq
   of its entity counts, has what a reader of the rows has: the lists with
   their members, the place in the document, the nodes, and what is gone. *)
FramesOf(kind, i) == {k \in DOMAIN frames : frames[k].kind = kind /\ frames[k].id = i}
Rebuilt(kind, i, seq, says) ==
  IF FramesOf(kind, i) = {} THEN seq = 0
  ELSE /\ \A j, k \in FramesOf(kind, i) : j < k => frames[j].seq < frames[k].seq
       /\ \E k \in FramesOf(kind, i) : /\ frames[k].seq = seq /\ frames[k].says = says
                                       /\ \A j \in FramesOf(kind, i) : j <= k
FramesRebuildTheRows ==
  /\ \A i \in DOMAIN watchlists : Rebuilt("watchlist", i, watchlists[i].seq, LightWatchlist(watchlists[i], i, members))
  /\ \A i \in DOMAIN nodes : Rebuilt("node", i, nodes[i].seq, LightFolder(nodes[i]))
  /\ Rebuilt("reading_position", 1, readings.seq, LightReading(readings))

(* Members are of lists that are there; a research folder has its strategy,
   a strategy its folder, and none is in another, though its parent was only
   looked at before; a traded symbol is one instrument, however many fetch it. *)
RowsBelongTogether ==
  /\ \A m \in members : Exists(m[1])
  /\ {s[1] : s \in strategies} = {i \in DOMAIN nodes : nodes[i].kind = "research"}
  /\ Cardinality(strategies) = Cardinality({s[1] : s \in strategies})
  /\ \A i \in DOMAIN nodes : nodes[i].parent # 0 => nodes[nodes[i].parent].kind = "folder"
  /\ \A s \in Tickers : Cardinality(Traded(s)) <= 1

(* A member leaves its list only by a request to remove that instrument from
   that list or to delete the list; what was answered as added is there if
   the list is; a deleted list stays deleted. *)
MembersStay ==
  /\ \A m \in members \ members' : \E r \in ListAsks :
       /\ want'[r] # want[r] /\ want[r].list = m[1]
       /\ Op(r) = "delete" \/ (Op(r) = "remove" /\ want[r].ask.instrument = m[2])
  /\ \A r \in ListAsks : Op(r) = "add" /\ want'[r].answer = "ok" /\ want[r].answer # "ok" /\ Exists(want[r].list) =>
       <<want[r].list, Member(r)>> \in members'
  /\ \A i \in DOMAIN watchlists : watchlists[i].deleted => watchlists'[i].deleted

(* All of that, of every step. *)
ListsHold == [][FramesRebuildTheRows' /\ RowsBelongTogether' /\ MembersStay]_listVars

(* Not so: one list is made for somebody who has none.  Two requests find
   none and make one each. *)
OneDefault == \A i, j \in Undeleted(watchlists) : watchlists[i].name = watchlists[j].name => i = j
(* Not so: what is answered as added is on a list.  It was deleted before. *)
AddedIsThere ==
  [][\A r \in ListAsks : Op(r) = "add" /\ want'[r].answer = "ok" /\ want[r].answer # "ok" => Exists(want[r].list)]_listVars
(* Not so: recording reference data again changes nothing.  A symbol that is
   not traded gets another row each time it is asked for. *)
RecordedOnce == \A i, j \in DOMAIN catalogue : catalogue[i].symbol = catalogue[j].symbol => i = j
(* Not so: what is in a deleted folder is deleted. *)
NoneInDeleted == \A i \in Undeleted(nodes) : nodes[i].parent # 0 => nodes[i].parent \in Undeleted(nodes)
=============================================================================

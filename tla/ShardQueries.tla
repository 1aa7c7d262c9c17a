---------------------------- MODULE ShardQueries ----------------------------
(***************************************************************************)
(* Reading a shard's records through the bindings of its contract: what a   *)
(* contract must be to compile, what a reader's query may ask of a binding, *)
(* how the two stores answer it page by page, and what is left of a record  *)
(* when it is answered.  Reads come over the bridge, or from the shard's    *)
(* own code in the runtime, which holds a scope signed for one release.     *)
(*                                                                         *)
(* A condition is a set of clauses that must all hold, each a set of leaves *)
(* of which one must.  Parameters of external providers, the admission of   *)
(* requests and the streams are left out; who writes is in ShardResources.  *)
(***************************************************************************)
EXTENDS ShardSchema, Sequences

CONSTANTS
  QueryScenes,   \* [store, contracts, asks, records, samples, writes, expiries]
  Readers,       \* who reads
  OwnedOps,      \* what the provider of owned records can do
  PageDefault,   \* DefaultLimit
  PageMost,      \* MaxLimit
  LeafMost,      \* the number of leaves of a condition
  CursorQuota    \* cursors of one shard and environment

\* What a field may hold: null, or a value of some kind that has its place among them.
Values == {f \in [type : SchemaTypes, n : Int] : f.type = "null" => f.n = 0}
Stored(d) == IsData(d) /\ \A p \in DOMAIN d : d[p] \in Values

Predicates == [field : Pointers, op : {"exists", "eq", "in", "gt", "lt"}, values : SUBSET Values, wanted : BOOLEAN]
Queries == [where : SUBSET SUBSET Predicates, order : Seq([field : Pointers, down : BOOLEAN]), limit : Nat]

IsScene(s) ==
  /\ s = [store |-> s.store, contracts |-> s.contracts, asks |-> s.asks, records |-> s.records,
          samples |-> s.samples, writes |-> s.writes, expiries |-> s.expiries]
  /\ s.store \in {"postgres", "mongo"} /\ s.writes \in Nat /\ s.expiries \in Nat
  /\ Len(s.contracts) \in Nat \ {0}
  /\ \A k \in 1 .. Len(s.contracts) :
       LET c == s.contracts[k]
       IN c.resource.max \in Nat /\ \A b \in DOMAIN c.bindings : c.bindings[b].query \in Queries
  /\ \A r \in Readers : s.asks[r].query \in Queries
  /\ IsFiniteSet(DOMAIN s.records) /\ DOMAIN s.records \subseteq Nat /\ DOMAIN s.samples \subseteq Nat
  /\ \A i \in DOMAIN s.records : Stored(s.records[i])
  /\ \A i \in DOMAIN s.samples : Stored(s.samples[i])

ASSUME QueryAssumption ==
  /\ {PageDefault, PageMost} \subseteq Nat \ {0} /\ {LeafMost, CursorQuota} \subseteq Nat
  /\ \A s \in QueryScenes : IsScene(s)

VARIABLES
  shelf,     \* the scene: the store, the contracts in the order of their activation, what
             \* is asked, what may be written, and the bounds that are left
  release,   \* the number of the active contract
  records,   \* the live records of the dataset
  cursors,   \* the rows of shard_resource_cursors
  issued,    \* the number of cursors ever made
  reader     \* what each reader has asked and been told

queryVars == <<shelf, release, records, cursors, issued, reader>>

NoQuery == [where |-> {}, order |-> <<>>, limit |-> 0]
NoView == [actor |-> 0, release |-> 0, binding |-> "", query |-> NoQuery, select |-> {}]
NewReader == [stage |-> "new", knows |-> 0, view |-> NoView, token |-> 0, offset |-> 0, page |-> <<>>,
              next |-> 0, told |-> <<>>, seen |-> <<>>, quiet |-> FALSE]

QueryTypeOK ==
  /\ release \in 1 .. Len(shelf.contracts)
  /\ \A i \in DOMAIN records : IsData(records[i])
  /\ \A c \in cursors : c.token \in 1 .. issued /\ c.offset > 0
  /\ \A r \in Readers : reader[r].knows <= release
  /\ shelf.store = "postgres" => Cardinality(cursors) <= CursorQuota

-----------------------------------------------------------------------------
\* What a query may name, of a resource that shows this schema.
LimitOf(r, q) == IF q.limit = 0 THEN PageDefault ELSE q.limit
MostOf(r) == IF r.max = 0 THEN PageMost ELSE r.max
LeavesOf(where) == UNION where

ValidLeaf(r, s, leaf) ==
  /\ leaf.field \in r.filter /\ ScalarSchema(s, leaf.field)
  /\ \/ leaf.op = "exists"
     \/ \A v \in leaf.values :
          /\ leaf.op \in {"gt", "lt"} => v.type = "number" /\ s.types[leaf.field] \subseteq {"number", "null"}
          /\ v.type \in s.types[leaf.field]

ValidateQuery(r, s, q) ==
  /\ LimitOf(r, q) <= MostOf(r)
  /\ q.where # {} \/ q.order # <<>> => "query" \in r.ops
  /\ \A k \in DOMAIN q.order : /\ q.order[k].field \in r.sort /\ ScalarSchema(s, q.order[k].field)
                               /\ \A l \in 1 .. k - 1 : q.order[l].field # q.order[k].field
  /\ Cardinality(LeavesOf(q.where)) <= LeafMost
  /\ \A leaf \in LeavesOf(q.where) : ValidLeaf(r, s, leaf)

ResourceCompiles(r) ==
  /\ ValidateSchema(r.schema)
  /\ "snapshot" \in r.ops /\ r.ops \subseteq OwnedOps
  /\ r.app \cup r.agent \subseteq r.ops
  /\ \A p \in r.filter \cup r.sort : ScalarSchema(r.schema, p)
  /\ r.filter \cup r.sort # {} => "query" \in r.ops

BindingCompiles(r, b) ==
  /\ b.authored => ValidateQuery(r, r.schema, b.query)
  /\ Projects(r.schema, b.select)

HandlersCompile(c) == \A h \in DOMAIN c.handlers : \A g \in c.handlers[h] :
                        g.binding \in DOMAIN c.bindings /\ g.op \in c.resource.ops

Compiles(c) ==
  ResourceCompiles(c.resource) /\ HandlersCompile(c)
  /\ \A b \in DOMAIN c.bindings : BindingCompiles(c.resource, c.bindings[b])

-----------------------------------------------------------------------------
EffectiveCapabilities(r, audience, allowed) == (IF audience = "app" THEN r.app ELSE r.agent) \cap allowed
Allowed == {"snapshot", "query", "observe"}

\* A bug: what is supplied takes the place of what the binding asks.
BugNarrowed(b, supplied) ==
  [where |-> IF supplied.where = {} THEN b.query.where ELSE supplied.where,
   order |-> IF supplied.order = <<>> THEN b.query.order ELSE supplied.order,
   limit |-> IF supplied.limit = 0 THEN b.query.limit ELSE supplied.limit]

\* What is supplied narrows what the binding asks, and may order it otherwise.
Narrowed(b, supplied) ==
  [where |-> b.query.where \cup supplied.where,
   order |-> IF supplied.order = <<>> THEN b.query.order ELSE supplied.order,
   limit |-> IF supplied.limit = 0 THEN b.query.limit ELSE supplied.limit]

Limited(r, q) ==
  [q EXCEPT !.limit = IF r.kind = "singleton" THEN 1
                      ELSE IF @ # 0 THEN @
                      ELSE IF r.max > 0 /\ r.max < PageDefault THEN r.max ELSE PageDefault]

Contract(n) == shelf.contracts[n]
Asked(r) == shelf.asks[r]
BindingOf(v) == Contract(v.release).bindings[v.binding]
Capability(r) == IF Asked(r).supplies THEN "query" ELSE "snapshot"

\* Everything a view is made of is in its hash, the cursor apart.
ViewOf(r, n) ==
  LET c == Contract(n)  b == c.bindings[Asked(r).binding]
      q == IF Asked(r).supplies THEN Narrowed(b, Asked(r).query) ELSE b.query
  IN [actor |-> Asked(r).actor, release |-> n, binding |-> Asked(r).binding,
      query |-> Limited(c.resource, q), select |-> b.select]

Granted(r, n) ==
  LET c == Contract(n)
  IN /\ Asked(r).binding \in DOMAIN c.bindings
     /\ Capability(r) \in EffectiveCapabilities(c.resource, Asked(r).audience, Allowed)
     /\ Asked(r).handler # "" => /\ Asked(r).handler \in DOMAIN c.handlers
                                 /\ [binding |-> Asked(r).binding, op |-> Capability(r)] \in c.handlers[Asked(r).handler]

\* A query may name what the resource lets it, and nothing the binding does not show.
Answerable(r, n) ==
  LET c == Contract(n)  v == ViewOf(r, n)  shown == ProjectSchema(c.resource.schema, v.select)
  IN ValidateQuery(c.resource, c.resource.schema, v.query) /\ ValidateQuery(c.resource, shown, v.query)

-----------------------------------------------------------------------------
QueryInit ==
  /\ shelf \in {s \in QueryScenes : Compiles(s.contracts[1])}
  /\ release = 1 /\ records = shelf.records /\ cursors = {} /\ issued = 0
  /\ reader = [r \in Readers |-> NewReader]

Becomes(r, new) == reader' = [reader EXCEPT ![r] = new]
ReadFails(r) == Becomes(r, [reader[r] EXCEPT !.stage = "failed"])

\* Hello tells the active contract, for whoever calls from outside.
Hello(r) ==
  /\ reader[r].stage = "new"
  /\ Becomes(r, [reader[r] EXCEPT !.stage = IF Asked(r).handler = "" THEN "ready" ELSE "calling", !.knows = release])
  /\ UNCHANGED <<shelf, release, records, cursors, issued>>

\* The runtime is given a scope for the release that was called, while it is the active one.
Invoke(r) ==
  /\ reader[r].stage = "calling"
  /\ \/ reader[r].knows = release /\ Becomes(r, [reader[r] EXCEPT !.stage = "ready"])
     \/ reader[r].knows # release /\ ReadFails(r)
  /\ UNCHANGED <<shelf, release, records, cursors, issued>>

\* A request is checked against the active contract, which the caller has to name.
Resolve(r) ==
  /\ reader[r].stage = "ready"
  /\ IF reader[r].knows = release /\ Granted(r, release) /\ Answerable(r, release)
     THEN Becomes(r, [reader[r] EXCEPT !.stage = "resolved", !.view = ViewOf(r, release)])
     ELSE ReadFails(r)
  /\ UNCHANGED <<shelf, release, records, cursors, issued>>

-----------------------------------------------------------------------------
\* A field of a record, for the stores: nothing where the pointer does not lead.
NoField == [type |-> "missing", n |-> 0]
FieldOf(d, p) == IF p \in DOMAIN d THEN d[p] ELSE NoField
Null == [type |-> "null", n |-> 0]

PostgresLeaf(leaf, d) ==
  LET f == FieldOf(d, leaf.field)
  IN CASE leaf.op = "exists" -> (f # NoField) = leaf.wanted
       [] leaf.op \in {"eq", "in"} -> f # NoField /\ f \in leaf.values
       [] leaf.op = "gt" -> f.type = "number" /\ \E v \in leaf.values : f.n > v.n
       [] leaf.op = "lt" -> f.type = "number" /\ \E v \in leaf.values : f.n < v.n

\* $eq and $in of null would find what is missing too: null is asked for by its type.
MongoLeaf(leaf, d) ==
  LET f == FieldOf(d, leaf.field)
      equal(values) == f \in values \/ (Null \in values /\ f = NoField)
  IN CASE leaf.op = "exists" -> IF leaf.wanted THEN f # NoField ELSE f = NoField
       [] leaf.op \in {"eq", "in"} -> \/ leaf.values # {Null} /\ equal(leaf.values \ {Null})
                                      \/ Null \in leaf.values /\ f.type = "null"
       [] leaf.op = "gt" -> \E v \in leaf.values : f.type = v.type /\ f.n > v.n
       [] leaf.op = "lt" -> \E v \in leaf.values : f.type = v.type /\ f.n < v.n

Matches(store, where, d) ==
  \A clause \in where : \E leaf \in clause : IF store = "mongo" THEN MongoLeaf(leaf, d) ELSE PostgresLeaf(leaf, d)

\* PostgreSQL sorts by one kind of value.
Mixed(types) == \E s, t \in types \ {"null"} : s # t

Lacking(f) == f.type \in {"null", "missing"}
\* Kinds meet in MongoDB only, which has an order for them.
KindRank(type) == CASE type = "number" -> 1 [] type = "string" -> 2 [] type = "object" -> 3 [] type = "boolean" -> 4 [] OTHER -> 0
Less(f, g) == KindRank(f.type) < KindRank(g.type) \/ (f.type = g.type /\ f.n < g.n)

\* The order of one field: what is absent comes last, in both directions.
Precedes(o, d, e) ==
  LET f == FieldOf(d, o.field)  g == FieldOf(e, o.field)
  IN \/ ~Lacking(f) /\ Lacking(g)
     \/ ~Lacking(f) /\ ~Lacking(g) /\ (IF o.down THEN Less(g, f) ELSE Less(f, g))
Tied(o, d, e) == ~Precedes(o, d, e) /\ ~Precedes(o, e, d)

SortsBefore(order, i, j) ==
  \/ \E k \in DOMAIN order : /\ Precedes(order[k], records[i], records[j])
                             /\ \A l \in 1 .. k - 1 : Tied(order[l], records[i], records[j])
  \/ (\A k \in DOMAIN order : Tied(order[k], records[i], records[j])) /\ i < j

\* A row comes after as many as sort before it.
Rows(store, v) ==
  LET found == {i \in DOMAIN records : Matches(store, v.query.where, records[i])}
      place == [i \in found |-> 1 + Cardinality({j \in found : SortsBefore(v.query.order, j, i)})]
  IN [k \in 1 .. Cardinality(found) |-> CHOOSE i \in found : place[i] = k]

\* The cursor of a reader and a view, at an offset.
CursorAt(v, offset) == {c \in cursors : c.view = v /\ c.offset = offset}
Opens(v, token) == {c \in cursors : c.token = token /\ c.view = v}

\* One page, and whether there is more.
PageOf(v, offset) ==
  LET rows == Rows(shelf.store, v)
  IN [k \in {n \in 1 .. v.query.limit : offset + n <= Len(rows)} |->
        [id |-> rows[offset + k], data |-> records[rows[offset + k]]]]
MoreAfter(v, offset) == Len(Rows(shelf.store, v)) > offset + v.query.limit

Fetched(r, offset, next) ==
  Becomes(r, [reader[r] EXCEPT !.stage = "fetched", !.offset = offset, !.page = PageOf(reader[r].view, offset), !.next = next,
                               !.quiet = IF reader[r].token = 0 THEN TRUE ELSE @])

NewCursor(v, offset) ==
  /\ issued' = issued + 1
  /\ cursors' = cursors \cup {[token |-> issued + 1, view |-> v, offset |-> offset]}

OffsetOf(v, token) == IF token = 0 THEN 0 ELSE (CHOOSE c \in Opens(v, token) : TRUE).offset

\* In one transaction, under the lock of the namespace: the release, the cursor, the rows
\* and the next cursor, which is an old one where there is one.
PostgresSnapshot(r) ==
  LET v == reader[r].view  token == reader[r].token
      refused == \/ release # v.release \/ (token # 0 /\ Opens(v, token) = {})
                 \/ \E k \in DOMAIN v.query.order : Mixed(Contract(v.release).resource.schema.types[v.query.order[k].field])
      offset == OffsetOf(v, token)  after == offset + v.query.limit
  IN \/ refused /\ ReadFails(r) /\ UNCHANGED <<cursors, issued>>
     \/ /\ ~refused
        /\ \/ ~MoreAfter(v, offset) /\ Fetched(r, offset, 0) /\ UNCHANGED <<cursors, issued>>
           \/ /\ MoreAfter(v, offset) /\ CursorAt(v, after) # {}
              /\ \E c \in CursorAt(v, after) : Fetched(r, offset, c.token)
              /\ UNCHANGED <<cursors, issued>>
           \/ /\ MoreAfter(v, offset) /\ CursorAt(v, after) = {} /\ Cardinality(cursors) < CursorQuota
              /\ Fetched(r, offset, issued + 1) /\ NewCursor(v, after)
           \/ /\ MoreAfter(v, offset) /\ CursorAt(v, after) = {} /\ Cardinality(cursors) >= CursorQuota
              /\ ReadFails(r) /\ UNCHANGED <<cursors, issued>>

\* In MongoDB the rows, the search for an old cursor with the count, and the new cursor are
\* operations of their own.
MongoSnapshot(r) ==
  LET v == reader[r].view  token == reader[r].token  offset == OffsetOf(v, token)
  IN /\ \/ token # 0 /\ Opens(v, token) = {} /\ ReadFails(r)
        \/ /\ token = 0 \/ Opens(v, token) # {}
           /\ IF MoreAfter(v, offset)
              THEN Becomes(r, [reader[r] EXCEPT !.stage = "paging", !.offset = offset, !.page = PageOf(v, offset),
                                                !.quiet = IF token = 0 THEN TRUE ELSE @])
              ELSE Fetched(r, offset, 0)
     /\ UNCHANGED <<cursors, issued>>

Snapshot(r) ==
  /\ reader[r].stage = "resolved"
  /\ \/ shelf.store = "postgres" /\ PostgresSnapshot(r)
     \/ shelf.store = "mongo" /\ MongoSnapshot(r)
  /\ UNCHANGED <<shelf, release, records>>

FindCursor(r) ==
  LET v == reader[r].view  after == reader[r].offset + v.query.limit
  IN /\ reader[r].stage = "paging"
     /\ \/ \E c \in CursorAt(v, after) : Becomes(r, [reader[r] EXCEPT !.stage = "fetched", !.next = c.token])
        \/ CursorAt(v, after) = {} /\ Cardinality(cursors) < CursorQuota
           /\ Becomes(r, [reader[r] EXCEPT !.stage = "inserting"])
        \/ CursorAt(v, after) = {} /\ Cardinality(cursors) >= CursorQuota /\ ReadFails(r)
     /\ UNCHANGED <<shelf, release, records, cursors, issued>>

InsertCursor(r) ==
  /\ reader[r].stage = "inserting"
  /\ NewCursor(reader[r].view, reader[r].offset + reader[r].view.query.limit)
  /\ Becomes(r, [reader[r] EXCEPT !.stage = "fetched", !.next = issued + 1])
  /\ UNCHANGED <<shelf, release, records>>

-----------------------------------------------------------------------------
Told(v, page) == [k \in DOMAIN page |-> [id |-> page[k].id, data |-> ProjectData(page[k].data, v.select)]]
PageIds(page) == [k \in DOMAIN page |-> page[k].id]

\* The release is looked at again, then each record is checked and projected.
CheckCurrentView(v) == release = v.release
Presentable(v, page) ==
  \A k \in DOMAIN page : ValidateData(Contract(v.release).resource.schema, page[k].data)
                         /\ ~ProjectionFails(page[k].data, v.select)
AnswerRead(r) ==
  LET v == reader[r].view  page == reader[r].page
  IN /\ reader[r].stage = "fetched"
     /\ IF CheckCurrentView(v) /\ Presentable(v, page)
        THEN Becomes(r, [reader[r] EXCEPT !.stage = IF reader[r].next = 0 THEN "done" ELSE "paged",
                                          !.told = Told(v, page), !.page = <<>>, !.seen = @ \o PageIds(page)])
        ELSE ReadFails(r)
     /\ UNCHANGED <<shelf, release, records, cursors, issued>>

\* The reader asks for the next page, or with a cursor that somebody else was given.
NextPage(r, token) ==
  /\ reader[r].stage = "paged" /\ token \in {reader[r].next} \cup {c.token : c \in cursors}
  /\ Becomes(r, [reader[r] EXCEPT !.stage = "ready", !.token = token, !.told = <<>>,
                                  !.seen = IF token = reader[r].next THEN @ ELSE <<>>,
                                  !.quiet = @ /\ token = reader[r].next])
  /\ UNCHANGED <<shelf, release, records, cursors, issued>>

\* Fifteen minutes later.
ExpireCursor(c) ==
  /\ shelf.expiries > 0 /\ shelf' = [shelf EXCEPT !.expiries = @ - 1]
  /\ cursors' = cursors \ {c} /\ UNCHANGED <<release, records, issued, reader>>

\* A record is inserted, changed or deleted; what is stored conforms to the active contract.
Rewritten(new) ==
  /\ shelf.writes > 0 /\ shelf' = [shelf EXCEPT !.writes = @ - 1] /\ records' = new
  /\ reader' = [r \in Readers |-> [reader[r] EXCEPT !.quiet = FALSE]]
  /\ UNCHANGED <<release, cursors, issued>>
Mutate(i, d) ==
  /\ ValidateData(Contract(release).resource.schema, d)
  /\ Rewritten([j \in DOMAIN records \cup {i} |-> IF j = i THEN d ELSE records[j]])
Delete(i) == Rewritten([j \in DOMAIN records \ {i} |-> records[j]])

\* The next contract, if it compiles and the records conform to it.
Activate ==
  /\ release < Len(shelf.contracts) /\ Compiles(Contract(release + 1))
  /\ \A i \in DOMAIN records : ValidateData(Contract(release + 1).resource.schema, records[i])
  /\ release' = release + 1 /\ UNCHANGED <<shelf, records, cursors, issued, reader>>

QueryNext ==
  \/ \E r \in Readers : \/ Hello(r) \/ Invoke(r) \/ Resolve(r) \/ Snapshot(r) \/ FindCursor(r) \/ InsertCursor(r)
                        \/ AnswerRead(r) \/ \E token \in 1 .. issued : NextPage(r, token)
  \/ \E c \in cursors : ExpireCursor(c)
  \/ \E i \in DOMAIN shelf.samples : Mutate(i, shelf.samples[i])
  \/ \E i \in DOMAIN records : Delete(i)
  \/ Activate

QuerySpec == QueryInit /\ [][QueryNext]_queryVars

-----------------------------------------------------------------------------
Meant(where) == {i \in DOMAIN records : \A clause \in where : \E leaf \in clause : PostgresLeaf(leaf, records[i])}

(* The pages of a read, one after the other, are all the records that match,
   each once and in order, if none was written since the first page; in
   either store, with missing fields, nulls and values of any kind. *)
PagesAreWhole ==
  \A r \in Readers :
    LET seen == reader[r].seen  q == reader[r].view.query
    IN reader[r].stage = "done" /\ reader[r].quiet =>
         /\ {seen[k] : k \in DOMAIN seen} = Meant(q.where) /\ Len(seen) = Cardinality(Meant(q.where))
         /\ \A k \in 2 .. Len(seen) : SortsBefore(q.order, seen[k - 1], seen[k])

(* What is answered is within the scope the author of the binding gave it,
   whatever the reader supplied, whichever cursor was used and whatever was
   activated since the request was checked: records that match the binding of
   the active contract, as data of the schema the reader was told. *)
AnswersAreScoped ==
  \A r \in Readers :
    reader[r].stage = "fetched" /\ reader'[r].stage \in {"paged", "done"} =>
      LET b == Contract(release).bindings[Asked(r).binding]  s == Contract(release).resource.schema
          page == reader[r].page  told == reader'[r].told
      IN /\ Len(told) = Len(page) /\ Len(told) <= MostOf(Contract(release).resource)
         /\ \A k \in DOMAIN told :
              /\ told[k].id = page[k].id
              /\ \A clause \in b.query.where : \E leaf \in clause : PostgresLeaf(leaf, page[k].data)
              /\ \A p \in DOMAIN told[k].data : b.select # {} => Kept(b.select, p)
              /\ ValidateData(ProjectSchema(s, b.select), told[k].data)

(* All of that, of every step. *)
QueriesHold == [][PagesAreWhole' /\ AnswersAreScoped]_queryVars

(* Not so: a read tells no record twice.  A page starts at an offset, and a
   record that is written before it moves the others. *)
ToldOnce == \A r \in Readers : \A k, l \in DOMAIN reader[r].seen : reader[r].seen[k] = reader[r].seen[l] => k = l
(* Not so: a binding that compiles can be read.  Its own query may name a field
   that it does not show. *)
CompiledIsReadable ==
  \A b \in DOMAIN Contract(release).bindings :
    LET c == Contract(release)
    IN ValidateQuery(c.resource, ProjectSchema(c.resource.schema, c.bindings[b].select),
                     Limited(c.resource, c.bindings[b].query))
(* Not so: no shard has more cursors than its quota, in MongoDB. *)
QuotaIsKept == Cardinality(cursors) <= CursorQuota
=============================================================================

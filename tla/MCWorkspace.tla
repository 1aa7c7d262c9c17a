--------------------------- MODULE MCWorkspace ---------------------------
(* Instances of what users keep on the server. *)
EXTENDS Workspace, TLC

CONSTANTS i1, x1, x2, x3, s1, p1, a1, a2, sh, en, gh, t1

\* In PostgreSQL contracts that change, requests that are sent again, and data that is lost and
\* restored, with a full receipt quota; and MongoDB.
ShardCase(s, q, n, a, c, l) ==
  [store |-> s, quota |-> q, tries |-> n, activations |-> a, crashes |-> c, losses |-> l]
MCShards == {ShardCase("postgres", 1, 1, 3, 0, 0), ShardCase("postgres", 1, 2, 1, 0, 0),
             ShardCase("postgres", 1, 1, 1, 0, 1), ShardCase("mongo", 2, 2, 1, 1, 0)}

\* A folder in a folder, and an artifact in that.
Planting(p) == [parent |-> p, position |-> 1, seq |-> 1, deleted |-> FALSE]
MCPlanted == ("f1" :> Planting("top")) @@ ("f2" :> Planting("f1")) @@ ("n1" :> Planting("f2"))
MCAsk == <<{"create", "move"}, {"remove"}, {"upload", "rename", "delete", "update"}>>

\* A frame that mints while its session ends, a tool that is given and loses its token, and
\* somebody new.
MCSignedIn == s1 :> p1
MCRoutes == {<<"mint", "logout", "content">>, <<"issue", "revoke", "write">>, <<"register", "login", "mint">>}

\* A disconnect against a synchronisation, a late webhook, a reader, and another disconnect.
MCLinkPlans == {<<"sync", "disconnect", "webhook", "credentials">>, <<"sync", "disconnect", "disconnect", "webhook">>}

\* Regions: headings of each depth and a blank one, text that is short, long and without a
\* box, a running head.
Region(c, n, d, p, b) == [class |-> c, length |-> n, depth |-> d, page |-> p, boxed |-> b]
Headings(p) == {Region("title", 1, d, p, TRUE) : d \in 0 .. 2}
Letters(p) == Headings(p) \cup {Region("title", 0, 0, p, TRUE), Region("text", 1, 0, p, TRUE),
                               Region("text", 2, 0, p, FALSE), Region("abandon", 1, 0, p, TRUE)}
InOrder(s) == \A i \in 2 .. Len(s) : s[i - 1].page <= s[i].page
MCRegions == {s \in UNION {[1 .. k -> Letters(1) \cup Letters(2)] : k \in 0 .. 2} : InOrder(s)}
             \cup [1 .. 3 -> {Region("title", 1, 1, 1, TRUE)} \cup (Letters(1) \ Headings(1))]
             \cup [1 .. 4 -> Headings(1) \cup {Region("text", 1, 0, 1, TRUE)}]
Layout(st, pages, regions, levels) ==
  [status |-> st, pages |-> pages, regions |-> regions,
   bookmarks |-> [i \in 1 .. Len(levels) |-> [level |-> levels[i], page |-> 1]]]
UpTo(n, S) == UNION {[1 .. k -> S] : k \in 0 .. n}
Plain(st) == Layout(st, <<1>>, <<Region("title", 1, 0, 1, TRUE), Region("text", 1, 0, 1, TRUE)>>, <<>>)
MCLayouts == {Layout("ready", <<1, 1>>, s, <<>>) : s \in MCRegions}
             \cup {Layout("ready", pages, <<>>, <<>>) : pages \in UpTo(3, {0, 1, 2, 4})}
             \cup {Layout("ready", <<1>>, <<>>, levels) : levels \in UpTo(3, 0 .. 4)}
\* One document of every kind, and three documents of which some are lost.
MCLibraries ==
  {[files |-> <<l>>, frail |-> {}] : l \in MCLayouts}
  \cup {[files |-> <<Plain("ready"), Plain(a), Plain(b)>>, frail |-> {1, 3}] :
          a, b \in {"ready", "unsupported", "failed", "unresolvable"}}

\* An edit against a rewrite, a rewrite and the tags, an insertion or a deletion, and against
\* the owner who types.
Scene(x, y, t, g, f) == [tools |-> (a1 :> x) @@ (a2 :> y), typing |-> t, tagging |-> g, faults |-> f]
MCScenes == {Scene("update_page", "update_block", 0, 1, 1), Scene("insert_blocks", "update_block", 0, 0, 1),
             Scene("insert_blocks", "delete_block", 0, 0, 1), Scene("delete_block", "none", 2, 1, 1),
             Scene("update_block", "none", 2, 0, 0), Scene("delete_block", "update_block", 1, 0, 0)}
\* Nothing, a reference before a mention of somebody unknown, and a mention.
MCWritten == {<<>>, <<sh, gh>>, <<en>>}

\* Somebody with no list who adds by tool and reads; a list that is used, renamed and deleted;
\* research folders in a folder that goes, beside reports of a reading position.
Ask(op, name, list, symbol, i, p) ==
  [op |-> op, name |-> name, list |-> list, symbol |-> symbol, instrument |-> i, parent |-> p, page |-> i]
ByTool(op, name) == Ask(op, name, 0, t1, 1, 0)
ById(op, list) == Ask(op, "other", list, NoTicker, 1, 0)
Bench(op, parent, title) == Ask(op, title, 0, NoTicker, 1, parent)
ListScene(v, k, a, b, c) == [vendor |-> t1 :> v, known |-> k, asks |-> <<a, b, c>>]
KnownTicker == <<[symbol |-> t1, active |-> TRUE]>>
MCListScenes ==
  {ListScene(v, <<>>, ByTool("add", ""), ByTool("add", "tech"), ByTool("read", "")) : v \in {"active", "halted", "unknown"}}
  \cup {ListScene("active", KnownTicker, ByTool("add", ""), x, y) :
          x \in {ById("delete", 1), ById("rename", 1)},
          y \in {ByTool("universe", ""), ById("remove", 1), ById("add", 1), ById("create", 1)}}
  \cup {ListScene("unknown", KnownTicker, Bench("research", 1, ""), x, y) :
          x \in {Bench("uproot", 0, ""), Bench("turn", 0, "")},
          y \in {Bench("research", 0, ""), Bench("research", 2, ""), Bench("turn", 0, "")}
                \cup {Bench("revise", 2, title) : title \in {"", "better"}}}

\* A record: a name, and an object or null with a score that may be null or missing.
MCAbove == ("name" :> "/") @@ ("meta" :> "/") @@ ("score" :> "meta") @@ ("extra" :> "meta")
MCAtOrBelow == {<<p, p>> : p \in DOMAIN MCAbove} \cup {<<"score", "meta">>, <<"extra", "meta">>}
JSON(t, n) == [type |-> t, n |-> n]
Titled(n) == "name" :> JSON("string", n)
Bare(n) == Titled(n) @@ ("meta" :> JSON("null", 0))
Full(n) == Titled(n) @@ ("meta" :> JSON("object", 0))
Scored(n, t, v) == Full(n) @@ ("score" :> JSON(t, v))
Extra(n) == Full(n) @@ ("extra" :> JSON("string", 1))
MCRecords == <<Scored(1, "number", 1), Scored(1, "null", 0), Full(2), Bare(1)>>

\* A contract of one resource and one binding, and who reads.
Fields(kinds) ==
  [declared |-> {"name", "meta", "score"},
   types |-> ("name" :> {"string"}) @@ ("meta" :> {"object", "null"}) @@ ("score" :> kinds),
   required |-> {"name", "meta"}, open |-> {"meta"}]
Offers(kinds, kind, max) ==
  [schema |-> Fields(kinds), ops |-> {"snapshot", "query"}, app |-> {"snapshot", "query"}, agent |-> {"snapshot"},
   filter |-> {"name", "score"}, sort |-> {"name", "score"}, kind |-> kind, max |-> max]
Numbers == Offers({"number", "null"}, "collection", 0)
Query(where, order, limit) == [where |-> where, order |-> order, limit |-> limit]
Binds(r, q, select) ==
  [resource |-> r, bindings |-> "b" :> [authored |-> q # NoQuery, query |-> q, select |-> select],
   handlers |-> "h" :> {[binding |-> "b", op |-> "query"]}]
Reads(audience, handler, q) ==
  [actor |-> audience, audience |-> audience, handler |-> handler, binding |-> "b", supplies |-> q # NoQuery, query |-> q]
Leaf(f, op, values, wanted) == {[field |-> f, op |-> op, values |-> values, wanted |-> wanted]}
Has(f, op, t, n) == Leaf(f, op, {JSON(t, n)}, TRUE)
By(f, down) == <<[field |-> f, down |-> down]>>
ReadScene(st, cs, x, y, recs, samples, w, e) ==
  [store |-> st, contracts |-> cs, asks |-> <<x, y>>, records |-> recs, samples |-> samples, writes |-> w, expiries |-> e]

\* Pages of two records while one is written and a cursor expires.
Paged(st, o, e) ==
  ReadScene(st, <<Binds(Numbers, Query({}, o, 2), {})>>, Reads("app", "", NoQuery), Reads("agent", "", NoQuery),
            MCRecords, <<Scored(2, "number", 0)>>, 1, e)
\* Every kind of condition, supplied to a binding that has one of its own.
Conditions ==
  {{Has("score", "eq", "null", 0)}, {Leaf("score", "in", {JSON("null", 0), JSON("number", 1)}, TRUE)},
   {Has("score", "gt", "number", 0)}, {Has("score", "lt", "number", 2)}, {Has("score", "gt", "string", 0)},
   {Leaf("score", "exists", {}, FALSE)}, {Leaf("score", "exists", {}, TRUE), Has("score", "eq", "number", 1)},
   {Has("score", "eq", "number", 2) \cup Has("name", "eq", "string", 2)}, {Has("meta", "eq", "null", 0)}}
Narrowing(st, where) ==
  ReadScene(st, <<Binds(Numbers, Query({Has("name", "eq", "string", 1)}, <<>>, 0), {})>>,
            Reads("app", "", Query(where, By("score", TRUE), 1)), Reads("app", "h", Query(where, <<>>, 0)),
            MCRecords, <<Extra(1)>>, 1, 0)
\* A contract that shows less, cannot be read or does not compile, while there are reads.
Hiding(st, select, own) ==
  ReadScene(st, <<Binds(Numbers, Query({}, <<>>, 1), {}), Binds(Numbers, own, select)>>,
            Reads("app", "", NoQuery), Reads("app", "h", Query({}, By("name", FALSE), 0)), MCRecords, <<Extra(2)>>, 1, 0)
\* Scores of two kinds, a single record, and a small limit.
Kinds(st, kind, max, q) ==
  ReadScene(st, <<Binds(Offers({"number", "string"}, kind, max), q, {"name", "score"})>>,
            Reads("app", "", Query({}, By("score", FALSE), 0)), Reads("agent", "", NoQuery),
            SubSeq(<<Scored(1, "string", 1), Scored(2, "number", 2), Bare(2)>>, 1,
                   IF kind = "singleton" THEN 1 ELSE 3 - max),
            <<Bare(2)>>, 0, 0)
MCQueryScenes == UNION {
  {Paged(st, o, e) : o \in {<<>>, By("score", TRUE), By("score", FALSE)}, e \in {0, 1}}
  \cup {Narrowing(st, w) : w \in Conditions}
  \cup {Hiding(st, s, o) : s \in {{"name"}, {"meta"}, {"meta", "score"}, {"extra"}},
                           o \in {NoQuery, Query({Has("score", "eq", "null", 0)}, <<>>, 2)}}
  \cup {Kinds(st, k, m, q) : k \in {"collection", "singleton"}, m \in {0, 1},
                             q \in {NoQuery, Query({}, <<>>, 1), Query({}, By("name", TRUE), 0)}}
  : st \in {"postgres", "mongo"}}

=============================================================================

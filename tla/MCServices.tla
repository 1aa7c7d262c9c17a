---------------------------- MODULE MCServices ----------------------------
(* Instances of the background services, and what is fair about them. *)
EXTENDS Services, TLC

CONSTANTS r1, u1, u2, p1, p2, p3, heart, prune, j1, j2

\* The pipeline with a stage that fails and a worker that dies, and with each branch.
PipeCase(b, f, c) == [branches |-> b, fails |-> f, crashes |-> c]
MCStages == {PipeCase({}, 1, 1)} \cup {PipeCase({b}, 0, 0) : b \in {"low_confidence", "tenant_match", "graph"}}
MCFailingStage == {PipeCase({}, 1, 0)}

\* A provider that grows while it is read; one that is read late, and again after a
\* failure; one whose worker dies twice; and one that pages by offset.
SyncCase(n, p, h, t, l, f, c) ==
  [listed |-> n, paging |-> p, hydrates |-> h, ticks |-> t, late |-> l, fails |-> f, crashes |-> c]
MCProviders == {SyncCase(3, "after", TRUE, 2, 0, 0, 0), SyncCase(2, "after", FALSE, 0, 1, 1, 0),
                SyncCase(3, "after", FALSE, 0, 1, 0, 2), SyncCase(2, "offset", FALSE, 1, 0, 1, 0)}
MCOneFailure == {SyncCase(2, "after", FALSE, 1, 0, 1, 0)}

\* Three names that are near, two of them surely one entity; and pairs without a judge.
EntityCase(n, s, j, c) == [near |-> n, sure |-> s, judge |-> j, crashes |-> c]
MCRegistries == {EntityCase({{1, 2}, {1, 3}, {2, 3}}, {{1, 3}}, TRUE, 0),
                 EntityCase({{1, 2}}, {}, FALSE, 0), EntityCase({{1, 2}, {2, 3}}, {}, FALSE, 1)}
MCNearPair == {EntityCase({{1, 2}}, {}, FALSE, 1), EntityCase({{1, 2}}, {}, TRUE, 0)}

\* Two agents of one page: what each commands, and what its sources render to.
PageCase(k, r, q, c) ==
  [contract |-> k, renderer |-> r, quality |-> q, commands |-> [a1 |-> c[1], a2 |-> c[2]]]
MCPages == {PageCase(k, r, q, c) :
              k \in BOOLEAN, r \in BOOLEAN,
              q \in {<<"good", "lame">>, <<"lame", "good">>, <<"blank", "good">>, <<"broken", "good">>,
                     <<"good", "blank">>, <<"good", "broken">>},
              c \in {<<"save", "publish">>, <<"publish", "publish">>, <<"preview", "publish">>, <<"save", "preview">>}}
MCFewPages == {PageCase(TRUE, TRUE, <<"broken", "good">>, <<"save", "publish">>),
               PageCase(FALSE, TRUE, <<"good", "lame">>, <<"preview", "publish">>),
               PageCase(TRUE, FALSE, <<"good", "blank">>, <<"publish", "publish">>)}
MCMishaps == [crashes |-> 1, vendor |-> 1, tabs |-> 1, activations |-> 1, records |-> 1]

\* Every mix of three commands of which the first two may be the same.
FileOrders == <<"create", "overwrite", "edit", "hashed", "install", "remove">>
MCMixes == {<<FileOrders[i], FileOrders[j], FileOrders[k]>> :
              <<i, j, k>> \in {t \in (1 .. 6) \X (1 .. 6) \X (1 .. 6) : t[1] <= t[2] /\ t[2] < t[3]}}
MCFileFaults == [crashes |-> 1, errors |-> 1]

\* Two artifacts of which one is written in two places; one without a text; and one that
\* cannot be projected, with one sweeper.
CorpusCase(k, b, i, w, s) == [kind |-> k, broken |-> b, sweepers |-> i, writes |-> w, stops |-> s]
OneSweeper == {CHOOSE i \in Indexers : TRUE}
MCCorpora == {CorpusCase(<<"page", "file">>, {}, Indexers, 2, 0), CorpusCase(<<"page", "voice">>, {}, Indexers, 2, 1),
              CorpusCase(<<"page", "board">>, {1}, OneSweeper, 2, 1)}
MCTickingCorpora == {CorpusCase(<<"page", "file">>, {}, Indexers, 2, 0),
                     CorpusCase(<<"page", "voice">>, {}, OneSweeper, 2, 1)}

\* A user who asks three things at once; a source removed while it is matched, and one of
\* no kind that is known; a search of two users whose post is revised; posts that are revised into
\* or out of a topic, with a failing look-up or a dying worker; and a record that is no post.
Asking(op, u, kind, words, n) == [op |-> op, user |-> u, kind |-> kind, words |-> words, nth |-> n]
Adding(u, kind, words) == Asking("add", u, kind, words, 0)
ToList(u) == Asking("list", u, "", {}, 0)
News(kind, words, t, texts) == [stream |-> <<kind, words>>, type |-> t, texts |-> texts]
Wording(w, t) == [words |-> w, topics |-> t]
SourceCase(a, p, r, c, f) == [asks |-> a, posts |-> p, reads |-> r, crashes |-> c, faults |-> f]
Short == <<Wording({"x"}, {"ai"})>>
Story(texts) == News("hackernews_feed", {}, "post", texts)
MCSources ==
  {SourceCase(<<Adding(u1, "hackernews_feed", {}), ToList(u1), Adding(u1, "hackernews_feed", {})>>, <<>>, 1, 0, 0),
   SourceCase(<<Adding(u1, "reddit_subreddit", {}), Asking("remove", u1, "", {}, 1), Adding(u2, "reddit_subreddit", {}),
                Adding(u2, "rss", {})>>,
              p1 :> News("reddit_subreddit", {}, "post", Short), 1, 1, 0),
   SourceCase(<<Adding(u1, "bluesky_search", {"x"}), Adding(u2, "bluesky_search", {"x"})>>,
              p1 :> News("bluesky_search", {"x"}, "post", <<Wording({"x", "y"}, {"ai"}), Wording({"z"}, {"ai", "eu"})>>), 0, 1, 0),
   SourceCase(<<Adding(u1, "hackernews_feed", {})>>,
              (p1 :> Story(<<Wording({}, {"ai"}), Wording({}, {"eu"})>>)) @@ (p2 :> Story(<<Wording({}, {"ai", "eu"})>>)), 0, 0, 1),
   SourceCase(<<Adding(u1, "hackernews_feed", {})>>,
              (p1 :> Story(<<Wording({}, {"eu"}), Wording({}, {"ai"})>>)) @@ (p2 :> Story(Short)), 0, 1, 0),
   SourceCase(<<Adding(u1, "hackernews_feed", {})>>,
              (p1 :> Story(Short)) @@ (p2 :> Story(Short)) @@ (p3 :> News("hackernews_feed", {}, "note", Short)), 0, 0, 0)}

\* A worker whose loops panic and that dies or cannot start once; and one that is stopped
\* and started again.
WorkerCase(p, k, n) == [panics |-> p, kills |-> k, stops |-> n]
MCWorkers == {WorkerCase(1, 1, 2), WorkerCase(0, 0, 3)}

\* Fairness, of the modules; guarded for the component that would have something to do
\* as it begins.
WorkerFairness ==
  /\ \A t \in Tasks : WF_syncState(part = "sync" /\ SyncWorker(t))
  /\ WF_syncState(part = "sync" /\ Scheduler)
  /\ WF_syncState(part = "sync" /\ GoesStale)
  /\ \A i \in Indexers : WF_indexVars(part = "index" /\ IndexSweep(i))
  /\ WF_workerVars(part = "worker" /\ RunStep) /\ WF_workerVars(part = "worker" /\ Age)
  /\ \A l \in Loops : WF_workerVars(part = "worker" /\ LoopTurn(l))

ServicesFairSpec ==
  ServicesSpec /\ PipeFairness /\ WorkerFairness /\ EntityFairness /\ ReleaseFairness

\* What the server owes in the background is done: captured records settle, streams are
\* released, placeholders settle, builds end, the index catches up, and the worker's loops
\* and tasks outlast panics and restarts.
BackgroundWorkSettles ==
  CapturedSettles /\ StreamIsReleased /\ PlaceholdersSettle /\ BuildsEnd
  /\ (part = "index" => IndexCatchesUp)
  /\ (part = "worker" => WorkerSettles)
=============================================================================

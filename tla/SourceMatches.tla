---------------------------- MODULE SourceMatches ----------------------------
(***************************************************************************)
(* From a source somebody adds to what it tells them: subscriptions to      *)
(* provider streams that all users share, the matching of captured posts    *)
(* against them, and the insights that matching posts set off.              *)
(*                                                                         *)
(* Capture and first pass are actions of Pipeline, and here what they leave *)
(* of a post. An insight is recent, and a post of today, throughout.        *)
(***************************************************************************)
EXTENDS Integers, Sequences, FiniteSets

CONSTANTS
  Patrons,      \* users
  Captures,     \* records of the providers
  Trending,     \* how many posts make a topic a trend: three in the code
  SourceCases   \* [asks, posts, reads, crashes, faults]: what users ask of the sources, what
                \* is posted in each revision, and bounds on pages read, crashes and failures

ASSUME SourceAssumption ==
  /\ Trending \in Nat \ {0}
  /\ \A c \in SourceCases :
       /\ \A q \in DOMAIN c.asks : c.asks[q].user \in Patrons
       /\ DOMAIN c.posts \subseteq Captures /\ IsFiniteSet(DOMAIN c.posts)
       /\ \A p \in DOMAIN c.posts : c.posts[p].texts \in Seq([words : SUBSET STRING, topics : SUBSET STRING])
       /\ {c.reads, c.crashes, c.faults} \subseteq Nat

VARIABLES
  world,         \* the case, and the bounds left
  ask,           \* how far each request to the sources is
  graphOf,       \* the knowledge graphs: whose each one is
  providerStream, \* the rows of provider_streams
  subscription,  \* the rows of source_subscriptions
  post,          \* of each record: its revision, the one its enrichment is of, a verdict
  match,         \* the relevant rows of tenant_item_matches
  matching,      \* the matching task of each record
  generating,    \* the insight tasks
  insight        \* the rows of insights

sourceState == <<ask, graphOf, providerStream, subscription, post, match, matching, generating, insight>>
sourceVars == <<world, sourceState>>

Asks == DOMAIN world.asks
SourceKinds == {"hackernews_feed", "reddit_subreddit", "bluesky_search", "twitter_search"}

\* A feed, a subreddit, or what is searched for.
StreamOf(a) == <<a.kind, a.words>>

Unmatched == [at |-> "none", rev |-> 0, text |-> 0, todo |-> {}, hits |-> {}]

\* The type invariant: an enrichment is of a revision that was captured.
SourceTypeOK ==
  /\ \A q \in Asks : ask[q].at \in {"new", "waiting", "looked", "ensured", "created", "done"}
  /\ graphOf \in Seq(Patrons) /\ DOMAIN providerStream \subseteq {StreamOf(world.asks[q]) : q \in Asks}
  /\ \A p \in DOMAIN post : post[p].enriched <= post[p].rev /\ post[p].rev <= Len(world.posts[p].texts)
  /\ \A m \in match : m.rev <= post[m.post].rev /\ m.sub \in {s.id : s \in subscription}
  /\ \A p \in DOMAIN matching : matching[p].at \in {"none", "pending", "deciding"}

SourceInit ==
  /\ \E c \in SourceCases :
       world = [asks |-> c.asks, posts |-> c.posts, reads |-> c.reads, crashes |-> c.crashes, faults |-> c.faults,
                blind |-> FALSE, removed |-> FALSE]
  /\ ask = [q \in Asks |-> [at |-> "new", graph |-> 0, answer |-> "none"]]
  /\ graphOf = <<>> /\ providerStream = <<>> /\ subscription = {}
  /\ post = [p \in DOMAIN world.posts |-> [rev |-> 0, enriched |-> 0, dismissed |-> FALSE]]
  /\ match = {} /\ matching = [p \in DOMAIN world.posts |-> Unmatched] /\ generating = {} /\ insight = {}

Consumes(what) == world[what] > 0 /\ world' = [world EXCEPT ![what] = @ - 1]

-----------------------------------------------------------------------------
(* The sources of a user. *)

\* What a source of a kind is to be: which stream, whether reading it starts over,
\* and the words its posts must have, if any.
BuildSourcePayload(a) ==
  [stream |-> StreamOf(a),
   rewinds |-> a.kind # "bluesky_search",
   words |-> IF a.kind = "bluesky_search" THEN a.words ELSE {}]

Reaches(q, where) == ask' = [ask EXCEPT ![q].at = where]
Answers(q, answer) == ask' = [ask EXCEPT ![q].at = "done", ![q].answer = answer]
Patron(q) == world.asks[q].user

\* An unknown kind is refused before anything is written; adding and listing ensure a graph.
BeginAsk(q) ==
  /\ ask[q].at = "new" /\ world.asks[q].op \in {"add", "list"}
  /\ IF world.asks[q].op = "add" /\ world.asks[q].kind \notin SourceKinds THEN Answers(q, "refused") ELSE Reaches(q, "waiting")
  /\ UNCHANGED <<world, graphOf, providerStream, subscription, post, match, matching, generating, insight>>

BugUserLocked(q) == FALSE

\* The update of the user's row is what makes concurrent transactions of a user wait.
UserLocked(q) == \E p \in Asks : p # q /\ Patron(p) = Patron(q) /\ ask[p].at = "looked"

EnsureLooks(q) ==
  /\ ask[q].at = "waiting" /\ ~UserLocked(q)
  /\ LET mine == {i \in DOMAIN graphOf : graphOf[i] = Patron(q)} IN
     ask' = [ask EXCEPT ![q].at = "looked", ![q].graph = IF mine = {} THEN 0 ELSE CHOOSE i \in mine : \A j \in mine : i <= j]
  /\ UNCHANGED <<world, graphOf, providerStream, subscription, post, match, matching, generating, insight>>

EnsureCommits(q) ==
  /\ ask[q].at = "looked"
  /\ graphOf' = IF ask[q].graph = 0 THEN Append(graphOf, Patron(q)) ELSE graphOf
  /\ ask' = [ask EXCEPT ![q].graph = IF @ = 0 THEN Len(graphOf) + 1 ELSE @,
                        ![q].at = IF world.asks[q].op = "add" THEN "ensured" ELSE "done"]
  /\ UNCHANGED <<world, providerStream, subscription, post, match, matching, generating, insight>>

\* The configuration of a stream that exists is overwritten, where reading it had got to included.
UpsertStream(p) ==
  LET old == IF p.stream \in DOMAIN providerStream THEN providerStream[p.stream].read ELSE FALSE IN
  [k \in DOMAIN providerStream \cup {p.stream} |->
     IF k = p.stream THEN [read |-> ~p.rewinds /\ old] ELSE providerStream[k]]

\* One statement. A subscription that exists keeps its id, and has these words.
CreateSource(q) ==
  LET p == BuildSourcePayload(world.asks[q])
      had == {s \in subscription : s.user = Patron(q) /\ s.graph = ask[q].graph /\ s.stream = p.stream} IN
  /\ ask[q].at = "ensured" /\ Reaches(q, "created")
  /\ providerStream' = UpsertStream(p)
  /\ subscription' = IF had = {} THEN subscription \cup {[id |-> q, user |-> Patron(q), graph |-> ask[q].graph,
                                                          stream |-> p.stream, words |-> p.words]}
                     ELSE subscription
  /\ UNCHANGED <<world, graphOf, post, match, matching, generating, insight>>

\* What was created is read back by the id it was given.
ReadSource(q) ==
  /\ ask[q].at = "created"
  /\ Answers(q, IF \E s \in subscription : s.id = q THEN "added" ELSE "error")
  /\ UNCHANGED <<world, graphOf, providerStream, subscription, post, match, matching, generating, insight>>

\* The rows of matches go with the subscription.
DeleteSource(q) ==
  LET gone == {s \in subscription : s.id = world.asks[q].nth /\ s.user = Patron(q)} IN
  /\ ask[q].at = "new" /\ world.asks[q].op = "remove"
  /\ subscription' = subscription \ gone
  /\ match' = {m \in match : \A s \in gone : m.sub # s.id}
  /\ Answers(q, IF gone = {} THEN "not-found" ELSE "removed")
  /\ world' = [world EXCEPT !.removed = @ \/ gone # {}]
  /\ UNCHANGED <<graphOf, providerStream, post, matching, generating, insight>>

\* A page of the stream is read, and where it ended is kept.
ReadStream(k) ==
  /\ ~providerStream[k].read /\ Consumes("reads")
  /\ providerStream' = [providerStream EXCEPT ![k].read = TRUE]
  /\ UNCHANGED <<ask, graphOf, subscription, post, match, matching, generating, insight>>

-----------------------------------------------------------------------------
(* What becomes of a post. *)

CapturePost(p) ==
  /\ world.posts[p].stream \in DOMAIN providerStream /\ post[p].rev < Len(world.posts[p].texts)
  /\ post' = [post EXCEPT ![p].rev = @ + 1]
  /\ UNCHANGED <<world, ask, graphOf, providerStream, subscription, match, matching, generating, insight>>

\* The matching task of a post is enqueued unless one exists.
Requeued(p) == IF matching[p].at = "none" THEN [matching EXCEPT ![p].at = "pending"] ELSE matching

EnrichPost(p) ==
  /\ post[p].enriched < post[p].rev
  /\ post' = [post EXCEPT ![p].enriched = post[p].rev] /\ matching' = Requeued(p)
  /\ UNCHANGED <<world, ask, graphOf, providerStream, subscription, match, generating, insight>>

TextOf(p, rev) == world.posts[p].texts[rev]
TopicsOf(p) == IF post[p].enriched = 0 THEN {} ELSE TextOf(p, post[p].enriched).topics

LoadMatching(p) ==
  /\ matching[p].at = "pending"
  /\ matching' = [matching EXCEPT ![p] = [at |-> "deciding", rev |-> post[p].rev, text |-> post[p].enriched, hits |-> {},
                                          todo |-> {s \in subscription : s.stream = world.posts[p].stream}]]
  /\ UNCHANGED <<world, ask, graphOf, providerStream, subscription, post, match, generating, insight>>

\* A stream that was added here has no policy of its own: the subscription's is all.
PolicyTerms(s) == s.words

\* The excerpts of the revision that was loaded, and the enrichment that was.
SearchText(p, m) == TextOf(p, m.rev).words \cup TextOf(p, m.text).words

\* Without words everything is relevant. With words, a post with none of them is left
\* undecided, which stores no row: it is never found not relevant.
Decide(s, p, m) == PolicyTerms(s) = {} \/ PolicyTerms(s) \cap SearchText(p, m) # {}

Save(s, p, rev) == match' = match \cup {[sub |-> s.id, post |-> p, rev |-> rev]}

\* A subscription that is gone fails the task, which is tried again from the start.
MatchOne(p) ==
  LET m == matching[p] IN
  /\ m.at = "deciding"
  /\ \E s \in m.todo :
       IF ~Decide(s, p, m)
       THEN matching' = [matching EXCEPT ![p].todo = @ \ {s}] /\ UNCHANGED match
       ELSE IF s.id \in {t.id : t \in subscription}
       THEN /\ Save(s, p, m.rev)
            /\ matching' = [matching EXCEPT ![p].todo = @ \ {s}, ![p].hits = @ \cup {s.graph}]
       ELSE matching' = [matching EXCEPT ![p] = [Unmatched EXCEPT !.at = "pending"]] /\ UNCHANGED match
  /\ UNCHANGED <<world, ask, graphOf, providerStream, subscription, post, generating, insight>>

SameTask(g, p, rev) == {t \in generating : t.graph = g /\ t.post = p /\ t.rev = rev}

\* One insight task for a graph and a revision, unless it exists.
EnqueueInsightGeneration(p) ==
  generating' = generating \cup
    {[graph |-> g, post |-> p, rev |-> matching[p].rev, at |-> "pending", todo |-> {}, now |-> "none"] :
       g \in {h \in matching[p].hits : SameTask(h, p, matching[p].rev) = {}}}

\* The last step of a matching. A task that exists may have read the post before:
\* world.blind notes that.
HandToInsights(p) ==
  /\ matching[p].at = "deciding" /\ matching[p].todo = {}
  /\ EnqueueInsightGeneration(p)
  /\ world' = [world EXCEPT !.blind = @ \/ \E g \in matching[p].hits :
                                           \E t \in SameTask(g, p, matching[p].rev) : t.at # "pending"]
  /\ matching' = [matching EXCEPT ![p] = Unmatched]
  /\ UNCHANGED <<ask, graphOf, providerStream, subscription, post, match, insight>>

\* A worker dies, and the queue hands its task to another one.
MatchingDies(p) ==
  /\ matching[p].at = "deciding" /\ Consumes("crashes")
  /\ matching' = [matching EXCEPT ![p] = [Unmatched EXCEPT !.at = "pending"]]
  /\ UNCHANGED <<ask, graphOf, providerStream, subscription, post, match, generating, insight>>

-----------------------------------------------------------------------------
(* Insights. *)

Becomes(t, u) == generating' = (generating \ {t}) \cup {u}
Ends(t) == generating' = generating \ {t}

RelevantTo(g, p) == {m \in match : m.post = p /\ \E s \in subscription : s.id = m.sub /\ s.graph = g}

BugMentions(g, topic) ==
  Cardinality({m \in match : topic \in TopicsOf(m.post) /\ m \in RelevantTo(g, m.post)})

\* How often a topic is mentioned: by a post once, whatever rows and revisions match it.
Mentions(g, topic) == Cardinality({p \in DOMAIN post : topic \in TopicsOf(p) /\ RelevantTo(g, p) # {}})

Members(g, topic) == {p \in DOMAIN post : topic \in TopicsOf(p) /\ RelevantTo(g, p) # {}}

Trends(g, p) == {[topic |-> topic, posts |-> Members(g, topic)] : topic \in {x \in TopicsOf(p) : Mentions(g, x) >= Trending}}

\* A superseded revision, and a record that is no post, have nothing to tell.
GenerateForRecord(t) ==
  /\ t.at = "pending"
  /\ IF post[t.post].rev # t.rev \/ world.posts[t.post].type # "post" THEN Ends(t)
     ELSE Becomes(t, [t EXCEPT !.at = "storing", !.todo = Trends(t.graph, t.post)])
  /\ UNCHANGED <<world, ask, graphOf, providerStream, subscription, post, match, matching, insight>>

\* An insight the graph was told recently, dismissed or not, is not told again.
ExistsRecent(g, topic) == \E i \in insight : i.graph = g /\ i.topic = topic

\* A look-up that fails counts as one that found something.
LookUp(t) ==
  /\ t.at = "storing"
  /\ \E x \in t.todo :
       \/ /\ Becomes(t, IF ExistsRecent(t.graph, x.topic) THEN [t EXCEPT !.todo = @ \ {x}]
                        ELSE [t EXCEPT !.at = "telling", !.now = x.topic])
          /\ UNCHANGED world
       \/ /\ world.faults > 0 /\ world' = [world EXCEPT !.faults = @ - 1, !.blind = TRUE]
          /\ Becomes(t, [t EXCEPT !.todo = @ \ {x}])
  /\ UNCHANGED <<ask, graphOf, providerStream, subscription, post, match, matching, insight>>

StoreInsight(t) ==
  /\ t.at = "telling"
  /\ \E x \in t.todo :
       /\ x.topic = t.now
       /\ insight' = insight \cup {[graph |-> t.graph, topic |-> x.topic, posts |-> x.posts, by |-> <<t.post, t.rev>>,
                                    dismissed |-> FALSE]}
       /\ Becomes(t, [t EXCEPT !.at = "storing", !.todo = @ \ {x}, !.now = "none"])
  /\ UNCHANGED <<world, ask, graphOf, providerStream, subscription, post, match, matching>>

GeneratingEnds(t) ==
  /\ t.at = "storing" /\ t.todo = {} /\ Ends(t)
  /\ UNCHANGED <<world, ask, graphOf, providerStream, subscription, post, match, matching, insight>>

\* The insert fails or the worker dies: the task is tried again, from the start.
GeneratingFails(t) ==
  /\ t.at # "pending" /\ Consumes("crashes") /\ Becomes(t, [t EXCEPT !.at = "pending", !.todo = {}, !.now = "none"])
  /\ UNCHANGED <<ask, graphOf, providerStream, subscription, post, match, matching, insight>>

UpdateStatus(i) ==
  /\ ~i.dismissed /\ insight' = (insight \ {i}) \cup {[i EXCEPT !.dismissed = TRUE]}
  /\ UNCHANGED <<world, ask, graphOf, providerStream, subscription, post, match, matching, generating>>

DismissPost(p) ==
  /\ post[p].rev > 0 /\ ~post[p].dismissed /\ post' = [post EXCEPT ![p].dismissed = TRUE]
  /\ UNCHANGED <<world, ask, graphOf, providerStream, subscription, match, matching, generating, insight>>

\* The feed: a post that matched, once however many rows it has, unless it was dismissed.
FeedList == {p \in DOMAIN post : ~post[p].dismissed /\ \E m \in match : m.post = p}

-----------------------------------------------------------------------------
SourceNext ==
  \/ \E q \in Asks : \/ BeginAsk(q) \/ EnsureLooks(q) \/ EnsureCommits(q) \/ CreateSource(q) \/ ReadSource(q)
                     \/ DeleteSource(q)
  \/ \E k \in DOMAIN providerStream : ReadStream(k)
  \/ \E p \in DOMAIN post : \/ CapturePost(p) \/ EnrichPost(p) \/ LoadMatching(p) \/ MatchOne(p) \/ HandToInsights(p)
                            \/ MatchingDies(p) \/ DismissPost(p)
  \/ \E t \in generating : \/ GenerateForRecord(t) \/ LookUp(t) \/ StoreInsight(t) \/ GeneratingEnds(t)
                           \/ GeneratingFails(t)
  \/ \E i \in insight : UpdateStatus(i)

SourceSpec == SourceInit /\ [][SourceNext]_sourceVars

-----------------------------------------------------------------------------
(* Properties. *)

\* However many requests a new user sends at once, they get one knowledge graph, and one
\* subscription to a stream: their posts are not divided among graphs none of which sees a trend.
OneGraph ==
  /\ \A i, j \in DOMAIN graphOf : graphOf[i] = graphOf[j] => i = j
  /\ \A s, t \in subscription : s.user = t.user /\ s.stream = t.stream => s = t

\* When nothing is under way, a topic of enough posts that match as they are now has been
\* told, whatever order they were captured, revised, enriched and matched in and whoever
\* died: whichever post came last saw the others. A look-up that failed excuses it, and a
\* matching whose insight task was already at work on what the post was before. A post that
\* has its row by words only its last enrichment had does not count: it is not matched anew.
Settled == generating = {} /\ \A p \in DOMAIN post : post[p].enriched = post[p].rev /\ matching[p].at = "none"
MatchedNow(g, topic) ==
  {p \in DOMAIN post :
     /\ topic \in TopicsOf(p) /\ world.posts[p].type = "post"
     /\ \E s \in subscription : /\ s.graph = g /\ [sub |-> s.id, post |-> p, rev |-> post[p].rev] \in match
                               /\ Decide(s, p, [rev |-> post[p].rev, text |-> post[p].enriched])}
TrendsAreTold ==
  Settled /\ ~world.blind =>
    \A g \in DOMAIN graphOf : \A p \in DOMAIN post : \A topic \in TopicsOf(p) :
      Cardinality(MatchedNow(g, topic)) >= Trending => ExistsRecent(g, topic)

\* An insight has enough distinct posts; and while nobody removes a source, they can be
\* opened from the feed unless they were dismissed there.
InsightsAreGrounded ==
  \A i \in insight :
    /\ Cardinality(i.posts) >= Trending
    /\ ~world.removed => \A p \in i.posts : p \in FeedList \/ post[p].dismissed

MatchesHold == OneGraph /\ TrendsAreTold /\ InsightsAreGrounded

\* Not so: the look-up and the insert are two statements, and two tasks tell the same trend.
OneInsight == \A i, j \in insight : i.graph = j.graph /\ i.topic = j.topic => i = j
\* Not so: who adds a source again is answered with an error, though it was added.
AddsAnswer == \A q \in Asks : ask[q].answer # "error"
\* Not so: who adds a stream that others read sends its reading back to the start.
ReadingIsKept == [][\A k \in DOMAIN providerStream : providerStream[k].read => providerStream'[k].read]_providerStream
\* Not so: a post whose new revision has none of the words still counts by its old rows.
RowsAreCurrent == Settled => \A m \in match : \E n \in match : n.post = m.post /\ n.sub = m.sub /\ n.rev = post[m.post].rev
=============================================================================

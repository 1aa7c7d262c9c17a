---------------------------- MODULE ContentIndex ----------------------------
(***************************************************************************)
(* The index of what can be read: every artifact is projected into rows of  *)
(* text, and projected again when the newest of three clocks beats the      *)
(* stamp it was last projected at.  The clocks carry the time at which the  *)
(* writing transaction began; writers and sweepers interleave.             *)
(***************************************************************************)
EXTENDS Naturals, FiniteSets, Sequences, SequencesExt, Functions

CONSTANTS
  Readables,      \* artifacts, as numbers
  Writers,        \* transactions that may be open at once: the API, workers, the sidecar
  Indexers,       \* processes with a sweeper
  SweepBatch,     \* how many artifacts one sweep lists
  IndexPlans      \* instances: kinds, what cannot be projected, sweepers, writes, and crashes

NotLocked == "nobody"

\* Where the text of a kind is, by the clock that goes with it.
SourceOf(kind) == CASE kind = "page" -> "blocks" [] kind = "file" -> "pages" [] OTHER -> "own"
Clocks(kind) == {"own", SourceOf(kind)}

ASSUME ContentIndexAssumption ==
  /\ Readables \subseteq Nat /\ IsFiniteSet(Indexers) /\ NotLocked \notin Indexers
  /\ SweepBatch \in Nat \ {0}
  /\ IndexPlans \subseteq [kind : [Readables -> {"page", "file", "board", "link", "voice"}], broken : SUBSET Readables,
                           sweepers : SUBSET Indexers, writes : Nat, stops : Nat]

VARIABLES
  corpus,    \* the instance, with the writes and crashes left
  moment,    \* the clock of the database
  origin,    \* the clocks of each artifact, and how often each was written
  writing,   \* open transactions, with the time at which they began
  rows,      \* content_index: which writes of the text the rows of an artifact are from
  stamp,     \* content_index_state
  indexer,   \* the sweepers
  rowLock,   \* who is deleting the rows of an artifact
  latest     \* history: the last beginning of a committed write, and whether the last commit was overtaken by it

indexVars == <<corpus, moment, origin, writing, rows, stamp, indexer, rowLock, latest>>

NoWrite == [of |-> 0, clock |-> "own", began |-> 0]
Resting == [todo |-> <<>>, at |-> "idle", got |-> 0, saw |-> {}]

\* The type invariant.
IndexTypeOK ==
  /\ moment \in Nat
  /\ \A a \in Readables : /\ \A c \in Clocks(corpus.kind[a]) : origin[a][c].at <= moment
                          /\ stamp[a] <= moment /\ rows[a] \subseteq Nat
                          /\ rowLock[a] \in Indexers \cup {NotLocked}
  /\ \A w \in Writers : writing[w].began <= moment
  /\ \A i \in Indexers : indexer[i].at \in {"idle", "project", "replace", "commit"}

IndexInit ==
  /\ corpus \in IndexPlans
  /\ moment = 1
  /\ origin = [a \in Readables |-> [c \in Clocks(corpus.kind[a]) |-> [at |-> IF c = "own" THEN 1 ELSE 0, version |-> 0]]]
  /\ writing = [w \in Writers |-> NoWrite]
  /\ rows = [a \in Readables |-> {}] /\ stamp = [a \in Readables |-> 0]
  /\ indexer = [i \in Indexers |-> Resting]
  /\ rowLock = [a \in Readables |-> NotLocked]
  /\ latest = [a \in Readables |-> [began |-> 1, overtaken |-> FALSE]]

-----------------------------------------------------------------------------
(* The writers.                                                              *)

\* now() is when a transaction began, whatever it waits for before it writes.
BeginWrite(w) ==
  /\ writing[w] = NoWrite /\ corpus.writes > 0
  /\ \E a \in Readables : \E c \in Clocks(corpus.kind[a]) :
       writing' = [writing EXCEPT ![w] = [of |-> a, clock |-> c, began |-> moment + 1]]
  /\ moment' = moment + 1 /\ corpus' = [corpus EXCEPT !.writes = @ - 1]
  /\ UNCHANGED <<origin, rows, stamp, indexer, rowLock, latest>>

CommitWrite(w) ==
  LET a == writing[w].of
      c == writing[w].clock
  IN /\ writing[w] # NoWrite
     /\ origin' = [origin EXCEPT ![a][c] = [at |-> writing[w].began, version |-> @.version + 1]]
     /\ writing' = [writing EXCEPT ![w] = NoWrite]
     /\ latest' = [latest EXCEPT ![a] = [began |-> Max({@.began, writing[w].began}), overtaken |-> writing[w].began < @.began]]
     /\ UNCHANGED <<corpus, moment, rows, stamp, indexer, rowLock>>

-----------------------------------------------------------------------------
(* The sweep. *)

\* Mutant: the clock of the text is forgotten.
BugNewest(a) == origin[a]["own"].at

\* GREATEST of the clocks.
Newest(a) == Max({origin[a][c].at : c \in Clocks(corpus.kind[a])})
Text(a) == origin[a][SourceOf(corpus.kind[a])].version

\* What a projector finds: a kind without a projector has no text.
Extracted(a) == IF corpus.kind[a] = "voice" THEN 0 ELSE Text(a)

IsStale(a) == Newest(a) > stamp[a]

\* The stamps as they are now are what will be recorded: a write that comes while the text is
\* read is newer.
Behind == {[of |-> a, stamp |-> Newest(a)] : a \in {r \in Readables : IsStale(r)}}

\* Oldest first, as many as are asked for; of equal stamps, any order.
OldestFirst(list) ==
  /\ IsInjective(list)
  /\ \A j, k \in DOMAIN list : j < k => list[j].stamp <= list[k].stamp
  /\ \A s \in Behind \ Range(list) :
       Len(list) = SweepBatch /\ \A k \in DOMAIN list : list[k].stamp <= s.stamp

StaleArtifacts(i) ==
  /\ indexer[i].at = "idle" /\ i \in corpus.sweepers /\ Behind # {}
  /\ \E list \in SeqOf(Behind, SweepBatch) :
       OldestFirst(list) /\ indexer' = [indexer EXCEPT ![i] = [Resting EXCEPT !.at = "project", !.todo = list]]
  /\ UNCHANGED <<corpus, moment, origin, writing, rows, stamp, rowLock, latest>>

Head1(i) == Head(indexer[i].todo)
EndSweep(i) == indexer' = [indexer EXCEPT ![i] = Resting]

\* A projector reads the text.  An error ends the sweep.
Project(i) ==
  LET a == Head1(i).of
  IN /\ indexer[i].at = "project"
     /\ IF a \in corpus.broken THEN EndSweep(i)
        ELSE indexer' = [indexer EXCEPT ![i].at = "replace", ![i].got = Extracted(a)]
     /\ UNCHANGED <<corpus, moment, origin, writing, rows, stamp, rowLock, latest>>

\* ReplaceRows deletes the rows it sees; the rows another is deleting it waits for.
ReplaceRows(i) ==
  LET a == Head1(i).of
  IN /\ indexer[i].at = "replace"
     /\ indexer' = [indexer EXCEPT ![i].at = "commit", ![i].saw = rows[a]]
     /\ rowLock' = IF rows[a] # {} /\ rowLock[a] = NotLocked THEN [rowLock EXCEPT ![a] = i] ELSE rowLock
     /\ UNCHANGED <<corpus, moment, origin, writing, rows, stamp, latest>>

\* The stamp that was seen before the text was read is recorded with the rows.
CommitRows(i) ==
  LET a == Head1(i).of
      rest == Tail(indexer[i].todo)
  IN /\ indexer[i].at = "commit" /\ rowLock[a] \in {i, NotLocked}
     /\ rows' = [rows EXCEPT ![a] = (@ \ indexer[i].saw) \cup {indexer[i].got}]
     /\ stamp' = [stamp EXCEPT ![a] = Head1(i).stamp]
     /\ rowLock' = [rowLock EXCEPT ![a] = NotLocked]
     /\ indexer' = [indexer EXCEPT ![i] = IF rest = <<>> THEN Resting ELSE [Resting EXCEPT !.at = "project", !.todo = rest]]
     /\ UNCHANGED <<corpus, moment, origin, writing, latest>>

\* The transaction fails or the process dies: nothing was written.
IndexerFails(i) ==
  /\ indexer[i].at # "idle" /\ corpus.stops > 0 /\ corpus' = [corpus EXCEPT !.stops = @ - 1]
  /\ EndSweep(i)
  /\ rowLock' = [a \in Readables |-> IF rowLock[a] = i THEN NotLocked ELSE rowLock[a]]
  /\ UNCHANGED <<moment, origin, writing, rows, stamp, latest>>

IndexSweep(i) == StaleArtifacts(i) \/ Project(i) \/ ReplaceRows(i) \/ CommitRows(i)

IndexNext ==
  \/ \E w \in Writers : BeginWrite(w) \/ CommitWrite(w)
  \/ \E i \in Indexers : IndexSweep(i) \/ IndexerFails(i)

IndexSpec == IndexInit /\ [][IndexNext]_indexVars

\* The ticker of a worker never stops.
IndexFairness == \A i \in Indexers : WF_indexVars(IndexSweep(i))

-----------------------------------------------------------------------------
(* Searching. *)

\* As many as were asked for, by the id of the artifact.
FirstOf(S, limit) == {a \in S : Cardinality({b \in S : b < a}) < limit}

\* The best row of each artifact; of titles, those of pages alone.
ContentSearch(limit) == FirstOf({a \in Readables : rows[a] \ {0} # {}}, limit)
TitleSearch(limit) == FirstOf({a \in Readables : corpus.kind[a] = "page"}, limit)

\* One artifact is one hit, a title before a text.  A provider that fails gives no hits.
Search(limit, failing) ==
  LET titles == IF "titles" \in failing THEN {} ELSE TitleSearch(limit)
      texts == IF "texts" \in failing THEN {} ELSE ContentSearch(limit)
  IN [of : titles, by : {"title"}] \cup [of : texts \ titles, by : {"text"}]

-----------------------------------------------------------------------------
(* Properties. *)

\* content_index.go: an artifact that is not stale has its present text among its rows,
\* however writes fall between the listing, the projection and the replacement of
\* sweepers, and whichever of them fails; but for a write that began before the newest
\* stamp and was committed after it, which nothing shows to be newer.
KeepsUp ==
  \A a \in Readables : ~IsStale(a) /\ ~latest[a].overtaken => Extracted(a) \in rows[a]

\* One sweeper alone leaves the rows of one projection; two may each leave theirs.
OneProjection == Cardinality(corpus.sweepers) = 1 => \A a \in Readables : Cardinality(rows[a]) <= 1

\* application.go: an artifact is one hit, by its title if that matches; and a provider that
\* fails takes away its own hits only.
SearchServes ==
  \A limit \in 1 .. 2 : \A failing \in SUBSET {"titles", "texts"} :
    LET hits == Search(limit, failing)
    IN /\ \A h, g \in hits : h.of = g.of => h = g
       /\ "texts" \notin failing => \A a \in ContentSearch(limit) : \E h \in hits : h.of = a
       /\ \A h \in hits : IF h.by = "text" THEN rows[h.of] \ {0} # {} ELSE corpus.kind[h.of] = "page"

\* What can be searched is what there is.
IndexKeepsUp == KeepsUp /\ OneProjection /\ SearchServes

\* Where every artifact can be projected, each is up to date again and again.
IndexCatchesUp == corpus.broken = {} => \A a \in Readables : []<>(~IsStale(a))

\* ReplaceRows: "a write racing the projection leaves its newer stamp, so the next sweep
\* re-projects"; not if it began before the write that was projected.
RacingWritesAreProjected ==
  \A a \in Readables : ~IsStale(a) /\ corpus.kind[a] # "voice" => Text(a) \in rows[a]
=============================================================================

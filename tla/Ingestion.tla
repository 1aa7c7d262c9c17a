----------------------------- MODULE Ingestion -----------------------------
(***************************************************************************)
(* Uploaded documents become readable: workers claim the files that have no *)
(* row, a layout pass in another process recovers pages and labelled        *)
(* regions, the regions become a tree of chunks, and all of it is saved in  *)
(* one transaction.  Agents then read a document by ranges of its pages.    *)
(***************************************************************************)
EXTENDS Naturals, FiniteSets, SequencesExt

CONSTANTS
  Archives,       \* instances: what a layout pass finds in each file, the older first, and whose claims may be lost
  Sweepers,       \* worker processes
  ClaimLimit,     \* how many files one sweep claims (5 in the code)
  Target,         \* TargetChunkChars
  PageBudget,     \* readDocumentBudget
  MaxReadPages,   \* how many pages one call reads (25 in the code)
  MaxOutline      \* maxOutlineEntries

\* A layout: its pages by the length of their text; its regions in reading order; its
\* bookmarks by level.  "length" of a title is 1 if there is text in it; "depth" is what its
\* number says, 0 if it has none.
Classes == {"title", "text", "abandon"}
ASSUME IngestionAssumption ==
  /\ {ClaimLimit, Target, PageBudget, MaxReadPages, MaxOutline} \subseteq Nat \ {0}
  /\ \A a \in Archives : \A f \in DOMAIN a.files : LET l == a.files[f] IN
       /\ l.status \in {"ready", "unsupported", "failed", "unresolvable"}
       /\ \A i \in 1 .. Len(l.regions) :
            /\ l.regions[i].class \in Classes /\ l.regions[i].page \in 1 .. Len(l.pages)
            /\ i > 1 => l.regions[i - 1].page <= l.regions[i].page

VARIABLES
  library,    \* what is in each file
  documents,  \* artifact_documents, with the pages, sections, regions and chunks under them
  sweeper,    \* the workers: what they claimed and have not saved
  dropped     \* files whose claim was lost

ingestVars == <<library, documents, sweeper, dropped>>

Uploads == DOMAIN library.files

NoDocument == [status |-> "none", pages |-> <<>>, sections |-> <<>>, regions |-> {}, chunks |-> <<>>]
Terminal == {"ready", "unsupported", "failed"}

\* The type invariant.
IngestTypeOK ==
  /\ library \in Archives
  /\ \A f \in Uploads : documents[f].status \in {"none", "ingesting"} \cup Terminal
  /\ sweeper \in [Sweepers -> SUBSET Uploads]
  /\ dropped \subseteq Uploads

IngestInit ==
  /\ library \in Archives
  /\ documents = [f \in Uploads |-> NoDocument]
  /\ sweeper = [w \in Sweepers |-> {}]
  /\ dropped = {}

-----------------------------------------------------------------------------
(* Regions become a tree.  The tree is the sequence of its chunks in the     *)
(* order they are made, each with its parent's place in it, 0 for the root.  *)

\* flush: a leaf is closed before the region that would make it too long.
Split(body) ==
  LET add(acc, r) ==
        IF acc.size > 0 /\ acc.size + r.length > Target
        THEN [done |-> Append(acc.done, acc.current), current |-> <<r>>, size |-> r.length]
        ELSE [acc EXCEPT !.current = Append(@, r), !.size = @ + r.length]
      end == FoldLeft(add, [done |-> <<>>, current |-> <<>>, size |-> 0], body)
  IN Append(end.done, end.current)

ChunkChildren(tree, p) == {i \in 1 .. Len(tree) : tree[i].parent = p}

PagesOf(regions) == {regions[i].page : i \in 1 .. Len(regions)}
WithText(regions) == SelectSeq(regions, LAMBDA r : r.length > 0)

LeafFrom(tree, p, regions) ==
  [parent |-> p, ordinal |-> Cardinality(ChunkChildren(tree, p)), depth |-> IF p = 0 THEN 0 ELSE tree[p].depth + 1, kind |-> "block",
   own |-> PagesOf(regions), text |-> WithText(regions)]

Flush(b) ==
  IF b.body = <<>> THEN b
  ELSE [b EXCEPT !.body = <<>>,
                 !.tree = FoldLeft(LAMBDA tree, leaf : Append(tree, LeafFrom(tree, Last(b.stack), leaf)), @, Split(b.body))]

\* A heading goes under the last open section that is shallower.
Open(b, r) ==
  LET kept == SelectSeq(b.stack, LAMBDA p : p = 0 \/ b.tree[p].depth < r.depth)
      parent == Last(kept)
      section == [parent |-> parent, ordinal |-> Cardinality(ChunkChildren(b.tree, parent)), depth |-> r.depth,
                  kind |-> "section", own |-> {r.page}, text |-> <<r>>]
  IN [tree |-> Append(b.tree, section), stack |-> Append(kept, Len(b.tree) + 1), body |-> <<>>]

BuildChunks(regions) ==
  LET step(b, r) ==
        IF r.class = "abandon" THEN b
        ELSE IF r.class = "title" /\ r.length > 0 THEN Open(Flush(b), r)
        ELSE [b EXCEPT !.body = Append(@, r)]
  IN Flush(FoldLeft(step, [tree |-> <<>>, stack |-> <<0>>, body |-> <<>>], regions)).tree

\* The ordinals from the root down to a chunk, and those at or below it.
Paths(tree) ==
  LET path[i \in 0 .. Len(tree)] == IF i = 0 THEN <<>> ELSE Append(path[tree[i].parent], tree[i].ordinal) IN path
Under(tree) ==
  LET above[i \in 0 .. Len(tree)] == IF i = 0 THEN {} ELSE {i} \cup above[tree[i].parent]
  IN [i \in 1 .. Len(tree) |-> {j \in 1 .. Len(tree) : i \in above[j]}]

\* propagateSpans: a section covers what is in it.
Spans(tree) ==
  LET under == Under(tree)
      pages == [i \in 1 .. Len(tree) |-> UNION {tree[j].own : j \in under[i]}]
  IN [i \in 1 .. Len(tree) |-> [from |-> Min(pages[i]), to |-> Max(pages[i])]]

\* FlattenChunks: depth first, the parents' places with them.
Before(p, q) ==
  \/ IsStrictPrefix(p, q)
  \/ \E k \in 1 .. Min({Len(p), Len(q)}) : p[k] < q[k] /\ \A h \in 1 .. k - 1 : p[h] = q[h]
DepthFirst(tree) ==
  LET path == Paths(tree)
  IN [i \in 0 .. Len(tree) |-> Cardinality({j \in 0 .. Len(tree) : Before(path[j], path[i])})]

Listed(tree, place) ==
  LET span == Spans(tree)
      row(i) == [parent |-> place[tree[i].parent], ordinal |-> tree[i].ordinal, depth |-> tree[i].depth,
                 kind |-> tree[i].kind, span |-> span[i], text |-> tree[i].text]
  IN [k \in 1 .. Len(tree) |-> row(CHOOSE i \in 1 .. Len(tree) : place[i] = k)]

\* Mutant: the children of a chunk are listed before it is.
BugFlattenChunks(tree) ==
  LET place == DepthFirst(tree)
  IN Listed(tree, [i \in 0 .. Len(tree) |-> IF i = 0 THEN 0 ELSE Len(tree) + 1 - place[i]])

FlattenChunks(tree) == Listed(tree, DepthFirst(tree))

-----------------------------------------------------------------------------
(* The sweep. *)

Oldest(S, n) == {f \in S : Cardinality({g \in S : g < f}) < n}

\* The INSERT is the claim; a file whose path cannot be resolved fails in the same loop.
ClaimPending(w) ==
  LET claimed == Oldest({f \in Uploads : documents[f].status = "none"}, ClaimLimit)
      bad == {f \in claimed : library.files[f].status = "unresolvable"}
  IN /\ sweeper[w] = {} /\ claimed # {}
     /\ documents' = [f \in Uploads |->
          IF f \in claimed THEN [NoDocument EXCEPT !.status = IF f \in bad THEN "failed" ELSE "ingesting"] ELSE documents[f]]
     /\ sweeper' = [sweeper EXCEPT ![w] = claimed \ bad]
     /\ UNCHANGED <<library, dropped>>

\* A layout with pages but hardly a word is unsupported, with its pages; a tool that is
\* missing, crashes, hangs until its time is up or writes nonsense leaves an error.
Extract(layout) ==
  IF layout.status = "failed" THEN [NoDocument EXCEPT !.status = "failed"]
  ELSE [status |-> layout.status, pages |-> layout.pages, sections |-> layout.bookmarks,
        regions |-> {i \in 1 .. Len(layout.regions) : layout.regions[i].boxed},
        chunks |-> FlattenChunks(BuildChunks(layout.regions))]

ParentsFirst(chunks) == \A k \in 1 .. Len(chunks) : chunks[k].parent < k

\* One transaction: everything that was there is replaced; malformed boxes are dropped; a
\* chunk whose parent has no id yet undoes it all.
SaveResult(w) ==
  \E f \in sweeper[w] :
    LET result == Extract(library.files[f])
    IN /\ \A g \in sweeper[w] : f <= g
       /\ documents' = IF ParentsFirst(result.chunks)
                       THEN [documents EXCEPT ![f] = result] ELSE documents
       /\ sweeper' = [sweeper EXCEPT ![w] = @ \ {f}]
       /\ UNCHANGED <<library, dropped>>

\* The transaction fails, or the process is stopped and drops the rest of its batch.
SaveFails(w) ==
  /\ \E f \in sweeper[w] \cap library.frail :
       sweeper' = [sweeper EXCEPT ![w] = @ \ {f}] /\ dropped' = dropped \cup {f}
  /\ UNCHANGED <<library, documents>>

SweeperStops(w) ==
  /\ sweeper[w] \cap library.frail # {}
  /\ sweeper' = [sweeper EXCEPT ![w] = {}] /\ dropped' = dropped \cup sweeper[w]
  /\ UNCHANGED <<library, documents>>

Sweeping(w) == ClaimPending(w) \/ SaveResult(w)

IngestNext == \E w \in Sweepers : Sweeping(w) \/ SaveFails(w) \/ SweeperStops(w)

IngestSpec == IngestInit /\ [][IngestNext]_ingestVars

-----------------------------------------------------------------------------
(* Reading. *)

\* GetChunkTree: rows by parent and ordinal, put together from the roots down.
ReadPaths(rows) ==
  LET rank(k) == Cardinality({j \in 1 .. Len(rows) : rows[j].parent = rows[k].parent /\ rows[j].ordinal < rows[k].ordinal})
      path[k \in 0 .. Len(rows)] == IF k = 0 THEN <<>> ELSE Append(path[rows[k].parent], rank(k))
  IN path
GetChunkTree(rows) ==
  LET path == ReadPaths(rows) IN {<<path[k], rows[k].kind, rows[k].span, rows[k].text>> : k \in 1 .. Len(rows)}

\* flattenChunkTitles: the level of a title is the number of sections it is in.
ChunkTitles(rows) ==
  LET level[k \in 0 .. Len(rows)] == IF k = 0 \/ rows[k].parent = 0 THEN 0 ELSE 1 + level[rows[k].parent]
      titles == SelectSeq([k \in 1 .. Len(rows) |-> k], LAMBDA k : rows[k].kind = "section")
  IN [n \in 1 .. Len(titles) |-> [level |-> level[titles[n]], page |-> rows[titles[n]].span.from]]

\* capOutline: the shallowest level at which there is something and not too much.
CapOutline(sections) ==
  LET upTo(d) == SelectSeq(sections, LAMBDA s : s.level <= d)
      fits == {d \in 0 .. 3 : Len(upTo(d)) \in 1 .. MaxOutline}
  IN IF Len(sections) <= MaxOutline THEN sections
     ELSE IF fits # {} THEN upTo(Min(fits)) ELSE SubSeq(sections, 1, MaxOutline)

\* getArtifact: the document's own bookmarks, or what the layout pass recovered.
OutlineOf(d) == IF d.sections = <<>> THEN CapOutline(ChunkTitles(d.chunks)) ELSE CapOutline(d.sections)

\* joinPages: pages until one does not fit; the mark of a page counts too.
ShownPages(d, from, to) ==
  {p \in from .. to : /\ d.pages[p] > 0
                      /\ FoldLeft(LAMBDA sum, n : sum + n, 0, SubSeq(d.pages, from, p)) <= PageBudget}

\* readDocument.
ReadDocument(d, fromPage, toPage) ==
  LET from == IF fromPage = 0 THEN 1 ELSE fromPage
      asked == IF toPage = 0 \/ toPage > Len(d.pages) THEN Len(d.pages) ELSE toPage
      capped == asked + 1 > from + MaxReadPages
      to == IF capped THEN from + MaxReadPages - 1 ELSE asked
      shown == ShownPages(d, from, to)
  IN [shown |-> shown, from |-> from, to |-> to,
      more |-> IF \E p \in from .. to : d.pages[p] > 0 /\ p \notin shown THEN "narrower"
               ELSE IF capped THEN "next" ELSE "none"]

-----------------------------------------------------------------------------
(* Properties. *)

\* A file is claimed by one worker, and no worker holds what was saved: two sweeps do not
\* extract one file, nor one save over the other.
ClaimedOnce ==
  /\ \A f \in Uploads : Cardinality({w \in Sweepers : f \in sweeper[w]}) <= 1
  /\ \A w \in Sweepers : \A f \in sweeper[w] : documents[f].status = "ingesting"

\* sweeper.go: a row that is neither in a worker's hands nor finished can only come of a
\* claim that was lost, which nothing takes up again.
StuckIsLost ==
  \A f \in Uploads : documents[f].status = "ingesting" /\ f \notin dropped => \E w \in Sweepers : f \in sweeper[w]

\* chunk.go: a region with text that is not furniture is in one chunk of the tree that is
\* read, in reading order; a chunk is within its size, or one region; it lies within the
\* pages of the sections above; and what is read back is the tree that was built.
TreeIsFaithful ==
  \A f \in Uploads : documents[f].chunks # <<>> =>
    LET rows == documents[f].chunks
        layout == library.files[f]
        built == BuildChunks(layout.regions)
        path == Paths(built)
        span == Spans(built)
        size(k) == FoldLeft(LAMBDA sum, r : sum + r.length, 0, rows[k].text)
    IN /\ FlattenSeq([k \in 1 .. Len(rows) |-> rows[k].text])
            = SelectSeq(layout.regions, LAMBDA r : r.class # "abandon" /\ r.length > 0)
       /\ \A k \in 1 .. Len(rows) :
            /\ rows[k].kind = "block" => size(k) <= Target \/ Len(rows[k].text) = 1
            /\ rows[k].parent # 0 =>
                 /\ rows[rows[k].parent].kind = "section"
                 /\ rows[rows[k].parent].span.from <= rows[k].span.from /\ rows[k].span.to <= rows[rows[k].parent].span.to
       /\ GetChunkTree(rows) =
            {<<path[i], built[i].kind, span[i], built[i].text>> : i \in 1 .. Len(built)}

\* workspace_tools.go: an agent that follows the hints reads all of a document: what is
\* shown is the beginning of what was asked for, only a hint lets pages out, the next
\* range starts where one ends, and a page that fits can be had alone.
ReadsGoOn ==
  \A f \in Uploads : documents[f].status = "ready" =>
    LET d == documents[f]
        written(from, to) == {p \in from .. to : d.pages[p] > 0}
    IN /\ \A from, to \in 0 .. Len(d.pages) + 1 :
            LET r == ReadDocument(d, from, to)
            IN /\ \A p \in r.shown : written(r.from, p) \subseteq r.shown
               /\ r.more = "none" => r.shown = written(r.from, IF to = 0 THEN Len(d.pages) ELSE Min({to, Len(d.pages)}))
               /\ r.more = "next" => r.shown = written(r.from, r.to) /\ r.to < Len(d.pages)
       /\ \A p \in 1 .. Len(d.pages) : d.pages[p] \in 1 .. PageBudget => ReadDocument(d, p, p).shown = {p}

\* workspace_tools.go: an outline is never empty where there are headings, and never long.
OutlineServes ==
  \A f \in Uploads : documents[f].status = "ready" =>
    LET outline == OutlineOf(documents[f])
    IN /\ Len(outline) <= MaxOutline
       /\ (documents[f].sections # <<>> \/ \E k \in 1 .. Len(documents[f].chunks) : documents[f].chunks[k].kind = "section")
            => outline # <<>>

\* A document that is there is whole.
DocumentsAreWhole == ClaimedOnce /\ StuckIsLost /\ TreeIsFaithful /\ ReadsGoOn /\ OutlineServes

\* sweeper.go: "Whatever happens, the row moves off 'ingesting'".
RowsMoveOn == \A f \in Uploads : documents[f].status = "ingesting" => \E w \in Sweepers : f \in sweeper[w]
=============================================================================

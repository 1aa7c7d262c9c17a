---------------------------- MODULE ArtifactTree ----------------------------
(***************************************************************************)
(* The requests that write one user's tree of folders and artifacts, step   *)
(* by step: what the service reads on the pool before the transaction       *)
(* (the container, the position), the transaction under the user's lock,    *)
(* and what it reads for the answer after it. A step below is one read, one *)
(* file operation or one transaction, so requests interleave between them.  *)
(*                                                                         *)
(* Rows are never removed: a deletion leaves a tombstone with a higher seq. *)
(***************************************************************************)
EXTENDS Integers, FiniteSets, FiniteSetsExt, Functions

CONSTANTS
  Folders, Leaves,  \* ids of folders (research folders are such) and of artifacts
  Top,              \* the absent parent_id
  Planted,          \* the tree the requests find
  TreeRequests,     \* the requests of a behaviour
  MayAsk,           \* the operations each request may be
  TreeCrashes       \* bound: requests cut between two of their steps

TreeNodes == Folders \cup Leaves

ASSUME TreeAssumption ==
  /\ Folders \cap Leaves = {} /\ Top \notin TreeNodes /\ IsFiniteSet(TreeNodes) /\ TreeCrashes \in Nat
  /\ DOMAIN MayAsk = TreeRequests
  /\ \A r \in TreeRequests : MayAsk[r] \subseteq {"create", "upload", "move", "update", "rename", "remove", "delete"}
  /\ Planted \in [DOMAIN Planted -> [parent : Folders \cup {Top}, position : Nat \ {0}, seq : Nat \ {0}, deleted : BOOLEAN]]
  /\ DOMAIN Planted \subseteq TreeNodes
  /\ \A m, n \in DOMAIN Planted :
       /\ Planted[n].parent \in DOMAIN Planted \cup {Top}
       /\ ~Planted[m].deleted /\ ~Planted[n].deleted /\ Planted[m].parent = Planted[n].parent
          /\ Planted[m].position = Planted[n].position => m = n

VARIABLES
  tree,     \* tree_nodes by id: parent, position, seq, is_deleted
  files,    \* the artifacts whose uploaded bytes are on the disk
  request,  \* the requests: what was asked, what was read, where they are
  cuts      \* crashes left

treeVars == <<tree, files, request, cuts>>

Ops == {"create", "upload", "move", "update", "rename", "remove", "delete"}
Steps == {"unsent", "read", "check", "save", "place", "write", "answer", "end"}
TreeOutcomes == {"none", "ok", "missing", "failed", "lost"}
Unsent == [op |-> "create", node |-> Top, parent |-> Top, step |-> "unsent", position |-> 0, wrote |-> 0,
           seq |-> 0, outcome |-> "none"]

\* The type invariant: every node hangs on a folder that is there, and bytes on the disk
\* belong to an artifact.
TreeTypeOK ==
  /\ DOMAIN tree \subseteq TreeNodes
  /\ \A n \in DOMAIN tree :
       /\ tree[n].parent \in DOMAIN tree \cup {Top} /\ tree[n].parent \notin Leaves
       /\ tree[n].position > 0 /\ tree[n].seq > 0 /\ tree[n].deleted \in BOOLEAN
  /\ files \subseteq Leaves
  /\ \A r \in TreeRequests : request[r].op \in Ops /\ request[r].step \in Steps /\ request[r].outcome \in TreeOutcomes

TreeInit ==
  /\ tree = Planted /\ files = {} /\ cuts = TreeCrashes
  /\ request = [r \in TreeRequests |-> Unsent]

-----------------------------------------------------------------------------
(* What the statements compute. *)

Live(n) == n \in DOMAIN tree /\ ~tree[n].deleted
Children(p) == {n \in DOMAIN tree : tree[n].parent = p}

\* GetContainer: a live folder; without a parent nothing is checked.
Container(p) == p = Top \/ (p \in Folders /\ Live(p))

NextNodePosition(p) == Max({0} \cup {tree[n].position : n \in {c \in Children(p) : Live(c)}}) + 1

BugTaken(n, p, at) == FALSE

\* The unique index over the live nodes of a parent, which knows tombstones no more.
Taken(n, p, at) == \E c \in Children(p) \ {n} : Live(c) /\ tree[c].position = at

\* The recursive query follows parents through tombstones as well: the least set with the
\* node and the children of its members.
Subtree(n) ==
  {m \in DOMAIN tree : \A S \in SUBSET DOMAIN tree : n \in S /\ (\A c \in DOMAIN tree : tree[c].parent \in S => c \in S) => m \in S}

\* EmitNodeUpsert: the row gets the next seq, a tombstone stays one.
Emitted(row) == [row EXCEPT !.seq = @ + 1]

BugSoftDeleted(row) == [row EXCEPT !.deleted = TRUE]
SoftDeleted(row) == [row EXCEPT !.deleted = TRUE, !.seq = @ + 1]

-----------------------------------------------------------------------------
(* A request, up to its transaction. *)

FirstStep(op) ==
  CASE op \in {"create", "upload", "move"} -> "check" [] op = "update" -> "read" [] OTHER -> "write"

\* An upload's id is the server's own, unknown until its row is there; any other id is the client's.
Send(r) ==
  /\ request[r].step = "unsent"
  /\ \E op \in MayAsk[r], n \in TreeNodes, p \in Folders \cup {Top} :
       /\ op \in {"upload", "update"} => n \in Leaves
       /\ op = "upload" => n \notin DOMAIN tree /\ \A q \in TreeRequests : request[q].node # n
       /\ \A q \in TreeRequests : request[q].op = "upload" /\ request[q].node = n => n \in DOMAIN tree
       /\ op \in {"rename", "remove", "delete"} => p = Top
       /\ request' = [request EXCEPT ![r] = [@ EXCEPT !.op = op, !.node = n, !.parent = p, !.step = FirstStep(op)]]
  /\ UNCHANGED <<tree, files, cuts>>

Go(r, step) == request' = [request EXCEPT ![r].step = step]
Reply(r, outcome) == request' = [request EXCEPT ![r].step = "end", ![r].outcome = outcome]
Committed(r, row) == request' = [request EXCEPT ![r].step = "answer", ![r].wrote = row.seq]

\* Update reads the artifact, hidden when its node is a tombstone; without a
\* folder in the patch (Top here) it checks and moves nothing.
ReadCurrent(r) ==
  /\ request[r].step = "read"
  /\ IF Live(request[r].node) THEN Go(r, "check") ELSE Reply(r, "missing")
  /\ UNCHANGED <<tree, files, cuts>>

AfterCheck(op) == CASE op = "upload" -> "save" [] op = "update" -> "write" [] OTHER -> "place"

CheckContainer(r) ==
  /\ request[r].step = "check"
  /\ IF Container(request[r].parent) THEN Go(r, AfterCheck(request[r].op)) ELSE Reply(r, "missing")
  /\ UNCHANGED <<tree, files, cuts>>

SaveResource(r) ==
  /\ request[r].step = "save"
  /\ files' = files \cup {request[r].node} /\ Go(r, "place")
  /\ UNCHANGED <<tree, cuts>>

ReadPosition(r) ==
  /\ request[r].step = "place"
  /\ request' = [request EXCEPT ![r].step = "write", ![r].position = NextNodePosition(request[r].parent)]
  /\ UNCHANGED <<tree, files, cuts>>

-----------------------------------------------------------------------------
(* The transactions. *)

Writing(r, ops) == request[r].step = "write" /\ request[r].op \in ops

\* The primary key, and the index on the place.
Inserts(n, p, at) == n \notin DOMAIN tree /\ ~Taken(n, p, at)

\* A failed upload takes its bytes back.
CleanupStoredResource(n) == files' = files \ {n}

\* CreateArtifactGraph and CreateTreeNode. An upload answers with no further read.
CreateNode(r) ==
  LET n == request[r].node  p == request[r].parent  at == request[r].position
      row == Emitted([parent |-> p, position |-> at, seq |-> 0, deleted |-> FALSE])
  IN /\ Writing(r, {"create", "upload"})
     /\ IF Inserts(n, p, at)
        THEN /\ tree' = [m \in DOMAIN tree \cup {n} |-> IF m = n THEN row ELSE tree[m]]
             /\ IF request[r].op = "upload" THEN Reply(r, "ok") ELSE Committed(r, row)
             /\ UNCHANGED files
        ELSE /\ Reply(r, "failed")
             /\ IF request[r].op = "upload" THEN CleanupStoredResource(n) ELSE UNCHANGED files
             /\ UNCHANGED tree
     /\ UNCHANGED cuts

\* The new place of an artifact, tombstone or not, told in so many frames.
Placed(r, p, at, frames) ==
  LET n == request[r].node
      row == [tree[n] EXCEPT !.parent = p, !.position = at, !.seq = @ + frames]
  IN IF Live(n) /\ Taken(n, p, at)
     THEN Reply(r, "failed") /\ UNCHANGED tree
     ELSE tree' = [tree EXCEPT ![n] = row] /\ Committed(r, row)

Absent(r) == request[r].node \notin DOMAIN tree \cap Leaves /\ Reply(r, "missing") /\ UNCHANGED tree

MoveNode(r) ==
  /\ Writing(r, {"move"})
  /\ \/ Absent(r)
     \/ /\ request[r].node \in DOMAIN tree \cap Leaves
        /\ Placed(r, request[r].parent, request[r].position, 1)
  /\ UNCHANGED <<files, cuts>>

\* The position is read under the lock; a move and the fields emit one frame each.
UpdateArtifactGraph(r) ==
  LET n == request[r].node  p == request[r].parent
  IN /\ Writing(r, {"update"})
     /\ \/ Absent(r)
        \/ /\ n \in DOMAIN tree /\ p # Top
           /\ Placed(r, p, NextNodePosition(p), 2)
        \/ /\ n \in DOMAIN tree /\ p = Top
           /\ tree' = [tree EXCEPT ![n] = Emitted(@)] /\ Committed(r, tree'[n])
     /\ UNCHANGED <<files, cuts>>

UpdateFolderTitle(r) ==
  /\ Writing(r, {"rename"})
  /\ IF request[r].node \in DOMAIN tree \cap Folders
     THEN tree' = [tree EXCEPT ![request[r].node] = Emitted(@)] /\ Committed(r, tree'[request[r].node])
     ELSE Reply(r, "missing") /\ UNCHANGED tree
  /\ UNCHANGED <<files, cuts>>

Tombstoned(r, nodes) ==
  IF request[r].node \in DOMAIN tree
  THEN /\ tree' = [m \in DOMAIN tree |-> IF m \in nodes THEN SoftDeleted(tree[m]) ELSE tree[m]]
       /\ Committed(r, tree'[request[r].node])
  ELSE Reply(r, "missing") /\ UNCHANGED tree

DeleteBrowserNode(r) ==
  /\ Writing(r, {"remove"}) /\ Tombstoned(r, Subtree(request[r].node))
  /\ UNCHANGED <<files, cuts>>

\* By id alone, whatever the kind of the node, and never its children.
DeleteArtifact(r) ==
  /\ Writing(r, {"delete"}) /\ Tombstoned(r, {request[r].node})
  /\ UNCHANGED <<files, cuts>>

-----------------------------------------------------------------------------
(* The answer, a read of its own. *)

\* Updates, moves and renames first read the entity itself, which a tombstone
\* hides; the light node is read with tombstones.
Shown(r) == request[r].op \in {"move", "update", "rename"} => Live(request[r].node)

BugLightNode(r) == Planted[request[r].node].seq
LightNode(r) == tree[request[r].node].seq

Answer(r) ==
  /\ request[r].step = "answer"
  /\ IF Shown(r)
     THEN request' = [request EXCEPT ![r].step = "end", ![r].outcome = "ok", ![r].seq = LightNode(r)]
     ELSE Reply(r, "missing")
  /\ UNCHANGED <<tree, files, cuts>>

CutRequest(r) ==
  /\ cuts > 0 /\ request[r].step \notin {"unsent", "end"}
  /\ cuts' = cuts - 1 /\ Reply(r, "lost")
  /\ UNCHANGED <<tree, files>>

TreeNext ==
  \E r \in TreeRequests :
    \/ Send(r) \/ ReadCurrent(r) \/ CheckContainer(r) \/ SaveResource(r) \/ ReadPosition(r)
    \/ CreateNode(r) \/ MoveNode(r) \/ UpdateArtifactGraph(r) \/ UpdateFolderTitle(r)
    \/ DeleteBrowserNode(r) \/ DeleteArtifact(r) \/ Answer(r) \/ CutRequest(r)

TreeSpec == TreeInit /\ [][TreeNext]_treeVars

-----------------------------------------------------------------------------
(* Properties. *)

\* Two live nodes never have one place, though the place of a new node is read
\* before the transaction that takes it (NextNodePosition, CreateArtifactGraph).
PlacesAreDistinct ==
  \A m, n \in DOMAIN tree :
    Live(m) /\ Live(n) /\ tree[m].parent = tree[n].parent /\ tree[m].position = tree[n].position => m = n

\* Whoever changes a row takes the next seq, and no request revives a tombstone,
\* also one that read the node before it was deleted (replicas keep the higher seq).
VersionsTellChanges ==
  [][\A n \in DOMAIN tree :
       /\ tree'[n] # tree[n] => tree'[n].seq > tree[n].seq
       /\ tree[n].deleted => tree'[n].deleted]_treeVars

\* After a folder is removed nothing below it is live, including what a request
\* overtaken by an earlier removal put under a tombstone (DeleteBrowserNode).
CascadeIsWhole ==
  [][\A r \in TreeRequests :
       request[r].op = "remove" /\ request[r].step = "write" /\ request'[r].step = "answer" =>
         \E gone \in SUBSET DOMAIN tree :
           /\ request[r].node \in gone
           /\ \A n \in DOMAIN tree : tree'[n].parent \in gone => n \in gone
           /\ \A n \in gone : tree'[n].deleted]_treeVars

\* Every change of the tree is told by the versions, and a removal takes all of its subtree.
TreeChangesAreWhole == VersionsTellChanges /\ CascadeIsWhole

\* The seq of an answer is no older than the request's own write, or the caller
\* would take its own change for a stale one (LightNode after the commit).
AnswersOwnWrite ==
  \A r \in TreeRequests : request[r].outcome = "ok" /\ request[r].op # "upload" => request[r].seq >= request[r].wrote

\* An upload that ended has both its bytes and its row or neither (cleanupStoredResource).
UploadIsWhole ==
  \A r \in TreeRequests :
    request[r].op = "upload" /\ request[r].step = "end" /\ request[r].outcome # "lost"
      => (request[r].node \in files <=> request[r].node \in DOMAIN tree)

\* What a request answers is what it did, whatever came in between, and no two took one place.
RequestsAreWhole == AnswersOwnWrite /\ UploadIsWhole /\ PlacesAreDistinct
=============================================================================

--------------------------- MODULE WorkspaceProofs ---------------------------
(* Proofs about what users write, the tree of folders and artifacts, and about finding it. *)
EXTENDS Workspace, AccessProofs, ShardProofs, FiniteSetTheorems, NaturalsInduction, TLAPS

---------------------------------------------------------------------------
(* The tree. *)

NodeRow == [parent : Folders \cup {Top}, position : Nat \ {0}, seq : Nat \ {0}, deleted : BOOLEAN]
RequestType == [op : Ops, node : TreeNodes \cup {Top}, parent : Folders \cup {Top}, step : Steps, position : Nat,
                wrote : Nat, seq : Nat, outcome : TreeOutcomes]

TreeTypes ==
  /\ DOMAIN tree \subseteq TreeNodes /\ tree \in [DOMAIN tree -> NodeRow]
  /\ \A n \in DOMAIN tree : tree[n].parent \in DOMAIN tree \cup {Top}
  /\ files \subseteq Leaves /\ cuts \in Nat
  /\ request \in [TreeRequests -> RequestType]

\* What a request found out before it writes is still so: its folder is there, and its
\* position was free for someone.
Prepared(r) ==
  LET q == request[r] IN
  /\ q.op \in {"create", "upload", "move", "update"} /\ q.step \in {"save", "place", "write"} => q.parent \in DOMAIN tree \cup {Top}
  /\ q.op \in {"create", "upload", "move"} /\ q.step = "write" => q.position > 0
  /\ q.step = "unsent" => q.op # "upload"
  /\ q.step = "save" => q.op = "upload"
  /\ q.step # "unsent" => q.node \in TreeNodes /\ (q.op = "upload" => q.node \in Leaves)

\* What it wrote is in the row since, and in its answer.
Wrote(r) ==
  LET q == request[r] IN
  /\ q.step = "answer" => q.op # "upload" /\ q.node \in DOMAIN tree /\ tree[q.node].seq >= q.wrote
  /\ q.outcome = "ok" /\ q.op # "upload" => q.seq >= q.wrote
  /\ q.outcome # "none" => q.step = "end"

\* Nobody knows the id of an upload before its row is there; its bytes are there once they
\* are saved until it fails.
OwnUpload(r) ==
  LET q == request[r] IN
  q.op = "upload" /\ q.step # "unsent" =>
    /\ q.node \notin DOMAIN tree => \A o \in TreeRequests \ {r} : request[o].node # q.node
    /\ q.step # "end" => q.node \notin DOMAIN tree
    /\ q.step \in {"check", "save"} => q.node \notin files
    /\ q.step \in {"place", "write"} => q.node \in files
    /\ q.step = "end" /\ q.outcome # "lost" => (q.node \in files <=> q.node \in DOMAIN tree)
    /\ q.step \in {"check", "save", "place", "write", "end"} /\ (q.step = "end" => q.outcome # "none")
BytesAreOwned == \A f \in files : \E r \in TreeRequests : request[r].op = "upload" /\ request[r].node = f

TreeInv ==
  /\ TreeTypes /\ PlacesAreDistinct /\ BytesAreOwned
  /\ \A r \in TreeRequests : Prepared(r) /\ Wrote(r) /\ OwnUpload(r)

\* A change of the rows that tells itself: ids stay, versions grow, and no tombstone is revived.
Grows ==
  /\ DOMAIN tree \subseteq DOMAIN tree'
  /\ \A n \in DOMAIN tree :
       /\ tree'[n] # tree[n] => tree'[n].seq > tree[n].seq
       /\ tree[n].deleted => tree'[n].deleted

LEMMA TreeInitInv == TreeInit => TreeInv
<1> SUFFICES ASSUME TreeInit PROVE TreeInv
  OBVIOUS
<1>1. Unsent \in RequestType
  BY DEF Unsent, RequestType, Ops, Steps, TreeOutcomes
<1>2. TreeTypes
  BY <1>1, TreeAssumption DEF TreeInit, TreeTypes, NodeRow
<1>3. PlacesAreDistinct
  BY TreeAssumption DEF TreeInit, PlacesAreDistinct, Live
<1>4. BytesAreOwned /\ \A r \in TreeRequests : Prepared(r) /\ Wrote(r) /\ OwnUpload(r)
  BY DEF TreeInit, BytesAreOwned, Prepared, Wrote, OwnUpload, Unsent
<1> QED BY <1>2, <1>3, <1>4 DEF TreeInv

LEMMA TreeFacts ==
  ASSUME TreeInv, NEW r \in TreeRequests
  PROVE  /\ request[r] \in RequestType /\ request[r].op \in Ops /\ request[r].step \in Steps
         /\ request[r].node \in TreeNodes \cup {Top} /\ request[r].parent \in Folders \cup {Top}
         /\ request[r].position \in Nat /\ request[r].wrote \in Nat /\ request[r].seq \in Nat
         /\ request[r].outcome \in TreeOutcomes
         /\ Prepared(r) /\ Wrote(r) /\ OwnUpload(r)
BY DEF TreeInv, TreeTypes, RequestType

LEMMA RowFacts ==
  ASSUME TreeInv, NEW n \in DOMAIN tree
  PROVE  /\ tree[n] \in NodeRow /\ tree[n].parent \in Folders \cup {Top} /\ tree[n].position \in Nat \ {0}
         /\ tree[n].seq \in Nat \ {0} /\ tree[n].deleted \in BOOLEAN /\ n \in TreeNodes
         /\ tree[n].parent \in DOMAIN tree \cup {Top}
BY DEF TreeInv, TreeTypes, NodeRow

\* A finite set of numbers has a greatest one: a smallest set without would still be one
\* without after losing an element.
LEMMA GreatestOf ==
  ASSUME NEW S \in SUBSET Nat, S # {}, IsFiniteSet(S)
  PROVE  \E x \in S : \A y \in S : x >= y
<1> DEFINE Has(T) == \E x \in T : \A y \in T : x >= y
           Bad == {k \in Nat : \E T \in SUBSET S : T # {} /\ ~Has(T) /\ Cardinality(T) = k}
<1> SUFFICES ASSUME ~Has(S) PROVE FALSE
  OBVIOUS
<1>1. Cardinality(S) \in Bad
  BY FS_CardinalityType
<1>2. PICK k \in Bad : \A j \in Bad : k <= j
  BY <1>1, LeastOf
<1>3. PICK T \in SUBSET S : T # {} /\ ~Has(T) /\ Cardinality(T) = k
  BY <1>2
<1>4. PICK x : x \in T
  BY <1>3
<1> DEFINE U == T \ {x}
<1>5. IsFiniteSet(T) /\ IsFiniteSet(U) /\ Cardinality(U) = k - 1 /\ k - 1 \in Nat
  <2>1. IsFiniteSet(T)
    BY <1>3, FS_Subset
  <2>2. IsFiniteSet(U) /\ Cardinality(U) = k - 1
    BY <2>1, <1>3, <1>4, FS_RemoveElement
  <2> QED BY <2>1, <2>2, FS_CardinalityType
<1>6. U # {} /\ ~Has(U)
  <2>1. U # {}
    <3>1. CASE T = {x}
      BY <3>1, <1>3, <1>4
    <3> QED BY <3>1, <1>4
  <2>2. ASSUME NEW m \in U, \A y \in U : m >= y PROVE FALSE
    <3>1. CASE m >= x
      BY <3>1, <2>2, <1>3
    <3>2. CASE ~(m >= x)
      <4>1. \A y \in T : x >= y
        BY <3>2, <2>2, <1>3, <1>4
      <4> QED BY <4>1, <1>3, <1>4
    <3> QED BY <3>1, <3>2
  <2> QED BY <2>1, <2>2
<1>7. k - 1 \in Bad
  BY <1>5, <1>6, <1>3
<1> QED BY <1>2, <1>5, <1>7

\* The next position among the children of a folder is a number, and free.
LEMMA PositionFacts ==
  ASSUME TreeInv, NEW p
  PROVE  /\ NextNodePosition(p) \in Nat \ {0}
         /\ \A c \in Children(p) : Live(c) => tree[c].position # NextNodePosition(p)
<1> DEFINE kids == {c \in Children(p) : Live(c)}
           places == {tree[n].position : n \in kids}
           S == {0} \cup places
           f == [n \in kids |-> tree[n].position]
<1>1. kids \subseteq DOMAIN tree /\ IsFiniteSet(kids)
  <2>1. IsFiniteSet(DOMAIN tree)
    BY FS_Subset, TreeAssumption DEF TreeInv, TreeTypes
  <2> QED BY <2>1, FS_Subset DEF Children
<1>2. IsFiniteSet(places)
  <2>1. f \in Surjection(kids, places)
    BY DEF Surjection
  <2> QED BY <2>1, <1>1, FS_Surjection
<1>3. S \in SUBSET Nat /\ IsFiniteSet(S) /\ 0 \in S
  <2>1. places \subseteq Nat
    BY <1>1, RowFacts
  <2>2. S = places \cup {0}
    OBVIOUS
  <2> HIDE DEF places, S
  <2> QED BY <1>2, <2>1, <2>2, FS_AddElement
<1>4. \A c \in Children(p) : Live(c) => tree[c].position \in S
  OBVIOUS
<1>5. NextNodePosition(p) = Max(S) + 1
  BY DEF NextNodePosition
<1> HIDE DEF S
<1>6. \E x \in S : \A y \in S : x >= y
  BY <1>3, GreatestOf
<1>7. Max(S) \in S /\ \A y \in S : Max(S) >= y
  BY <1>6 DEF Max
<1>8. Max(S) \in Nat
  BY <1>3, <1>7
<1> DEFINE next == NextNodePosition(p)
<1>9. next = Max(S) + 1
  BY <1>5
<1> HIDE DEF next
<1>10. next \in Nat \ {0}
  BY <1>8, <1>9
<1>11. ASSUME NEW c \in Children(p), Live(c) PROVE tree[c].position # next
  <2>1. tree[c].position \in Nat /\ Max(S) >= tree[c].position
    BY <1>3, <1>4, <1>7, <1>11
  <2> QED BY <2>1, <1>8, <1>9
<1> QED BY <1>10, <1>11 DEF next

---------------------------------------------------------------------------
(* What a step of one request leaves to the others. *)

Acts(r) ==
  /\ \A q \in TreeRequests : q # r => request'[q] = request[q]
  /\ request'[r].node = request[r].node /\ request'[r].op = request[r].op
  /\ Grows /\ DOMAIN tree' \subseteq DOMAIN tree \cup {request[r].node}
  /\ \A f : f # request[r].node => (f \in files' <=> f \in files)
  /\ request[r].node \in DOMAIN tree => files' = files
  /\ files' \subseteq files \/ request[r].op = "upload"

LEMMA OthersKeep ==
  ASSUME TreeInv, NEW r \in TreeRequests, Acts(r), TreeTypes', NEW q \in TreeRequests, q # r
  PROVE  Prepared(q)' /\ Wrote(q)' /\ OwnUpload(q)'
<1>1. request'[q] = request[q]
  BY DEF Acts
<1>2. request[q] \in RequestType /\ Prepared(q) /\ Wrote(q) /\ OwnUpload(q)
  BY TreeFacts
<1>3. Prepared(q)'
  BY <1>1, <1>2 DEF Prepared, Acts, Grows
<1>4. Wrote(q)'
  <2>1. request[q].step = "answer" => request[q].node \in DOMAIN tree' /\ tree'[request[q].node].seq >= request[q].wrote
    <3> SUFFICES ASSUME request[q].step = "answer"
                 PROVE  request[q].node \in DOMAIN tree' /\ tree'[request[q].node].seq >= request[q].wrote
      OBVIOUS
    <3>1. request[q].node \in DOMAIN tree /\ tree[request[q].node].seq >= request[q].wrote /\ request[q].wrote \in Nat
      BY <1>2 DEF Wrote, RequestType
    <3>2. tree[request[q].node].seq \in Nat
      BY <3>1, RowFacts
    <3>3. request[q].node \in DOMAIN tree' /\ tree'[request[q].node].seq \in Nat
      BY <3>1 DEF Acts, Grows, TreeTypes, NodeRow
    <3>4. tree'[request[q].node].seq >= tree[request[q].node].seq
      BY <3>1, <3>2, <3>3 DEF Acts, Grows
    <3> QED BY <3>1, <3>2, <3>3, <3>4
  <2> QED BY <2>1, <1>1, <1>2 DEF Wrote
<1>5. OwnUpload(q)'
  <2> SUFFICES ASSUME request[q].op = "upload", request[q].step # "unsent" PROVE OwnUpload(q)'
    BY <1>1 DEF OwnUpload
  <2> DEFINE n == request[q].node
  <2>1. n \notin DOMAIN tree => \A o \in TreeRequests \ {q} : request[o].node # n
    BY <1>2 DEF OwnUpload
  <2>2. n \notin DOMAIN tree => request[r].node # n
    BY <2>1
  <2>3. n \notin DOMAIN tree => n \notin DOMAIN tree'
    BY <2>2 DEF Acts
  <2>4. DOMAIN tree \subseteq DOMAIN tree'
    BY DEF Acts, Grows
  <2>5. \A o \in TreeRequests : request'[o].node = request[o].node
    BY DEF Acts
  <2>6. n \in files' <=> n \in files
    <3>1. CASE n \notin DOMAIN tree
      BY <3>1, <2>2 DEF Acts
    <3>2. CASE n \in DOMAIN tree
      BY <3>2 DEF Acts
    <3> QED BY <3>1, <3>2
  <2> QED BY <1>1, <1>2, <2>1, <2>3, <2>4, <2>5, <2>6 DEF OwnUpload
<1> QED BY <1>3, <1>4, <1>5

LEMMA Combine ==
  ASSUME TreeInv, NEW r \in TreeRequests, Acts(r), TreeTypes', PlacesAreDistinct', Prepared(r)', Wrote(r)', OwnUpload(r)'
  PROVE  TreeInv'
<1>1. \A q \in TreeRequests : Prepared(q)' /\ Wrote(q)' /\ OwnUpload(q)'
  BY OthersKeep
<1>2. BytesAreOwned'
  <2> SUFFICES ASSUME NEW f \in files' PROVE \E o \in TreeRequests : request'[o].op = "upload" /\ request'[o].node = f
    BY DEF BytesAreOwned
  <2>1. CASE f \in files
    <3>1. PICK o \in TreeRequests : request[o].op = "upload" /\ request[o].node = f
      BY <2>1 DEF TreeInv, BytesAreOwned
    <3>2. request'[o].op = "upload" /\ request'[o].node = f
      BY <3>1 DEF Acts
    <3> QED BY <3>2
  <2>2. CASE f \notin files
    <3>1. f = request[r].node /\ request[r].op = "upload"
      BY <2>2 DEF Acts
    <3> QED BY <3>1 DEF Acts
  <2> QED BY <2>1, <2>2
<1> QED BY <1>1, <1>2 DEF TreeInv

LEMMA StillGrows == ASSUME tree' = tree PROVE Grows
BY DEF Grows

LEMMA PlacesStay ==
  ASSUME TreeInv, tree' = tree PROVE PlacesAreDistinct'
BY DEF TreeInv, PlacesAreDistinct, Live

LEMMA TypesStay ==
  ASSUME TreeInv, tree' = tree, files' \subseteq Leaves, cuts' \in Nat, request' \in [TreeRequests -> RequestType]
  PROVE  TreeTypes'
BY DEF TreeInv, TreeTypes

---------------------------------------------------------------------------
(* The steps of a request. *)

LEMMA SendKeeps == ASSUME TreeInv, NEW r \in TreeRequests, Send(r) PROVE TreeInv' /\ Grows
<1>1. PICK op \in MayAsk[r], n \in TreeNodes, p \in Folders \cup {Top} :
        /\ op \in {"upload", "update"} => n \in Leaves
        /\ op = "upload" => n \notin DOMAIN tree /\ \A q \in TreeRequests : request[q].node # n
        /\ \A q \in TreeRequests : request[q].op = "upload" /\ request[q].node = n => n \in DOMAIN tree
        /\ request' = [request EXCEPT ![r] = [@ EXCEPT !.op = op, !.node = n, !.parent = p, !.step = FirstStep(op)]]
  BY DEF Send
<1>2. tree' = tree /\ files' = files /\ cuts' = cuts /\ request[r].step = "unsent"
  BY DEF Send
<1>3. op \in Ops /\ FirstStep(op) \in {"check", "read", "write"}
  BY TreeAssumption DEF Ops, FirstStep
<1>4. request[r] \in RequestType /\ Wrote(r) /\ request \in [TreeRequests -> RequestType]
  BY TreeFacts DEF TreeInv, TreeTypes
<1>5. /\ request'[r].op = op /\ request'[r].node = n /\ request'[r].parent = p /\ request'[r].step = FirstStep(op)
      /\ request'[r].wrote = request[r].wrote /\ request'[r].seq = request[r].seq /\ request'[r].outcome = request[r].outcome
      /\ request'[r].position = request[r].position /\ request'[r] \in RequestType
  BY <1>1, <1>3, <1>4 DEF RequestType, Steps
<1>6. \A q \in TreeRequests : q # r => request'[q] = request[q]
  BY <1>1, <1>4
<1>7. TreeTypes' /\ PlacesAreDistinct'
  <2>1. request' \in [TreeRequests -> RequestType]
    BY <1>1, <1>4, <1>5
  <2>2. files' \subseteq Leaves /\ cuts' \in Nat
    BY <1>2 DEF TreeInv, TreeTypes
  <2> QED BY <1>2, <2>1, <2>2, TypesStay, PlacesStay
<1>8. FirstStep(op) = "write" => op \in {"rename", "remove", "delete"}
  BY <1>3 DEF FirstStep, Ops
<1>9. op = "upload" => FirstStep(op) = "check"
  BY DEF FirstStep
<1>10. Prepared(r)' /\ Wrote(r)'
  <2>1. Prepared(r)'
    BY <1>1, <1>3, <1>5, <1>8 DEF Prepared
  <2>2. request[r].outcome = "none"
    BY <1>2, <1>4 DEF Wrote, RequestType
  <2> QED BY <2>1, <2>2, <1>3, <1>5 DEF Wrote
<1>11. OwnUpload(r)'
  <2> SUFFICES ASSUME op = "upload" PROVE OwnUpload(r)'
    BY <1>5 DEF OwnUpload
  <2>1. n \notin DOMAIN tree /\ \A q \in TreeRequests : request[q].node # n
    BY <1>1
  <2>2. n \notin files
    BY <2>1 DEF TreeInv, BytesAreOwned
  <2>3. \A q \in TreeRequests \ {r} : request'[q].node # n
    BY <2>1, <1>6
  <2>4. request'[r].step = "check"
    BY <1>5, <1>9
  <2> QED BY <2>1, <2>2, <2>3, <2>4, <1>2, <1>5 DEF OwnUpload
<1>12. \A q \in TreeRequests : q # r => Prepared(q)' /\ Wrote(q)' /\ OwnUpload(q)'
  <2> SUFFICES ASSUME NEW q \in TreeRequests, q # r PROVE Prepared(q)' /\ Wrote(q)' /\ OwnUpload(q)'
    OBVIOUS
  <2>1. Prepared(q) /\ Wrote(q) /\ OwnUpload(q) /\ request'[q] = request[q]
    BY TreeFacts, <1>6
  <2>2. Prepared(q)' /\ Wrote(q)'
    BY <2>1, <1>2 DEF Prepared, Wrote
  <2>3. OwnUpload(q)'
    <3> SUFFICES ASSUME request[q].op = "upload", request[q].step # "unsent" PROVE OwnUpload(q)'
      BY <2>1 DEF OwnUpload
    <3>1. request[q].node \notin DOMAIN tree => \A o \in TreeRequests \ {q} : request'[o].node # request[q].node
      <4> SUFFICES ASSUME request[q].node \notin DOMAIN tree, NEW o \in TreeRequests \ {q}
                   PROVE  request'[o].node # request[q].node
        OBVIOUS
      <4>1. CASE o = r
        BY <4>1, <1>1, <1>5
      <4>2. CASE o # r
        BY <4>2, <2>1, <1>6 DEF OwnUpload
      <4> QED BY <4>1, <4>2
    <3> QED BY <3>1, <2>1, <1>2 DEF OwnUpload
  <2> QED BY <2>2, <2>3
<1>13. BytesAreOwned'
  <2> SUFFICES ASSUME NEW f \in files PROVE \E o \in TreeRequests : request'[o].op = "upload" /\ request'[o].node = f
    BY <1>2 DEF BytesAreOwned
  <2>1. PICK o \in TreeRequests : request[o].op = "upload" /\ request[o].node = f
    BY DEF TreeInv, BytesAreOwned
  <2>2. o # r
    <3>1. Prepared(r)
      BY TreeFacts
    <3> QED BY <2>1, <3>1, <1>2 DEF Prepared
  <2> QED BY <2>1, <2>2, <1>6
<1> QED BY <1>2, <1>7, <1>10, <1>11, <1>12, <1>13, StillGrows DEF TreeInv

\* A request that ends without having written.
LEMMA ReplyKeeps ==
  ASSUME TreeInv, NEW r \in TreeRequests, NEW o \in {"missing", "failed", "lost"}, Reply(r, o), tree' = tree, cuts' \in Nat,
         request[r].step \notin {"unsent", "end"},
         files' = files \/ (request[r].op = "upload" /\ files' = files \ {request[r].node}),
         request[r].op = "upload" /\ o # "lost" => request[r].node \notin files'
  PROVE  TreeInv' /\ Grows
<1>1. request[r] \in RequestType /\ request \in [TreeRequests -> RequestType] /\ Prepared(r) /\ Wrote(r) /\ OwnUpload(r)
  BY TreeFacts DEF TreeInv, TreeTypes
<1>2. request' = [request EXCEPT ![r].step = "end", ![r].outcome = o]
  BY DEF Reply
<1>3. /\ request'[r].op = request[r].op /\ request'[r].node = request[r].node /\ request'[r].parent = request[r].parent
      /\ request'[r].step = "end" /\ request'[r].outcome = o /\ request'[r] \in RequestType
  BY <1>1, <1>2 DEF RequestType, Steps, TreeOutcomes
<1>4. \A q \in TreeRequests : q # r => request'[q] = request[q]
  BY <1>1, <1>2
<1>5. request' \in [TreeRequests -> RequestType]
  BY <1>1, <1>2, <1>3
<1>6. files' \subseteq Leaves /\ TreeTypes' /\ PlacesAreDistinct' /\ Grows
  BY <1>5, TypesStay, PlacesStay, StillGrows DEF TreeInv, TreeTypes
<1>7. request[r].op = "upload" => request[r].node \notin DOMAIN tree
  BY <1>1 DEF OwnUpload
<1>8. Acts(r)
  BY <1>3, <1>4, <1>6, <1>7 DEF Acts
<1>9. Prepared(r)' /\ Wrote(r)'
  BY <1>1, <1>3 DEF Prepared, Wrote
<1>10. OwnUpload(r)'
  BY <1>1, <1>3, <1>4, <1>7 DEF OwnUpload
<1> QED BY <1>6, <1>8, <1>9, <1>10, Combine

\* A request that only goes on, perhaps with the position it read.
LEMMA GoKeeps ==
  ASSUME TreeInv, NEW r \in TreeRequests, NEW s \in {"check", "save", "place", "write"}, NEW at \in Nat,
         request' = [request EXCEPT ![r] = [@ EXCEPT !.step = s, !.position = at]], tree' = tree, cuts' = cuts,
         request[r].step \in {"read", "check", "save", "place"},
         request[r].op \in {"create", "upload", "move", "update"} /\ s \in {"save", "place", "write"} =>
           request[r].parent \in DOMAIN tree \cup {Top},
         request[r].op \in {"create", "upload", "move"} /\ s = "write" => at > 0, s = "save" => request[r].op = "upload",
         files' = files \/ (request[r].op = "upload" /\ files' = files \cup {request[r].node}),
         request[r].op = "upload" => /\ s \in {"check", "save"} => request[r].node \notin files'
                                     /\ s \in {"place", "write"} => request[r].node \in files'
  PROVE  TreeInv' /\ Grows
<1>1. request[r] \in RequestType /\ request \in [TreeRequests -> RequestType] /\ Prepared(r) /\ Wrote(r) /\ OwnUpload(r)
  BY TreeFacts DEF TreeInv, TreeTypes
<1>3. /\ request'[r].op = request[r].op /\ request'[r].node = request[r].node /\ request'[r].parent = request[r].parent
      /\ request'[r].step = s /\ request'[r].outcome = request[r].outcome /\ request'[r].position = at
      /\ request'[r].seq = request[r].seq /\ request'[r].wrote = request[r].wrote /\ request'[r] \in RequestType
  BY <1>1 DEF RequestType, Steps
<1>4. \A q \in TreeRequests : q # r => request'[q] = request[q]
  BY <1>1
<1>5. request' \in [TreeRequests -> RequestType]
  BY <1>1, <1>3
<1>6. files' \subseteq Leaves /\ TreeTypes' /\ PlacesAreDistinct' /\ Grows
  <2>1. files' \subseteq Leaves
    BY <1>1 DEF TreeInv, TreeTypes, Prepared
  <2>2. cuts' \in Nat
    BY DEF TreeInv, TreeTypes
  <2> QED BY <2>1, <2>2, <1>5, TypesStay, PlacesStay, StillGrows
<1>7. request[r].op = "upload" => request[r].node \notin DOMAIN tree
  BY <1>1 DEF OwnUpload
<1>8. Acts(r)
  BY <1>3, <1>4, <1>6, <1>7 DEF Acts
<1>9. Prepared(r)' /\ Wrote(r)'
  BY <1>1, <1>3 DEF Prepared, Wrote
<1>10. OwnUpload(r)'
  BY <1>1, <1>3, <1>4, <1>7 DEF OwnUpload
<1> QED BY <1>6, <1>8, <1>9, <1>10, Combine

LEMMA GoIs ==
  ASSUME TreeInv, NEW r \in TreeRequests, NEW s, Go(r, s)
  PROVE  request' = [request EXCEPT ![r] = [@ EXCEPT !.step = s, !.position = request[r].position]]
<1>1. request \in [TreeRequests -> RequestType]
  BY DEF TreeInv, TreeTypes
<1>2. [request[r] EXCEPT !.step = s] = [request[r] EXCEPT !.step = s, !.position = request[r].position]
  BY <1>1 DEF RequestType
<1> QED BY <1>1, <1>2 DEF Go

LEMMA ReadsKeep ==
  ASSUME TreeInv, NEW r \in TreeRequests, ReadCurrent(r) \/ CheckContainer(r) \/ SaveResource(r) \/ ReadPosition(r)
  PROVE  TreeInv' /\ Grows
<1> DEFINE n == request[r].node
           at == request[r].position
<1>1. at \in Nat /\ request[r].parent \in Folders \cup {Top} /\ request[r].op \in Ops /\ Prepared(r) /\ OwnUpload(r)
  BY TreeFacts
<1>2. cuts \in Nat
  BY DEF TreeInv, TreeTypes
<1>3. CASE ReadCurrent(r)
  <2>1. tree' = tree /\ files' = files /\ cuts' = cuts /\ request[r].step = "read" /\ request[r].op # "upload"
    BY <1>1, <1>3 DEF ReadCurrent, OwnUpload
  <2>2. CASE Live(n)
    <3>1. request' = [request EXCEPT ![r] = [@ EXCEPT !.step = "check", !.position = at]]
      BY <1>3, <2>2, GoIs DEF ReadCurrent
    <3> QED BY <1>1, <2>1, <3>1, GoKeeps
  <2>3. CASE ~Live(n)
    <3>1. Reply(r, "missing")
      BY <1>3, <2>3 DEF ReadCurrent
    <3> QED BY <1>2, <2>1, <3>1, ReplyKeeps
  <2> QED BY <2>2, <2>3
<1>4. CASE CheckContainer(r)
  <2>1. tree' = tree /\ files' = files /\ cuts' = cuts /\ request[r].step = "check"
    BY <1>4 DEF CheckContainer
  <2>2. request[r].op = "upload" => n \notin files
    BY <1>1, <2>1 DEF OwnUpload
  <2>3. CASE Container(request[r].parent)
    <3> DEFINE s == AfterCheck(request[r].op)
    <3>1. request' = [request EXCEPT ![r] = [@ EXCEPT !.step = s, !.position = at]]
      BY <1>4, <2>3, GoIs DEF CheckContainer
    <3>2. s \in {"save", "write", "place"} /\ (s = "save" <=> request[r].op = "upload") /\ (s = "write" <=> request[r].op = "update")
      BY DEF AfterCheck
    <3>3. request[r].parent \in DOMAIN tree \cup {Top}
      BY <2>3 DEF Container, Live
    <3> HIDE DEF s, at
    <3> QED BY <1>1, <2>1, <2>2, <3>1, <3>2, <3>3, GoKeeps
  <2>4. CASE ~Container(request[r].parent)
    <3>1. Reply(r, "missing")
      BY <1>4, <2>4 DEF CheckContainer
    <3> QED BY <1>2, <2>1, <2>2, <3>1, ReplyKeeps
  <2> QED BY <2>3, <2>4
<1>5. CASE SaveResource(r)
  <2>1. tree' = tree /\ files' = files \cup {n} /\ cuts' = cuts /\ request[r].step = "save" /\ Go(r, "place")
    BY <1>5 DEF SaveResource
  <2>2. request[r].op = "upload" /\ request[r].parent \in DOMAIN tree \cup {Top}
    BY <1>1, <2>1 DEF Prepared
  <2>3. request' = [request EXCEPT ![r] = [@ EXCEPT !.step = "place", !.position = at]]
    BY <2>1, GoIs
  <2> QED BY <1>1, <2>1, <2>2, <2>3, GoKeeps
<1>6. CASE ReadPosition(r)
  <2> DEFINE next == NextNodePosition(request[r].parent)
  <2>1. tree' = tree /\ files' = files /\ cuts' = cuts /\ request[r].step = "place"
    BY <1>6 DEF ReadPosition
  <2>2. next \in Nat \ {0}
    BY PositionFacts
  <2>3. request' = [request EXCEPT ![r] = [@ EXCEPT !.step = "write", !.position = next]]
    BY <1>6 DEF ReadPosition, TreeInv, TreeTypes
  <2>4. request[r].op \in {"create", "upload", "move", "update"} => request[r].parent \in DOMAIN tree \cup {Top}
    BY <1>1, <2>1 DEF Prepared
  <2>5. request[r].op = "upload" => n \in files
    BY <1>1, <2>1 DEF OwnUpload
  <2>6. request[r].op = "upload" => /\ "write" \in {"check", "save"} => n \notin files'
                                    /\ "write" \in {"place", "write"} => n \in files'
    BY <2>1, <2>5
  <2>7. request[r].step \in {"read", "check", "save", "place"} /\ next \in Nat /\ next > 0
    BY <2>1, <2>2
  <2> HIDE DEF next
  <2> QED BY <2>1, <2>3, <2>4, <2>6, <2>7, GoKeeps
<1> QED BY <1>3, <1>4, <1>5, <1>6

---------------------------------------------------------------------------
(* The transactions. *)

LEMMA WriteKeeps ==
  ASSUME TreeInv, NEW r \in TreeRequests, request[r].step = "write", request[r].op # "upload",
         request[r].node \in DOMAIN tree', Committed(r, tree'[request[r].node]),
         Grows, DOMAIN tree' \subseteq DOMAIN tree \cup {request[r].node}, tree' \in [DOMAIN tree' -> NodeRow],
         \A n \in DOMAIN tree' : tree'[n].parent \in DOMAIN tree' \cup {Top},
         PlacesAreDistinct', files' = files, cuts' = cuts
  PROVE  TreeInv' /\ Grows
<1> DEFINE seq == tree'[request[r].node].seq
<1>1. request[r] \in RequestType /\ request \in [TreeRequests -> RequestType] /\ Prepared(r) /\ Wrote(r) /\ OwnUpload(r)
  BY TreeFacts DEF TreeInv, TreeTypes
<1>2. seq \in Nat \ {0}
  BY DEF NodeRow
<1>3. request' = [request EXCEPT ![r].step = "answer", ![r].wrote = seq]
  BY DEF Committed
<1> HIDE DEF seq
<1>4. /\ request'[r].op = request[r].op /\ request'[r].node = request[r].node /\ request'[r].parent = request[r].parent
      /\ request'[r].step = "answer" /\ request'[r].wrote = seq /\ request'[r].outcome = request[r].outcome
      /\ request'[r].position = request[r].position /\ request'[r].seq = request[r].seq /\ request'[r] \in RequestType
  BY <1>1, <1>2, <1>3 DEF RequestType, Steps
<1>5. \A q \in TreeRequests : q # r => request'[q] = request[q]
  BY <1>1, <1>3
<1>6. request' \in [TreeRequests -> RequestType]
  BY <1>1, <1>3, <1>4
<1>7. TreeTypes'
  <2>1. DOMAIN tree' \subseteq TreeNodes
    BY <1>1 DEF TreeInv, TreeTypes, Prepared
  <2> QED BY <2>1, <1>6 DEF TreeInv, TreeTypes
<1>8. Acts(r)
  BY <1>4, <1>5 DEF Acts
<1>9. Prepared(r)'
  BY <1>1, <1>4 DEF Prepared
<1>10. Wrote(r)'
  <2>1. request[r].outcome = "none"
    BY <1>1 DEF Wrote, RequestType
  <2>2. tree'[request[r].node].seq >= seq
    BY <1>2 DEF seq
  <2> QED BY <2>1, <2>2, <1>4 DEF Wrote
<1>11. OwnUpload(r)'
  BY <1>4 DEF OwnUpload
<1> QED BY <1>7, <1>8, <1>9, <1>10, <1>11, Combine

\* Rows that stay where they are stay apart.
LEMMA PlacesKept ==
  ASSUME TreeInv, DOMAIN tree' = DOMAIN tree,
         \A n \in DOMAIN tree : /\ tree'[n].parent = tree[n].parent /\ tree'[n].position = tree[n].position
                                /\ tree[n].deleted => tree'[n].deleted
  PROVE  PlacesAreDistinct'
BY DEF TreeInv, PlacesAreDistinct, Live

\* A row put on a place that nobody had stays apart from the others.
LEMMA PlacesTaken ==
  ASSUME TreeInv, NEW n \in DOMAIN tree', \A m \in DOMAIN tree' : m # n => m \in DOMAIN tree /\ tree'[m] = tree[m],
         tree'[n].deleted \/ ~Taken(n, tree'[n].parent, tree'[n].position)
  PROVE  PlacesAreDistinct'
<1> SUFFICES ASSUME NEW k \in DOMAIN tree', NEW m \in DOMAIN tree', ~tree'[k].deleted, ~tree'[m].deleted,
                    tree'[k].parent = tree'[m].parent, tree'[k].position = tree'[m].position
             PROVE  k = m
  BY DEF PlacesAreDistinct, Live
<1>1. CASE k # n /\ m # n
  BY <1>1 DEF TreeInv, PlacesAreDistinct, Live
<1>2. CASE k = n /\ m # n
  BY <1>2 DEF Taken, Children, Live
<1>3. CASE k # n /\ m = n
  BY <1>3 DEF Taken, Children, Live
<1> QED BY <1>1, <1>2, <1>3

LEMMA CreateKeeps == ASSUME TreeInv, NEW r \in TreeRequests, CreateNode(r) PROVE TreeInv' /\ Grows
<1> DEFINE n == request[r].node
           p == request[r].parent
           at == request[r].position
           row == [parent |-> p, position |-> at, seq |-> 1, deleted |-> FALSE]
<1>1. /\ at \in Nat /\ p \in Folders \cup {Top} /\ request[r] \in RequestType
      /\ request \in [TreeRequests -> RequestType] /\ Prepared(r) /\ Wrote(r) /\ OwnUpload(r)
  BY TreeFacts DEF TreeInv, TreeTypes
<1>2. request[r].step = "write" /\ request[r].op \in {"create", "upload"} /\ cuts' = cuts /\ cuts \in Nat
  BY DEF CreateNode, Writing, TreeInv, TreeTypes
<1>3. n \in TreeNodes /\ p \in DOMAIN tree \cup {Top} /\ at > 0
  BY <1>1, <1>2 DEF Prepared
<1>4. CASE ~Inserts(n, p, at)
  <2>1. Reply(r, "failed") /\ tree' = tree
    BY <1>4 DEF CreateNode
  <2>2. CASE request[r].op = "upload"
    <3>1. files' = files \ {n}
      BY <1>4, <2>2 DEF CreateNode, CleanupStoredResource
    <3>2. n \notin files'
      BY <3>1
    <3> QED BY <1>2, <2>1, <2>2, <3>1, <3>2, ReplyKeeps
  <2>3. CASE request[r].op # "upload"
    <3>1. files' = files
      BY <1>4, <2>3 DEF CreateNode
    <3> QED BY <1>2, <2>1, <2>3, <3>1, ReplyKeeps
  <2> QED BY <2>2, <2>3
<1>5. CASE Inserts(n, p, at)
  <2>1. n \notin DOMAIN tree /\ ~Taken(n, p, at) /\ files' = files
    BY <1>5 DEF Inserts, CreateNode
  <2>2. Emitted([parent |-> p, position |-> at, seq |-> 0, deleted |-> FALSE]) = row
    <3> DEFINE blank == [parent |-> p, position |-> at, seq |-> 0, deleted |-> FALSE]
               Blank == [parent : {p}, position : {at}, seq : {0, 1}, deleted : {FALSE}]
    <3>1. blank \in Blank /\ blank.seq = 0
      OBVIOUS
    <3>2. Emitted(blank) = [blank EXCEPT !.seq = 1]
      BY <3>1 DEF Emitted
    <3>3. [blank EXCEPT !.seq = 1] \in Blank /\ [blank EXCEPT !.seq = 1].seq = 1
      BY <3>1
    <3> QED BY <3>2, <3>3
  <2>3. tree' = [m \in DOMAIN tree \cup {n} |-> IF m = n THEN row ELSE tree[m]]
    BY <1>5, <2>2 DEF CreateNode
  <2>4. row \in NodeRow /\ row.parent = p /\ row.position = at /\ row.seq = 1 /\ row.deleted = FALSE
    BY <1>1, <1>3 DEF NodeRow
  <2> HIDE DEF row, n, p, at
  <2>5. DOMAIN tree' = DOMAIN tree \cup {n} /\ tree'[n] = row /\ \A m \in DOMAIN tree : tree'[m] = tree[m]
    BY <2>1, <2>3
  <2>6. tree' \in [DOMAIN tree' -> NodeRow] /\ \A m \in DOMAIN tree' : tree'[m].parent \in DOMAIN tree' \cup {Top}
    <3>1. \A m \in DOMAIN tree' : tree'[m] \in NodeRow /\ tree'[m].parent \in DOMAIN tree' \cup {Top}
      BY <1>3, <2>4, <2>5, RowFacts
    <3> QED BY <2>3, <2>5, <3>1
  <2>7. PlacesAreDistinct'
    BY <2>1, <2>4, <2>5, PlacesTaken
  <2>8. Grows
    BY <2>5 DEF Grows
  <2>9. CASE request[r].op # "upload"
    <3>1. Committed(r, tree'[n])
      BY <1>5, <2>2, <2>5, <2>9 DEF CreateNode, n, p, at
    <3> QED BY <1>2, <2>1, <2>5, <2>6, <2>7, <2>8, <2>9, <3>1, WriteKeeps DEF n
  <2>10. CASE request[r].op = "upload"
    <3>1. request' = [request EXCEPT ![r].step = "end", ![r].outcome = "ok"]
      BY <1>5, <2>10 DEF CreateNode, Reply, n, p, at
    <3>2. /\ request'[r].op = request[r].op /\ request'[r].node = n /\ request'[r].parent = p
          /\ request'[r].step = "end" /\ request'[r].outcome = "ok" /\ request'[r] \in RequestType
      BY <1>1, <3>1 DEF RequestType, Steps, TreeOutcomes, n, p
    <3>3. (\A q \in TreeRequests : q # r => request'[q] = request[q]) /\ request' \in [TreeRequests -> RequestType]
      BY <1>1, <3>1, <3>2
    <3>4. TreeTypes'
      BY <1>2, <1>3, <2>1, <2>5, <2>6, <3>3 DEF TreeInv, TreeTypes
    <3>5. Acts(r)
      BY <2>1, <2>5, <2>8, <3>2, <3>3 DEF Acts, n
    <3>6. Prepared(r)' /\ Wrote(r)'
      BY <1>1, <1>3, <2>10, <3>2 DEF Prepared, Wrote, n
    <3>7. n \in files
      BY <1>1, <1>2, <2>10 DEF OwnUpload, n
    <3>8. OwnUpload(r)'
      BY <2>1, <2>5, <3>2, <3>7 DEF OwnUpload
    <3> QED BY <2>7, <2>8, <3>4, <3>5, <3>6, <3>8, Combine
  <2> QED BY <2>9, <2>10
<1> QED BY <1>4, <1>5

\* One row changed in place: it takes a later seq.
LEMMA RowKeeps ==
  ASSUME TreeInv, NEW r \in TreeRequests, request[r].step = "write", request[r].op # "upload",
         NEW row \in NodeRow, request[r].node \in DOMAIN tree, tree' = [tree EXCEPT ![request[r].node] = row],
         Committed(r, row), row.seq > tree[request[r].node].seq, tree[request[r].node].deleted => row.deleted,
         row.parent \in DOMAIN tree \cup {Top},
         row.deleted \/ ~Taken(request[r].node, row.parent, row.position)
           \/ (row.parent = tree[request[r].node].parent /\ row.position = tree[request[r].node].position),
         files' = files, cuts' = cuts
  PROVE  TreeInv' /\ Grows
<1> DEFINE n == request[r].node
<1>1. tree \in [DOMAIN tree -> NodeRow]
  BY DEF TreeInv, TreeTypes
<1>2. DOMAIN tree' = DOMAIN tree /\ tree'[n] = row /\ \A m \in DOMAIN tree : m # n => tree'[m] = tree[m]
  BY <1>1
<1>3. tree' \in [DOMAIN tree' -> NodeRow] /\ \A m \in DOMAIN tree' : tree'[m].parent \in DOMAIN tree' \cup {Top}
  BY <1>1, <1>2, RowFacts
<1>4. PlacesAreDistinct'
  <2>1. CASE row.deleted \/ ~Taken(n, row.parent, row.position)
    BY <1>2, <2>1, PlacesTaken
  <2>2. CASE row.parent = tree[n].parent /\ row.position = tree[n].position
    BY <1>2, <2>2, PlacesKept
  <2> QED BY <2>1, <2>2
<1>5. Grows
  BY <1>2 DEF Grows
<1>6. Committed(r, tree'[n])
  BY <1>2
<1> QED BY <1>2, <1>3, <1>4, <1>5, <1>6, WriteKeeps

LEMMA EmittedIs ==
  ASSUME NEW row \in NodeRow
  PROVE  /\ Emitted(row) \in NodeRow /\ Emitted(row).seq = row.seq + 1 /\ Emitted(row).seq > row.seq
         /\ Emitted(row).parent = row.parent /\ Emitted(row).position = row.position /\ Emitted(row).deleted = row.deleted
<1>1. row.seq \in Nat \ {0} /\ row.seq + 1 \in Nat \ {0} /\ row.seq + 1 > row.seq
  BY DEF NodeRow
<1> DEFINE k == row.seq + 1
<1>2. Emitted(row) = [row EXCEPT !.seq = k]
  BY DEF Emitted
<1>3. k \in Nat \ {0} /\ k > row.seq
  BY <1>1
<1> HIDE DEF k
<1>4. Emitted(row) \in NodeRow /\ Emitted(row).seq = k
  BY <1>2, <1>3 DEF NodeRow
<1>5. Emitted(row).parent = row.parent /\ Emitted(row).position = row.position /\ Emitted(row).deleted = row.deleted
  BY <1>2 DEF NodeRow
<1> QED BY <1>3, <1>4, <1>5 DEF k

LEMMA SoftDeletedIs ==
  ASSUME NEW row \in NodeRow
  PROVE  /\ SoftDeleted(row) \in NodeRow /\ SoftDeleted(row).seq > row.seq /\ SoftDeleted(row).deleted = TRUE
         /\ SoftDeleted(row).parent = row.parent /\ SoftDeleted(row).position = row.position
<1>1. row.seq \in Nat \ {0} /\ row.seq + 1 \in Nat \ {0} /\ row.seq + 1 > row.seq
  BY DEF NodeRow
<1> DEFINE k == row.seq + 1
<1>2. SoftDeleted(row) = [row EXCEPT !.deleted = TRUE, !.seq = k]
  BY DEF SoftDeleted
<1>3. k \in Nat \ {0} /\ k > row.seq
  BY <1>1
<1> HIDE DEF k
<1>4. SoftDeleted(row) \in NodeRow /\ SoftDeleted(row).seq = k /\ SoftDeleted(row).deleted = TRUE
  BY <1>2, <1>3 DEF NodeRow
<1>5. SoftDeleted(row).parent = row.parent /\ SoftDeleted(row).position = row.position
  BY <1>2 DEF NodeRow
<1> QED BY <1>3, <1>4, <1>5

\* A new place, checked by the index when the row is live.
LEMMA PlacedKeeps ==
  ASSUME TreeInv, NEW r \in TreeRequests, request[r].step = "write", request[r].op # "upload",
         NEW p \in Folders \cup {Top}, p \in DOMAIN tree \cup {Top}, NEW at \in Nat \ {0}, NEW appended \in {1, 2},
         request[r].node \in DOMAIN tree, Placed(r, p, at, appended), files' = files, cuts' = cuts
  PROVE  TreeInv' /\ Grows
<1> DEFINE n == request[r].node
           k == tree[n].seq + appended
           row == [tree[n] EXCEPT !.parent = p, !.position = at, !.seq = k]
<1>1. tree[n] \in NodeRow /\ tree[n].seq \in Nat \ {0} /\ cuts \in Nat
  BY RowFacts DEF TreeInv, TreeTypes
<1>2. CASE Live(n) /\ Taken(n, p, at)
  <2>1. Reply(r, "failed") /\ tree' = tree
    BY <1>2 DEF Placed
  <2> QED BY <1>1, <2>1, ReplyKeeps
<1>3. CASE ~(Live(n) /\ Taken(n, p, at))
  <2>1. tree' = [tree EXCEPT ![n] = row] /\ Committed(r, row)
    BY <1>3 DEF Placed
  <2>2. k \in Nat \ {0} /\ k > tree[n].seq
    BY <1>1
  <2> HIDE DEF k
  <2>3. row \in NodeRow /\ row.seq = k /\ row.parent = p /\ row.position = at /\ row.deleted = tree[n].deleted
    BY <1>1, <2>2 DEF NodeRow
  <2>4. row.deleted \/ ~Taken(n, row.parent, row.position)
    BY <1>3, <2>3 DEF Live
  <2> HIDE DEF row
  <2> QED BY <2>1, <2>2, <2>3, <2>4, RowKeeps
<1> QED BY <1>2, <1>3

\* A row told again.
LEMMA TouchKeeps ==
  ASSUME TreeInv, NEW r \in TreeRequests, request[r].step = "write", request[r].op # "upload", request[r].node \in DOMAIN tree,
         tree' = [tree EXCEPT ![request[r].node] = Emitted(@)], Committed(r, tree'[request[r].node]), files' = files, cuts' = cuts
  PROVE  TreeInv' /\ Grows
<1> DEFINE n == request[r].node
           row == Emitted(tree[n])
<1>1. tree[n] \in NodeRow /\ tree[n].parent \in DOMAIN tree \cup {Top} /\ tree \in [DOMAIN tree -> NodeRow]
  BY RowFacts DEF TreeInv, TreeTypes
<1>2. tree' = [tree EXCEPT ![n] = row] /\ Committed(r, row)
  BY <1>1
<1>3. row \in NodeRow /\ row.seq > tree[n].seq /\ row.parent = tree[n].parent /\ row.position = tree[n].position /\ row.deleted = tree[n].deleted
  BY <1>1, EmittedIs
<1> HIDE DEF row
<1> QED BY <1>1, <1>2, <1>3, RowKeeps

LEMMA TombstonesKeep ==
  ASSUME TreeInv, NEW r \in TreeRequests, request[r].step = "write", request[r].op # "upload", NEW gone,
         Tombstoned(r, gone), files' = files, cuts' = cuts
  PROVE  TreeInv' /\ Grows
<1> DEFINE n == request[r].node
<1>1. tree \in [DOMAIN tree -> NodeRow] /\ cuts \in Nat
  BY DEF TreeInv, TreeTypes
<1>2. CASE n \notin DOMAIN tree
  <2>1. Reply(r, "missing") /\ tree' = tree
    BY <1>2 DEF Tombstoned
  <2> QED BY <1>1, <2>1, ReplyKeeps
<1>3. CASE n \in DOMAIN tree
  <2>1. tree' = [m \in DOMAIN tree |-> IF m \in gone THEN SoftDeleted(tree[m]) ELSE tree[m]] /\ Committed(r, tree'[n])
    BY <1>3 DEF Tombstoned
  <2>2. DOMAIN tree' = DOMAIN tree /\ \A m \in DOMAIN tree :
          /\ m \in gone => tree'[m] = SoftDeleted(tree[m])
          /\ m \notin gone => tree'[m] = tree[m]
    BY <2>1
  <2>3. ASSUME NEW m \in DOMAIN tree
        PROVE  /\ tree'[m] \in NodeRow /\ tree'[m].parent = tree[m].parent /\ tree'[m].position = tree[m].position
               /\ tree[m].deleted => tree'[m].deleted
               /\ tree'[m] # tree[m] => tree'[m].seq > tree[m].seq
               /\ tree'[m].parent \in DOMAIN tree' \cup {Top}
    <3>1. tree[m] \in NodeRow /\ tree[m].parent \in DOMAIN tree \cup {Top}
      BY RowFacts
    <3>2. CASE m \in gone
      BY <2>2, <3>1, <3>2, SoftDeletedIs
    <3>3. CASE m \notin gone
      BY <2>2, <3>1, <3>3
    <3> QED BY <3>2, <3>3
  <2>4. tree' \in [DOMAIN tree' -> NodeRow]
    BY <2>1, <2>2, <2>3
  <2>5. PlacesAreDistinct'
    BY <2>2, <2>3, PlacesKept
  <2>6. Grows
    BY <2>2, <2>3 DEF Grows
  <2> QED BY <1>3, <2>1, <2>2, <2>3, <2>4, <2>5, <2>6, WriteKeeps
<1> QED BY <1>2, <1>3

LEMMA AbsentKeeps ==
  ASSUME TreeInv, NEW r \in TreeRequests, request[r].step = "write", request[r].op # "upload", Absent(r), files' = files, cuts' = cuts
  PROVE  TreeInv' /\ Grows
<1>1. Reply(r, "missing") /\ tree' = tree /\ cuts' \in Nat
  BY DEF Absent, TreeInv, TreeTypes
<1> QED BY <1>1, ReplyKeeps

LEMMA WritesKeep ==
  ASSUME TreeInv, NEW r \in TreeRequests,
         MoveNode(r) \/ UpdateArtifactGraph(r) \/ UpdateFolderTitle(r) \/ DeleteBrowserNode(r) \/ DeleteArtifact(r)
  PROVE  TreeInv' /\ Grows
<1> DEFINE n == request[r].node
           p == request[r].parent
<1>1. p \in Folders \cup {Top} /\ request[r].position \in Nat /\ Prepared(r) /\ cuts \in Nat
  BY TreeFacts DEF TreeInv, TreeTypes
<1>2. CASE MoveNode(r)
  <2>1. request[r].step = "write" /\ request[r].op = "move" /\ files' = files /\ cuts' = cuts
    BY <1>2 DEF MoveNode, Writing
  <2>2. p \in DOMAIN tree \cup {Top} /\ request[r].position \in Nat \ {0}
    BY <1>1, <2>1 DEF Prepared
  <2>3. CASE Absent(r)
    BY <2>1, <2>3, AbsentKeeps
  <2>4. CASE n \in DOMAIN tree \cap Leaves /\ Placed(r, p, request[r].position, 1)
    BY <1>1, <2>1, <2>2, <2>4, PlacedKeeps
  <2> QED BY <1>2, <2>3, <2>4 DEF MoveNode
<1>3. CASE UpdateArtifactGraph(r)
  <2> DEFINE next == NextNodePosition(p)
  <2>1. request[r].step = "write" /\ request[r].op = "update" /\ files' = files /\ cuts' = cuts
    BY <1>3 DEF UpdateArtifactGraph, Writing
  <2>2. p \in DOMAIN tree \cup {Top} /\ next \in Nat \ {0}
    BY <1>1, <2>1, PositionFacts DEF Prepared
  <2>3. CASE Absent(r)
    BY <2>1, <2>3, AbsentKeeps
  <2>4. CASE n \in DOMAIN tree /\ Placed(r, p, next, 2)
    <3> HIDE DEF next
    <3> QED BY <1>1, <2>1, <2>2, <2>4, PlacedKeeps
  <2>5. CASE n \in DOMAIN tree /\ tree' = [tree EXCEPT ![n] = Emitted(@)] /\ Committed(r, tree'[n])
    BY <2>1, <2>5, TouchKeeps
  <2> QED BY <1>3, <2>3, <2>4, <2>5 DEF UpdateArtifactGraph
<1>4. CASE UpdateFolderTitle(r)
  <2>1. request[r].step = "write" /\ request[r].op = "rename" /\ files' = files /\ cuts' = cuts
    BY <1>4 DEF UpdateFolderTitle, Writing
  <2>2. CASE n \in DOMAIN tree \cap Folders
    <3>1. n \in DOMAIN tree /\ tree' = [tree EXCEPT ![n] = Emitted(@)] /\ Committed(r, tree'[n])
      BY <1>4, <2>2 DEF UpdateFolderTitle
    <3> QED BY <2>1, <3>1, TouchKeeps
  <2>3. CASE n \notin DOMAIN tree \cap Folders
    <3>1. Reply(r, "missing") /\ tree' = tree
      BY <1>4, <2>3 DEF UpdateFolderTitle
    <3> QED BY <1>1, <2>1, <3>1, ReplyKeeps
  <2> QED BY <2>2, <2>3
<1>5. CASE DeleteBrowserNode(r)
  <2>1. /\ request[r].step = "write" /\ request[r].op = "remove" /\ files' = files /\ cuts' = cuts
        /\ Tombstoned(r, Subtree(n))
    BY <1>5 DEF DeleteBrowserNode, Writing
  <2> QED BY <2>1, TombstonesKeep
<1>6. CASE DeleteArtifact(r)
  <2>1. /\ request[r].step = "write" /\ request[r].op = "delete" /\ files' = files /\ cuts' = cuts
        /\ Tombstoned(r, {n})
    BY <1>6 DEF DeleteArtifact, Writing
  <2> QED BY <2>1, TombstonesKeep
<1> QED BY <1>2, <1>3, <1>4, <1>5, <1>6

LEMMA AnswerKeeps == ASSUME TreeInv, NEW r \in TreeRequests, Answer(r) PROVE TreeInv' /\ Grows
<1> DEFINE n == request[r].node
           seq == tree[n].seq
<1>1. request[r] \in RequestType /\ request \in [TreeRequests -> RequestType] /\ Prepared(r) /\ Wrote(r) /\ OwnUpload(r)
  BY TreeFacts DEF TreeInv, TreeTypes
<1>2. tree' = tree /\ files' = files /\ cuts' = cuts /\ cuts \in Nat /\ request[r].step = "answer"
  BY DEF Answer, TreeInv, TreeTypes
<1>3. request[r].op # "upload" /\ n \in DOMAIN tree /\ seq >= request[r].wrote
  BY <1>1, <1>2 DEF Wrote
<1>4. CASE ~Shown(r)
  <2>1. Reply(r, "missing")
    BY <1>4 DEF Answer
  <2> QED BY <1>2, <1>3, <2>1, ReplyKeeps
<1>5. CASE Shown(r)
  <2>1. seq \in Nat
    BY <1>3, RowFacts
  <2>2. request' = [request EXCEPT ![r] = [@ EXCEPT !.step = "end", !.outcome = "ok", !.seq = seq]]
    BY <1>1, <1>5 DEF Answer, LightNode
  <2> HIDE DEF seq
  <2>3. /\ request'[r].op = request[r].op /\ request'[r].node = n /\ request'[r].parent = request[r].parent
        /\ request'[r].step = "end" /\ request'[r].outcome = "ok" /\ request'[r].seq = seq
        /\ request'[r].wrote = request[r].wrote /\ request'[r] \in RequestType
    BY <1>1, <2>1, <2>2 DEF RequestType, Steps, TreeOutcomes
  <2>4. \A q \in TreeRequests : q # r => request'[q] = request[q]
    BY <1>1, <2>2
  <2>5. request' \in [TreeRequests -> RequestType]
    BY <1>1, <2>2, <2>3
  <2>6. TreeTypes' /\ PlacesAreDistinct' /\ Grows
    BY <1>2, <2>5, TypesStay, PlacesStay, StillGrows DEF TreeInv, TreeTypes
  <2>7. Acts(r)
    BY <1>2, <2>3, <2>4, <2>6 DEF Acts
  <2>8. Prepared(r)' /\ Wrote(r)' /\ OwnUpload(r)'
    <3>1. Prepared(r)'
      BY <1>1, <1>2, <1>3, <2>3 DEF Prepared
    <3>2. seq >= request'[r].wrote
      BY <1>3, <2>3
    <3>3. Wrote(r)'
      BY <1>1, <1>3, <2>3, <3>2 DEF Wrote
    <3> QED BY <1>3, <2>3, <3>1, <3>3 DEF OwnUpload
  <2> QED BY <2>6, <2>7, <2>8, Combine
<1> QED BY <1>4, <1>5

LEMMA CutKeeps == ASSUME TreeInv, NEW r \in TreeRequests, CutRequest(r) PROVE TreeInv' /\ Grows
<1>1. /\ request[r].step \notin {"unsent", "end"} /\ cuts' \in Nat /\ Reply(r, "lost") /\ tree' = tree /\ files' = files
  BY DEF CutRequest, TreeInv, TreeTypes
<1> QED BY <1>1, ReplyKeeps

LEMMA TreeStep == TreeInv /\ [TreeNext]_treeVars => TreeInv' /\ Grows
<1> SUFFICES ASSUME TreeInv, [TreeNext]_treeVars PROVE TreeInv' /\ Grows
  OBVIOUS
<1>1. CASE UNCHANGED treeVars
  <2>1. tree' = tree /\ files' = files /\ request' = request /\ cuts' = cuts
    BY <1>1 DEF treeVars
  <2>2. TreeTypes' /\ PlacesAreDistinct' /\ BytesAreOwned'
    BY <2>1 DEF TreeInv, TreeTypes, PlacesAreDistinct, Live, BytesAreOwned
  <2>3. \A r \in TreeRequests : Prepared(r)' /\ Wrote(r)' /\ OwnUpload(r)'
    BY <2>1 DEF TreeInv, Prepared, Wrote, OwnUpload
  <2> QED BY <2>1, <2>2, <2>3, StillGrows DEF TreeInv
<1>2. CASE TreeNext
  <2>1. PICK r \in TreeRequests :
          \/ Send(r) \/ ReadCurrent(r) \/ CheckContainer(r) \/ SaveResource(r) \/ ReadPosition(r)
          \/ CreateNode(r) \/ MoveNode(r) \/ UpdateArtifactGraph(r) \/ UpdateFolderTitle(r)
          \/ DeleteBrowserNode(r) \/ DeleteArtifact(r) \/ Answer(r) \/ CutRequest(r)
    BY <1>2 DEF TreeNext
  <2>2. CASE Send(r)
    BY <2>2, SendKeeps
  <2>3. CASE ReadCurrent(r) \/ CheckContainer(r) \/ SaveResource(r) \/ ReadPosition(r)
    BY <2>3, ReadsKeep
  <2>4. CASE CreateNode(r)
    BY <2>4, CreateKeeps
  <2>5. CASE MoveNode(r) \/ UpdateArtifactGraph(r) \/ UpdateFolderTitle(r) \/ DeleteBrowserNode(r) \/ DeleteArtifact(r)
    BY <2>5, WritesKeep
  <2>6. CASE Answer(r)
    BY <2>6, AnswerKeeps
  <2>7. CASE CutRequest(r)
    BY <2>7, CutKeeps
  <2> QED BY <2>1, <2>2, <2>3, <2>4, <2>5, <2>6, <2>7
<1> QED BY <1>1, <1>2

\* Removing a folder leaves no live row below it: its subtree holds it and the children of
\* its members, and takes a tombstone whole.
LEMMA RemovalTakesAll ==
  ASSUME TreeInv, [TreeNext]_treeVars, NEW r \in TreeRequests,
         request[r].op = "remove", request[r].step = "write", request'[r].step = "answer"
  PROVE  \E gone \in SUBSET DOMAIN tree :
           /\ request[r].node \in gone
           /\ \A n \in DOMAIN tree : tree'[n].parent \in gone => n \in gone
           /\ \A n \in gone : tree'[n].deleted
<1> DEFINE node == request[r].node
           gone == Subtree(node)
<1>1. request \in [TreeRequests -> RequestType]
  BY DEF TreeInv, TreeTypes
<1>2. DeleteBrowserNode(r)
  <2>1. TreeNext
    <3>1. ~UNCHANGED treeVars
      BY DEF treeVars
    <3> QED BY <3>1
  <2>2. PICK q \in TreeRequests :
          \/ Send(q) \/ ReadCurrent(q) \/ CheckContainer(q) \/ SaveResource(q) \/ ReadPosition(q)
          \/ CreateNode(q) \/ MoveNode(q) \/ UpdateArtifactGraph(q) \/ UpdateFolderTitle(q)
          \/ DeleteBrowserNode(q) \/ DeleteArtifact(q) \/ Answer(q) \/ CutRequest(q)
    BY <2>1 DEF TreeNext
  <2>3. q = r
    <3> SUFFICES ASSUME q # r PROVE request'[r] = request[r]
      OBVIOUS
    <3>1. CASE Send(q)
      BY <1>1, <3>1 DEF Send
    <3>2. CASE ReadCurrent(q) \/ CheckContainer(q) \/ SaveResource(q) \/ ReadPosition(q)
      BY <1>1, <3>2 DEF ReadCurrent, CheckContainer, SaveResource, ReadPosition, Go, Reply
    <3>3. CASE CreateNode(q)
      BY <1>1, <3>3 DEF CreateNode, Reply, Committed
    <3>4. CASE MoveNode(q) \/ UpdateArtifactGraph(q)
      BY <1>1, <3>4 DEF MoveNode, UpdateArtifactGraph, Absent, Placed, Reply, Committed
    <3>5. CASE UpdateFolderTitle(q) \/ DeleteBrowserNode(q) \/ DeleteArtifact(q)
      BY <1>1, <3>5 DEF UpdateFolderTitle, DeleteBrowserNode, DeleteArtifact, Tombstoned, Reply, Committed
    <3>6. CASE Answer(q) \/ CutRequest(q)
      BY <1>1, <3>6 DEF Answer, CutRequest, Reply
    <3> QED BY <2>2, <3>1, <3>2, <3>3, <3>4, <3>5, <3>6
  <2>4. ~CutRequest(r)
    BY <1>1 DEF CutRequest, Reply, RequestType
  <2> QED BY <2>2, <2>3, <2>4 DEF Send, ReadCurrent, CheckContainer, SaveResource, ReadPosition, CreateNode, MoveNode,
             UpdateArtifactGraph, UpdateFolderTitle, DeleteArtifact, Answer, Writing
<1>3. node \in DOMAIN tree
  BY <1>1, <1>2 DEF DeleteBrowserNode, Tombstoned, Reply, RequestType
<1>4. tree' = [m \in DOMAIN tree |-> IF m \in gone THEN SoftDeleted(tree[m]) ELSE tree[m]]
  BY <1>2, <1>3 DEF DeleteBrowserNode, Tombstoned
<1>5. gone \in SUBSET DOMAIN tree /\ node \in gone
  BY <1>3 DEF Subtree
<1>6. ASSUME NEW n \in DOMAIN tree, tree[n].parent \in gone PROVE n \in gone
  <2> SUFFICES ASSUME NEW S \in SUBSET DOMAIN tree, node \in S, \A c \in DOMAIN tree : tree[c].parent \in S => c \in S
               PROVE  n \in S
    BY DEF Subtree
  <2>1. tree[n].parent \in S
    BY <1>6 DEF Subtree
  <2> QED BY <2>1
<1> HIDE DEF gone
<1>7. ASSUME NEW n \in DOMAIN tree PROVE tree'[n].parent = tree[n].parent /\ (n \in gone => tree'[n].deleted)
  <2>1. tree[n] \in NodeRow
    BY RowFacts
  <2>2. CASE n \in gone
    BY <1>4, <2>1, <2>2, SoftDeletedIs
  <2>3. CASE n \notin gone
    BY <1>4, <2>3
  <2> QED BY <2>2, <2>3
<1> QED BY <1>5, <1>6, <1>7

\* The rows, the bytes and the requests keep their types, for any tree, any folders and
\* artifacts and any number of requests.
THEOREM TreeTypeCorrect == TreeSpec => []TreeTypeOK
<1>1. TreeInv => TreeTypeOK
  <2> SUFFICES ASSUME TreeInv PROVE TreeTypeOK
    OBVIOUS
  <2>1. \A n \in DOMAIN tree : /\ tree[n].parent \in DOMAIN tree \cup {Top} /\ tree[n].parent \notin Leaves
                               /\ tree[n].position > 0 /\ tree[n].seq > 0 /\ tree[n].deleted \in BOOLEAN
    BY RowFacts, TreeAssumption DEF TreeNodes
  <2>2. \A r \in TreeRequests : request[r].op \in Ops /\ request[r].step \in Steps /\ request[r].outcome \in TreeOutcomes
    BY TreeFacts
  <2> QED BY <2>1, <2>2 DEF TreeInv, TreeTypes, TreeTypeOK
<1> QED BY <1>1, TreeInitInv, TreeStep, PTL DEF TreeSpec

\* What a request answers covers what it wrote, an upload that ended has its bytes and its
\* row or neither, and no two live nodes have one place, whatever the requests did in
\* between (routes and repository of the artifacts).
THEOREM RequestsStayWhole == TreeSpec => []RequestsAreWhole
<1>1. TreeInv => RequestsAreWhole
  <2> SUFFICES ASSUME TreeInv PROVE RequestsAreWhole
    OBVIOUS
  <2>1. AnswersOwnWrite
    BY TreeFacts DEF AnswersOwnWrite, Wrote
  <2>2. UploadIsWhole
    BY TreeFacts DEF UploadIsWhole, OwnUpload
  <2> QED BY <2>1, <2>2 DEF TreeInv, RequestsAreWhole
<1> QED BY <1>1, TreeInitInv, TreeStep, PTL DEF TreeSpec

\* Every change of a row takes a later seq, no request revives a tombstone, and a removed
\* folder leaves nothing live below it (DeleteBrowserNode).
THEOREM TreeChangesStayWhole == TreeSpec => TreeChangesAreWhole
<1>1. TreeInv /\ [TreeNext]_treeVars =>
        [\A n \in DOMAIN tree :
           /\ tree'[n] # tree[n] => tree'[n].seq > tree[n].seq
           /\ tree[n].deleted => tree'[n].deleted]_treeVars
  BY TreeStep DEF Grows
<1>2. TreeInv /\ [TreeNext]_treeVars =>
        [\A r \in TreeRequests :
           request[r].op = "remove" /\ request[r].step = "write" /\ request'[r].step = "answer" =>
             \E gone \in SUBSET DOMAIN tree :
               /\ request[r].node \in gone
               /\ \A n \in DOMAIN tree : tree'[n].parent \in gone => n \in gone
               /\ \A n \in gone : tree'[n].deleted]_treeVars
  BY RemovalTakesAll
<1>3. TreeSpec => VersionsTellChanges
  BY <1>1, TreeInitInv, TreeStep, PTL DEF TreeSpec, VersionsTellChanges
<1>4. TreeSpec => CascadeIsWhole
  BY <1>2, TreeInitInv, TreeStep, PTL DEF TreeSpec, CascadeIsWhole
<1> QED BY <1>3, <1>4, PTL DEF TreeChangesAreWhole
---------------------------------------------------------------------------
(* Lists, reading positions and research folders. *)

Stages == {"idle", "fetch", "upsert", "again", "resolve", "count", "insert", "act", "items", "place", "plant", "done"}
Verdict == {"none", "ok", "unknown", "not found", "refused"}
\* What the requests say, and what the code says itself: no prover knows a string to be one.
Texts == STRING \cup {"Watchlist", "", "f", "r", "thesis"}
CatalogueRow == [symbol : Tickers, active : BOOLEAN]
WatchRow == [name : Texts, position : Nat, seq : Nat, deleted : BOOLEAN]
FolderRow == [kind : {"folder", "research"}, title : Texts, parent : Nat, position : Nat, seq : Nat, deleted : BOOLEAN]
WantRow == [ask : ListAsk, stage : Stages, instrument : Nat, list : Nat, place : Nat, answer : Verdict]
Saying == [op : {"delete"}] \cup [op : {"upsert"}, name : Texts, position : Nat, items : SUBSET Nat]
          \cup [op : {"upsert"}, title : Texts, parent : Nat, position : Nat] \cup [op : {"upsert"}, page : Nat]
FrameRow == [kind : {"watchlist", "node", "reading_position"}, id : Nat, seq : Nat, says : Saying]

ListTypes ==
  /\ catalogue \in Seq(CatalogueRow) /\ vendor \in [Tickers -> {"active", "halted", "unknown"}]
  /\ watchlists \in Seq(WatchRow) /\ members \subseteq Nat \X Nat
  /\ readings \in [page : Nat, seq : Nat]
  /\ nodes \in Seq(FolderRow) /\ strategies \subseteq Nat \X Texts
  /\ frames \in Seq(FrameRow) /\ want \in [ListAsks -> WantRow]

\* The rows that refer to each other do so, and a traded symbol is one.
Together ==
  /\ \A m \in members : m[1] \in Undeleted(watchlists) /\ m[2] \in DOMAIN catalogue
  /\ \A i, j \in DOMAIN catalogue :
       catalogue[i].active /\ catalogue[j].active /\ catalogue[i].symbol = catalogue[j].symbol => i = j
  /\ \A s \in strategies : s[1] \in DOMAIN nodes /\ nodes[s[1]].kind = "research"
  /\ \A i \in DOMAIN nodes : nodes[i].kind = "research" => \E s \in strategies : s[1] = i
  /\ \A s, t \in strategies : s[1] = t[1] => s = t
  /\ \A i \in DOMAIN nodes : nodes[i].parent # 0 => nodes[i].parent \in DOMAIN nodes /\ nodes[nodes[i].parent].kind = "folder"

\* What a request found is still there.
IsFolder(p) == p = 0 \/ (p \in DOMAIN nodes /\ nodes[p].kind = "folder")
AskedFor ==
  \A r \in ListAsks :
    /\ BySymbol(r) /\ want[r].stage \in {"resolve", "count", "insert", "act"} => want[r].instrument \in DOMAIN catalogue
    /\ Op(r) = "add" /\ ~BySymbol(r) => want[r].ask.instrument \in DOMAIN catalogue
    /\ want[r].stage \in {"fetch", "upsert", "again"} => BySymbol(r)
    /\ want[r].stage \in {"place", "plant"} => Op(r) = "research" /\ IsFolder(want[r].ask.parent)

\* The frames of an entity in a log, and what the last of them tells.
FramesIn(fs, kind, i) == {k \in DOMAIN fs : fs[k].kind = kind /\ fs[k].id = i}
Tells(fs, kind, i, seq, says) ==
  IF FramesIn(fs, kind, i) = {} THEN seq = 0
  ELSE /\ \A j, k \in FramesIn(fs, kind, i) : j < k => fs[j].seq < fs[k].seq
       /\ \E k \in FramesIn(fs, kind, i) : /\ fs[k].seq = seq /\ fs[k].says = says
                                          /\ \A j \in FramesIn(fs, kind, i) : j <= k
ToldOfLists(fs, lists, items) ==
  /\ \A i \in DOMAIN lists : Tells(fs, "watchlist", i, lists[i].seq, LightWatchlist(lists[i], i, items))
  /\ \A i \in Nat \ DOMAIN lists : FramesIn(fs, "watchlist", i) = {}
ToldOfNodes(fs, folders) ==
  /\ \A i \in DOMAIN folders : Tells(fs, "node", i, folders[i].seq, LightFolder(folders[i]))
  /\ \A i \in Nat \ DOMAIN folders : FramesIn(fs, "node", i) = {}
ToldOfReading(fs, reading) == Tells(fs, "reading_position", 1, reading.seq, LightReading(reading))
ToldOfAll == ToldOfLists(frames, watchlists, members) /\ ToldOfNodes(frames, nodes) /\ ToldOfReading(frames, readings)

ListInv == ListTypes /\ Together /\ AskedFor /\ ToldOfAll

\* What is added to a log.
LEMMA ConcatIs == ASSUME NEW S, NEW fs \in Seq(S), NEW gs \in Seq(S)
  PROVE  /\ fs \o gs \in Seq(S) /\ DOMAIN (fs \o gs) = 1 .. Len(fs) + Len(gs)
         /\ DOMAIN fs = 1 .. Len(fs) /\ DOMAIN gs = 1 .. Len(gs) /\ Len(fs) \in Nat /\ Len(gs) \in Nat
         /\ \A k \in DOMAIN fs : k \in DOMAIN (fs \o gs) /\ (fs \o gs)[k] = fs[k]
         /\ \A k \in DOMAIN gs : k + Len(fs) \in DOMAIN (fs \o gs) /\ (fs \o gs)[k + Len(fs)] = gs[k]
         /\ \A k \in DOMAIN (fs \o gs) : k \in DOMAIN fs \/ (k - Len(fs) \in DOMAIN gs /\ (fs \o gs)[k] = gs[k - Len(fs)])
<1>1. /\ fs \o gs \in Seq(S) /\ Len(fs \o gs) = Len(fs) + Len(gs) /\ Len(fs) \in Nat /\ Len(gs) \in Nat
      /\ DOMAIN fs = 1 .. Len(fs) /\ DOMAIN gs = 1 .. Len(gs) /\ DOMAIN (fs \o gs) = 1 .. Len(fs) + Len(gs)
  OBVIOUS
<1>2. \A k \in 1 .. Len(fs) + Len(gs) : (fs \o gs)[k] = IF k <= Len(fs) THEN fs[k] ELSE gs[k - Len(fs)]
  OBVIOUS
<1> QED BY <1>1, <1>2

\* An entity nothing new is said of is told of as before; and one of which a single new
\* frame carries the next seq is told of by that frame.
LEMMA SaidNothing ==
  ASSUME NEW fs \in Seq(FrameRow), NEW gs \in Seq(FrameRow), NEW kind, NEW i, FramesIn(gs, kind, i) = {}
  PROVE  /\ FramesIn(fs \o gs, kind, i) = FramesIn(fs, kind, i)
         /\ \A seq, says : Tells(fs, kind, i, seq, says) => Tells(fs \o gs, kind, i, seq, says)
<1>1. FramesIn(fs \o gs, kind, i) = FramesIn(fs, kind, i)
  BY ConcatIs DEF FramesIn
<1>2. \A k \in FramesIn(fs, kind, i) : (fs \o gs)[k] = fs[k]
  BY ConcatIs DEF FramesIn
<1> QED BY <1>1, <1>2 DEF Tells

LEMMA SaidOnce ==
  ASSUME NEW fs \in Seq(FrameRow), NEW gs \in Seq(FrameRow), NEW kind, NEW i, NEW old \in Nat, NEW before,
         NEW n \in DOMAIN gs, FramesIn(gs, kind, i) = {n}, gs[n].seq = old + 1, Tells(fs, kind, i, old, before)
  PROVE  Tells(fs \o gs, kind, i, gs[n].seq, gs[n].says)
<1> DEFINE m == n + Len(fs)
           both == fs \o gs
<1>1. FramesIn(both, kind, i) = FramesIn(fs, kind, i) \cup {m}
  <2>1. m \in FramesIn(both, kind, i)
    BY ConcatIs DEF FramesIn
  <2>2. \A k \in FramesIn(fs, kind, i) : k \in FramesIn(both, kind, i)
    BY ConcatIs DEF FramesIn
  <2>3. ASSUME NEW k \in FramesIn(both, kind, i) PROVE k \in FramesIn(fs, kind, i) \cup {m}
    <3>1. k \in DOMAIN both /\ both[k].kind = kind /\ both[k].id = i
      BY <2>3 DEF FramesIn
    <3>2. CASE k \in DOMAIN fs
      BY <3>1, <3>2, ConcatIs DEF FramesIn
    <3>3. CASE k - Len(fs) \in DOMAIN gs /\ both[k] = gs[k - Len(fs)]
      <4>1. k - Len(fs) = n
        BY <3>1, <3>3 DEF FramesIn
      <4>2. k \in Nat /\ Len(fs) \in Nat /\ n \in Nat
        BY <3>1, ConcatIs
      <4> QED BY <4>1, <4>2
    <3> QED BY <3>1, <3>2, <3>3, ConcatIs
  <2> QED BY <2>1, <2>2, <2>3
<1>2. /\ both[m] = gs[n] /\ m \in Nat /\ both[m].seq = old + 1
      /\ \A k \in FramesIn(fs, kind, i) : both[k] = fs[k] /\ k \in Nat /\ k < m /\ fs[k].seq \in Nat
  <2>1. \A k \in DOMAIN fs : fs[k] \in FrameRow
    OBVIOUS
  <2>2. \A k \in DOMAIN fs : fs[k].seq \in Nat
    BY <2>1 DEF FrameRow
  <2> QED BY <2>2, ConcatIs DEF FramesIn
<1>3. \A k \in FramesIn(fs, kind, i) : fs[k].seq <= old
  <2> SUFFICES ASSUME NEW k \in FramesIn(fs, kind, i) PROVE fs[k].seq <= old
    OBVIOUS
  <2>1. PICK last \in FramesIn(fs, kind, i) : fs[last].seq = old /\ \A j \in FramesIn(fs, kind, i) : j <= last
    BY DEF Tells
  <2>2. k < last \/ k = last
    BY <1>2, <2>1
  <2>3. k < last => fs[k].seq < fs[last].seq
    BY DEF Tells
  <2> QED BY <1>2, <2>1, <2>2, <2>3
<1> HIDE DEF both, m
<1>4. \A j, k \in FramesIn(both, kind, i) : j < k => both[j].seq < both[k].seq
  <2> SUFFICES ASSUME NEW j \in FramesIn(both, kind, i), NEW k \in FramesIn(both, kind, i), j < k
               PROVE both[j].seq < both[k].seq
    OBVIOUS
  <2>1. j \in FramesIn(fs, kind, i)
    BY <1>1, <1>2
  <2>2. CASE k = m
    <3>1. both[j] = fs[j] /\ fs[j].seq \in Nat /\ fs[j].seq <= old
      BY <1>2, <1>3, <2>1
    <3>2. both[k].seq = old + 1
      BY <1>2, <2>2
    <3>3. \A a \in Nat : a <= old => a < old + 1
      OBVIOUS
    <3> QED BY <3>1, <3>2, <3>3
  <2>3. CASE k \in FramesIn(fs, kind, i)
    BY <1>2, <2>1, <2>3 DEF Tells
  <2> QED BY <1>1, <2>2, <2>3
<1>5. /\ m \in FramesIn(both, kind, i) /\ both[m].seq = gs[n].seq /\ both[m].says = gs[n].says
      /\ \A j \in FramesIn(both, kind, i) : j <= m
  BY <1>1, <1>2
<1>6. Tells(both, kind, i, gs[n].seq, gs[n].says)
  BY <1>4, <1>5 DEF Tells
<1> QED BY <1>6 DEF both

LEMMA Appended ==
  ASSUME frames \in Seq(FrameRow), NEW e \in FrameRow, frames' = Append(frames, e)
  PROVE  /\ frames' \in Seq(FrameRow)
         /\ \A kind, i : kind # e.kind \/ i # e.id =>
              /\ FramesIn(frames', kind, i) = FramesIn(frames, kind, i)
              /\ \A seq, says : Tells(frames, kind, i, seq, says) => Tells(frames', kind, i, seq, says)
         /\ \A old \in Nat : \A before : Tells(frames, e.kind, e.id, old, before) /\ e.seq = old + 1 =>
              Tells(frames', e.kind, e.id, e.seq, e.says)
<1> DEFINE one == <<e>>
<1>1. one \in Seq(FrameRow) /\ DOMAIN one = {1} /\ one[1] = e /\ frames' = frames \o one
  OBVIOUS
<1> HIDE DEF one
<1>2. \A kind, i : kind # e.kind \/ i # e.id => FramesIn(one, kind, i) = {}
  BY <1>1 DEF FramesIn
<1>3. FramesIn(one, e.kind, e.id) = {1}
  BY <1>1 DEF FramesIn
<1>4. frames' \in Seq(FrameRow)
  OBVIOUS
<1>5. ASSUME NEW kind, NEW i, kind # e.kind \/ i # e.id
      PROVE  /\ FramesIn(frames', kind, i) = FramesIn(frames, kind, i)
             /\ \A seq, says : Tells(frames, kind, i, seq, says) => Tells(frames', kind, i, seq, says)
  <2>1. FramesIn(one, kind, i) = {}
    BY <1>2, <1>5
  <2> QED BY <1>1, <2>1, SaidNothing
<1>6. ASSUME NEW old \in Nat, NEW before, Tells(frames, e.kind, e.id, old, before), e.seq = old + 1
      PROVE  Tells(frames', e.kind, e.id, e.seq, e.says)
  <2>1. 1 \in DOMAIN one /\ one[1].seq = old + 1
    BY <1>1, <1>6
  <2>2. Tells(frames \o one, e.kind, e.id, one[1].seq, one[1].says)
    BY <1>1, <1>3, <1>6, <2>1, SaidOnce
  <2> QED BY <1>1, <2>2
<1> QED BY <1>4, <1>5, <1>6

\* A frame of one kind leaves what is told of the others.
LEMMA OthersTold ==
  ASSUME ListTypes, ToldOfAll, NEW e \in FrameRow, frames' = Append(frames, e)
  PROVE  /\ e.kind # "watchlist" => ToldOfLists(frames', watchlists, members)
         /\ e.kind # "node" => ToldOfNodes(frames', nodes)
         /\ e.kind # "reading_position" => ToldOfReading(frames', readings)
<1> USE DEF ListTypes
<1>1. e.kind # "watchlist" => ToldOfLists(frames', watchlists, members)
  BY ZenonT(40), Appended DEF ToldOfAll, ToldOfLists
<1>2. e.kind # "node" => ToldOfNodes(frames', nodes)
  BY ZenonT(40), Appended DEF ToldOfAll, ToldOfNodes
<1>3. e.kind # "reading_position" => ToldOfReading(frames', readings)
  BY Appended DEF ToldOfAll, ToldOfReading
<1> QED BY <1>1, <1>2, <1>3

LEMMA ListRow == ASSUME ListTypes, NEW i \in DOMAIN watchlists
  PROVE watchlists[i] \in WatchRow /\ i \in Nat /\ watchlists[i].seq \in Nat /\ watchlists[i].deleted \in BOOLEAN
<1>1. watchlists[i] \in WatchRow /\ i \in Nat
  BY DEF ListTypes
<1> QED BY <1>1 DEF WatchRow

LEMMA SaysOfList ==
  ASSUME NEW w \in WatchRow, NEW i \in Nat, NEW items \in SUBSET (Nat \X Nat)
  PROVE  LightWatchlist(w, i, items) \in Saying
<1>1. {m[2] : m \in {n \in items : n[1] = i}} \in SUBSET Nat
  OBVIOUS
<1>2. w.name \in Texts /\ w.position \in Nat
  BY DEF WatchRow
<1> QED BY <1>1, <1>2 DEF LightWatchlist, Saying

\* A list is written, with its members, and told of; the others stay as they are.
LEMMA EmitKeeps ==
  ASSUME ListTypes, ToldOfAll, NEW i \in DOMAIN watchlists, NEW w \in WatchRow, w.seq = watchlists[i].seq,
         NEW items \in SUBSET (Nat \X Nat), \A m : m[1] # i => (m \in items <=> m \in members), EmitUpsert(i, w, items)
  PROVE  /\ watchlists' \in Seq(WatchRow) /\ members' = items /\ frames' \in Seq(FrameRow)
         /\ DOMAIN watchlists' = DOMAIN watchlists
         /\ watchlists'[i] = [w EXCEPT !.seq = @ + 1]
         /\ \A j \in DOMAIN watchlists : j # i => watchlists'[j] = watchlists[j]
         /\ ToldOfLists(frames', watchlists', members')
         /\ ToldOfNodes(frames', nodes) /\ ToldOfReading(frames', readings)
<1> DEFINE now == [w EXCEPT !.seq = w.seq + 1]
           e == FrameOf("watchlist", i, now.seq, LightWatchlist(now, i, items))
<1>1. watchlists' = [watchlists EXCEPT ![i] = now] /\ members' = items /\ frames' = Append(frames, e)
  BY DEF EmitUpsert
<1>2. now \in WatchRow /\ now.seq = w.seq + 1 /\ w.seq \in Nat /\ i \in Nat
  BY ListRow DEF WatchRow
<1> HIDE DEF now
<1>3. e \in FrameRow /\ e.kind = "watchlist" /\ e.id = i /\ e.seq = now.seq /\ e.says = LightWatchlist(now, i, items)
  BY <1>2, SaysOfList DEF FrameOf, FrameRow
<1> HIDE DEF e
<1>4. /\ watchlists' \in Seq(WatchRow) /\ DOMAIN watchlists' = DOMAIN watchlists /\ watchlists'[i] = now
      /\ \A j \in DOMAIN watchlists : j # i => watchlists'[j] = watchlists[j]
  BY <1>1, <1>2 DEF ListTypes
<1>5. frames' \in Seq(FrameRow) /\ ToldOfNodes(frames', nodes) /\ ToldOfReading(frames', readings)
  BY <1>1, <1>3, Appended, OthersTold DEF ListTypes
<1>6. ToldOfLists(frames', watchlists', members')
  <2>1. Tells(frames', "watchlist", i, now.seq, LightWatchlist(now, i, items))
    <3>1. Tells(frames, "watchlist", i, w.seq, LightWatchlist(watchlists[i], i, members))
      BY DEF ToldOfAll, ToldOfLists
    <3>2. Tells(frames, e.kind, e.id, w.seq, LightWatchlist(watchlists[i], i, members)) /\ e.seq = w.seq + 1
      BY <1>2, <1>3, <3>1
    <3>3. frames \in Seq(FrameRow)
      BY DEF ListTypes
    <3>4. Tells(frames', e.kind, e.id, e.seq, e.says)
      BY <1>1, <1>2, <1>3, <3>2, <3>3, Appended
    <3> QED BY <1>3, <3>4
  <2>2. ASSUME NEW j \in DOMAIN watchlists, j # i
        PROVE Tells(frames', "watchlist", j, watchlists[j].seq, LightWatchlist(watchlists[j], j, items))
    <3>1. Tells(frames, "watchlist", j, watchlists[j].seq, LightWatchlist(watchlists[j], j, members))
      BY DEF ToldOfAll, ToldOfLists
    <3>2. {n \in items : n[1] = j} = {n \in members : n[1] = j}
      BY <2>2
    <3>3. LightWatchlist(watchlists[j], j, items) = LightWatchlist(watchlists[j], j, members)
      BY <3>2 DEF LightWatchlist
    <3> QED BY <1>1, <1>3, <2>2, <3>1, <3>3, Appended DEF ListTypes
  <2>3. \A j \in Nat \ DOMAIN watchlists : FramesIn(frames', "watchlist", j) = {}
    BY SMTT(30), <1>1, <1>3, Appended DEF ListTypes, ToldOfAll, ToldOfLists
  <2> QED BY <1>1, <1>4, <2>1, <2>2, <2>3 DEF ToldOfLists
<1> QED BY <1>1, <1>4, <1>5, <1>6 DEF now

\* A request goes on: its row changes, and what it rests on is still there.
HasInstrument == {"resolve", "count", "insert", "act"}
GoesOn(r, row) ==
  /\ row \in WantRow /\ row.ask = want[r].ask /\ want' = [want EXCEPT ![r] = row]
  /\ BySymbol(r) /\ row.stage \in HasInstrument => row.instrument \in DOMAIN catalogue
  /\ row.stage \in {"fetch", "upsert", "again"} => BySymbol(r)
  /\ row.stage \in {"place", "plant"} => Op(r) = "research" /\ IsFolder(row.ask.parent)
AddsNothing(r, row) == Op(r) = "add" /\ row.answer = "ok" => want[r].answer = "ok"

LEMMA WantIs == ASSUME ListTypes, NEW r \in ListAsks
  PROVE /\ want[r] \in WantRow /\ want[r].ask \in ListAsk /\ want[r].stage \in Stages /\ want[r].instrument \in Nat
        /\ want[r].list \in Nat /\ want[r].place \in Nat /\ want[r].ask.instrument \in Nat /\ want[r].ask.list \in Nat
        /\ want[r].ask.parent \in Nat /\ want[r].ask.page \in Nat /\ want[r].ask.name \in STRING
        /\ want[r].ask.symbol \in Tickers \cup {NoTicker} /\ Op(r) \in ListOps
<1>1. want[r] \in WantRow
  BY DEF ListTypes
<1>2. want[r].ask \in ListAsk
  BY <1>1 DEF WantRow
<1>3. /\ want[r].stage \in Stages /\ want[r].instrument \in Nat /\ want[r].list \in Nat /\ want[r].place \in Nat
  BY <1>1 DEF WantRow
<1> QED BY <1>1, <1>2, <1>3 DEF ListAsk, Op

LEMMA ToIs == ASSUME ListTypes, NEW r \in ListAsks, NEW s \in Stages
  PROVE \E row \in WantRow :
          /\ row.ask = want[r].ask /\ row.stage = s /\ row.instrument = want[r].instrument
          /\ row.list = want[r].list /\ row.answer = want[r].answer
          /\ To(r, s) => want' = [want EXCEPT ![r] = row]
<1> DEFINE row == [want[r] EXCEPT !.stage = s]
<1>1. /\ row \in WantRow /\ row.ask = want[r].ask /\ row.stage = s /\ row.instrument = want[r].instrument
      /\ row.list = want[r].list /\ row.answer = want[r].answer
  BY WantIs DEF WantRow
<1>2. To(r, s) => want' = [want EXCEPT ![r] = row]
  BY DEF To
<1> QED BY <1>1, <1>2

LEMMA AnswersIs == ASSUME ListTypes, NEW r \in ListAsks, NEW a \in Verdict
  PROVE \E row \in WantRow :
          /\ row.ask = want[r].ask /\ row.stage = "done" /\ row.list = want[r].list /\ row.answer = a
          /\ Answers(r, a) => want' = [want EXCEPT ![r] = row]
<1> DEFINE row == [want[r] EXCEPT !.stage = "done", !.answer = a]
<1>1. row \in WantRow /\ row.ask = want[r].ask /\ row.stage = "done" /\ row.list = want[r].list /\ row.answer = a
  BY WantIs DEF WantRow, Stages
<1>2. Answers(r, a) => want' = [want EXCEPT ![r] = row]
  BY DEF Answers, ListTypes
<1> QED BY <1>1, <1>2

\* Both as they are used: a request moves to a stage, or is answered.
LEMMA MovesTo ==
  ASSUME ListTypes, AskedFor, NEW r \in ListAsks, NEW s \in Stages, To(r, s),
         BySymbol(r) /\ s \in HasInstrument => want[r].instrument \in DOMAIN catalogue,
         s \in {"fetch", "upsert", "again"} => BySymbol(r),
         s \in {"place", "plant"} => Op(r) = "research" /\ IsFolder(want[r].ask.parent)
  PROVE  \E row : GoesOn(r, row) /\ AddsNothing(r, row)
BY ToIs DEF GoesOn, AddsNothing

LEMMA IsAnswered ==
  ASSUME ListTypes, NEW r \in ListAsks, NEW a \in Verdict, Answers(r, a)
  PROVE  \E row : GoesOn(r, row) /\ row.answer = a /\ row.stage = "done" /\ row.list = want[r].list
<1>1. PICK row \in WantRow : /\ row.ask = want[r].ask /\ row.stage = "done" /\ row.list = want[r].list /\ row.answer = a
                             /\ want' = [want EXCEPT ![r] = row]
  BY AnswersIs
<1>2. GoesOn(r, row)
  BY <1>1 DEF GoesOn, HasInstrument
<1> QED BY <1>1, <1>2

LEMMA AskedKeeps ==
  ASSUME ListTypes, AskedFor, NEW r \in ListAsks, NEW row, GoesOn(r, row), DOMAIN catalogue \subseteq DOMAIN catalogue',
         \A i \in DOMAIN nodes : i \in DOMAIN nodes' /\ nodes'[i].kind = nodes[i].kind
  PROVE  /\ want' \in [ListAsks -> WantRow] /\ want'[r] = row /\ AskedFor'
         /\ \A q \in ListAsks : want'[q].ask = want[q].ask /\ (q # r => want'[q] = want[q])
<1>1. want' \in [ListAsks -> WantRow] /\ want'[r] = row /\ \A q \in ListAsks : q # r => want'[q] = want[q]
  BY DEF GoesOn, ListTypes
<1>2. \A q \in ListAsks : want'[q].ask = want[q].ask
  BY <1>1 DEF GoesOn
<1>3. \A p : IsFolder(p) => IsFolder(p)'
  BY DEF IsFolder
<1>4. \A q \in ListAsks : (BySymbol(q)' <=> BySymbol(q)) /\ Op(q)' = Op(q)
  BY <1>2 DEF BySymbol, Op
<1>5. ASSUME NEW q \in ListAsks
      PROVE /\ BySymbol(q) /\ want'[q].stage \in HasInstrument => want'[q].instrument \in DOMAIN catalogue'
            /\ Op(q) = "add" /\ ~BySymbol(q) => want[q].ask.instrument \in DOMAIN catalogue'
            /\ want'[q].stage \in {"fetch", "upsert", "again"} => BySymbol(q)
            /\ want'[q].stage \in {"place", "plant"} => Op(q) = "research" /\ IsFolder(want[q].ask.parent)
  <2>1. CASE q = r
    BY <1>1, <2>1 DEF GoesOn, AskedFor
  <2>2. CASE q # r
    BY <1>1, <2>2 DEF AskedFor, HasInstrument
  <2> QED BY <2>1, <2>2
<1>6. \A q \in ListAsks : IsFolder(want[q].ask.parent) => IsFolder(want[q].ask.parent)'
  BY <1>2 DEF IsFolder
<1>7. AskedFor'
  BY <1>2, <1>4, <1>5, <1>6 DEF AskedFor, HasInstrument
<1> QED BY <1>1, <1>2, <1>7

\* Nothing is written.
LEMMA QuietKeeps ==
  ASSUME ListInv, NEW r \in ListAsks, NEW row, GoesOn(r, row), AddsNothing(r, row), OnlyAsks
  PROVE  ListInv' /\ MembersStay
<1> USE DEF ListInv, OnlyAsks
<1>1. /\ want' \in [ListAsks -> WantRow] /\ want'[r] = row /\ AskedFor'
      /\ \A q \in ListAsks : want'[q].ask = want[q].ask /\ (q # r => want'[q] = want[q])
  BY AskedKeeps
<1>2. ListTypes'
  BY <1>1 DEF ListTypes
<1>3. Together' /\ ToldOfAll'
  BY DEF Together, ToldOfAll, Undeleted
<1>4. MembersStay
  BY <1>1 DEF MembersStay, AddsNothing
<1> QED BY <1>1, <1>2, <1>3, <1>4

LEMMA FiniteRows == ASSUME NEW S, NEW rows_ \in Seq(S), NEW T, T \subseteq DOMAIN rows_
  PROVE IsFiniteSet(T) /\ Cardinality(T) \in Nat /\ T \in SUBSET Nat
<1>1. DOMAIN rows_ = 1 .. Len(rows_) /\ Len(rows_) \in Nat
  OBVIOUS
<1>2. IsFiniteSet(DOMAIN rows_)
  BY <1>1, FS_Interval
<1> QED BY <1>1, <1>2, FS_Subset, FS_CardinalityType

\* A symbol that is looked up is found in the catalogue.
LEMMA LookupKeeps ==
  ASSUME ListInv, NEW r \in ListAsks, NEW stage, NEW missed, Lookup(r, stage, missed), BySymbol(r),
         missed => ListInv' /\ MembersStay
  PROVE  ListInv' /\ MembersStay
<1>1. CASE Traded(want[r].ask.symbol) = {}
  BY <1>1 DEF Lookup
<1>2. CASE Traded(want[r].ask.symbol) # {}
  <2> DEFINE i == CHOOSE x \in Traded(want[r].ask.symbol) : TRUE
             row == [want[r] EXCEPT !.stage = "resolve", !.instrument = i]
  <2>1. i \in DOMAIN catalogue /\ i \in Nat
    BY <1>2 DEF Traded, ListInv, ListTypes
  <2>2. want' = [want EXCEPT ![r] = row] /\ OnlyAsks
    BY <1>2 DEF Lookup, ListInv, ListTypes
  <2> HIDE DEF i
  <2>3. /\ row \in WantRow /\ row.ask = want[r].ask /\ row.stage = "resolve" /\ row.instrument = i
        /\ row.answer = want[r].answer
    BY <2>1, WantIs DEF ListInv, WantRow, Stages
  <2> HIDE DEF row
  <2>4. GoesOn(r, row) /\ AddsNothing(r, row)
    BY <2>1, <2>2, <2>3 DEF GoesOn, AddsNothing
  <2> QED BY <2>2, <2>4, QuietKeeps
<1> QED BY <1>1, <1>2

LEMMA InstrumentKeeps ==
  ASSUME ListInv, NEW r \in ListAsks, ResolveInstrumentID(r) \/ FetchInstrument(r) \/ LookupAgain(r)
  PROVE  ListInv' /\ MembersStay
<1>1. CASE ResolveInstrumentID(r)
  <2>1. BySymbol(r) /\ Lookup(r, "idle", To(r, "fetch"))
    BY <1>1 DEF ResolveInstrumentID
  <2>2. To(r, "fetch") => ListInv' /\ MembersStay
    <3> SUFFICES ASSUME To(r, "fetch") PROVE ListInv' /\ MembersStay
      OBVIOUS
    <3>1. PICK row : GoesOn(r, row) /\ AddsNothing(r, row)
      BY <2>1, MovesTo DEF ListInv, HasInstrument, Stages
    <3>2. OnlyAsks
      BY <2>1 DEF Lookup
    <3> QED BY <3>1, <3>2, QuietKeeps
  <2> QED BY <2>1, <2>2, LookupKeeps
<1>2. CASE FetchInstrument(r)
  <2>1. BySymbol(r) /\ OnlyAsks
    BY <1>2 DEF FetchInstrument, Stands, ListInv, AskedFor
  <2>2. CASE Answers(r, "unknown")
    <3>1. PICK row : GoesOn(r, row) /\ row.answer = "unknown"
      BY ZenonT(40), <2>2, IsAnswered DEF ListInv, Verdict
    <3> QED BY <2>1, <3>1, QuietKeeps DEF AddsNothing
  <2>3. CASE To(r, "upsert")
    <3>1. PICK row : GoesOn(r, row) /\ AddsNothing(r, row)
      BY <2>1, <2>3, MovesTo DEF ListInv, HasInstrument, Stages
    <3> QED BY <2>1, <3>1, QuietKeeps
  <2> QED BY <1>2, <2>2, <2>3 DEF FetchInstrument
<1>3. CASE LookupAgain(r)
  <2>1. BySymbol(r) /\ Lookup(r, "again", Answers(r, "unknown"))
    BY <1>3 DEF LookupAgain, Lookup, Stands, ListInv, AskedFor
  <2>2. Answers(r, "unknown") => ListInv' /\ MembersStay
    <3> SUFFICES ASSUME Answers(r, "unknown") PROVE ListInv' /\ MembersStay
      OBVIOUS
    <3>1. PICK row : GoesOn(r, row) /\ row.answer = "unknown"
      BY ZenonT(40), IsAnswered DEF ListInv, Verdict
    <3>2. OnlyAsks
      BY <2>1 DEF Lookup
    <3> QED BY <3>1, <3>2, QuietKeeps DEF AddsNothing
  <2> QED BY <2>1, <2>2, LookupKeeps
<1> QED BY <1>1, <1>2, <1>3

LEMMA FindListKeeps ==
  ASSUME ListInv, NEW r \in ListAsks, ResolveListID(r) \/ CountLists(r)
  PROVE  ListInv' /\ MembersStay
<1>1. CASE ResolveListID(r)
  <2> DEFINE name == want[r].ask.name
             found == IF ~ByName(r) THEN {want[r].ask.list}
                      ELSE IF name = "" THEN DefaultWatchlistID ELSE Named(name)
             i == CHOOSE x \in found : TRUE
             row == [want[r] EXCEPT !.stage = "act", !.list = i]
  <2>1. /\ OnlyAsks /\ Resolving(r)
        /\ IF found = {} THEN To(r, "count") ELSE want' = [want EXCEPT ![r].stage = "act", ![r].list = i]
    BY <1>1 DEF ResolveListID
  <2>2. found \in SUBSET Nat
    <3>1. want[r].ask.list \in Nat /\ DOMAIN watchlists \subseteq Nat
      BY WantIs DEF ListInv, ListTypes
    <3> QED BY <3>1 DEF DefaultWatchlistID, Named, Undeleted
  <2>3. BySymbol(r) => want[r].instrument \in DOMAIN catalogue
    BY <2>1 DEF Resolving, Stands, ListInv, AskedFor
  <2> HIDE DEF found
  <2>4. CASE found = {}
    <3>1. PICK one : GoesOn(r, one) /\ AddsNothing(r, one)
      BY <2>1, <2>3, <2>4, MovesTo DEF ListInv, Stages
    <3> QED BY <2>1, <3>1, QuietKeeps
  <2>5. CASE found # {}
    <3>1. i \in Nat
      BY <2>2, <2>5
    <3>2. want' = [want EXCEPT ![r] = row]
      BY <2>1, <2>5 DEF ListInv, ListTypes
    <3> HIDE DEF i
    <3>3. /\ row \in WantRow /\ row.ask = want[r].ask /\ row.stage = "act" /\ row.instrument = want[r].instrument
          /\ row.answer = want[r].answer
      BY <3>1, WantIs DEF ListInv, WantRow, Stages
    <3> HIDE DEF row
    <3>4. GoesOn(r, row) /\ AddsNothing(r, row)
      BY <2>3, <3>2, <3>3 DEF GoesOn, AddsNothing
    <3> QED BY <2>1, <3>4, QuietKeeps
  <2> QED BY <2>4, <2>5
<1>2. CASE CountLists(r)
  <2> DEFINE n == Cardinality(Undeleted(watchlists))
             row == [want[r] EXCEPT !.stage = "insert", !.place = n]
  <2>1. OnlyAsks /\ want' = [want EXCEPT ![r] = row]
    BY <1>2 DEF CountLists, ListInv, ListTypes
  <2>2. n \in Nat
    BY FiniteRows DEF ListInv, ListTypes, Undeleted
  <2>3. BySymbol(r) => want[r].instrument \in DOMAIN catalogue
    BY <1>2 DEF CountLists, Stands, ListInv, AskedFor, BySymbol
  <2> HIDE DEF n
  <2>4. /\ row \in WantRow /\ row.ask = want[r].ask /\ row.stage = "insert" /\ row.instrument = want[r].instrument
        /\ row.answer = want[r].answer
    BY <2>2, WantIs DEF ListInv, WantRow, Stages
  <2> HIDE DEF row
  <2>5. GoesOn(r, row) /\ AddsNothing(r, row)
    BY <2>1, <2>3, <2>4 DEF GoesOn, AddsNothing
  <2> QED BY <2>1, <2>5, QuietKeeps
<1> QED BY <1>1, <1>2

LEMMA ReadListKeeps ==
  ASSUME ListInv, NEW r \in ListAsks, ListItems(r) \/ ResolveInstruments(r)
  PROVE  ListInv' /\ MembersStay
<1>1. OnlyAsks /\ Op(r) \in {"read", "universe"}
  BY DEF ListItems, ResolveInstruments, IsDoing
<1>2. CASE \E a \in {"ok", "not found"} : Answers(r, a)
  <2>1. PICK row : GoesOn(r, row)
    BY <1>2, IsAnswered DEF ListInv, Verdict
  <2> QED BY <1>1, <2>1, QuietKeeps DEF AddsNothing
<1>3. CASE To(r, "items")
  <2>1. PICK row : GoesOn(r, row) /\ AddsNothing(r, row)
    BY <1>3, MovesTo DEF ListInv, HasInstrument, Stages
  <2> QED BY <1>1, <2>1, QuietKeeps
<1> QED BY <1>2, <1>3 DEF ListItems, ResolveInstruments

LEMMA PlaceKeeps ==
  ASSUME ListInv, NEW r \in ListAsks, ParentIsFolder(r) \/ NextResearchPosition(r)
  PROVE  ListInv' /\ MembersStay
<1>1. CASE ParentIsFolder(r)
  <2>1. Op(r) = "research" /\ OnlyAsks
    BY <1>1 DEF ParentIsFolder
  <2>2. CASE Answers(r, "refused")
    <3>1. PICK row : GoesOn(r, row)
      BY <2>2, IsAnswered DEF ListInv, Verdict
    <3> QED BY <2>1, <3>1, QuietKeeps DEF AddsNothing
  <2>3. CASE ~Answers(r, "refused")
    <3>1. To(r, "place") /\ IsFolder(want[r].ask.parent)
      BY <1>1, <2>3 DEF ParentIsFolder, IsFolder, Undeleted
    <3>2. PICK row : GoesOn(r, row) /\ AddsNothing(r, row)
      BY <2>1, <3>1, MovesTo DEF ListInv, HasInstrument, Stages
    <3> QED BY <2>1, <3>2, QuietKeeps
  <2> QED BY <2>2, <2>3
<1>2. CASE NextResearchPosition(r)
  <2> DEFINE S == {0} \cup {nodes[i].position : i \in Siblings(want[r].ask.parent)}
             row == [want[r] EXCEPT !.stage = "plant", !.place = 1 + Max(S)]
  <2>1. OnlyAsks /\ want' = [want EXCEPT ![r] = row] /\ Op(r) = "research" /\ IsFolder(want[r].ask.parent)
    BY <1>2 DEF NextResearchPosition, ListInv, ListTypes, AskedFor, Stands
  <2>2. Max(S) \in Nat
    <3> DEFINE P == {nodes[i].position : i \in Siblings(want[r].ask.parent)}
               f == [i \in Siblings(want[r].ask.parent) |-> nodes[i].position]
    <3>1. Siblings(want[r].ask.parent) \subseteq DOMAIN nodes
      BY DEF Siblings, Undeleted
    <3>2. IsFiniteSet(Siblings(want[r].ask.parent))
      BY <3>1, FiniteRows DEF ListInv, ListTypes
    <3>3. \A i \in DOMAIN nodes : nodes[i].position \in Nat
      <4>1. \A i \in DOMAIN nodes : nodes[i] \in FolderRow
        BY DEF ListInv, ListTypes
      <4> QED BY <4>1 DEF FolderRow
    <3>4. f \in Surjection(Siblings(want[r].ask.parent), P)
      BY DEF Surjection
    <3>5. IsFiniteSet(P) /\ IsFiniteSet({0})
      BY <3>2, <3>4, FS_Surjection, FS_Singleton
    <3>6. IsFiniteSet(S) /\ S \in SUBSET Nat /\ S # {}
      <4>1. S = {0} \cup P /\ S # {}
        OBVIOUS
      <4>2. P \in SUBSET Nat
        BY <3>1, <3>3
      <4> HIDE DEF P, S
      <4>3. IsFiniteSet({0} \cup P)
        BY <3>5, FS_Union
      <4> QED BY <4>1, <4>2, <4>3
    <3> HIDE DEF S
    <3>7. \E x \in S : \A y \in S : x >= y
      BY <3>6, GreatestOf
    <3> QED BY <3>6, <3>7 DEF Max
  <2> HIDE DEF S
  <2>3. /\ row \in WantRow /\ row.ask = want[r].ask /\ row.stage = "plant" /\ row.answer = want[r].answer
    <3> DEFINE place == 1 + Max(S)
    <3>1. place \in Nat
      BY <2>2
    <3> HIDE DEF place
    <3>2. row = [want[r] EXCEPT !.stage = "plant", !.place = place]
      BY DEF place
    <3> QED BY <3>1, <3>2, WantIs DEF ListInv, WantRow, Stages
  <2> HIDE DEF row
  <2>4. GoesOn(r, row) /\ AddsNothing(r, row)
    BY <2>1, <2>3 DEF GoesOn, AddsNothing, HasInstrument
  <2> QED BY <2>1, <2>4, QuietKeeps
<1> QED BY <1>1, <1>2

\* A symbol is recorded: a traded one only when none is.
LEMMA CatalogueKeeps ==
  ASSUME ListInv, NEW r \in ListAsks, UpsertInstruments(r)
  PROVE  ListInv' /\ MembersStay
<1> DEFINE s == want[r].ask.symbol
           row == [symbol |-> s, active |-> vendor[s] = "active"]
<1>1. BySymbol(r) /\ To(r, "again") /\ UNCHANGED <<vendor, watchlists, members, readings, nodes, strategies, frames>>
  BY DEF UpsertInstruments, Stands, ListInv, AskedFor
<1>2. s \in Tickers
  BY <1>1, WantIs DEF BySymbol, ListInv
<1>3. row \in CatalogueRow /\ row.symbol = s /\ (row.active <=> vendor[s] = "active")
  BY <1>2 DEF CatalogueRow
<1>4. \/ catalogue' = catalogue
      \/ catalogue' = Append(catalogue, row) /\ (row.active => Traded(s) = {})
  BY <1>3 DEF UpsertInstruments
<1> HIDE DEF row
<1>5. /\ catalogue' \in Seq(CatalogueRow) /\ DOMAIN catalogue \subseteq DOMAIN catalogue'
      /\ \A i, j \in DOMAIN catalogue' :
           catalogue'[i].active /\ catalogue'[j].active /\ catalogue'[i].symbol = catalogue'[j].symbol => i = j
  <2>1. CASE catalogue' = catalogue
    BY <2>1 DEF ListInv, ListTypes, Together
  <2>2. CASE catalogue' = Append(catalogue, row) /\ (row.active => Traded(s) = {})
    <3> DEFINE n == Len(catalogue) + 1
    <3>1. /\ catalogue' \in Seq(CatalogueRow) /\ DOMAIN catalogue' = DOMAIN catalogue \cup {n} /\ n \notin DOMAIN catalogue
          /\ catalogue'[n] = row /\ \A i \in DOMAIN catalogue : catalogue'[i] = catalogue[i]
      BY <1>3, <2>2 DEF ListInv, ListTypes
    <3>2. \A i \in DOMAIN catalogue : row.active => ~(catalogue[i].active /\ catalogue[i].symbol = s)
      BY <2>2 DEF Traded
    <3>3. \A i, j \in DOMAIN catalogue :
            catalogue[i].active /\ catalogue[j].active /\ catalogue[i].symbol = catalogue[j].symbol => i = j
      BY DEF ListInv, Together
    <3> HIDE DEF n
    <3> QED BY <1>3, <3>1, <3>2, <3>3
  <2> QED BY <1>4, <2>1, <2>2
<1>6. PICK next : GoesOn(r, next) /\ AddsNothing(r, next)
  BY <1>1, MovesTo DEF ListInv, HasInstrument, Stages
<1>7. /\ want' \in [ListAsks -> WantRow] /\ want'[r] = next /\ AskedFor'
      /\ \A q \in ListAsks : want'[q].ask = want[q].ask /\ (q # r => want'[q] = want[q])
  BY <1>1, <1>5, <1>6, AskedKeeps DEF ListInv
<1>8. ListTypes'
  BY <1>1, <1>5, <1>7 DEF ListInv, ListTypes
<1>9. Together'
  BY <1>1, <1>5 DEF ListInv, Together, Undeleted
<1>10. ToldOfAll'
  BY <1>1 DEF ListInv, ToldOfAll
<1>11. MembersStay
  BY <1>1, <1>6, <1>7 DEF MembersStay, AddsNothing
<1> QED BY <1>7, <1>8, <1>9, <1>10, <1>11 DEF ListInv

\* A list is made behind the others, and told of.
LEMMA MadeKeeps ==
  ASSUME ListInv, NEW r \in ListAsks, CreateWatchlist(r)
  PROVE  ListInv' /\ MembersStay
<1> DEFINE i == Len(watchlists) + 1
           w == [name |-> IF want[r].ask.name = "" THEN "Watchlist" ELSE want[r].ask.name,
                 position |-> want[r].place, seq |-> 1, deleted |-> FALSE]
           says == LightWatchlist(w, i, {})
           e == FrameOf("watchlist", i, 1, says)
<1>1. /\ Stands(r, "insert") /\ watchlists' = Append(watchlists, w) /\ frames' = Append(frames, e)
      /\ UNCHANGED <<catalogue, vendor, members, readings, nodes, strategies>>
  BY DEF CreateWatchlist
<1>2. \/ Op(r) = "create" /\ want' = [want EXCEPT ![r].stage = "done", ![r].answer = "ok"]
      \/ want' = [want EXCEPT ![r].stage = "act", ![r].list = i]
  BY DEF CreateWatchlist
<1>3. w \in WatchRow /\ w.seq = 1 /\ ~w.deleted
  <2>1. want[r].ask.name \in STRING /\ want[r].place \in Nat
    BY WantIs DEF ListInv
  <2> DEFINE name == IF want[r].ask.name = "" THEN "Watchlist" ELSE want[r].ask.name
  <2>2. name \in Texts
    BY <2>1 DEF Texts
  <2> HIDE DEF name
  <2>3. [name |-> name, position |-> want[r].place, seq |-> 1, deleted |-> FALSE] \in WatchRow
    BY <2>1, <2>2 DEF WatchRow
  <2> QED BY <2>3 DEF name
<1> HIDE DEF w
<1>4. /\ watchlists' \in Seq(WatchRow) /\ i \in Nat /\ i \notin DOMAIN watchlists
      /\ DOMAIN watchlists' = DOMAIN watchlists \cup {i} /\ watchlists'[i] = w
      /\ \A j \in DOMAIN watchlists : watchlists'[j] = watchlists[j]
  BY <1>1, <1>3 DEF ListInv, ListTypes
<1> HIDE DEF i
<1>5. says \in Saying
  BY <1>3, <1>4, SaysOfList
<1> HIDE DEF says
<1>6. e \in FrameRow /\ e.kind = "watchlist" /\ e.id = i /\ e.seq = 1 /\ e.says = says
  BY <1>4, <1>5 DEF FrameOf, FrameRow
<1> HIDE DEF e
<1>7. \E row : GoesOn(r, row) /\ AddsNothing(r, row)
  <2>1. CASE Op(r) = "create" /\ want' = [want EXCEPT ![r].stage = "done", ![r].answer = "ok"]
    <3>1. Answers(r, "ok")
      BY <2>1 DEF Answers
    <3> QED BY <2>1, <3>1, IsAnswered DEF ListInv, Verdict, AddsNothing
  <2>2. CASE want' = [want EXCEPT ![r].stage = "act", ![r].list = i]
    <3> DEFINE row == [want[r] EXCEPT !.stage = "act", !.list = i]
    <3>1. want' = [want EXCEPT ![r] = row]
      BY <2>2 DEF ListInv, ListTypes
    <3>2. /\ row \in WantRow /\ row.ask = want[r].ask /\ row.stage = "act" /\ row.instrument = want[r].instrument
          /\ row.answer = want[r].answer
      BY <1>4, WantIs DEF ListInv, WantRow, Stages
    <3>3. BySymbol(r) => want[r].instrument \in DOMAIN catalogue
      BY <1>1 DEF Stands, ListInv, AskedFor
    <3> HIDE DEF row
    <3> QED BY <3>1, <3>2, <3>3 DEF GoesOn, AddsNothing
  <2> QED BY <1>2, <2>1, <2>2
<1>8. PICK row : GoesOn(r, row) /\ AddsNothing(r, row)
  BY <1>7
<1>9. /\ want' \in [ListAsks -> WantRow] /\ want'[r] = row /\ AskedFor'
      /\ \A q \in ListAsks : want'[q].ask = want[q].ask /\ (q # r => want'[q] = want[q])
  BY <1>1, <1>8, AskedKeeps DEF ListInv
<1>10. frames' \in Seq(FrameRow) /\ ToldOfNodes(frames', nodes) /\ ToldOfReading(frames', readings)
  BY <1>1, <1>6, Appended, OthersTold DEF ListInv, ListTypes
<1>11. ToldOfLists(frames', watchlists', members')
  <2>1. \A m \in members : m[1] # i
    BY <1>4 DEF ListInv, Together, Undeleted
  <2>2. Tells(frames', "watchlist", i, 1, LightWatchlist(w, i, members))
    <3>1. FramesIn(frames, "watchlist", i) = {}
      BY <1>4 DEF ListInv, ToldOfAll, ToldOfLists
    <3>2. Tells(frames, e.kind, e.id, 0, says) /\ e.seq = 0 + 1
      BY <1>6, <3>1 DEF Tells
    <3>3. Tells(frames', e.kind, e.id, e.seq, e.says)
      BY <1>1, <1>6, <3>2, Appended DEF ListInv, ListTypes
    <3>4. says = LightWatchlist(w, i, members)
      <4>1. {m[2] : m \in {n \in members : n[1] = i}} = {m[2] : m \in {n \in {} : n[1] = i}}
        BY <2>1
      <4> QED BY <4>1 DEF LightWatchlist, says
    <3> QED BY <1>6, <3>3, <3>4
  <2>3. \A j \in DOMAIN watchlists :
          Tells(frames', "watchlist", j, watchlists[j].seq, LightWatchlist(watchlists[j], j, members))
    BY <1>1, <1>4, <1>6, Appended DEF ListInv, ListTypes, ToldOfAll, ToldOfLists
  <2>4. \A j \in Nat \ DOMAIN watchlists' : FramesIn(frames', "watchlist", j) = {}
    BY <1>1, <1>4, <1>6, Appended DEF ListInv, ListTypes, ToldOfAll, ToldOfLists
  <2> QED BY <1>1, <1>3, <1>4, <2>2, <2>3, <2>4 DEF ToldOfLists
<1>12. ListTypes'
  BY <1>1, <1>4, <1>9, <1>10 DEF ListInv, ListTypes
<1>13. Together'
  <2>1. \A m \in members : m[1] \in DOMAIN watchlists' /\ ~watchlists'[m[1]].deleted /\ m[2] \in DOMAIN catalogue
    BY <1>4 DEF ListInv, Together, Undeleted
  <2> QED BY <1>1, <2>1 DEF ListInv, Together, Undeleted
<1>14. MembersStay
  BY <1>1, <1>4, <1>8, <1>9 DEF MembersStay, AddsNothing
<1> QED BY <1>1, <1>9, <1>10, <1>11, <1>12, <1>13, <1>14 DEF ListInv, ToldOfAll

\* A list that is there is written: its row, and its members.
LEMMA ListWriteKeeps ==
  ASSUME ListInv, NEW r \in ListAsks, Stands(r, "act"), NEW i \in Undeleted(watchlists), i = want[r].list,
         NEW w \in WatchRow, w.seq = watchlists[i].seq,
         NEW items \in SUBSET (Nat \X Nat), \A m : m[1] # i => (m \in items <=> m \in members),
         \A m \in items : m[2] \in DOMAIN catalogue, w.deleted => \A m \in items : m[1] # i,
         \A m \in members \ items : Op(r) = "delete" \/ (Op(r) = "remove" /\ want[r].ask.instrument = m[2]),
         Op(r) = "add" => <<i, Member(r)>> \in items,
         EmitUpsert(i, w, items), Answers(r, "ok"), ListWrite(r)
  PROVE  ListInv' /\ MembersStay
<1>1. i \in DOMAIN watchlists /\ ~watchlists[i].deleted
  BY DEF Undeleted
<1> DEFINE now == [w EXCEPT !.seq = @ + 1]
<1>2. now.deleted = w.deleted
  BY DEF WatchRow
<1>3. /\ watchlists' \in Seq(WatchRow) /\ members' = items /\ frames' \in Seq(FrameRow)
      /\ DOMAIN watchlists' = DOMAIN watchlists /\ watchlists'[i] = now
      /\ \A j \in DOMAIN watchlists : j # i => watchlists'[j] = watchlists[j]
      /\ ToldOfLists(frames', watchlists', members')
      /\ ToldOfNodes(frames', nodes) /\ ToldOfReading(frames', readings)
  BY <1>1, EmitKeeps DEF ListInv
<1> HIDE DEF now
<1>4. UNCHANGED <<catalogue, vendor, readings, nodes, strategies>>
  BY DEF ListWrite
<1>5. PICK row : GoesOn(r, row) /\ row.answer = "ok" /\ row.stage = "done" /\ row.list = want[r].list
  BY IsAnswered DEF ListInv, Verdict
<1>6. /\ want' \in [ListAsks -> WantRow] /\ want'[r] = row /\ AskedFor'
      /\ \A q \in ListAsks : want'[q].ask = want[q].ask /\ (q # r => want'[q] = want[q])
  BY <1>4, <1>5, AskedKeeps DEF ListInv
<1>7. ListTypes'
  BY <1>3, <1>4, <1>6 DEF ListInv, ListTypes
<1>8. Together'
  <2>1. ASSUME NEW m \in items PROVE m[1] \in DOMAIN watchlists' /\ ~watchlists'[m[1]].deleted /\ m[2] \in DOMAIN catalogue
    <3>1. CASE m[1] = i
      BY <1>1, <1>2, <1>3, <2>1, <3>1
    <3>2. CASE m[1] # i
      <4>1. m \in members
        BY <2>1, <3>2
      <4>2. m[1] \in DOMAIN watchlists /\ ~watchlists[m[1]].deleted
        BY <4>1 DEF ListInv, Together, Undeleted
      <4> QED BY <1>3, <2>1, <3>2, <4>2
    <3> QED BY <3>1, <3>2
  <2> QED BY <1>3, <1>4, <2>1 DEF ListInv, Together, Undeleted
<1>9. MembersStay
  <2>1. want'[r] # want[r]
    BY <1>5, <1>6 DEF Stands
  <2>2. \A m \in members \ members' : m[1] = i
    BY <1>3
  <2>3. \A m \in members \ members' : \E q \in ListAsks :
          /\ want'[q] # want[q] /\ want[q].list = m[1]
          /\ Op(q) = "delete" \/ (Op(q) = "remove" /\ want[q].ask.instrument = m[2])
    BY <1>3, <2>1, <2>2
  <2>4. ASSUME NEW q \in ListAsks, Op(q) = "add", want'[q].answer = "ok", want[q].answer # "ok", Exists(want[q].list)
        PROVE <<want[q].list, Member(q)>> \in members'
    <3>1. q = r
      BY <1>6, <2>4
    <3> QED BY <1>3, <2>4, <3>1
  <2>5. \A j \in DOMAIN watchlists : watchlists[j].deleted => watchlists'[j].deleted
    BY <1>1, <1>3
  <2> QED BY <2>3, <2>4, <2>5 DEF MembersStay
<1> QED BY <1>3, <1>4, <1>6, <1>7, <1>8, <1>9 DEF ListInv, ToldOfAll

\* Nothing is written, and the request is answered.
LEMMA RefusalKeeps ==
  ASSUME ListInv, NEW r \in ListAsks, NEW a \in Verdict, Answers(r, a), ListWrite(r), Nothing,
         Op(r) = "add" /\ a = "ok" /\ Exists(want[r].list) => <<want[r].list, Member(r)>> \in members
  PROVE  ListInv' /\ MembersStay
<1>1. PICK row : GoesOn(r, row) /\ row.answer = a
  BY IsAnswered DEF ListInv
<1>2. UNCHANGED <<catalogue, vendor, watchlists, members, readings, nodes, strategies, frames>>
  BY DEF ListWrite, Nothing
<1>3. /\ want' \in [ListAsks -> WantRow] /\ want'[r] = row /\ AskedFor'
      /\ \A q \in ListAsks : want'[q].ask = want[q].ask /\ (q # r => want'[q] = want[q])
  BY <1>1, <1>2, AskedKeeps DEF ListInv
<1>4. ListTypes'
  BY <1>2, <1>3 DEF ListInv, ListTypes
<1>5. Together' /\ ToldOfAll'
  BY <1>2 DEF ListInv, Together, ToldOfAll, Undeleted
<1>6. MembersStay
  BY <1>1, <1>2, <1>3 DEF MembersStay
<1> QED BY <1>3, <1>4, <1>5, <1>6 DEF ListInv

LEMMA ItemsKeep ==
  ASSUME ListInv, NEW r \in ListAsks, AddItem(r) \/ RemoveItem(r)
  PROVE  ListInv' /\ MembersStay
<1> DEFINE i == want[r].list
<1>0. members \in SUBSET (Nat \X Nat) /\ i \in Nat /\ \A m \in members : m[1] \in Undeleted(watchlists) /\ m[2] \in DOMAIN catalogue
  BY WantIs DEF ListInv, ListTypes, Together
<1>1. CASE AddItem(r)
  <2> DEFINE m == <<i, Member(r)>>
             items == members \cup {m}
  <2>1. Stands(r, "act") /\ Op(r) = "add" /\ Answers(r, "ok") /\ ListWrite(r)
    BY <1>1 DEF AddItem, IsDoing
  <2>2. Member(r) \in DOMAIN catalogue /\ Member(r) \in Nat
    BY <2>1 DEF Member, Stands, ListInv, AskedFor, ListTypes
  <2>3. CASE Exists(i) /\ m \notin members
    <3>1. EmitUpsert(i, watchlists[i], items) /\ i \in Undeleted(watchlists)
      BY <1>1, <2>3 DEF AddItem, Exists
    <3>2. watchlists[i] \in WatchRow /\ ~watchlists[i].deleted
      BY <3>1, ListRow DEF ListInv, Undeleted
    <3>3. /\ items \in SUBSET (Nat \X Nat) /\ m \in items /\ \A x \in items : x[2] \in DOMAIN catalogue
          /\ \A x : x[1] # i => (x \in items <=> x \in members)
          /\ members \ items = {}
      BY <1>0, <2>2
    <3> HIDE DEF items
    <3> QED BY <2>1, <3>1, <3>2, <3>3, ListWriteKeeps
  <2>4. CASE ~(Exists(i) /\ m \notin members)
    <3>1. Nothing
      BY <1>1, <2>4 DEF AddItem
    <3> QED BY <2>1, <2>4, <3>1, RefusalKeeps DEF Verdict
  <2> QED BY <2>3, <2>4
<1>2. CASE RemoveItem(r)
  <2> DEFINE m == <<i, want[r].ask.instrument>>
             items == members \ {m}
  <2>1. Stands(r, "act") /\ Op(r) = "remove" /\ Answers(r, "ok") /\ ListWrite(r)
    BY <1>2 DEF RemoveItem, IsDoing
  <2>2. CASE m \in members
    <3>1. EmitUpsert(i, watchlists[i], items) /\ i \in Undeleted(watchlists)
      BY <1>0, <1>2, <2>2 DEF RemoveItem
    <3>2. watchlists[i] \in WatchRow /\ ~watchlists[i].deleted
      BY <3>1, ListRow DEF ListInv, Undeleted
    <3>3. /\ items \in SUBSET (Nat \X Nat) /\ \A x \in items : x[2] \in DOMAIN catalogue
          /\ \A x : x[1] # i => (x \in items <=> x \in members)
          /\ \A x \in members \ items : x[2] = want[r].ask.instrument
      BY <1>0
    <3> HIDE DEF items
    <3> QED BY <2>1, <3>1, <3>2, <3>3, ListWriteKeeps
  <2>3. CASE m \notin members
    <3>1. Nothing
      BY <1>2, <2>3 DEF RemoveItem
    <3> QED BY <2>1, <3>1, RefusalKeeps DEF Verdict
  <2> QED BY <2>2, <2>3
<1> QED BY <1>1, <1>2

LEMMA ListRowKeeps ==
  ASSUME ListInv, NEW r \in ListAsks, RenameWatchlist(r) \/ DeleteWatchlist(r)
  PROVE  ListInv' /\ MembersStay
<1> DEFINE i == want[r].list
<1>1. /\ Stands(r, "act") /\ Op(r) \in {"rename", "delete"} /\ ListWrite(r)
      /\ members \in SUBSET (Nat \X Nat) /\ \A m \in members : m[1] \in Undeleted(watchlists) /\ m[2] \in DOMAIN catalogue
  BY DEF RenameWatchlist, DeleteWatchlist, IsDoing, ListInv, ListTypes, Together
<1>2. CASE ~Exists(i)
  <2>1. Nothing /\ Answers(r, "not found")
    BY <1>2 DEF RenameWatchlist, DeleteWatchlist
  <2> QED BY <1>1, <2>1, RefusalKeeps DEF Verdict
<1>3. CASE Exists(i)
  <2>1. i \in Undeleted(watchlists) /\ watchlists[i] \in WatchRow /\ ~watchlists[i].deleted
    BY <1>3, ListRow DEF Exists, Undeleted, ListInv
  <2>2. CASE RenameWatchlist(r)
    <3> DEFINE w == [watchlists[i] EXCEPT !.name = want[r].ask.name]
    <3>1. EmitUpsert(i, w, members) /\ Answers(r, "ok") /\ Op(r) = "rename"
      BY <1>3, <2>2 DEF RenameWatchlist, IsDoing
    <3>2. w \in WatchRow /\ w.seq = watchlists[i].seq /\ ~w.deleted
      <4>1. want[r].ask.name \in Texts
        BY WantIs DEF Texts, ListInv
      <4> QED BY <2>1, <4>1 DEF WatchRow
    <3> HIDE DEF w
    <3> QED BY <1>1, <2>1, <3>1, <3>2, ListWriteKeeps
  <2>3. CASE DeleteWatchlist(r)
    <3> DEFINE w == [watchlists[i] EXCEPT !.deleted = TRUE]
               items == {m \in members : m[1] # i}
    <3>1. EmitUpsert(i, w, items) /\ Answers(r, "ok") /\ Op(r) = "delete"
      BY <1>3, <2>3 DEF DeleteWatchlist, IsDoing
    <3>2. w \in WatchRow /\ w.seq = watchlists[i].seq
      BY <2>1 DEF WatchRow
    <3>3. /\ items \in SUBSET (Nat \X Nat) /\ \A m \in items : m[2] \in DOMAIN catalogue /\ m[1] # i
          /\ \A m : m[1] # i => (m \in items <=> m \in members)
      BY <1>1
    <3> HIDE DEF w, items
    <3> QED BY <1>1, <2>1, <3>1, <3>2, <3>3, ListWriteKeeps
  <2> QED BY <2>2, <2>3
<1> QED BY <1>2, <1>3

\* A step that leaves the lists alone.
LEMMA ListsAside ==
  ASSUME ListInv, NEW r \in ListAsks, NEW a \in Verdict, Answers(r, a), Op(r) # "add",
         UNCHANGED <<catalogue, vendor, watchlists, members>>, readings' \in [page : Nat, seq : Nat],
         nodes' \in Seq(FolderRow), strategies' \in SUBSET (Nat \X Texts), frames' \in Seq(FrameRow),
         \A i \in DOMAIN nodes : i \in DOMAIN nodes' /\ nodes'[i].kind = nodes[i].kind
  PROVE  ListTypes' /\ AskedFor' /\ MembersStay
<1>1. PICK row : GoesOn(r, row)
  BY IsAnswered DEF ListInv
<1>2. /\ want' \in [ListAsks -> WantRow] /\ AskedFor'
      /\ \A q \in ListAsks : want'[q].ask = want[q].ask /\ (q # r => want'[q] = want[q])
  BY <1>1, AskedKeeps DEF ListInv
<1>3. ListTypes'
  BY <1>2 DEF ListInv, ListTypes
<1>4. MembersStay
  BY <1>2 DEF MembersStay
<1> QED BY <1>2, <1>3, <1>4

LEMMA TurnKeeps ==
  ASSUME ListInv, NEW r \in ListAsks, PutReadingPosition(r)
  PROVE  ListInv' /\ MembersStay
<1> DEFINE now == [page |-> want[r].ask.page, seq |-> readings.seq + 1]
           e == FrameOf("reading_position", 1, now.seq, LightReading(now))
<1>1. /\ Op(r) = "turn" /\ readings' = now /\ frames' = Append(frames, e) /\ Answers(r, "ok")
      /\ UNCHANGED <<catalogue, vendor, watchlists, members, nodes, strategies>>
  BY DEF PutReadingPosition
<1>2. want[r].ask.page \in Nat /\ readings.seq \in Nat
  BY WantIs DEF ListInv, ListTypes
<1>3. now \in [page : Nat, seq : Nat] /\ now.seq = readings.seq + 1 /\ LightReading(now) \in Saying
  BY <1>2 DEF LightReading, Saying
<1> HIDE DEF now
<1>4. e \in FrameRow /\ e.kind = "reading_position" /\ e.id = 1 /\ e.seq = now.seq /\ e.says = LightReading(now)
  BY <1>3 DEF FrameOf, FrameRow
<1> HIDE DEF e
<1>5. frames' \in Seq(FrameRow) /\ ToldOfLists(frames', watchlists, members) /\ ToldOfNodes(frames', nodes)
  BY <1>1, <1>4, Appended, OthersTold DEF ListInv, ListTypes
<1>6. Tells(frames', "reading_position", 1, now.seq, LightReading(now))
  <2>1. Tells(frames, e.kind, e.id, readings.seq, LightReading(readings)) /\ e.seq = readings.seq + 1
    BY <1>3, <1>4 DEF ListInv, ToldOfAll, ToldOfReading
  <2>2. Tells(frames', e.kind, e.id, e.seq, e.says)
    BY <1>1, <1>2, <1>4, <2>1, Appended DEF ListInv, ListTypes
  <2> QED BY <1>4, <2>2
<1>7. ListTypes' /\ AskedFor' /\ MembersStay
  BY <1>1, <1>3, <1>5, ListsAside DEF ListInv, ListTypes, Verdict
<1>8. Together'
  BY <1>1 DEF ListInv, Together, Undeleted
<1> QED BY <1>1, <1>5, <1>6, <1>7, <1>8 DEF ListInv, ToldOfAll, ToldOfReading

LEMMA FolderIs == ASSUME ListTypes, NEW i \in DOMAIN nodes
  PROVE nodes[i] \in FolderRow /\ i \in Nat /\ nodes[i].seq \in Nat /\ nodes[i].parent \in Nat /\ nodes[i].deleted \in BOOLEAN
<1>1. nodes[i] \in FolderRow /\ i \in Nat
  BY DEF ListTypes
<1> QED BY <1>1 DEF FolderRow

LEMMA SaysOfFolder == ASSUME NEW n \in FolderRow PROVE LightFolder(n) \in Saying
BY DEF FolderRow, LightFolder, Saying

\* A folder's row is written, or a new one; a research folder has its hypothesis, and one.
LEMMA NodeWriteKeeps ==
  ASSUME ListInv, NEW r \in ListAsks, Answers(r, "ok"), Op(r) # "add",
         NEW i \in DOMAIN nodes \cup {Len(nodes) + 1}, NEW n \in FolderRow, n.kind = "research",
         i \in DOMAIN nodes => n.seq = nodes[i].seq /\ n.parent = nodes[i].parent /\ nodes[i].kind = "research",
         i \notin DOMAIN nodes => n.seq = 0 /\ IsFolder(n.parent),
         NEW hypotheses \in SUBSET (Nat \X Texts), \E s \in hypotheses : s[1] = i,
         \A s \in strategies : s[1] # i => s \in hypotheses, \A s \in hypotheses : s[1] # i => s \in strategies,
         \A s, t \in hypotheses : s[1] = i /\ t[1] = i => s = t,
         NodeWrite(i, n, hypotheses), OnlyNodes
  PROVE  ListInv' /\ MembersStay
<1> DEFINE now == [n EXCEPT !.seq = n.seq + 1]
           e == FrameOf("node", i, now.seq, LightFolder(now))
<1>1. /\ nodes' = (IF i > Len(nodes) THEN Append(nodes, now) ELSE [nodes EXCEPT ![i] = now])
      /\ strategies' = hypotheses /\ frames' = Append(frames, e)
      /\ UNCHANGED <<catalogue, vendor, watchlists, members, readings>>
  BY DEF NodeWrite, OnlyNodes
<1>2. /\ now \in FolderRow /\ now.seq = n.seq + 1 /\ n.seq \in Nat /\ now.kind = "research" /\ now.parent = n.parent
  BY DEF FolderRow
<1> HIDE DEF now
<1>3. /\ nodes' \in Seq(FolderRow) /\ DOMAIN nodes' = DOMAIN nodes \cup {i} /\ nodes'[i] = now /\ i \in Nat
      /\ \A j \in DOMAIN nodes : j # i => nodes'[j] = nodes[j]
  <2>1. nodes \in Seq(FolderRow)
    BY DEF ListInv, ListTypes
  <2>2. CASE i = Len(nodes) + 1
    BY <1>1, <1>2, <2>1, <2>2
  <2>3. CASE i \in DOMAIN nodes
    <3>1. ~(i > Len(nodes)) /\ i \in Nat
      BY <2>1, <2>3
    <3>2. nodes' = [nodes EXCEPT ![i] = now]
      BY <1>1, <3>1
    <3>3. nodes' \in Seq(FolderRow) /\ DOMAIN nodes' = DOMAIN nodes
      BY <1>2, <2>1, <2>3, <3>2
    <3>4. nodes'[i] = now /\ \A j \in DOMAIN nodes : j # i => nodes'[j] = nodes[j]
      BY <2>1, <2>3, <3>2
    <3> QED BY <2>3, <3>1, <3>3, <3>4
  <2> QED BY <2>2, <2>3
<1>4. e \in FrameRow /\ e.kind = "node" /\ e.id = i /\ e.seq = now.seq /\ e.says = LightFolder(now)
  <2>1. LightFolder(now) \in Saying /\ now.seq \in Nat
    BY <1>2, SaysOfFolder
  <2> QED BY <1>3, <2>1 DEF FrameOf, FrameRow
<1> HIDE DEF e
<1>5. frames' \in Seq(FrameRow) /\ ToldOfLists(frames', watchlists, members) /\ ToldOfReading(frames', readings)
  BY <1>1, <1>4, Appended, OthersTold DEF ListInv, ListTypes
<1>6. ToldOfNodes(frames', nodes')
  <2>1. Tells(frames', "node", i, now.seq, LightFolder(now))
    <3>1. \E before : Tells(frames, "node", i, n.seq, before)
      <4>1. CASE i \in DOMAIN nodes
        BY <4>1 DEF ListInv, ToldOfAll, ToldOfNodes
      <4>2. CASE i \notin DOMAIN nodes
        BY <1>3, <4>2 DEF ListInv, ToldOfAll, ToldOfNodes, Tells
      <4> QED BY <4>1, <4>2
    <3>2. PICK before : Tells(frames, "node", i, n.seq, before)
      BY <3>1
    <3>3. Tells(frames, e.kind, e.id, n.seq, before) /\ e.seq = n.seq + 1
      BY <1>2, <1>4, <3>2
    <3>4. Tells(frames', e.kind, e.id, e.seq, e.says)
      BY <1>1, <1>2, <1>4, <3>3, Appended DEF ListInv, ListTypes
    <3> QED BY <1>4, <3>4
  <2>2. \A j \in DOMAIN nodes : j # i => Tells(frames', "node", j, nodes[j].seq, LightFolder(nodes[j]))
    BY <1>1, <1>4, Appended DEF ListInv, ListTypes, ToldOfAll, ToldOfNodes
  <2>3. \A j \in Nat \ DOMAIN nodes' : FramesIn(frames', "node", j) = {}
    BY <1>1, <1>3, <1>4, Appended DEF ListInv, ListTypes, ToldOfAll, ToldOfNodes
  <2> QED BY <1>3, <2>1, <2>2, <2>3 DEF ToldOfNodes
<1>7. ListTypes' /\ AskedFor' /\ MembersStay
  <2>1. \A j \in DOMAIN nodes : j \in DOMAIN nodes' /\ nodes'[j].kind = nodes[j].kind
    BY <1>2, <1>3
  <2>2. readings' \in [page : Nat, seq : Nat] /\ strategies' \in SUBSET (Nat \X Texts) /\ "ok" \in Verdict
    BY <1>1 DEF ListInv, ListTypes, Verdict
  <2> QED BY <1>1, <1>3, <1>5, <2>1, <2>2, ListsAside
<1>8. Together'
  <2>1. \A s \in strategies' : s[1] \in DOMAIN nodes' /\ nodes'[s[1]].kind = "research"
    BY <1>1, <1>2, <1>3 DEF ListInv, Together
  <2>2. \A j \in DOMAIN nodes' : nodes'[j].kind = "research" => \E s \in strategies' : s[1] = j
    BY <1>1, <1>2, <1>3 DEF ListInv, Together
  <2>3. \A s, t \in strategies' : s[1] = t[1] => s = t
    BY <1>1 DEF ListInv, Together
  <2>4. ASSUME NEW j \in DOMAIN nodes', nodes'[j].parent # 0
        PROVE  nodes'[j].parent \in DOMAIN nodes' /\ nodes'[nodes'[j].parent].kind = "folder"
    <3>1. nodes'[j].parent \in DOMAIN nodes /\ nodes[nodes'[j].parent].kind = "folder"
      <4>1. CASE j = i /\ i \notin DOMAIN nodes
        BY <1>2, <1>3, <2>4, <4>1 DEF IsFolder
      <4>2. CASE j = i /\ i \in DOMAIN nodes
        BY <1>2, <1>3, <2>4, <4>2 DEF ListInv, Together
      <4>3. CASE j # i
        BY <1>3, <2>4, <4>3 DEF ListInv, Together
      <4> QED BY <4>1, <4>2, <4>3
    <3>2. nodes'[j].parent # i
      BY <3>1
    <3> QED BY <1>3, <3>1, <3>2
  <2> QED BY <1>1, <2>1, <2>2, <2>3, <2>4 DEF ListInv, Together, Undeleted
<1> QED BY <1>1, <1>5, <1>6, <1>7, <1>8 DEF ListInv, ToldOfAll

LEMMA ResearchKeeps ==
  ASSUME ListInv, NEW r \in ListAsks, CreateResearchFolder(r) \/ UpdateResearchFolder(r)
  PROVE  ListInv' /\ MembersStay
<1>0. /\ nodes \in Seq(FolderRow) /\ strategies \in SUBSET (Nat \X Texts)
      /\ \A s \in strategies : s[1] \in DOMAIN nodes
      /\ \A s, t \in strategies : s[1] = t[1] => s = t
  BY DEF ListInv, ListTypes, Together, Texts
<1>1. CASE CreateResearchFolder(r)
  <2> DEFINE i == Len(nodes) + 1
             n == [kind |-> "research", title |-> "r", parent |-> want[r].ask.parent, position |-> want[r].place,
                   seq |-> 0, deleted |-> FALSE]
             blank == ""
             hypotheses == strategies \cup {<<i, blank>>}
  <2>1. Op(r) = "research" /\ IsFolder(want[r].ask.parent) /\ Answers(r, "ok") /\ OnlyNodes /\ NodeWrite(i, n, hypotheses)
    BY <1>1 DEF CreateResearchFolder, Stands, ListInv, AskedFor
  <2>2. n \in FolderRow /\ n.kind = "research" /\ n.seq = 0 /\ n.parent = want[r].ask.parent
    <3>1. "r" \in Texts
      BY DEF Texts
    <3> QED BY <3>1, WantIs DEF ListInv, FolderRow
  <2>3. i \notin DOMAIN nodes /\ i \in Nat /\ i \in DOMAIN nodes \cup {Len(nodes) + 1}
    BY <1>0
  <2>5. blank \in Texts
    BY DEF Texts
  <2> HIDE DEF n, i, blank
  <2>4. /\ hypotheses \in SUBSET (Nat \X Texts) /\ \E s \in hypotheses : s[1] = i
        /\ \A s \in strategies : s[1] # i => s \in hypotheses
        /\ \A s \in hypotheses : s[1] # i => s \in strategies
        /\ \A s, t \in hypotheses : s[1] = i /\ t[1] = i => s = t
    <3>1. \A s \in strategies : s[1] # i
      BY <1>0, <2>3
    <3>2. hypotheses \in SUBSET (Nat \X Texts)
      BY <1>0, <2>3, <2>5
    <3> DEFINE one == <<i, blank>>
    <3>3. hypotheses = strategies \cup {one} /\ one[1] = i
      OBVIOUS
    <3> HIDE DEF one, hypotheses
    <3> QED BY <3>1, <3>2, <3>3
  <2> HIDE DEF hypotheses
  <2> QED BY <2>1, <2>2, <2>3, <2>4, NodeWriteKeeps
<1>2. CASE UpdateResearchFolder(r)
  <2> DEFINE i == want[r].ask.parent
             title == want[r].ask.name # ""
             n == [nodes[i] EXCEPT !.title = IF title THEN want[r].ask.name ELSE @]
             thesis == "thesis"
             hypotheses == IF title THEN strategies ELSE {s \in strategies : s[1] # i} \cup {<<i, thesis>>}
  <2>1. Op(r) = "revise" /\ OnlyNodes
    BY <1>2 DEF UpdateResearchFolder
  <2>2. CASE i \in Undeleted(nodes) /\ nodes[i].kind = "research"
    <3>1. NodeWrite(i, n, hypotheses) /\ Answers(r, "ok")
      BY <1>2, <2>2 DEF UpdateResearchFolder
    <3>2. i \in DOMAIN nodes /\ nodes[i] \in FolderRow /\ i \in Nat
      BY <2>2, FolderIs DEF ListInv, Undeleted
    <3>3. n \in FolderRow /\ n.kind = "research" /\ n.seq = nodes[i].seq /\ n.parent = nodes[i].parent
      <4>1. want[r].ask.name \in Texts
        BY WantIs DEF Texts, ListInv
      <4>2. CASE title
        BY <2>2, <3>2, <4>1, <4>2 DEF FolderRow
      <4>3. CASE ~title
        BY <2>2, <3>2, <4>3 DEF FolderRow
      <4> QED BY <4>2, <4>3
    <3>4. /\ hypotheses \in SUBSET (Nat \X Texts) /\ \E s \in hypotheses : s[1] = i
          /\ \A s \in strategies : s[1] # i => s \in hypotheses
          /\ \A s \in hypotheses : s[1] # i => s \in strategies
          /\ \A s, t \in hypotheses : s[1] = i /\ t[1] = i => s = t
      <4>1. CASE title
        <5>1. \E s \in strategies : s[1] = i
          BY <2>2, <3>2 DEF ListInv, Together
        <5>2. hypotheses = strategies
          BY <4>1
        <5> HIDE DEF hypotheses, title
        <5> QED BY <1>0, <5>1, <5>2
      <4>2. CASE ~title
        <5> DEFINE rest == {s \in strategies : s[1] # i}
        <5>1. hypotheses = rest \cup {<<i, thesis>>} /\ thesis \in Texts
          BY <4>2 DEF Texts
        <5> HIDE DEF hypotheses, title, thesis
        <5>2. hypotheses \in SUBSET (Nat \X Texts)
          BY <1>0, <3>2, <5>1
        <5> DEFINE one == <<i, thesis>>
        <5>3. hypotheses = rest \cup {one} /\ one[1] = i
          BY <5>1
        <5> HIDE DEF one
        <5> QED BY <5>2, <5>3
      <4> QED BY <4>1, <4>2
    <3> HIDE DEF hypotheses, n, title
    <3> QED BY <2>1, <2>2, <3>1, <3>2, <3>3, <3>4, NodeWriteKeeps
  <2>3. CASE ~(i \in Undeleted(nodes) /\ nodes[i].kind = "research")
    <3>1. UNCHANGED <<nodes, strategies, frames>> /\ Answers(r, "not found") /\ UNCHANGED <<catalogue, vendor, watchlists, members, readings>>
      BY <1>2, <2>1, <2>3 DEF UpdateResearchFolder, OnlyNodes
    <3>2. ListTypes' /\ AskedFor' /\ MembersStay
      <4>1. "not found" \in Verdict
        BY DEF Verdict
      <4>2. /\ readings \in [page : Nat, seq : Nat] /\ frames \in Seq(FrameRow)
        BY DEF ListInv, ListTypes
      <4>3. Op(r) # "add"
        BY <2>1
      <4> QED BY <1>0, <3>1, <4>1, <4>2, <4>3, ListsAside
    <3>3. Together' /\ ToldOfAll'
      BY <3>1 DEF ListInv, Together, ToldOfAll, Undeleted
    <3> QED BY <3>2, <3>3 DEF ListInv
  <2> QED BY <2>2, <2>3
<1> QED BY <1>1, <1>2

\* The folder and what is in it go, in one transaction with a frame for each.
LEMMA DeleteFolderKeeps ==
  ASSUME ListInv, NEW r \in ListAsks, DeleteFolder(r)
  PROVE  ListInv' /\ MembersStay
<1> DEFINE gone == {i \in Undeleted(nodes) : i = 1 \/ nodes[i].parent = 1}
           delete == [op |-> "delete"]
           Frame(i) == FrameOf("node", i, nodes[i].seq + 1, delete)
           Gone(i) == [nodes[i] EXCEPT !.deleted = TRUE, !.seq = nodes[i].seq + 1]
<1>1. /\ Op(r) = "uproot" /\ Answers(r, "ok") /\ UNCHANGED <<strategies, catalogue, vendor, watchlists, members, readings>>
      /\ nodes' = [i \in DOMAIN nodes |-> IF i \in gone THEN Gone(i) ELSE nodes[i]]
  BY DEF DeleteFolder, OnlyNodes
<1>2. PICK list \in [1 .. Cardinality(gone) -> gone] :
        /\ Range(list) = gone /\ \A j, k \in DOMAIN list : j < k => list[j] < list[k]
        /\ frames' = frames \o [k \in DOMAIN list |-> Frame(list[k])]
  BY DEF DeleteFolder
<1> DEFINE gs == [k \in DOMAIN list |-> Frame(list[k])]
<1>3. gone \subseteq DOMAIN nodes /\ nodes \in Seq(FolderRow) /\ frames \in Seq(FrameRow)
  BY DEF Undeleted, ListInv, ListTypes
<1>4. Cardinality(gone) \in Nat
  BY <1>3, FiniteRows
<1>5. \A i \in DOMAIN nodes : nodes[i] \in FolderRow /\ i \in Nat /\ nodes[i].seq \in Nat
  BY FolderIs DEF ListInv
<1> HIDE DEF gone
<1>6. delete \in Saying
  BY DEF Saying
<1>7. \A i \in gone : /\ Frame(i) \in FrameRow /\ Frame(i).kind = "node" /\ Frame(i).id = i
                      /\ Frame(i).seq = nodes[i].seq + 1 /\ Frame(i).says = delete
  <2> HIDE DEF delete
  <2> QED BY <1>3, <1>5, <1>6 DEF FrameOf, FrameRow
<1>8. \A i \in gone : /\ Gone(i) \in FolderRow /\ Gone(i).seq = nodes[i].seq + 1 /\ Gone(i).kind = nodes[i].kind
                      /\ Gone(i).parent = nodes[i].parent /\ Gone(i).deleted
  <2> SUFFICES ASSUME NEW i \in gone
               PROVE  /\ Gone(i) \in FolderRow /\ Gone(i).seq = nodes[i].seq + 1 /\ Gone(i).kind = nodes[i].kind
                      /\ Gone(i).parent = nodes[i].parent /\ Gone(i).deleted
    BY Zenon
  <2> DEFINE n == nodes[i]
             seq == n.seq + 1
  <2>1. n \in FolderRow /\ seq \in Nat
    BY <1>3, <1>5
  <2>2. Gone(i) = [n EXCEPT !.deleted = TRUE, !.seq = seq]
    OBVIOUS
  <2> HIDE DEF Gone
  <2>3. seq = nodes[i].seq + 1 /\ n = nodes[i]
    OBVIOUS
  <2> HIDE DEF n, seq
  <2>4. Gone(i) \in FolderRow /\ Gone(i).seq = seq /\ Gone(i).kind = n.kind /\ Gone(i).parent = n.parent
    BY <2>1, <2>2 DEF FolderRow
  <2>5. Gone(i).deleted = TRUE
    BY <2>1, <2>2, Zenon DEF FolderRow
  <2> QED BY <2>3, <2>4, <2>5
<1>9. \A i \in gone : LightFolder(Gone(i)) = delete
  <2> SUFFICES ASSUME NEW i \in gone PROVE LightFolder(Gone(i)) = delete
    OBVIOUS
  <2>1. Gone(i).deleted
    BY <1>8
  <2> HIDE DEF Gone
  <2> QED BY <2>1 DEF LightFolder
<1> HIDE DEF Frame, Gone, delete
<1>10. DOMAIN list = 1 .. Cardinality(gone) /\ \A k \in DOMAIN list : list[k] \in gone
  BY <1>2
<1>11. gs \in Seq(FrameRow) /\ DOMAIN gs = DOMAIN list /\ \A k \in DOMAIN list : gs[k] = Frame(list[k])
  <2>1. \A k \in DOMAIN list : Frame(list[k]) \in FrameRow
    BY <1>7, <1>10
  <2>2. gs \in [1 .. Cardinality(gone) -> FrameRow]
    BY <1>10, <2>1
  <2> HIDE DEF gs
  <2>3. gs \in Seq(FrameRow)
    BY <1>4, <2>2
  <2> QED BY <1>10, <2>3 DEF gs
<1>12. frames' = frames \o gs
  BY <1>2
<1> HIDE DEF gs
<1>13. frames' \in Seq(FrameRow)
  BY <1>3, <1>11, <1>12, ConcatIs
<1>14. \A kind, i : (kind # "node" \/ i \notin gone) => FramesIn(gs, kind, i) = {}
  BY <1>7, <1>10, <1>11 DEF FramesIn
<1>15. ASSUME NEW i \in gone PROVE \E k \in DOMAIN gs : FramesIn(gs, "node", i) = {k} /\ gs[k] = Frame(i)
  <2>1. PICK k \in DOMAIN list : list[k] = i
    BY <1>2 DEF Range
  <2>2. \A j \in DOMAIN list : list[j] = i => j = k
    <3> SUFFICES ASSUME NEW j \in DOMAIN list, list[j] = i, j # k PROVE FALSE
      OBVIOUS
    <3>1. j \in Nat /\ k \in Nat /\ i \in Nat
      BY <1>3, <1>4, <1>5, <1>10
    <3>2. j < k \/ k < j
      BY <3>1
    <3>3. list[j] < list[k] \/ list[k] < list[j]
      BY <1>2, <3>2
    <3> QED BY <2>1, <3>1, <3>3
  <2>3. \A j \in DOMAIN list : gs[j].id = list[j] /\ gs[j].kind = "node"
    BY <1>7, <1>10, <1>11
  <2> QED BY <1>11, <2>1, <2>2, <2>3 DEF FramesIn
<1>16. /\ nodes' \in Seq(FolderRow) /\ DOMAIN nodes' = DOMAIN nodes
       /\ \A i \in gone : nodes'[i] = Gone(i)
       /\ \A i \in DOMAIN nodes \ gone : nodes'[i] = nodes[i]
  <2>1. \A i \in DOMAIN nodes : (IF i \in gone THEN Gone(i) ELSE nodes[i]) \in FolderRow
    BY <1>5, <1>8
  <2>2. nodes' \in [DOMAIN nodes -> FolderRow]
    BY <1>1, <2>1
  <2>3. DOMAIN nodes = 1 .. Len(nodes) /\ Len(nodes) \in Nat
    BY <1>3
  <2>4. nodes' \in Seq(FolderRow)
    BY <2>2, <2>3
  <2> QED BY <1>1, <1>3, <2>4
<1>17. \A i \in DOMAIN nodes : nodes'[i].kind = nodes[i].kind /\ nodes'[i].parent = nodes[i].parent
  BY <1>8, <1>16
<1>18. ToldOfLists(frames', watchlists, members) /\ ToldOfReading(frames', readings)
  <2>1. \A i : FramesIn(gs, "watchlist", i) = {} /\ FramesIn(gs, "reading_position", i) = {}
    BY <1>14
  <2>2. \A i : /\ FramesIn(frames', "watchlist", i) = FramesIn(frames, "watchlist", i)
               /\ \A seq, says : Tells(frames, "watchlist", i, seq, says) => Tells(frames', "watchlist", i, seq, says)
    BY <1>3, <1>11, <1>12, <2>1, SaidNothing
  <2>3. \A seq, says : Tells(frames, "reading_position", 1, seq, says) => Tells(frames', "reading_position", 1, seq, says)
    BY <1>3, <1>11, <1>12, <2>1, SaidNothing
  <2> QED BY <2>2, <2>3 DEF ListInv, ToldOfAll, ToldOfLists, ToldOfReading
<1>19. ToldOfNodes(frames', nodes')
  <2>1. ASSUME NEW i \in gone PROVE Tells(frames', "node", i, nodes'[i].seq, LightFolder(nodes'[i]))
    <3>1. PICK k \in DOMAIN gs : FramesIn(gs, "node", i) = {k} /\ gs[k] = Frame(i)
      BY <1>15, <2>1
    <3>2. i \in DOMAIN nodes /\ nodes[i].seq \in Nat /\ gs[k].seq = nodes[i].seq + 1 /\ gs[k].says = delete
      BY <1>3, <1>5, <1>7, <2>1, <3>1
    <3>3. Tells(frames, "node", i, nodes[i].seq, LightFolder(nodes[i]))
      BY <3>2 DEF ListInv, ToldOfAll, ToldOfNodes
    <3>4. Tells(frames \o gs, "node", i, gs[k].seq, gs[k].says)
      BY <1>3, <1>11, <3>1, <3>2, <3>3, SaidOnce
    <3>5. nodes'[i].seq = gs[k].seq /\ LightFolder(nodes'[i]) = gs[k].says
      BY <1>8, <1>9, <1>16, <2>1, <3>2
    <3> QED BY <1>12, <3>4, <3>5
  <2>2. \A i \in DOMAIN nodes \ gone : Tells(frames', "node", i, nodes'[i].seq, LightFolder(nodes'[i]))
    <3> SUFFICES ASSUME NEW i \in DOMAIN nodes \ gone PROVE Tells(frames', "node", i, nodes'[i].seq, LightFolder(nodes'[i]))
      OBVIOUS
    <3>1. FramesIn(gs, "node", i) = {} /\ nodes'[i] = nodes[i]
      BY <1>14, <1>16
    <3>2. Tells(frames, "node", i, nodes[i].seq, LightFolder(nodes[i]))
      BY DEF ListInv, ToldOfAll, ToldOfNodes
    <3> QED BY <1>3, <1>11, <1>12, <3>1, <3>2, SaidNothing
  <2>3. \A i \in Nat \ DOMAIN nodes : FramesIn(frames', "node", i) = {}
    <3> SUFFICES ASSUME NEW i \in Nat \ DOMAIN nodes PROVE FramesIn(frames', "node", i) = {}
      OBVIOUS
    <3>1. FramesIn(gs, "node", i) = {} /\ FramesIn(frames, "node", i) = {}
      BY <1>3, <1>14 DEF ListInv, ToldOfAll, ToldOfNodes
    <3> QED BY <1>3, <1>11, <1>12, <3>1, SaidNothing
  <2> QED BY <1>16, <2>1, <2>2, <2>3 DEF ToldOfNodes
<1>20. ListTypes' /\ AskedFor' /\ MembersStay
  <2>1. readings' \in [page : Nat, seq : Nat] /\ strategies' \in SUBSET (Nat \X Texts) /\ "ok" \in Verdict
    BY <1>1 DEF ListInv, ListTypes, Verdict
  <2>2. \A i \in DOMAIN nodes : i \in DOMAIN nodes' /\ nodes'[i].kind = nodes[i].kind
    BY <1>16, <1>17
  <2>3. Op(r) # "add" /\ UNCHANGED <<catalogue, vendor, watchlists, members>>
    BY <1>1
  <2> QED BY <1>1, <1>13, <1>16, <2>1, <2>2, <2>3, ListsAside
<1>21. Together'
  <2>1. \A s \in strategies' : s[1] \in DOMAIN nodes' /\ nodes'[s[1]].kind = "research"
    BY <1>1, <1>16, <1>17 DEF ListInv, Together
  <2>2. \A i \in DOMAIN nodes' : nodes'[i].kind = "research" => \E s \in strategies' : s[1] = i
    BY <1>1, <1>16, <1>17 DEF ListInv, Together
  <2>3. \A i \in DOMAIN nodes' : nodes'[i].parent # 0 => nodes'[i].parent \in DOMAIN nodes' /\ nodes'[nodes'[i].parent].kind = "folder"
    BY <1>16, <1>17 DEF ListInv, Together
  <2> QED BY <1>1, <2>1, <2>2, <2>3 DEF ListInv, Together, Undeleted
<1> QED BY <1>1, <1>18, <1>19, <1>20, <1>21 DEF ListInv, ToldOfAll

LEMMA ListStepKeeps == ListInv /\ [ListNext]_listVars => ListInv' /\ (UNCHANGED listVars \/ MembersStay)
<1>1. ASSUME ListInv, UNCHANGED listVars PROVE ListInv'
  BY <1>1 DEF ListInv, listVars, ListTypes, Together, AskedFor, ToldOfAll, Undeleted, BySymbol, Op, IsFolder
<1>2. ASSUME ListInv, NEW r \in ListAsks, ListStep(r) PROVE ListInv' /\ MembersStay
  BY <1>2, InstrumentKeeps, CatalogueKeeps, FindListKeeps, MadeKeeps, ItemsKeep, ListRowKeeps, ReadListKeeps, TurnKeeps,
     PlaceKeeps, ResearchKeeps, DeleteFolderKeeps DEF ListStep
<1> QED BY <1>1, <1>2 DEF ListNext

LEMMA ListInitInv == ListInit => ListInv
<1> SUFFICES ASSUME ListInit PROVE ListInv
  OBVIOUS
<1> DEFINE folder == [kind |-> "folder", title |-> "f", parent |-> 0, position |-> 1, seq |-> 0, deleted |-> FALSE]
<1>1. PICK s \in ListScenes :
        /\ catalogue = s.known /\ vendor = s.vendor /\ watchlists = <<>> /\ members = {}
        /\ readings = [page |-> 0, seq |-> 0] /\ nodes = <<folder>> /\ strategies = {} /\ frames = <<>>
        /\ want = [r \in ListAsks |-> NewWant(s.asks[r])]
  BY DEF ListInit
<1>2. /\ s.asks \in [ListAsks -> ListAsk] /\ s.vendor \in [Tickers -> {"active", "halted", "unknown"}]
      /\ s.known \in Seq(CatalogueRow)
      /\ \A i, j \in DOMAIN s.known : s.known[i].symbol = s.known[j].symbol => i = j
      /\ \A r \in ListAsks : s.asks[r].op = "add" /\ s.asks[r].symbol = NoTicker => s.asks[r].instrument \in DOMAIN s.known
  BY ListAssumption DEF CatalogueRow
<1>3. folder \in FolderRow /\ folder.kind = "folder" /\ folder.parent = 0 /\ folder.seq = 0
  <2>1. "f" \in Texts
    BY DEF Texts
  <2> QED BY <2>1 DEF FolderRow
<1> HIDE DEF folder
<1>4. nodes \in Seq(FolderRow) /\ DOMAIN nodes = {1} /\ nodes[1] = folder
  BY <1>1, <1>3
<1>5. \A r \in ListAsks : want[r] \in WantRow /\ want[r].ask = s.asks[r] /\ want[r].stage = "idle"
  <2>1. "none" \in Verdict /\ "idle" \in Stages
    BY DEF Verdict, Stages
  <2> QED BY <1>1, <1>2, <2>1 DEF NewWant, WantRow
<1>6. ListTypes
  <2>1. want \in [ListAsks -> WantRow]
    BY <1>1, <1>5
  <2>2. frames \in Seq(FrameRow) /\ watchlists \in Seq(WatchRow)
    BY <1>1
  <2>3. readings \in [page : Nat, seq : Nat]
    BY <1>1
  <2> QED BY <1>1, <1>2, <1>4, <2>1, <2>2, <2>3 DEF ListTypes
<1>7. Together
  BY <1>1, <1>2, <1>3, <1>4 DEF Together
<1>8. AskedFor
  BY <1>1, <1>2, <1>5 DEF AskedFor, BySymbol, Op
<1>9. \A kind, i : FramesIn(frames, kind, i) = {}
  BY <1>1 DEF FramesIn
<1>10. ToldOfAll
  <2>1. ToldOfLists(frames, watchlists, members)
    BY <1>1, <1>9 DEF ToldOfLists
  <2>2. ToldOfNodes(frames, nodes)
    BY <1>3, <1>4, <1>9 DEF ToldOfNodes, Tells
  <2>3. ToldOfReading(frames, readings)
    BY <1>1, <1>9 DEF ToldOfReading, Tells
  <2> QED BY <2>1, <2>2, <2>3 DEF ToldOfAll
<1> QED BY <1>6, <1>7, <1>8, <1>10 DEF ListInv

\* What the invariant says, in the words of the property.
LEMMA FramesFollow == ListInv => FramesRebuildTheRows
<1> SUFFICES ASSUME ListInv PROVE FramesRebuildTheRows
  OBVIOUS
<1>1. \A kind, i : FramesOf(kind, i) = FramesIn(frames, kind, i)
  BY DEF FramesOf, FramesIn
<1>2. \A kind, i, seq, says : Tells(frames, kind, i, seq, says) <=> Rebuilt(kind, i, seq, says)
  BY <1>1 DEF Tells, Rebuilt
<1> QED BY <1>2 DEF ListInv, ToldOfAll, ToldOfLists, ToldOfNodes, ToldOfReading, FramesRebuildTheRows

LEMMA TogetherFollows == ListInv => RowsBelongTogether
<1> SUFFICES ASSUME ListInv PROVE RowsBelongTogether
  OBVIOUS
<1> DEFINE firsts == {s[1] : s \in strategies}
           f == [s \in strategies |-> s[1]]
<1>1. nodes \in Seq(FolderRow) /\ firsts \subseteq DOMAIN nodes /\ firsts = {i \in DOMAIN nodes : nodes[i].kind = "research"}
  BY DEF ListInv, ListTypes, Together
<1>2. IsFiniteSet(firsts)
  BY <1>1, FiniteRows
<1>3. f \in Injection(strategies, firsts) /\ f \in Surjection(strategies, firsts)
  <2>1. \A s, t \in strategies : f[s] = f[t] => s = t
    BY DEF ListInv, Together
  <2>2. f \in [strategies -> firsts] /\ \A x \in firsts : \E s \in strategies : f[s] = x
    OBVIOUS
  <2> HIDE DEF f, firsts
  <2> QED BY <2>1, <2>2 DEF Injection, Surjection, IsInjective
<1>4. Cardinality(strategies) = Cardinality(firsts)
  <2> HIDE DEF f, firsts
  <2> QED BY <1>2, <1>3, FS_Injection
<1>5. \A t \in Tickers : Cardinality(Traded(t)) <= 1
  <2> SUFFICES ASSUME NEW t \in Tickers PROVE Cardinality(Traded(t)) <= 1
    OBVIOUS
  <2>1. CASE Traded(t) = {}
    BY <2>1, FS_EmptySet
  <2>2. CASE Traded(t) # {}
    <3>1. PICK i \in Traded(t) : TRUE
      BY <2>2
    <3>2. Traded(t) = {i}
      BY <3>1 DEF Traded, ListInv, Together
    <3> QED BY <3>2, FS_Singleton
  <2> QED BY <2>1, <2>2
<1>6. \A m \in members : Exists(m[1])
  BY DEF Exists, ListInv, Together
<1>7. \A i \in DOMAIN nodes : nodes[i].parent # 0 => nodes[nodes[i].parent].kind = "folder"
  BY DEF ListInv, Together
<1> QED BY <1>1, <1>4, <1>5, <1>6, <1>7 DEF RowsBelongTogether

\* A list has been told of as often as its seq says, at most as often as there are frames.
Counted == \A i \in DOMAIN watchlists : watchlists[i].seq \in 1 .. Len(frames)

LEMMA EmitCounts ==
  ASSUME ListTypes, ToldOfAll, Counted, NEW i \in DOMAIN watchlists, NEW w \in WatchRow, w.seq = watchlists[i].seq,
         NEW items, EmitUpsert(i, w, items)
  PROVE  Counted'
<1> DEFINE now == [w EXCEPT !.seq = w.seq + 1]
           e == FrameOf("watchlist", i, now.seq, LightWatchlist(now, i, items))
<1>1. watchlists' = [watchlists EXCEPT ![i] = now] /\ frames' = Append(frames, e)
  BY DEF EmitUpsert
<1>2. now.seq = w.seq + 1
  BY DEF WatchRow
<1> HIDE DEF now, e
<1>3. Len(frames') = Len(frames) + 1 /\ Len(frames) \in Nat
  BY <1>1 DEF ListTypes
<1>4. watchlists[i].seq \in 1 .. Len(frames)
  BY DEF Counted
<1>5. watchlists'[i].seq \in 1 .. Len(frames')
  BY <1>1, <1>2, <1>3, <1>4 DEF ListTypes
<1>6. \A j \in DOMAIN watchlists : j # i => watchlists'[j].seq \in 1 .. Len(frames')
  BY <1>1, <1>3 DEF ListTypes, Counted
<1>7. DOMAIN watchlists' = DOMAIN watchlists
  BY <1>1 DEF ListTypes
<1> QED BY <1>5, <1>6, <1>7 DEF Counted

LEMMA OthersCount ==
  ASSUME Counted, UNCHANGED watchlists, Len(frames) \in Nat, Len(frames') \in Nat, Len(frames) <= Len(frames')
  PROVE  Counted'
BY DEF Counted

LEMMA CountKeeps == ASSUME ListInv, Counted, NEW r \in ListAsks, ListStep(r) PROVE Counted'
<1>1. Len(frames) \in Nat /\ \A e : Len(Append(frames, e)) = Len(frames) + 1
  BY DEF ListInv, ListTypes
<1>2. ASSUME UNCHANGED <<watchlists, frames>> PROVE Counted'
  BY <1>2 DEF Counted
<1>3. ASSUME NEW e, frames' = Append(frames, e), UNCHANGED watchlists PROVE Counted'
  BY <1>1, <1>3, OthersCount
<1>4. CASE \/ ResolveInstrumentID(r) \/ FetchInstrument(r) \/ UpsertInstruments(r) \/ LookupAgain(r) \/ ResolveListID(r)
           \/ CountLists(r) \/ ListItems(r) \/ ResolveInstruments(r) \/ ParentIsFolder(r) \/ NextResearchPosition(r)
  <2>1. OnlyAsks \/ UNCHANGED <<watchlists, frames>>
    BY <1>4 DEF ResolveInstrumentID, Lookup, FetchInstrument, UpsertInstruments, LookupAgain, ResolveListID, CountLists,
                ListItems, ResolveInstruments, ParentIsFolder, NextResearchPosition
  <2> QED BY <1>2, <2>1 DEF OnlyAsks
<1>5. CASE CreateWatchlist(r)
  <2>1. \E w, e : watchlists' = Append(watchlists, w) /\ w.seq = 1 /\ frames' = Append(frames, e)
    <3> DEFINE w == [name |-> IF want[r].ask.name = "" THEN "Watchlist" ELSE want[r].ask.name,
                     position |-> want[r].place, seq |-> 1, deleted |-> FALSE]
    <3>1. watchlists' = Append(watchlists, w) /\ \E e : frames' = Append(frames, e)
      BY <1>5 DEF CreateWatchlist
    <3>2. w.seq = 1
      OBVIOUS
    <3> HIDE DEF w
    <3> QED BY <3>1, <3>2
  <2>2. PICK w, e : watchlists' = Append(watchlists, w) /\ w.seq = 1 /\ frames' = Append(frames, e)
    BY <2>1
  <2>3. watchlists \in Seq(WatchRow)
    BY DEF ListInv, ListTypes
  <2>4. /\ DOMAIN watchlists' = DOMAIN watchlists \cup {Len(watchlists) + 1} /\ watchlists'[Len(watchlists) + 1] = w
        /\ \A i \in DOMAIN watchlists : watchlists'[i] = watchlists[i]
    BY <2>2, <2>3
  <2>5. Len(frames') = Len(frames) + 1
    BY <1>1, <2>2
  <2> QED BY <1>1, <2>2, <2>4, <2>5 DEF Counted
<1>6. CASE AddItem(r) \/ RemoveItem(r) \/ RenameWatchlist(r) \/ DeleteWatchlist(r)
  <2> DEFINE i == want[r].list
  <2>1. \A m \in members : m[1] \in DOMAIN watchlists
    BY DEF ListInv, Together, Undeleted
  <2>2. \/ Nothing
        \/ i \in DOMAIN watchlists /\ \E w, items : EmitUpsert(i, w, items)
             /\ w \in {watchlists[i], [watchlists[i] EXCEPT !.name = want[r].ask.name], [watchlists[i] EXCEPT !.deleted = TRUE]}
    <3>1. CASE AddItem(r)
      BY <3>1 DEF AddItem, Exists, Undeleted
    <3>2. CASE RemoveItem(r)
      BY <2>1, <3>2 DEF RemoveItem
    <3>3. CASE RenameWatchlist(r)
      BY <3>3 DEF RenameWatchlist, Exists, Undeleted
    <3>4. CASE DeleteWatchlist(r)
      BY <3>4 DEF DeleteWatchlist, Exists, Undeleted
    <3> QED BY <1>6, <3>1, <3>2, <3>3, <3>4
  <2>3. CASE Nothing
    BY <1>2, <2>3 DEF Nothing
  <2>4. ASSUME i \in DOMAIN watchlists, NEW w, NEW items, EmitUpsert(i, w, items),
               w \in {watchlists[i], [watchlists[i] EXCEPT !.name = want[r].ask.name], [watchlists[i] EXCEPT !.deleted = TRUE]}
        PROVE  Counted'
    <3>1. watchlists[i] \in WatchRow
      BY <2>4, ListRow DEF ListInv
    <3>2. want[r].ask.name \in Texts
      BY WantIs DEF Texts, ListInv
    <3>3. w \in WatchRow /\ w.seq = watchlists[i].seq
      BY <2>4, <3>1, <3>2 DEF WatchRow
    <3> QED BY <2>4, <3>3, EmitCounts DEF ListInv
  <2> QED BY <2>2, <2>3, <2>4
<1>7. CASE PutReadingPosition(r) \/ CreateResearchFolder(r) \/ UpdateResearchFolder(r)
  <2>1. UNCHANGED watchlists /\ (UNCHANGED frames \/ \E e : frames' = Append(frames, e))
    BY <1>7 DEF PutReadingPosition, CreateResearchFolder, UpdateResearchFolder, NodeWrite, OnlyNodes
  <2> QED BY <1>2, <1>3, <2>1
<1>8. CASE DeleteFolder(r)
  <2> DEFINE gone == {i \in Undeleted(nodes) : i = 1 \/ nodes[i].parent = 1}
             n == Cardinality(gone)
  <2>1. UNCHANGED watchlists /\ \E list \in [1 .. n -> gone] :
          frames' = frames \o [k \in DOMAIN list |-> FrameOf("node", list[k], nodes[list[k]].seq + 1, [op |-> "delete"])]
    BY <1>8 DEF DeleteFolder, OnlyNodes
  <2>2. n \in Nat
    BY FiniteRows DEF ListInv, ListTypes, Undeleted
  <2> HIDE DEF n
  <2>3. PICK gs : frames' = frames \o gs /\ Len(gs) = n /\ \E S : gs \in Seq(S)
    <3>1. PICK list \in [1 .. n -> gone] :
            frames' = frames \o [k \in DOMAIN list |-> FrameOf("node", list[k], nodes[list[k]].seq + 1, [op |-> "delete"])]
      BY <2>1
    <3> DEFINE gs == [k \in DOMAIN list |-> FrameOf("node", list[k], nodes[list[k]].seq + 1, [op |-> "delete"])]
    <3>2. gs \in [1 .. n -> {gs[k] : k \in 1 .. n}]
      OBVIOUS
    <3> HIDE DEF gs
    <3>3. gs \in Seq({gs[k] : k \in 1 .. n}) /\ Len(gs) = n
      BY SMTT(30), <2>2, <3>2
    <3> QED BY <3>1, <3>3 DEF gs
  <2>4. Len(frames') = Len(frames) + n
    <3>1. PICK S : gs \in Seq(S)
      BY <2>3
    <3>2. frames \in Seq(FrameRow \cup S) /\ gs \in Seq(FrameRow \cup S)
      BY <3>1 DEF ListInv, ListTypes
    <3> QED BY <2>3, <3>2
  <2> QED BY <1>1, <2>1, <2>2, <2>4, OthersCount
<1> QED BY <1>4, <1>5, <1>6, <1>7, <1>8 DEF ListStep

LEMMA CountStep == ListInv /\ Counted /\ [ListNext]_listVars => Counted'
<1>1. Counted /\ UNCHANGED listVars => Counted'
  BY DEF Counted, listVars
<1> QED BY <1>1, CountKeeps DEF ListNext

\* Members, instruments and lists are what they are said to be, and every version of a list
\* has had its frame.
THEOREM ListTypeCorrect == ListSpec => []ListTypeOK
<1>1. ListInv /\ Counted => ListTypeOK
  <2> SUFFICES ASSUME ListInv, Counted PROVE ListTypeOK
    OBVIOUS
  <2>1. \A m \in members : m[1] \in DOMAIN watchlists /\ m[2] \in DOMAIN catalogue
    BY DEF ListInv, Together, Undeleted
  <2>2. \A i \in DOMAIN catalogue : catalogue[i].symbol \in Tickers /\ catalogue[i].active \in BOOLEAN
    <3>1. \A i \in DOMAIN catalogue : catalogue[i] \in CatalogueRow
      BY DEF ListInv, ListTypes
    <3> QED BY <3>1 DEF CatalogueRow
  <2>3. \A i \in DOMAIN watchlists : watchlists[i].position \in Nat /\ watchlists[i].seq \in 1 .. Len(frames)
    <3>1. \A i \in DOMAIN watchlists : watchlists[i] \in WatchRow
      BY DEF ListInv, ListTypes
    <3> QED BY <3>1 DEF WatchRow, Counted
  <2>4. \A r \in ListAsks : want[r].answer \in Verdict
    <3>1. \A r \in ListAsks : want[r] \in WantRow
      BY DEF ListInv, ListTypes
    <3> QED BY <3>1 DEF WantRow
  <2> QED BY <2>1, <2>2, <2>3, <2>4, Zenon DEF ListTypeOK, Verdict
<1>2. ListInit => Counted
  BY DEF ListInit, Counted
<1> QED BY <1>1, <1>2, ListInitInv, ListStepKeeps, CountStep, PTL DEF ListSpec

\* However requests interleave between what they read and what they write, the frames rebuild
\* the rows, with the members of the lists; the rows that belong together do; and a member
\* leaves only when somebody asks for that.
THEOREM ListsAreToldOf == ListSpec => ListsHold
<1>1. ListInv /\ [ListNext]_listVars => [FramesRebuildTheRows' /\ RowsBelongTogether' /\ MembersStay]_listVars
  <2> SUFFICES ASSUME ListInv, [ListNext]_listVars
               PROVE  [FramesRebuildTheRows' /\ RowsBelongTogether' /\ MembersStay]_listVars
    OBVIOUS
  <2>1. ListInv' /\ (UNCHANGED listVars \/ MembersStay)
    BY ListStepKeeps
  <2>2. FramesRebuildTheRows' /\ RowsBelongTogether'
    BY <2>1, FramesFollow, TogetherFollows, PTL
  <2> QED BY <2>1, <2>2
<1> QED BY <1>1, ListInitInv, ListStepKeeps, PTL DEF ListSpec, ListsHold

----------------------------------------------------------------------------
(* Ingestion.  A file is in one worker's hands from its claim to its end; what was saved of
   it is what the layout pass found, and is not touched again. *)

Statuses == {"none", "ingesting"} \cup Terminal
Unresolvable == [NoDocument EXCEPT !.status = "failed"]

InHand ==
  /\ \A v, w \in Sweepers : v # w => sweeper[v] \cap sweeper[w] = {}
  /\ \A w \in Sweepers : \A f \in sweeper[w] : documents[f].status = "ingesting"

\* A document is finished as it was extracted, or could not even be found.
Saved ==
  \A f \in Uploads : documents[f].status \in Terminal =>
    documents[f] = Extract(library.files[f]) \/ (library.files[f].status = "unresolvable" /\ documents[f] = Unresolvable)

IngestInv ==
  /\ IngestTypeOK /\ DOMAIN documents = Uploads
  /\ InHand /\ Saved

\* A file that could not be found is never at work.
Extractable(f) == library.files[f].status # "unresolvable"
ClaimsResolve ==
  \A f \in Uploads : documents[f].status = "ingesting" => Extractable(f)

LEMMA ExtractEnds ==
  ASSUME IngestTypeOK, NEW f \in Uploads, Extractable(f)
  PROVE  Extract(library.files[f]).status \in Terminal
<1> DEFINE l == library.files[f]
<1>1. l.status \in {"ready", "unsupported", "failed"}
  BY IngestionAssumption DEF IngestTypeOK, Uploads, Extractable
<1>2. CASE l.status = "failed"
  BY <1>2 DEF Extract, NoDocument, Terminal
<1>3. CASE l.status # "failed"
  <2>1. Extract(l).status = l.status
    BY <1>3 DEF Extract
  <2> QED BY <1>1, <2>1 DEF Terminal
<1> QED BY <1>2, <1>3

LEMMA ClaimedAre ==
  ASSUME NEW w \in Sweepers, ClaimPending(w)
  PROVE  \E claimed \in SUBSET Uploads :
           /\ \A f \in claimed : documents[f].status = "none"
           /\ documents' = [f \in Uploads |->
                IF f \in claimed THEN [NoDocument EXCEPT !.status = IF Extractable(f) THEN "ingesting" ELSE "failed"] ELSE documents[f]]
           /\ sweeper' = [sweeper EXCEPT ![w] = {f \in claimed : Extractable(f)}]
           /\ sweeper[w] = {} /\ UNCHANGED <<library, dropped>>
<1> DEFINE claimed == Oldest({f \in Uploads : documents[f].status = "none"}, ClaimLimit)
          bad == {f \in claimed : library.files[f].status = "unresolvable"}
<1>1. claimed \in SUBSET Uploads /\ \A f \in claimed : documents[f].status = "none"
  BY DEF Oldest
<1>2. /\ sweeper[w] = {} /\ UNCHANGED <<library, dropped>> /\ sweeper' = [sweeper EXCEPT ![w] = claimed \ bad]
      /\ documents' = [f \in Uploads |->
           IF f \in claimed THEN [NoDocument EXCEPT !.status = IF f \in bad THEN "failed" ELSE "ingesting"] ELSE documents[f]]
  BY DEF ClaimPending
<1>3. claimed \ bad = {f \in claimed : Extractable(f)} /\ \A f \in claimed : f \in bad <=> ~Extractable(f)
  BY DEF Extractable
<1> HIDE DEF claimed
<1>4. documents' = [f \in Uploads |->
        IF f \in claimed THEN [NoDocument EXCEPT !.status = IF Extractable(f) THEN "ingesting" ELSE "failed"] ELSE documents[f]]
  BY <1>1, <1>2, <1>3
<1> QED BY <1>1, <1>2, <1>3, <1>4

LEMMA ClaimKeeps ==
  ASSUME IngestInv, ClaimsResolve, NEW w \in Sweepers, ClaimPending(w)
  PROVE  /\ (IngestInv /\ ClaimsResolve)'
         /\ \A f \in Uploads : documents[f].status \in Terminal => documents'[f] = documents[f]
         /\ StuckIsLost => StuckIsLost'
<1>1. PICK claimed \in SUBSET Uploads :
           /\ \A f \in claimed : documents[f].status = "none"
           /\ documents' = [f \in Uploads |->
                IF f \in claimed THEN [NoDocument EXCEPT !.status = IF Extractable(f) THEN "ingesting" ELSE "failed"] ELSE documents[f]]
           /\ sweeper' = [sweeper EXCEPT ![w] = {f \in claimed : Extractable(f)}]
           /\ sweeper[w] = {} /\ UNCHANGED <<library, dropped>>
  BY ClaimedAre
<1>2. /\ Uploads' = Uploads /\ sweeper \in [Sweepers -> SUBSET Uploads]
      /\ \A f \in Uploads : (Extractable(f))' = Extractable(f)
  BY <1>1 DEF Uploads, Extractable, IngestInv, IngestTypeOK
<1>3. \A f \in Uploads \ claimed : documents'[f] = documents[f]
  BY <1>1
<1>4. \A f \in claimed : /\ Extractable(f) => documents'[f].status = "ingesting"
                         /\ ~Extractable(f) => documents'[f] = Unresolvable
  BY <1>1 DEF NoDocument, Unresolvable
<1>5. \A v \in Sweepers : sweeper'[v] = IF v = w THEN {f \in claimed : Extractable(f)} ELSE sweeper[v]
  BY <1>1, <1>2
<1>6. IngestTypeOK'
  <2>1. Unresolvable.status = "failed"
    BY DEF Unresolvable, NoDocument
  <2>2. \A f \in Uploads : documents'[f].status \in {"none", "ingesting"} \cup Terminal
    BY <1>3, <1>4, <2>1 DEF IngestInv, IngestTypeOK, Terminal
  <2> QED BY <1>1, <1>2, <2>2 DEF IngestInv, IngestTypeOK
<1>7. InHand'
  <2>1. \A v \in Sweepers : \A f \in sweeper[v] : f \in Uploads /\ f \notin claimed
    BY <1>1, <1>2 DEF IngestInv, InHand
  <2> QED BY <1>3, <1>4, <1>5, <2>1 DEF IngestInv, InHand
<1>8. Saved'
  <2> SUFFICES ASSUME NEW f \in Uploads, documents'[f].status \in Terminal
               PROVE  documents'[f] = Extract(library.files[f]) \/ (library.files[f].status = "unresolvable" /\ documents'[f] = Unresolvable)
    BY <1>1, <1>2 DEF Saved
  <2>1. CASE f \in claimed
    BY <1>4, <2>1 DEF Terminal, Extractable
  <2>2. CASE f \notin claimed
    BY <1>3, <2>2 DEF IngestInv, Saved
  <2> QED BY <2>1, <2>2
<1>9. ClaimsResolve'
  BY <1>2, <1>3, <1>4 DEF ClaimsResolve, Unresolvable, NoDocument
<1>10. StuckIsLost => StuckIsLost'
  BY <1>1, <1>2, <1>3, <1>4, <1>5 DEF StuckIsLost, Unresolvable, NoDocument
<1>11. \A f \in Uploads : documents[f].status \in Terminal => documents'[f] = documents[f]
  BY <1>1, <1>3 DEF Terminal
<1> QED BY <1>1, <1>2, <1>6, <1>7, <1>8, <1>9, <1>10, <1>11 DEF IngestInv

\* Every chunk a layout becomes comes after its parent.
Arranged == \A f \in Uploads : ParentsFirst(Extract(library.files[f]).chunks)

LEMMA SaveKeeps ==
  ASSUME IngestInv, ClaimsResolve, NEW w \in Sweepers, SaveResult(w)
  PROVE  /\ (IngestInv /\ ClaimsResolve)'
         /\ \A f \in Uploads : documents[f].status \in Terminal => documents'[f] = documents[f]
         /\ Arranged /\ StuckIsLost => StuckIsLost'
<1>1. PICK f \in sweeper[w] :
        /\ documents' = IF ParentsFirst(Extract(library.files[f]).chunks)
                        THEN [documents EXCEPT ![f] = Extract(library.files[f])] ELSE documents
        /\ sweeper' = [sweeper EXCEPT ![w] = @ \ {f}]
        /\ UNCHANGED <<library, dropped>>
  BY DEF SaveResult
<1>2. /\ Uploads' = Uploads /\ sweeper \in [Sweepers -> SUBSET Uploads] /\ f \in Uploads
      /\ \A g \in Uploads : (Extractable(g))' = Extractable(g)
      /\ documents[f].status = "ingesting" /\ DOMAIN documents = Uploads /\ IngestTypeOK /\ InHand /\ Saved
      /\ Extractable(f)
  BY <1>1 DEF Uploads, Extractable, IngestInv, IngestTypeOK, InHand, ClaimsResolve
<1> DEFINE result == Extract(library.files[f])
<1>3. result.status \in Terminal
  BY <1>2, ExtractEnds
<1>4. \A g \in Uploads : g # f => documents'[g] = documents[g]
  BY <1>1, <1>2
<1>5. documents'[f] = result \/ documents'[f] = documents[f]
  BY <1>1, <1>2
<1>6. DOMAIN documents' = Uploads
  BY <1>1, <1>2
<1>7. \A v \in Sweepers : sweeper'[v] = IF v = w THEN sweeper[w] \ {f} ELSE sweeper[v]
  BY <1>1, <1>2
<1>8. ParentsFirst(result.chunks) => documents'[f] = result
  BY <1>1, <1>2
<1> HIDE DEF result
<1>9. IngestTypeOK'
  BY <1>1, <1>2, <1>3, <1>4, <1>5 DEF IngestTypeOK
<1>10. InHand'
  <2>1. \A v \in Sweepers : sweeper'[v] \subseteq sweeper[v] /\ f \notin sweeper'[v]
    BY <1>1, <1>2, <1>7 DEF InHand
  <2> QED BY <1>2, <1>4, <2>1 DEF InHand
<1>11. Saved'
  <2> SUFFICES ASSUME NEW g \in Uploads, documents'[g].status \in Terminal
               PROVE  documents'[g] = Extract(library.files[g]) \/ (library.files[g].status = "unresolvable" /\ documents'[g] = Unresolvable)
    BY <1>1, <1>2 DEF Saved
  <2> QED BY <1>2, <1>4, <1>5 DEF Saved, result
<1>12. ClaimsResolve'
  BY <1>2, <1>3, <1>4, <1>5 DEF ClaimsResolve, Terminal
<1>13. Arranged /\ StuckIsLost => StuckIsLost'
  <2> SUFFICES ASSUME Arranged, StuckIsLost, NEW g \in Uploads, documents'[g].status = "ingesting", g \notin dropped
               PROVE  \E v \in Sweepers : g \in sweeper'[v]
    BY <1>1, <1>2 DEF StuckIsLost
  <2>1. g # f
    BY <1>2, <1>3, <1>8 DEF Arranged, Terminal, result
  <2> QED BY <1>4, <1>7, <2>1 DEF StuckIsLost
<1>14. \A g \in Uploads : documents[g].status \in Terminal => documents'[g] = documents[g]
  BY <1>2, <1>4 DEF Terminal
<1> QED BY <1>2, <1>6, <1>9, <1>10, <1>11, <1>12, <1>13, <1>14 DEF IngestInv

LEMMA LoseKeeps ==
  ASSUME IngestInv, ClaimsResolve, NEW w \in Sweepers, SaveFails(w) \/ SweeperStops(w)
  PROVE  /\ (IngestInv /\ ClaimsResolve)' /\ documents' = documents
         /\ StuckIsLost => StuckIsLost'
<1>1. /\ UNCHANGED <<library, documents>>
      /\ \E lost \in SUBSET sweeper[w] : sweeper' = [sweeper EXCEPT ![w] = @ \ lost] /\ dropped' = dropped \cup lost
  <2>1. CASE SaveFails(w)
    <3>1. PICK f \in sweeper[w] : sweeper' = [sweeper EXCEPT ![w] = @ \ {f}] /\ dropped' = dropped \cup {f}
      BY <2>1 DEF SaveFails
    <3> QED BY <2>1, <3>1 DEF SaveFails
  <2>2. CASE SweeperStops(w)
    <3>1. sweeper[w] \ sweeper[w] = {}
      OBVIOUS
    <3>2. sweeper' = [sweeper EXCEPT ![w] = @ \ sweeper[w]]
      BY <2>2, <3>1 DEF SweeperStops
    <3> QED BY <2>2, <3>2 DEF SweeperStops
  <2> QED BY <2>1, <2>2
<1>2. PICK lost \in SUBSET sweeper[w] : sweeper' = [sweeper EXCEPT ![w] = @ \ lost] /\ dropped' = dropped \cup lost
  BY <1>1
<1>3. /\ Uploads' = Uploads /\ sweeper \in [Sweepers -> SUBSET Uploads]
      /\ \A g \in Uploads : (Extractable(g))' = Extractable(g)
  BY <1>1 DEF Uploads, Extractable, IngestInv, IngestTypeOK
<1>4. \A v \in Sweepers : sweeper'[v] = IF v = w THEN sweeper[w] \ lost ELSE sweeper[v]
  BY <1>2, <1>3
<1>5. IngestTypeOK'
  BY <1>1, <1>2, <1>3 DEF IngestInv, IngestTypeOK
<1>6. InHand'
  BY <1>1, <1>4 DEF IngestInv, InHand
<1>7. Saved' /\ ClaimsResolve'
  BY <1>1, <1>3 DEF IngestInv, Saved, ClaimsResolve
<1>8. StuckIsLost => StuckIsLost'
  BY <1>1, <1>2, <1>3, <1>4 DEF StuckIsLost
<1> QED BY <1>1, <1>3, <1>5, <1>6, <1>7, <1>8 DEF IngestInv

LEMMA IngestInitInv == IngestInit => IngestInv /\ ClaimsResolve /\ StuckIsLost
<1> SUFFICES ASSUME IngestInit PROVE IngestInv /\ ClaimsResolve /\ StuckIsLost
  OBVIOUS
<1>1. \A f \in Uploads : documents[f].status = "none"
  BY DEF IngestInit, NoDocument
<1>2. DOMAIN documents = Uploads
  BY DEF IngestInit
<1>3. IngestTypeOK
  BY <1>1 DEF IngestInit, IngestTypeOK
<1> QED BY <1>1, <1>2, <1>3 DEF IngestInv, IngestInit, InHand, Saved, ClaimsResolve, StuckIsLost, Terminal

LEMMA IngestNextInv ==
  ASSUME IngestInv, ClaimsResolve, [IngestNext]_ingestVars
  PROVE  /\ (IngestInv /\ ClaimsResolve)'
         /\ \A f \in Uploads : documents[f].status \in Terminal => documents'[f] = documents[f]
         /\ Arranged /\ StuckIsLost => StuckIsLost'
<1>1. CASE \E w \in Sweepers : ClaimPending(w)
  BY <1>1, ClaimKeeps
<1>2. CASE \E w \in Sweepers : SaveResult(w)
  BY <1>2, SaveKeeps
<1>3. CASE \E w \in Sweepers : SaveFails(w) \/ SweeperStops(w)
  BY <1>3, LoseKeeps
<1>4. CASE UNCHANGED ingestVars
  BY <1>4 DEF ingestVars, IngestInv, IngestTypeOK, InHand, Saved, ClaimsResolve, StuckIsLost, Uploads, Extractable
<1> QED BY <1>1, <1>2, <1>3, <1>4 DEF IngestNext, Sweeping

(* Claims, documents and what was lost have the form the model gives them, for
   every library, number of workers and size of a sweep. *)
THEOREM IngestTypeCorrect == IngestSpec => []IngestTypeOK
<1>1. IngestInv => IngestTypeOK
  BY DEF IngestInv
<1> QED BY <1>1, IngestInitInv, IngestNextInv, PTL DEF IngestSpec

LEMMA OneHolder == ASSUME IngestInv PROVE ClaimedOnce
<1> SUFFICES ASSUME NEW f \in Uploads PROVE Cardinality({w \in Sweepers : f \in sweeper[w]}) <= 1
  BY DEF IngestInv, InHand, ClaimedOnce
<1> DEFINE H == {w \in Sweepers : f \in sweeper[w]}
<1>1. CASE H = {}
  BY <1>1, FS_EmptySet
<1>2. CASE H # {}
  <2>1. PICK w \in Sweepers : f \in sweeper[w]
    BY <1>2
  <2>2. H = {w}
    BY <2>1 DEF IngestInv, InHand
  <2>3. Cardinality({w}) = 1
    BY FS_Singleton
  <2> QED BY <2>2, <2>3
<1> QED BY <1>1, <1>2

(* Two workers never hold one file, nor one that is finished; and a document that is
   finished is as it was extracted, and stays as it is (ClaimPending, SaveResult). *)
THEOREM DocumentsAreClaimedOnce ==
  IngestSpec => /\ [](ClaimedOnce /\ Saved)
                /\ [][\A f \in Uploads : documents[f].status \in Terminal => documents'[f] = documents[f]]_ingestVars
<1>1. IngestInv => ClaimedOnce /\ Saved
  BY OneHolder DEF IngestInv
<1>2. IngestInv /\ ClaimsResolve /\ [IngestNext]_ingestVars =>
        [\A f \in Uploads : documents[f].status \in Terminal => documents'[f] = documents[f]]_ingestVars
  BY IngestNextInv
<1> QED BY <1>1, <1>2, IngestInitInv, IngestNextInv, PTL DEF IngestSpec

(* Of layouts whose chunks come after their parents, a row that is neither finished nor in
   a worker's hands is one whose claim was lost. *)
THEOREM StuckRowsAreLost == IngestSpec /\ []Arranged => []StuckIsLost
<1>1. IngestInit => IngestInv /\ ClaimsResolve /\ StuckIsLost
  BY IngestInitInv
<1>2. IngestInv /\ ClaimsResolve /\ StuckIsLost /\ Arranged /\ [IngestNext]_ingestVars => (IngestInv /\ ClaimsResolve /\ StuckIsLost)'
  BY IngestNextInv
<1> QED BY <1>1, <1>2, PTL DEF IngestSpec

----------------------------------------------------------------------------
(* Pages.  Ids are given once; an operation keeps the blocks it does not name where they
   were among the others; rows are those of one version. *)

Said == Shelf \cup Registered \cup {Unknown, "prose"}
BlockOf(n) == [id : 1 .. n, says : Said]
TurnOf(n, len) ==
  [tool : {"update_page", "update_block", "insert_blocks", "delete_block", "none"},
   stage : {"idle", "stamp", "stamping", "read", "refs", "mentions", "done"},
   made : 0 .. len, target : 0 .. n, touched : SUBSET (1 .. n), sees : 0 .. len, stamps : SUBSET (1 .. n)]

PageTypes ==
  /\ minted \in Nat /\ versions \in Seq(Seq(BlockOf(minted))) /\ Len(versions) > 0
  /\ stamped \subseteq 1 .. minted /\ hashes \subseteq Shelf \X (1 .. minted)
  /\ mentioned \subseteq Registered \X (1 .. minted) /\ pinned \subseteq Registered
  /\ turn \in [Agents -> TurnOf(minted, Len(versions))]
  /\ posts \subseteq [kind : {"hashes", "mentions"}, sees : 1 .. Len(versions)]
  /\ typing \in Nat /\ tagging \in Nat /\ faults \in Nat

\* A call that projects saw a version with its own edit.
SeesOwn ==
  \A a \in Agents : turn[a].stage \in {"refs", "mentions"} => turn[a].made <= turn[a].sees /\ turn[a].sees > 0

Distinct(d) == \A i, j \in DOMAIN d : d[i].id = d[j].id => i = j

PageInv ==
  /\ PageTypes /\ SeesOwn
  /\ \A k \in DOMAIN versions : Distinct(versions[k])
  /\ RowsAreOfOneVersion

\* The pieces of a spliced document, by their places.
IsSpliced(s, d, at, gone, new) ==
  /\ Len(s) = Len(d) - gone + Len(new)
  /\ \A i \in 1 .. at : s[i] = d[i]
  /\ \A i \in 1 .. Len(new) : s[at + i] = new[i]
  /\ \A i \in at + gone + 1 .. Len(d) : s[i + Len(new) - gone] = d[i]

LEMMA JoinedLen == \A B : \A x \in Seq(B), y \in Seq(B) : Len(x \o y) = Len(x) + Len(y)
OBVIOUS

LEMMA SplicedIs ==
  ASSUME NEW B, NEW d \in Seq(B), NEW new \in Seq(B), NEW at \in 0 .. Len(d), NEW gone \in {0, 1}, at + gone <= Len(d)
  PROVE  Splice(d, at, gone, new) \in Seq(B) /\ IsSpliced(Splice(d, at, gone, new), d, at, gone, new)
<1> DEFINE l == SubSeq(d, 1, at)
          r == SubSeq(d, at + gone + 1, Len(d))
<1>1. /\ l \in Seq(B) /\ Len(l) = at /\ \A i \in 1 .. at : l[i] = d[i]
      /\ at \in Nat /\ Len(d) \in Nat /\ Len(new) \in Nat /\ gone \in Nat
  OBVIOUS
<1>2. r \in Seq(B) /\ Len(r) = Len(d) - at - gone /\ \A i \in 1 .. Len(r) : r[i] = d[i + at + gone]
  BY SMTT(30)
<1> HIDE DEF l, r
<1>3. l \o new \in Seq(B) /\ Len(l \o new) = at + Len(new)
  <2>1. l \o new \in Seq(B)
    BY <1>1
  <2>2. Len(l \o new) = Len(l) + Len(new)
    BY <1>1, JoinedLen
  <2> QED BY <1>1, <2>1, <2>2
<1>4. (\A i \in 1 .. at : (l \o new)[i] = l[i]) /\ \A i \in 1 .. Len(new) : (l \o new)[at + i] = new[i]
  <2>1. \A i \in 1 .. at : (l \o new)[i] = l[i]
    BY <1>1
  <2>2. \A i \in 1 .. Len(new) : (l \o new)[at + i] = new[i]
    BY <1>1
  <2> QED BY <2>1, <2>2
<1> DEFINE ln == l \o new
<1> HIDE DEF ln
<1> DEFINE s == ln \o r
<1>5. /\ s \in Seq(B) /\ Len(s) = at + Len(new) + Len(r)
      /\ \A i \in 1 .. at + Len(new) : s[i] = ln[i]
      /\ \A i \in 1 .. Len(r) : s[at + Len(new) + i] = r[i]
  <2>1. ln \in Seq(B) /\ Len(ln) = at + Len(new) /\ Len(ln) \in Nat
    BY <1>1, <1>3 DEF ln
  <2>5. s \in Seq(B)
    BY <1>2, <2>1
  <2>6. Len(s) = Len(ln) + Len(r)
    <3>1. r \in Seq(B)
      BY <1>2
    <3> QED BY <2>1, <3>1, JoinedLen
  <2>2. s \in Seq(B) /\ Len(s) = Len(ln) + Len(r)
    BY <2>5, <2>6
  <2>3. \A i \in 1 .. Len(ln) : s[i] = ln[i]
    BY <1>2, <2>1
  <2>4. \A i \in 1 .. Len(r) : s[Len(ln) + i] = r[i]
    BY SMTT(30), <1>2, <2>1
  <2> HIDE DEF s
  <2> QED BY <2>1, <2>2, <2>3, <2>4
<1>6. Splice(d, at, gone, new) = s
  BY DEF Splice, l, r, ln
<1> HIDE DEF s
<1>7. \A i \in 1 .. at : s[i] = d[i]
  <2> SUFFICES ASSUME NEW i \in 1 .. at PROVE s[i] = d[i]
    OBVIOUS
  <2>1. i \in 1 .. at + Len(new)
    BY <1>1
  <2>2. s[i] = ln[i] /\ ln[i] = l[i] /\ l[i] = d[i]
    BY <1>1, <1>4, <1>5, <2>1 DEF ln
  <2> QED BY <2>2
<1>8. \A i \in 1 .. Len(new) : s[at + i] = new[i]
  <2> SUFFICES ASSUME NEW i \in 1 .. Len(new) PROVE s[at + i] = new[i]
    OBVIOUS
  <2>1. at + i \in 1 .. at + Len(new)
    BY <1>1
  <2> QED BY <1>4, <1>5, <2>1 DEF ln
<1>9. ASSUME NEW i \in at + gone + 1 .. Len(d) PROVE s[i + Len(new) - gone] = d[i]
  <2> DEFINE j == i - at - gone
  <2>1. j \in 1 .. Len(r) /\ at + Len(new) + j = i + Len(new) - gone /\ j + at + gone = i
    BY <1>1, <1>2
  <2> HIDE DEF j
  <2>2. s[at + Len(new) + j] = r[j] /\ r[j] = d[j + at + gone]
    BY <1>2, <1>5, <2>1
  <2> QED BY <2>1, <2>2
<1>10. Len(s) = Len(d) - gone + Len(new)
  BY <1>1, <1>2, <1>5
<1>11. s \in Seq(B)
  BY <1>5
<1>12. IsSpliced(s, d, at, gone, new)
  BY <1>7, <1>8, <1>9, <1>10 DEF IsSpliced
<1> QED BY <1>6, <1>11, <1>12

\* Of a splice: the blocks that stay, in their order, and the new ones; no id twice.
Blends(s, d, at, gone, new) ==
  /\ \A i \in DOMAIN new : at + i \in DOMAIN s /\ s[at + i] = new[i]
  /\ \A kept \in SUBSET DOMAIN d : (gone = 1 => at + 1 \notin kept) =>
       \E place \in [kept -> DOMAIN s] :
         \A i, k \in kept : s[place[i]] = d[i] /\ (i < k => place[i] < place[k])

LEMMA SpliceKeeps ==
  ASSUME NEW n \in Nat, NEW m \in Nat, n <= m,
         NEW d \in Seq(BlockOf(n)), Distinct(d), NEW new \in Seq(BlockOf(m)), Distinct(new),
         NEW at \in 0 .. Len(d), NEW gone \in {0, 1}, at + gone <= Len(d),
         \A i \in DOMAIN new : new[i].id > n \/ (gone = 1 /\ new[i].id = d[at + 1].id)
  PROVE  /\ Splice(d, at, gone, new) \in Seq(BlockOf(m)) /\ Distinct(Splice(d, at, gone, new))
         /\ Blends(Splice(d, at, gone, new), d, at, gone, new)
<1> DEFINE s == Splice(d, at, gone, new)
          N == Len(new)
<1>1. BlockOf(n) \subseteq BlockOf(m)
  BY DEF BlockOf
<1>2. d \in Seq(BlockOf(m)) /\ DOMAIN d = 1 .. Len(d) /\ Len(d) \in Nat /\ N \in Nat /\ DOMAIN new = 1 .. N /\ at \in Nat /\ gone \in Nat
  BY <1>1
<1>3. /\ s \in Seq(BlockOf(m)) /\ Len(s) = Len(d) - gone + N
      /\ \A i \in 1 .. at : s[i] = d[i]
      /\ \A i \in 1 .. N : s[at + i] = new[i]
      /\ \A i \in at + gone + 1 .. Len(d) : s[i + N - gone] = d[i]
  <2> DEFINE C == BlockOf(m)
  <2>1. /\ d \in Seq(C) /\ new \in Seq(C)
        /\ at \in 0 .. Len(d) /\ gone \in {0, 1} /\ at + gone <= Len(d)
    BY <1>2
  <2> HIDE DEF C, N
  <2>2. s \in Seq(C) /\ IsSpliced(s, d, at, gone, new)
    BY <2>1, SplicedIs
  <2> QED BY <2>2 DEF C, N, IsSpliced
<1>4. DOMAIN s = 1 .. Len(s)
  BY <1>3
<1> HIDE DEF s
<1>5. \A i \in DOMAIN d : d[i].id \in 1 .. n
  <2>1. \A i \in DOMAIN d : d[i] \in BlockOf(n)
    OBVIOUS
  <2> QED BY <2>1 DEF BlockOf
<1> DEFINE From(i) == IF i <= at THEN i ELSE i + N - gone
<1>6. \A i \in DOMAIN d : (gone = 1 => i # at + 1) => From(i) \in DOMAIN s /\ s[From(i)] = d[i]
  BY SMTT(30), <1>2, <1>3, <1>4
<1>7. \A i, k \in DOMAIN d : i < k /\ (gone = 1 => i # at + 1 /\ k # at + 1) => From(i) < From(k)
  BY <1>2
<1>8. ASSUME NEW kept \in SUBSET DOMAIN d, gone = 1 => at + 1 \notin kept
      PROVE  \E place \in [kept -> DOMAIN s] : \A i, k \in kept : s[place[i]] = d[i] /\ (i < k => place[i] < place[k])
  <2> DEFINE place == [i \in kept |-> From(i)]
  <2>1. \A i \in kept : i \in DOMAIN d /\ (gone = 1 => i # at + 1)
    BY <1>8
  <2> HIDE DEF From
  <2>2. place \in [kept -> DOMAIN s]
    BY <1>6, <2>1
  <2>3. \A i, k \in kept : s[place[i]] = d[i] /\ (i < k => place[i] < place[k])
    BY <1>6, <1>7, <2>1
  <2> HIDE DEF place
  <2> QED BY <2>2, <2>3
<1>9. \A i \in DOMAIN new : at + i \in DOMAIN s /\ s[at + i] = new[i]
  BY <1>2, <1>3, <1>4
<1>10. \A j \in DOMAIN s : \/ j \in at + 1 .. at + N
                           \/ \E i \in DOMAIN d : (gone = 1 => i # at + 1) /\ j = From(i)
  <2> SUFFICES ASSUME NEW j \in DOMAIN s, j \notin at + 1 .. at + N
               PROVE  \E i \in DOMAIN d : (gone = 1 => i # at + 1) /\ j = From(i)
    OBVIOUS
  <2>1. CASE j <= at
    <3>1. j \in DOMAIN d /\ j = From(j) /\ j # at + 1
      BY <1>2, <1>3, <1>4, <2>1
    <3> QED BY <3>1
  <2>2. CASE j > at + N
    <3> DEFINE i == j - N + gone
    <3>2. j \in Nat /\ j <= Len(d) - gone + N
      BY <1>2, <1>3, <1>4
    <3>0. j \in Nat /\ j <= Len(d) - gone + N /\ i \in Int /\ i >= at + 1 + gone /\ i <= Len(d) /\ i + N - gone = j
      <4> HIDE DEF N
      <4> QED BY SMTT(30), <1>2, <2>2, <3>2
    <3>1. i \in DOMAIN d /\ j = From(i) /\ (gone = 1 => i # at + 1)
      <4> HIDE DEF i
      <4> QED BY SMTT(30), <1>2, <3>0
    <3> HIDE DEF i
    <3> QED BY <3>1
  <2> QED BY <1>2, <1>3, <1>4, <2>1, <2>2
<1>11. Distinct(s)
  <2> SUFFICES ASSUME NEW i \in DOMAIN s, NEW j \in DOMAIN s, s[i].id = s[j].id PROVE i = j
    BY DEF Distinct
  <2> DEFINE New(k) == k \in at + 1 .. at + N
             Old(k) == \E h \in DOMAIN d : (gone = 1 => h # at + 1) /\ k = From(h)
  <2>1. \A k \in DOMAIN s : New(k) => k - at \in DOMAIN new /\ s[k] = new[k - at]
    <3> SUFFICES ASSUME NEW k \in DOMAIN s, New(k) PROVE k - at \in DOMAIN new /\ s[k] = new[k - at]
      OBVIOUS
    <3>1. k - at \in DOMAIN new /\ at + (k - at) = k
      BY <1>2
    <3> QED BY <1>9, <3>1
  <2>2. CASE New(i) /\ New(j)
    <3>1. i - at = j - at
      BY <2>1, <2>2 DEF Distinct
    <3> QED BY <1>2, <1>4, <2>2, <3>1
  <2>3. ASSUME NEW k \in DOMAIN s, NEW h \in DOMAIN s, New(k), Old(h), s[k].id = s[h].id PROVE FALSE
    <3>1. PICK x \in DOMAIN d : (gone = 1 => x # at + 1) /\ h = From(x)
      BY <2>3
    <3>2. s[h] = d[x]
      BY <1>6, <3>1
    <3>3. new[k - at].id > n \/ (gone = 1 /\ new[k - at].id = d[at + 1].id)
      BY <2>1, <2>3
    <3>4. new[k - at].id = d[x].id /\ d[x].id \in 1 .. n
      BY <1>5, <2>1, <2>3, <3>2
    <3>5. gone = 1 => at + 1 \in DOMAIN d
      BY <1>2
    <3> QED BY <3>1, <3>3, <3>4, <3>5 DEF Distinct
  <2>4. CASE Old(i) /\ Old(j)
    <3>1. PICK x \in DOMAIN d : (gone = 1 => x # at + 1) /\ i = From(x)
      BY <2>4
    <3>2. PICK y \in DOMAIN d : (gone = 1 => y # at + 1) /\ j = From(y)
      BY <2>4
    <3>3. s[i] = d[x] /\ s[j] = d[y]
      BY <1>6, <3>1, <3>2
    <3> QED BY <3>1, <3>2, <3>3 DEF Distinct
  <2>5. (New(i) \/ Old(i)) /\ (New(j) \/ Old(j))
    BY <1>10
  <2> HIDE DEF New, Old
  <2> QED BY <2>2, <2>3, <2>4, <2>5
<1>12. Blends(s, d, at, gone, new)
  BY <1>8, <1>9 DEF Blends
<1> QED BY <1>3, <1>11, <1>12 DEF s

LEMMA AtIs ==
  ASSUME NEW d, NEW id \in IdsOf(d)
  PROVE  At(d, id) \in DOMAIN d /\ d[At(d, id)].id = id
<1>1. PICK i \in DOMAIN d : d[i].id = id
  BY DEF IdsOf
<1> QED BY <1>1 DEF At

LEMMA MintedIs ==
  ASSUME minted \in Nat, NEW w \in Seq(Said)
  PROVE  /\ MDToBlocks(w) \in Seq(BlockOf(minted + Len(w))) /\ Len(MDToBlocks(w)) = Len(w) /\ DOMAIN MDToBlocks(w) = 1 .. Len(w)
         /\ \A i \in 1 .. Len(w) : MDToBlocks(w)[i].id = minted + i
         /\ Distinct(MDToBlocks(w)) /\ IdsOf(MDToBlocks(w)) \subseteq 1 .. minted + Len(w)
<1> DEFINE n == MDToBlocks(w)
          B == BlockOf(minted + Len(w))
<1>1. DOMAIN w = 1 .. Len(w) /\ Len(w) \in Nat /\ \A i \in 1 .. Len(w) : w[i] \in Said
  OBVIOUS
<1>2. \A i \in 1 .. Len(w) : minted + i \in 1 .. minted + Len(w)
  BY <1>1
<1>3. n = [i \in 1 .. Len(w) |-> [id |-> minted + i, says |-> w[i]]]
  BY <1>1 DEF MDToBlocks
<1>4. \A i \in 1 .. Len(w) : [id |-> minted + i, says |-> w[i]] \in B
  BY <1>1, <1>2 DEF BlockOf
<1> HIDE DEF n, B
<1>5. n \in Seq(B) /\ Len(n) = Len(w) /\ DOMAIN n = 1 .. Len(w)
  BY <1>1, <1>3, <1>4
<1>6. \A i \in 1 .. Len(w) : n[i].id = minted + i
  BY <1>3
<1>7. Distinct(n)
  BY <1>1, <1>5, <1>6 DEF Distinct
<1>8. IdsOf(n) \subseteq 1 .. minted + Len(w)
  BY <1>2, <1>5, <1>6 DEF IdsOf
<1> QED BY <1>5, <1>6, <1>7, <1>8 DEF n, B

LEMMA FirstIdIs ==
  ASSUME minted \in Nat, NEW w \in Seq(Said), NEW id \in 1 .. minted
  PROVE  LET n == WithFirstBlockID(MDToBlocks(w), id)
         IN /\ n \in Seq(BlockOf(minted + Len(w))) /\ Len(n) = Len(w) /\ DOMAIN n = 1 .. Len(w)
            /\ \A i \in 1 .. Len(w) : n[i].id > minted \/ n[i].id = id
            /\ Distinct(n) /\ IdsOf(n) \subseteq 1 .. minted + Len(w)
            /\ id \in IdsOf(n) => Len(w) > 0 /\ n[1].id = id
<1> DEFINE o == MDToBlocks(w)
          n == WithFirstBlockID(o, id)
          B == BlockOf(minted + Len(w))
<1>1. /\ o \in Seq(B) /\ Len(o) = Len(w) /\ DOMAIN o = 1 .. Len(w)
      /\ \A i \in 1 .. Len(w) : o[i].id = minted + i
      /\ Distinct(o) /\ IdsOf(o) \subseteq 1 .. minted + Len(w)
  BY MintedIs
<1>2. Len(w) \in Nat
  OBVIOUS
<1>3. CASE o = <<>>
  <2>1. n = o /\ Len(w) = 0
    BY <1>1, <1>3 DEF WithFirstBlockID
  <2>2. id \notin IdsOf(o)
    BY <1>1, <2>1 DEF IdsOf
  <2> QED BY <1>1, <2>1, <2>2
<1>4. CASE o # <<>>
  <2>0. Len(w) > 0
    BY <1>1, <1>2, <1>4
  <2>1. n = [o EXCEPT ![1] = [o[1] EXCEPT !.id = id]]
    BY <1>4 DEF WithFirstBlockID
  <2>2. o[1] \in B /\ id \in 1 .. minted + Len(w)
    BY <1>1, <1>2, <2>0
  <2>3. [o[1] EXCEPT !.id = id] \in B /\ [o[1] EXCEPT !.id = id].id = id
    BY <2>2 DEF BlockOf
  <2> DEFINE x == [o[1] EXCEPT !.id = id]
  <2> HIDE DEF x, n, o, B
  <2>4. n = [o EXCEPT ![1] = x] /\ x \in B /\ x.id = id
    BY <2>1, <2>3 DEF x
  <2>5. n \in Seq(B) /\ Len(n) = Len(w) /\ DOMAIN n = 1 .. Len(w)
    <3>1. o \in [1 .. Len(w) -> B]
      BY <1>1
    <3>2. n \in [1 .. Len(w) -> B]
      BY <2>4, <3>1
    <3> QED BY <1>2, <3>2
  <2>6. n[1] = x /\ \A i \in 1 .. Len(w) : i # 1 => n[i] = o[i]
    BY <1>1, <1>2, <2>0, <2>4
  <2>7. n[1].id = id /\ \A i \in 1 .. Len(w) : i # 1 => n[i].id = minted + i
    BY <1>1, <2>4, <2>6
  <2>8. \A i \in 1 .. Len(w) : n[i].id > minted \/ n[i].id = id
    BY <1>2, <2>7
  <2>9. Distinct(n)
    BY <1>2, <2>5, <2>7 DEF Distinct
  <2>10. IdsOf(n) \subseteq 1 .. minted + Len(w)
    BY <1>2, <2>2, <2>5, <2>7 DEF IdsOf
  <2> QED BY <2>0, <2>5, <2>7, <2>8, <2>9, <2>10 DEF n, o, B
<1> QED BY <1>3, <1>4

\* What the live document is, and what references and mentions it has.
LEMMA LiveIs ==
  ASSUME PageInv
  PROVE  /\ Len(versions) \in DOMAIN versions /\ Len(versions) \in Nat /\ DOMAIN versions = 1 .. Len(versions)
         /\ live \in Seq(BlockOf(minted)) /\ Distinct(live) /\ DOMAIN live = 1 .. Len(live) /\ Len(live) \in Nat
         /\ IdsOf(live) \subseteq 1 .. minted
<1>1. /\ Len(versions) \in DOMAIN versions /\ Len(versions) \in Nat /\ DOMAIN versions = 1 .. Len(versions)
      /\ live \in Seq(BlockOf(minted))
  BY DEF PageInv, PageTypes, live
<1>2. Distinct(live)
  BY <1>1 DEF PageInv, live
<1> HIDE DEF live
<1>3. DOMAIN live = 1 .. Len(live) /\ Len(live) \in Nat /\ \A i \in DOMAIN live : live[i] \in BlockOf(minted)
  BY <1>1
<1>4. IdsOf(live) \subseteq 1 .. minted
  BY <1>3 DEF IdsOf, BlockOf
<1> QED BY <1>1, <1>2, <1>3, <1>4

LEMMA TagsIn ==
  ASSUME NEW n \in Nat, NEW d \in Seq(BlockOf(n))
  PROVE  /\ HashesIn(d) \subseteq Shelf \X (1 .. n)
         /\ MentionsIn(d) \subseteq (Registered \cup {Unknown}) \X (1 .. n)
<1>1. \A b \in Range(d) : b.id \in 1 .. n
  <2>1. \A i \in DOMAIN d : d[i] \in BlockOf(n)
    OBVIOUS
  <2> QED BY <2>1 DEF Range, BlockOf
<1> QED BY <1>1 DEF HashesIn, MentionsIn

LEMMA TurnsGrow ==
  ASSUME NEW n \in Nat, NEW m \in Nat, n <= m, NEW k \in Nat, NEW l \in Nat, k <= l
  PROVE  TurnOf(n, k) \subseteq TurnOf(m, l)
<1>1. 0 .. k \subseteq 0 .. l /\ 0 .. n \subseteq 0 .. m /\ 1 .. n \subseteq 1 .. m
  OBVIOUS
<1> QED BY <1>1 DEF TurnOf

\* A version is added.
LEMMA VersionAdded ==
  ASSUME PageInv, NEW m \in Nat, minted <= m, minted' = m,
         NEW next \in Seq(BlockOf(m)), Distinct(next), versions' = Append(versions, next)
  PROVE  /\ versions' \in Seq(Seq(BlockOf(m))) /\ Len(versions') = Len(versions) + 1
         /\ DOMAIN versions' = 1 .. Len(versions) + 1 /\ live' = next
         /\ \A k \in DOMAIN versions : k \in DOMAIN versions' /\ versions'[k] = versions[k]
         /\ \A k \in DOMAIN versions' : Distinct(versions'[k])
<1>1. versions \in Seq(Seq(BlockOf(minted))) /\ minted \in Nat /\ Len(versions) \in Nat /\ DOMAIN versions = 1 .. Len(versions)
  BY DEF PageInv, PageTypes
<1>2. BlockOf(minted) \subseteq BlockOf(m)
  BY <1>1 DEF BlockOf
<1>3. versions \in Seq(Seq(BlockOf(m)))
  <2>1. Seq(BlockOf(minted)) \subseteq Seq(BlockOf(m))
    BY <1>2
  <2> DEFINE S == Seq(BlockOf(minted))
             T == Seq(BlockOf(m))
  <2> HIDE DEF S, T
  <2>2. versions \in Seq(S) /\ S \subseteq T
    BY <1>1, <2>1 DEF S, T
  <2>3. versions \in Seq(T)
    BY <2>2
  <2> QED BY <2>3 DEF T
<1>4. /\ versions' \in Seq(Seq(BlockOf(m))) /\ Len(versions') = Len(versions) + 1
      /\ DOMAIN versions' = 1 .. Len(versions) + 1
      /\ \A k \in 1 .. Len(versions) : versions'[k] = versions[k]
      /\ versions'[Len(versions) + 1] = next
  <2> DEFINE T == Seq(BlockOf(m))
  <2>1. versions \in Seq(T) /\ next \in T
    BY <1>3
  <2> HIDE DEF T
  <2>2. /\ versions' \in Seq(T) /\ Len(versions') = Len(versions) + 1
        /\ DOMAIN versions' = 1 .. Len(versions) + 1
        /\ \A k \in 1 .. Len(versions) : versions'[k] = versions[k]
        /\ versions'[Len(versions) + 1] = next
    BY <2>1
  <2> QED BY <2>2 DEF T
<1>5. live' = next
  BY <1>4 DEF live
<1>6. \A k \in DOMAIN versions' : Distinct(versions'[k])
  BY <1>1, <1>4 DEF PageInv
<1> QED BY <1>1, <1>4, <1>5, <1>6

\* What a step may not do, but for the rows and ids that the invariant speaks of.
PageStep == OthersStay /\ OwnEditIsShown /\ (pinned' # pinned => tagging' # tagging)

\* What stays, stays typed when there are more ids and versions.
LEMMA TypesGrow ==
  ASSUME PageInv, NEW m \in Nat, minted <= m, minted' = m,
         NEW next \in Seq(BlockOf(m)), Distinct(next), versions' = Append(versions, next),
         UNCHANGED <<stamped, hashes, mentioned, pinned, posts, tagging, faults>>, typing' \in Nat,
         turn' \in [Agents -> TurnOf(m, Len(versions) + 1)], SeesOwn'
  PROVE  PageInv'
<1>1. /\ versions' \in Seq(Seq(BlockOf(m))) /\ Len(versions') = Len(versions) + 1
      /\ \A k \in DOMAIN versions : k \in DOMAIN versions' /\ versions'[k] = versions[k]
      /\ \A k \in DOMAIN versions' : Distinct(versions'[k])
  BY VersionAdded
<1>2. minted \in Nat /\ Len(versions) \in Nat /\ Len(versions) > 0
  BY LiveIs DEF PageInv, PageTypes
<1>3. 1 .. minted \subseteq 1 .. m /\ 1 .. Len(versions) \subseteq 1 .. Len(versions) + 1
  BY <1>2
<1>4. /\ stamped' \subseteq 1 .. m /\ hashes' \subseteq Shelf \X (1 .. m)
      /\ mentioned' \subseteq Registered \X (1 .. m) /\ pinned' \subseteq Registered
      /\ tagging' \in Nat /\ faults' \in Nat
  BY <1>3 DEF PageInv, PageTypes
<1>5. posts' \subseteq [kind : {"hashes", "mentions"}, sees : 1 .. Len(versions) + 1]
  BY <1>3 DEF PageInv, PageTypes
<1>6. RowsAreOfOneVersion'
  <2>1. PICK i \in DOMAIN versions : hashes = HashesIn(versions[i])
    BY DEF PageInv, RowsAreOfOneVersion
  <2>2. PICK j \in DOMAIN versions : mentioned = MentionsIn(versions[j])
    BY DEF PageInv, RowsAreOfOneVersion
  <2> QED BY <1>1, <2>1, <2>2 DEF RowsAreOfOneVersion
<1>7. PageTypes'
  BY <1>1, <1>2, <1>4, <1>5 DEF PageTypes
<1> QED BY <1>1, <1>6, <1>7 DEF PageInv

LEMMA OperationKeeps ==
  ASSUME PageInv, NEW a \in Agents, NEW m \in Nat, minted <= m, minted' = m, NEW target \in 0 .. m,
         NEW next \in Seq(BlockOf(m)), Distinct(next), NEW touched \in SUBSET (1 .. m),
         turn[a].stage = "idle", ApplyOperation(a, target, next, touched)
  PROVE  /\ PageInv' /\ OwnEditIsShown /\ pinned' = pinned /\ live' = next
         /\ \A b \in Agents : turn'[b].made > Len(versions) =>
              b = a /\ turn'[b].target = target /\ turn'[b].touched = touched
<1>1. /\ versions' = Append(versions, next)
      /\ UNCHANGED <<stamped, hashes, mentioned, pinned, posts, projected, typing, tagging, faults>>
      /\ turn' = [turn EXCEPT ![a] = [turn[a] EXCEPT !.stage = "stamp", !.made = Len(versions) + 1,
                                                     !.target = target, !.touched = touched]]
  BY DEF ApplyOperation
<1>2. minted \in Nat /\ Len(versions) \in Nat /\ turn \in [Agents -> TurnOf(minted, Len(versions))] /\ typing \in Nat
  BY LiveIs DEF PageInv, PageTypes
<1> DEFINE l == Len(versions) + 1
          t == [turn[a] EXCEPT !.stage = "stamp", !.made = l, !.target = target, !.touched = touched]
<1>3. l \in Nat /\ Len(versions) <= l /\ l \in 0 .. l
  BY <1>2
<1>4. TurnOf(minted, Len(versions)) \subseteq TurnOf(m, l)
  BY <1>2, <1>3, TurnsGrow
<1>5. /\ t \in TurnOf(m, l) /\ t.stage = "stamp" /\ t.made = l /\ t.target = target /\ t.touched = touched
  <2>1. turn[a] \in TurnOf(m, l)
    BY <1>2, <1>4
  <2> DEFINE T == TurnOf(m, l)
             t1 == [turn[a] EXCEPT !.stage = "stamp"]
             t2 == [t1 EXCEPT !.made = l]
             t3 == [t2 EXCEPT !.target = target]
             t4 == [t3 EXCEPT !.touched = touched]
  <2>2. t1 \in T /\ t1.stage = "stamp"
    BY <2>1 DEF TurnOf
  <2> HIDE DEF t1
  <2>3. t2 \in T /\ t2.stage = "stamp" /\ t2.made = l
    BY <1>3, <2>2 DEF TurnOf
  <2> HIDE DEF t2
  <2>4. t3 \in T /\ t3.stage = "stamp" /\ t3.made = l /\ t3.target = target
    BY <2>3 DEF TurnOf
  <2> HIDE DEF t3
  <2>5. t4 \in T /\ t4.stage = "stamp" /\ t4.made = l /\ t4.target = target /\ t4.touched = touched
    BY <2>4 DEF TurnOf
  <2>6. t = t4
    BY DEF t1, t2, t3
  <2> HIDE DEF t, t4
  <2> QED BY <2>5, <2>6
<1> HIDE DEF t, l
<1>6. turn' = [turn EXCEPT ![a] = t]
  BY <1>1 DEF t, l
<1>7. turn' \in [Agents -> TurnOf(m, l)] /\ turn'[a] = t /\ \A b \in Agents : b # a => turn'[b] = turn[b]
  BY <1>2, <1>4, <1>5, <1>6
<1>8. SeesOwn'
  BY <1>5, <1>7 DEF PageInv, SeesOwn
<1>9. PageInv'
  BY <1>1, <1>2, <1>7, <1>8, TypesGrow DEF l
<1>10. live' = next
  BY <1>1, VersionAdded
<1>11. OwnEditIsShown
  BY <1>1 DEF OwnEditIsShown
<1>12. ASSUME NEW b \in Agents, turn'[b].made > Len(versions)
       PROVE  b = a /\ turn'[b].target = target /\ turn'[b].touched = touched
  <2>1. turn[b].made <= Len(versions)
    BY <1>2 DEF TurnOf
  <2>2. turn[b].made \in Nat
    BY <1>2 DEF TurnOf
  <2> QED BY <1>2, <1>5, <1>7, <1>12, <2>1, <2>2
<1> QED BY <1>1, <1>9, <1>10, <1>11, <1>12

\* The blocks that are kept of the document before are found in the next one.
Survive(kept, next) ==
  \E place \in [kept -> DOMAIN next] : \A i, k \in kept : next[place[i]] = live[i] /\ (i < k => place[i] < place[k])

LEMMA OperationIsWhole ==
  ASSUME PageInv, NEW a \in Agents, NEW m \in Nat, minted <= m, minted' = m, NEW target \in 0 .. m,
         NEW next \in Seq(BlockOf(m)), Distinct(next), NEW touched \in SUBSET (1 .. m),
         turn[a].stage = "idle", ApplyOperation(a, target, next, touched),
         turn[a].tool # "update_page" => Survive({i \in DOMAIN live : live[i].id # target}, next),
         target \in touched => target \in IdsOf(next)
  PROVE  PageInv' /\ PageStep
<1>1. /\ PageInv' /\ OwnEditIsShown /\ pinned' = pinned /\ live' = next
      /\ \A b \in Agents : turn'[b].made > Len(versions) =>
           b = a /\ turn'[b].target = target /\ turn'[b].touched = touched
  BY OperationKeeps
<1>2. OthersStay
  <2> SUFFICES ASSUME NEW b \in Agents, turn'[b].made > Len(versions)
               PROVE  LET t == turn'[b].target
                          kept == IF turn[b].tool = "update_page" THEN {} ELSE {i \in DOMAIN live : live[i].id # t}
                      IN /\ \E place \in [kept -> DOMAIN live'] :
                              \A i, k \in kept : live'[place[i]] = live[i] /\ (i < k => place[i] < place[k])
                         /\ t \in turn'[b].touched => t \in IdsOf(live')
    BY DEF OthersStay
  <2>0. b = a /\ turn'[b].target = target /\ turn'[b].touched = touched
    BY <1>1
  <2> HIDE DEF live
  <2>1. CASE turn[a].tool = "update_page"
    <3>1. [i \in {} |-> 0] \in [{} -> DOMAIN live']
      OBVIOUS
    <3> QED BY <1>1, <2>0, <2>1, <3>1
  <2>2. CASE turn[a].tool # "update_page"
    BY <1>1, <2>0, <2>2 DEF Survive
  <2> QED BY <2>1, <2>2
<1> QED BY <1>1, <1>2 DEF PageStep

LEMMA UpdatePageKeeps ==
  ASSUME PageInv, NEW a \in Agents, NEW w \in Written, UpdatePage(a, w) PROVE PageInv' /\ PageStep
<1> DEFINE new == MDToBlocks(w)
          m == minted + Len(w)
<1>1. w \in Seq(Said) /\ minted \in Nat
  BY PageAssumption DEF Said, PageInv, PageTypes
<1>2. /\ new \in Seq(BlockOf(m)) /\ Len(new) = Len(w) /\ Distinct(new) /\ IdsOf(new) \subseteq 1 .. m
      /\ m \in Nat /\ minted <= m
  BY <1>1, MintedIs
<1>3. turn[a].stage = "idle" /\ turn[a].tool = "update_page" /\ minted' = minted + Len(new) /\ ApplyOperation(a, 0, new, IdsOf(new))
  BY DEF UpdatePage, IsAsked, Mint
<1>4. 0 \in 0 .. m /\ 0 \notin IdsOf(new)
  BY <1>2
<1> HIDE DEF new, m
<1>5. minted' = m
  BY <1>2, <1>3 DEF m
<1> QED BY <1>2, <1>3, <1>4, <1>5, OperationIsWhole

\* A splice of the live document.
SplicedWell(next, m, at, new, target) ==
  /\ next \in Seq(BlockOf(m)) /\ Distinct(next)
  /\ \A i \in DOMAIN new : at + i \in DOMAIN next /\ next[at + i] = new[i]
  /\ Survive({i \in DOMAIN live : live[i].id # target}, next)

LEMMA LiveSpliced ==
  ASSUME PageInv, NEW m \in Nat, minted <= m, NEW new \in Seq(BlockOf(m)), Distinct(new),
         NEW at \in 0 .. Len(live), NEW gone \in {0, 1}, at + gone <= Len(live), NEW target \in 0 .. m,
         \A i \in DOMAIN new : new[i].id > minted \/ (gone = 1 /\ new[i].id = live[at + 1].id),
         gone = 1 => live[at + 1].id = target
  PROVE  SplicedWell(Splice(live, at, gone, new), m, at, new, target)
<1> DEFINE next == Splice(live, at, gone, new)
          kept == {i \in DOMAIN live : live[i].id # target}
<1>1. minted \in Nat /\ live \in Seq(BlockOf(minted)) /\ Distinct(live)
  BY LiveIs DEF PageInv, PageTypes
<1> HIDE DEF live
<1>0. next \in Seq(BlockOf(m)) /\ Distinct(next) /\ Blends(next, live, at, gone, new)
  BY <1>1, SpliceKeeps
<1>2. /\ \A i \in DOMAIN new : at + i \in DOMAIN next /\ next[at + i] = new[i]
      /\ \A k \in SUBSET DOMAIN live : (gone = 1 => at + 1 \notin k) =>
           \E place \in [k -> DOMAIN next] :
             \A i, j \in k : next[place[i]] = live[i] /\ (i < j => place[i] < place[j])
  BY <1>0 DEF Blends
<1> HIDE DEF next
<1>3. kept \in SUBSET DOMAIN live /\ (gone = 1 => at + 1 \notin kept)
  OBVIOUS
<1> HIDE DEF kept
<1>4. Survive(kept, next)
  BY <1>2, <1>3 DEF Survive
<1> QED BY <1>0, <1>2, <1>4 DEF SplicedWell, next, kept

LEMMA UpdateBlockKeeps ==
  ASSUME PageInv, NEW a \in Agents, NEW w \in Written, NEW id \in IdsOf(live), UpdateBlock(a, id, w) PROVE PageInv' /\ PageStep
<1> DEFINE new == WithFirstBlockID(MDToBlocks(w), id)
          m == minted + Len(w)
          at == At(live, id) - 1
          next == Splice(live, at, 1, new)
<1>1. w \in Seq(Said) /\ minted \in Nat /\ id \in 1 .. minted
  BY PageAssumption, LiveIs DEF Said, PageInv, PageTypes
<1>2. /\ new \in Seq(BlockOf(m)) /\ Len(new) = Len(w) /\ DOMAIN new = 1 .. Len(w) /\ Distinct(new) /\ IdsOf(new) \subseteq 1 .. m
      /\ \A i \in 1 .. Len(w) : new[i].id > minted \/ new[i].id = id
      /\ id \in IdsOf(new) => Len(w) > 0 /\ new[1].id = id
  BY <1>1, FirstIdIs
<1>3. m \in Nat /\ minted <= m /\ id \in 0 .. m /\ Len(w) \in Nat
  BY <1>1
<1>4. /\ turn[a].stage = "idle" /\ turn[a].tool = "update_block" /\ minted' = minted + Len(new)
      /\ ApplyOperation(a, id, next, IdsOf(new))
  BY DEF UpdateBlock, IsAsked, Mint
<1>5. at \in 0 .. Len(live) /\ at + 1 <= Len(live) /\ live[at + 1].id = id
  <2>1. At(live, id) \in DOMAIN live /\ live[At(live, id)].id = id /\ DOMAIN live = 1 .. Len(live) /\ Len(live) \in Nat
    BY AtIs, LiveIs
  <2>2. at + 1 = At(live, id)
    BY <2>1
  <2> QED BY <2>1, <2>2
<1> HIDE DEF new, m, at, live
<1>6. minted' = m
  BY <1>2, <1>4 DEF m
<1>9. SplicedWell(next, m, at, new, id)
  BY <1>2, <1>3, <1>5, LiveSpliced
<1>7. /\ next \in Seq(BlockOf(m)) /\ Distinct(next)
      /\ \A i \in DOMAIN new : at + i \in DOMAIN next /\ next[at + i] = new[i]
      /\ Survive({i \in DOMAIN live : live[i].id # id}, next)
  BY <1>9 DEF SplicedWell
<1> HIDE DEF next
<1>8. id \in IdsOf(new) => id \in IdsOf(next)
  <2> SUFFICES ASSUME id \in IdsOf(new) PROVE id \in IdsOf(next)
    OBVIOUS
  <2>1. 1 \in DOMAIN new /\ new[1].id = id
    BY <1>2, <1>3
  <2> QED BY <1>7, <2>1 DEF IdsOf
<1> QED BY <1>2, <1>3, <1>4, <1>6, <1>7, <1>8, OperationIsWhole

LEMMA InsertKeeps ==
  ASSUME PageInv, NEW a \in Agents, NEW w \in Written, NEW at \in InsertPositions, InsertBlocks(a, at, w) PROVE PageInv' /\ PageStep
<1> DEFINE new == MDToBlocks(w)
          m == minted + Len(w)
          next == Splice(live, at, 0, new)
<1>1. w \in Seq(Said) /\ minted \in Nat
  BY PageAssumption DEF Said, PageInv, PageTypes
<1>2. /\ new \in Seq(BlockOf(m)) /\ Len(new) = Len(w) /\ DOMAIN new = 1 .. Len(w) /\ Distinct(new) /\ IdsOf(new) \subseteq 1 .. m
      /\ \A i \in 1 .. Len(w) : new[i].id = minted + i
  BY <1>1, MintedIs
<1>3. m \in Nat /\ minted <= m /\ 0 \in 0 .. m /\ 0 \notin IdsOf(new) /\ Len(w) \in Nat
  BY <1>1, <1>2
<1>4. /\ turn[a].stage = "idle" /\ minted' = minted + Len(new)
      /\ ApplyOperation(a, 0, next, IdsOf(new))
  BY DEF InsertBlocks, IsAsked, Mint
<1>5. at \in 0 .. Len(live) /\ at + 0 <= Len(live)
  <2>1. \A id \in IdsOf(live) : At(live, id) \in DOMAIN live
    BY AtIs
  <2>2. DOMAIN live = 1 .. Len(live) /\ Len(live) \in Nat
    BY LiveIs
  <2> HIDE DEF live
  <2>3. at \in {0, Len(live)} \/ \E p \in DOMAIN live : at = p \/ at = p - 1
    BY <2>1 DEF InsertPositions
  <2> QED BY <2>2, <2>3
<1> HIDE DEF new, m
<1>6. minted' = m
  BY <1>2, <1>4 DEF m
<1>7. \A i \in DOMAIN new : new[i].id > minted
  BY <1>1, <1>2
<1>8. next \in Seq(BlockOf(m)) /\ Distinct(next) /\ Survive({i \in DOMAIN live : live[i].id # 0}, next)
  <2> HIDE DEF live
  <2>1. SplicedWell(next, m, at, new, 0)
    BY <1>2, <1>3, <1>5, <1>7, LiveSpliced
  <2> QED BY <2>1 DEF SplicedWell
<1> HIDE DEF next
<1> QED BY <1>2, <1>3, <1>4, <1>6, <1>8, OperationIsWhole

LEMMA NothingIs ==
  ASSUME NEW m \in Nat
  PROVE  <<>> \in Seq(BlockOf(m)) /\ Distinct(<<>>) /\ DOMAIN <<>> = {}
BY DEF Distinct

\* A block is taken out.
LEMMA TakenOut ==
  ASSUME PageInv, NEW id \in IdsOf(live)
  PROVE  LET next == Splice(live, At(live, id) - 1, 1, <<>>)
         IN /\ next \in Seq(BlockOf(minted)) /\ Distinct(next) /\ Survive({i \in DOMAIN live : live[i].id # id}, next)
<1> DEFINE at == At(live, id) - 1
          next == Splice(live, at, 1, <<>>)
<1>1. minted \in Nat /\ id \in 0 .. minted
  BY LiveIs DEF PageInv, PageTypes
<1>2. at \in 0 .. Len(live) /\ at + 1 <= Len(live) /\ live[at + 1].id = id
  <2>1. At(live, id) \in DOMAIN live /\ live[At(live, id)].id = id /\ DOMAIN live = 1 .. Len(live) /\ Len(live) \in Nat
    BY AtIs, LiveIs
  <2>2. at + 1 = At(live, id)
    BY <2>1
  <2> QED BY <2>1, <2>2
<1>3. <<>> \in Seq(BlockOf(minted)) /\ Distinct(<<>>) /\ DOMAIN <<>> = {}
  BY <1>1, NothingIs
<1> HIDE DEF at, live
<1>4. SplicedWell(next, minted, at, <<>>, id)
  <2> DEFINE none == <<>>
             one == 1
  <2>1. none \in Seq(BlockOf(minted)) /\ Distinct(none) /\ one = 1 /\ one \in {0, 1}
    BY <1>3
  <2>2. \A i \in DOMAIN none : none[i].id > minted \/ (one = 1 /\ none[i].id = live[at + 1].id)
    BY <1>3
  <2>3. minted <= minted /\ at + one <= Len(live) /\ (one = 1 => live[at + 1].id = id)
    BY <1>1, <1>2
  <2> HIDE DEF none, one
  <2>4. SplicedWell(Splice(live, at, one, none), minted, at, none, id)
    BY <1>1, <1>2, <2>1, <2>2, <2>3, LiveSpliced
  <2> QED BY <2>4 DEF none, one
<1> QED BY <1>4 DEF SplicedWell, at

LEMMA DeleteKeeps ==
  ASSUME PageInv, NEW a \in Agents, NEW id \in IdsOf(live), DeleteBlock(a, id) PROVE PageInv' /\ PageStep
<1> DEFINE next == Splice(live, At(live, id) - 1, 1, <<>>)
<1>1. /\ turn[a].stage = "idle" /\ minted' = minted /\ ApplyOperation(a, id, next, {})
  BY DEF DeleteBlock, IsAsked
<1>2. /\ next \in Seq(BlockOf(minted)) /\ Distinct(next) /\ Survive({i \in DOMAIN live : live[i].id # id}, next)
  BY TakenOut
<1>3. minted \in Nat /\ id \in 0 .. minted /\ minted <= minted /\ {} \in SUBSET (1 .. minted)
  BY LiveIs DEF PageInv, PageTypes
<1> HIDE DEF next
<1> QED BY <1>1, <1>2, <1>3, OperationIsWhole

\* A step that leaves the document as it is.
LEMMA QuietTypes ==
  ASSUME PageInv, UNCHANGED <<versions, minted>>,
         stamped' \subseteq 1 .. minted, pinned' \subseteq Registered,
         turn' \in [Agents -> TurnOf(minted, Len(versions))], SeesOwn',
         posts' \subseteq [kind : {"hashes", "mentions"}, sees : 1 .. Len(versions)],
         typing' \in Nat, tagging' \in Nat, faults' \in Nat,
         hashes' = hashes \/ \E k \in DOMAIN versions : hashes' = HashesIn(versions[k]),
         mentioned' = mentioned \/ \E k \in DOMAIN versions : ReplaceMentions(versions[k])
  PROVE  PageInv'
<1>1. /\ minted \in Nat /\ DOMAIN versions' = DOMAIN versions
      /\ \A k \in DOMAIN versions : versions[k] \in Seq(BlockOf(minted))
  BY DEF PageInv, PageTypes
<1>2. \A k \in DOMAIN versions : /\ HashesIn(versions[k]) \subseteq Shelf \X (1 .. minted)
                                 /\ MentionsIn(versions[k]) \subseteq (Registered \cup {Unknown}) \X (1 .. minted)
  BY <1>1, TagsIn
<1>3. hashes' \subseteq Shelf \X (1 .. minted) /\ \E k \in DOMAIN versions : hashes' = HashesIn(versions[k])
  BY <1>2 DEF PageInv, PageTypes, RowsAreOfOneVersion
<1>4. mentioned' \subseteq Registered \X (1 .. minted) /\ \E k \in DOMAIN versions : mentioned' = MentionsIn(versions[k])
  <2>1. CASE mentioned' = mentioned
    BY <2>1 DEF PageInv, PageTypes, RowsAreOfOneVersion
  <2>2. CASE \E k \in DOMAIN versions : ReplaceMentions(versions[k])
    <3>1. PICK k \in DOMAIN versions : mentioned' = mentioned \/ (mentioned' = MentionsIn(versions[k]) /\ \A e \in MentionsIn(versions[k]) : e[1] # Unknown)
      BY <2>2 DEF ReplaceMentions
    <3>2. CASE mentioned' = MentionsIn(versions[k]) /\ \A e \in MentionsIn(versions[k]) : e[1] # Unknown
      BY <1>2, <3>2
    <3> QED BY <2>1, <3>1, <3>2
  <2> QED BY <2>1, <2>2
<1>5. PageTypes'
  BY <1>3, <1>4 DEF PageInv, PageTypes
<1>6. RowsAreOfOneVersion'
  BY <1>1, <1>3, <1>4 DEF RowsAreOfOneVersion
<1>7. \A k \in DOMAIN versions' : Distinct(versions'[k])
  BY DEF PageInv
<1> QED BY <1>5, <1>6, <1>7 DEF PageInv

\* In a turn that only moves on, the document made is one there already.
LEMMA QuietStep ==
  ASSUME PageInv, \A a \in Agents : turn'[a].made = turn[a].made,
         OwnEditIsShown, pinned' # pinned => tagging' # tagging
  PROVE  PageStep
<1>1. \A a \in Agents : turn[a].made \in 0 .. Len(versions)
  BY DEF PageInv, PageTypes, TurnOf
<1>2. Len(versions) \in Nat
  BY LiveIs
<1>3. \A a \in Agents : ~(turn'[a].made > Len(versions))
  BY <1>1, <1>2
<1>4. OthersStay
  BY <1>3 DEF OthersStay
<1> QED BY <1>4 DEF PageStep

Moved(a, stage) == turn' = [turn EXCEPT ![a] = [turn[a] EXCEPT !.stage = stage]]

LEMMA MovedIs ==
  ASSUME PageInv, NEW a \in Agents, NEW stage \in {"stamp", "stamping", "read", "refs", "mentions", "done"}, Moved(a, stage),
         stage = "refs" => FALSE, stage = "mentions" => turn[a].stage = "refs"
  PROVE  /\ turn' \in [Agents -> TurnOf(minted, Len(versions))] /\ SeesOwn'
         /\ \A b \in Agents : turn'[b].made = turn[b].made
         /\ turn'[a].stage = stage /\ \A b \in Agents : b # a => turn'[b] = turn[b]
<1> DEFINE t == [turn[a] EXCEPT !.stage = stage]
<1>1. turn \in [Agents -> TurnOf(minted, Len(versions))]
  BY DEF PageInv, PageTypes
<1>2. /\ t \in TurnOf(minted, Len(versions)) /\ t.stage = stage
      /\ t.made = turn[a].made /\ t.sees = turn[a].sees
  <2>1. turn[a] \in TurnOf(minted, Len(versions))
    BY <1>1
  <2> QED BY <2>1 DEF TurnOf
<1> HIDE DEF t
<1>3. turn' = [turn EXCEPT ![a] = t]
  BY DEF Moved, t
<1>4. turn' \in [Agents -> TurnOf(minted, Len(versions))] /\ turn'[a] = t /\ \A b \in Agents : b # a => turn'[b] = turn[b]
  BY <1>1, <1>2, <1>3
<1>5. SeesOwn'
  BY <1>2, <1>4 DEF PageInv, SeesOwn
<1> QED BY <1>2, <1>4, <1>5

LEMMA BlockFacts ==
  ASSUME PageInv
  PROVE  /\ stamped \subseteq 1 .. minted /\ pinned \subseteq Registered
         /\ turn \in [Agents -> TurnOf(minted, Len(versions))] /\ SeesOwn
         /\ posts \subseteq [kind : {"hashes", "mentions"}, sees : 1 .. Len(versions)]
         /\ typing \in Nat /\ tagging \in Nat /\ faults \in Nat /\ minted \in Nat
BY DEF PageInv, PageTypes

LEMMA FaultsAre == ASSUME PageInv, Works \/ Fails PROVE faults' \in Nat
BY BlockFacts DEF Works, Fails

LEMMA ReadAttributionKeeps ==
  ASSUME PageInv, NEW a \in Agents, ReadAttribution(a) PROVE PageInv' /\ PageStep
<1> DEFINE s == IF turn[a].touched # {} THEN "stamping" ELSE "read"
          st == (stamped \cap IdsOf(versions[turn[a].made])) \cup turn[a].touched
          t1 == [turn[a] EXCEPT !.stage = s]
          t == [t1 EXCEPT !.stamps = st]
          T == TurnOf(minted, Len(versions))
<1>1. turn' = [turn EXCEPT ![a] = t] /\ UNCHANGED <<versions, minted, stamped, hashes, mentioned, pinned, posts, projected, typing, tagging, faults>>
  BY DEF ReadAttribution
<1>2. turn[a] \in T /\ turn \in [Agents -> T]
  BY BlockFacts
<1>3. s \in {"stamping", "read"} /\ st \in SUBSET (1 .. minted)
  BY <1>2, BlockFacts DEF TurnOf
<1> HIDE DEF s, st
<1>4. t1 \in T /\ t1.stage = s /\ t1.made = turn[a].made
  BY <1>2, <1>3 DEF TurnOf
<1> HIDE DEF t1
<1>5. t \in T /\ t.stage = s /\ t.made = turn[a].made
  BY <1>3, <1>4 DEF TurnOf
<1> HIDE DEF t, T
<1>6. turn' \in [Agents -> T] /\ turn'[a] = t /\ \A b \in Agents : b # a => turn'[b] = turn[b]
  BY <1>1, <1>2, <1>5
<1>7. SeesOwn'
  BY <1>3, <1>5, <1>6, BlockFacts DEF SeesOwn
<1>8. PageInv'
  BY <1>1, <1>6, <1>7, BlockFacts, QuietTypes DEF T
<1>9. OwnEditIsShown
  BY <1>1 DEF OwnEditIsShown
<1> QED BY <1>1, <1>5, <1>6, <1>8, <1>9, QuietStep

LEMMA WriteAttributionKeeps ==
  ASSUME PageInv, NEW a \in Agents, WriteAttribution(a) PROVE PageInv' /\ PageStep
<1>1. /\ Moved(a, "read") /\ UNCHANGED <<versions, minted, hashes, mentioned, pinned, posts, projected, typing, tagging>>
      /\ stamped' = turn[a].stamps \/ stamped' = stamped
  BY DEF WriteAttribution, Moved
<1>2. faults' \in Nat
  BY FaultsAre DEF WriteAttribution
<1>3. turn[a].stamps \subseteq 1 .. minted
  BY BlockFacts DEF TurnOf
<1>4. /\ turn' \in [Agents -> TurnOf(minted, Len(versions))] /\ SeesOwn'
      /\ \A b \in Agents : turn'[b].made = turn[b].made
  BY <1>1, MovedIs
<1>5. PageInv'
  BY <1>1, <1>2, <1>3, <1>4, BlockFacts, QuietTypes
<1>6. OwnEditIsShown
  BY <1>1 DEF OwnEditIsShown
<1> QED BY <1>1, <1>4, <1>5, <1>6, QuietStep

LEMMA LoseAnswerKeeps ==
  ASSUME PageInv, NEW a \in Agents, LoseAnswer(a) PROVE PageInv' /\ PageStep
<1>1. Moved(a, "done") /\ UNCHANGED <<versions, minted, stamped, hashes, mentioned, pinned, posts, projected, typing, tagging>>
  BY DEF LoseAnswer, Moved
<1>2. faults' \in Nat
  BY FaultsAre DEF LoseAnswer
<1>4. /\ turn' \in [Agents -> TurnOf(minted, Len(versions))] /\ SeesOwn'
      /\ \A b \in Agents : turn'[b].made = turn[b].made
  BY <1>1, MovedIs
<1>5. PageInv'
  BY <1>1, <1>2, <1>4, BlockFacts, QuietTypes
<1>6. OwnEditIsShown
  BY <1>1 DEF OwnEditIsShown
<1> QED BY <1>1, <1>4, <1>5, <1>6, QuietStep

LEMMA ReadLiveKeeps ==
  ASSUME PageInv, NEW a \in Agents, ReadLive(a) PROVE PageInv' /\ PageStep
<1> DEFINE t1 == [turn[a] EXCEPT !.stage = "refs"]
          t == [t1 EXCEPT !.sees = Len(versions)]
          T == TurnOf(minted, Len(versions))
<1>1. turn' = [turn EXCEPT ![a] = t] /\ UNCHANGED <<versions, minted, stamped, hashes, mentioned, pinned, posts, projected, typing, tagging, faults>>
  BY DEF ReadLive
<1>2. turn[a] \in T /\ turn \in [Agents -> T] /\ Len(versions) \in 0 .. Len(versions) /\ Len(versions) > 0
  BY BlockFacts, LiveIs DEF PageInv, PageTypes
<1>4. t1 \in T /\ t1.made = turn[a].made
  BY <1>2 DEF TurnOf
<1> HIDE DEF t1
<1>5. t \in T /\ t.made = turn[a].made /\ t.sees = Len(versions) /\ t.made <= Len(versions)
  <2>1. turn[a].made \in 0 .. Len(versions)
    BY <1>2 DEF TurnOf
  <2>2. turn[a].made <= Len(versions)
    BY <2>1
  <2>3. t \in T /\ t.made = t1.made /\ t.sees = Len(versions)
    BY <1>2, <1>4 DEF TurnOf
  <2> QED BY <1>4, <2>2, <2>3
<1> HIDE DEF t, T
<1>6. turn' \in [Agents -> T] /\ turn'[a] = t /\ \A b \in Agents : b # a => turn'[b] = turn[b]
  BY <1>1, <1>2, <1>5
<1>7. SeesOwn'
  BY <1>2, <1>5, <1>6, BlockFacts DEF SeesOwn
<1>8. PageInv'
  BY <1>1, <1>6, <1>7, BlockFacts, QuietTypes DEF T
<1>9. OwnEditIsShown
  BY <1>1 DEF OwnEditIsShown
<1> QED BY <1>1, <1>5, <1>6, <1>8, <1>9, QuietStep

\* The version that a call projects has the call's edit.
LEMMA SeesVersion ==
  ASSUME PageInv, NEW a \in Agents, turn[a].stage \in {"refs", "mentions"}
  PROVE  turn[a].sees \in DOMAIN versions /\ turn[a].sees \in turn[a].made .. Len(versions)
<1>1. turn[a].made <= turn[a].sees /\ turn[a].sees > 0
  BY BlockFacts DEF SeesOwn
<1>2. turn[a].sees \in 0 .. Len(versions) /\ turn[a].made \in 0 .. Len(versions)
  BY BlockFacts DEF TurnOf
<1> QED BY <1>1, <1>2, LiveIs

LEMMA SyncRefsKeeps ==
  ASSUME PageInv, NEW a \in Agents, SyncRefs(a) PROVE PageInv' /\ PageStep
<1>1. /\ turn[a].stage = "refs"
      /\ Moved(a, "mentions") /\ UNCHANGED <<versions, minted, stamped, mentioned, pinned, posts, projected, typing, tagging>>
      /\ hashes' = hashes \/ hashes' = HashesIn(versions[turn[a].sees])
  BY DEF SyncRefs, Moved, ReplaceRefs
<1>2. faults' \in Nat
  BY FaultsAre DEF SyncRefs
<1>3. turn[a].sees \in DOMAIN versions /\ turn[a].sees \in turn[a].made .. Len(versions)
  BY <1>1, SeesVersion
<1>4. /\ turn' \in [Agents -> TurnOf(minted, Len(versions))] /\ SeesOwn'
      /\ \A b \in Agents : turn'[b].made = turn[b].made
      /\ turn'[a].stage = "mentions" /\ \A b \in Agents : b # a => turn'[b] = turn[b]
  BY <1>1, MovedIs
<1>5. PageInv'
  BY <1>1, <1>2, <1>3, <1>4, BlockFacts, QuietTypes
<1>6. OwnEditIsShown
  BY <1>1, <1>3, <1>4 DEF OwnEditIsShown
<1> QED BY <1>1, <1>4, <1>5, <1>6, QuietStep

LEMMA SyncMentionsKeeps ==
  ASSUME PageInv, NEW a \in Agents, SyncMentions(a) PROVE PageInv' /\ PageStep
<1>1. /\ turn[a].stage = "mentions"
      /\ Moved(a, "done") /\ UNCHANGED <<versions, minted, stamped, hashes, pinned, posts, projected, typing, tagging>>
      /\ mentioned' = mentioned \/ ReplaceMentions(versions[turn[a].sees])
  BY DEF SyncMentions, Moved
<1>2. faults' \in Nat
  BY FaultsAre DEF SyncMentions
<1>3. turn[a].sees \in DOMAIN versions /\ turn[a].sees \in turn[a].made .. Len(versions)
  BY <1>1, SeesVersion
<1>4. /\ turn' \in [Agents -> TurnOf(minted, Len(versions))] /\ SeesOwn'
      /\ \A b \in Agents : turn'[b].made = turn[b].made
      /\ turn'[a].stage = "done" /\ \A b \in Agents : b # a => turn'[b] = turn[b]
  BY <1>1, MovedIs
<1>5. PageInv'
  BY <1>1, <1>2, <1>3, <1>4, BlockFacts, QuietTypes
<1>6. mentioned' # mentioned => mentioned' = MentionsIn(versions[turn[a].sees])
  BY <1>1 DEF ReplaceMentions
<1>7. OwnEditIsShown
  BY <1>1, <1>3, <1>4, <1>6 DEF OwnEditIsShown
<1> QED BY <1>1, <1>4, <1>5, <1>7, QuietStep

\* The owner types; nothing of the agents' turns moves.
LEMMA TypeKeeps ==
  ASSUME PageInv, NEW m \in Nat, minted <= m, minted' = m, NEW next \in Seq(BlockOf(m)), Distinct(next), Type(next)
  PROVE  PageInv' /\ PageStep
<1>1. /\ versions' = Append(versions, next) /\ typing' = typing - 1 /\ typing > 0
      /\ UNCHANGED <<stamped, hashes, mentioned, pinned, turn, posts, tagging, faults>>
  BY DEF Type
<1>2. Len(versions) \in Nat /\ Len(versions) <= Len(versions) + 1 /\ Len(versions) + 1 \in Nat /\ typing' \in Nat
  BY <1>1, BlockFacts, LiveIs
<1>3. TurnOf(minted, Len(versions)) \subseteq TurnOf(m, Len(versions) + 1)
  BY <1>2, BlockFacts, TurnsGrow
<1>4. turn' \in [Agents -> TurnOf(m, Len(versions) + 1)] /\ SeesOwn'
  BY <1>1, <1>3, BlockFacts DEF SeesOwn
<1>5. PageInv'
  BY <1>1, <1>2, <1>4, TypesGrow
<1>6. OwnEditIsShown
  BY <1>1 DEF OwnEditIsShown
<1> QED BY <1>1, <1>5, <1>6, QuietStep

LEMMA TypeBlockKeeps ==
  ASSUME PageInv, NEW says \in Shelf \cup Registered \cup {"prose"}, TypeBlock(says) PROVE PageInv' /\ PageStep
<1> DEFINE m == minted + 1
          b == [id |-> minted + 1, says |-> says]
          next == Append(live, b)
<1>1. Type(next) /\ minted' = m
  BY DEF TypeBlock
<1>2. minted \in Nat /\ m \in Nat /\ minted <= m
  BY BlockFacts
<1>3. live \in Seq(BlockOf(minted)) /\ Distinct(live) /\ DOMAIN live = 1 .. Len(live) /\ Len(live) \in Nat
  BY LiveIs
<1>4. b \in BlockOf(m) /\ BlockOf(minted) \subseteq BlockOf(m) /\ b.id = m
  BY <1>2 DEF BlockOf, Said
<1> HIDE DEF live, b
<1>5. live \in Seq(BlockOf(m)) /\ \A i \in DOMAIN live : live[i] \in BlockOf(minted)
  BY <1>3, <1>4
<1>6. /\ next \in Seq(BlockOf(m)) /\ DOMAIN next = 1 .. Len(live) + 1
      /\ \A i \in 1 .. Len(live) : next[i] = live[i]
      /\ next[Len(live) + 1] = b
  <2> HIDE DEF m
  <2> QED BY <1>3, <1>4, <1>5
<1>7. Distinct(next)
  <2>1. \A i \in DOMAIN live : live[i].id \in 1 .. minted
    BY <1>5 DEF BlockOf
  <2> HIDE DEF next
  <2> QED BY <1>2, <1>3, <1>4, <1>6, <2>1 DEF Distinct
<1> HIDE DEF next, m
<1> QED BY <1>1, <1>2, <1>6, <1>7, TypeKeeps

LEMMA DeleteTypedKeeps ==
  ASSUME PageInv, NEW id \in IdsOf(live), DeleteTyped(id) PROVE PageInv' /\ PageStep
<1> DEFINE next == Splice(live, At(live, id) - 1, 1, <<>>)
<1>1. Type(next) /\ minted' = minted
  BY DEF DeleteTyped
<1>2. next \in Seq(BlockOf(minted)) /\ Distinct(next)
  BY TakenOut
<1>3. minted \in Nat /\ minted <= minted
  BY BlockFacts
<1> HIDE DEF next
<1> QED BY <1>1, <1>2, <1>3, TypeKeeps

LEMMA PostKeeps == ASSUME PageInv, PostEdits PROVE PageInv' /\ PageStep
<1>1. /\ UNCHANGED <<versions, minted, stamped, hashes, mentioned, pinned, turn, typing, tagging, faults>>
      /\ \A p \in posts' : p \in posts \/ (\E k \in {"hashes", "mentions"} : p = [kind |-> k, sees |-> Len(versions)])
  BY DEF PostEdits
<1>2. Len(versions) \in 1 .. Len(versions)
  BY LiveIs
<1>3. posts' \subseteq [kind : {"hashes", "mentions"}, sees : 1 .. Len(versions)]
  BY <1>1, <1>2, BlockFacts
<1>4. SeesOwn'
  BY <1>1, BlockFacts DEF SeesOwn
<1>5. PageInv'
  BY <1>1, <1>3, <1>4, BlockFacts, QuietTypes
<1>6. OwnEditIsShown
  BY <1>1 DEF OwnEditIsShown
<1> QED BY <1>1, <1>5, <1>6, QuietStep

LEMMA ArrivesKeeps == ASSUME PageInv, NEW p \in posts, PostArrives(p) PROVE PageInv' /\ PageStep
<1>1. /\ UNCHANGED <<versions, minted, stamped, pinned, turn, projected, typing, tagging>>
      /\ posts' \subseteq posts
      /\ hashes' = hashes \/ hashes' = HashesIn(versions[p.sees])
      /\ mentioned' = mentioned \/ ReplaceMentions(versions[p.sees])
  BY DEF PostArrives, ReplaceRefs
<1>2. p.sees \in DOMAIN versions
  BY BlockFacts, LiveIs
<1>3. faults' \in Nat
  BY FaultsAre DEF PostArrives
<1>4. SeesOwn'
  BY <1>1, BlockFacts DEF SeesOwn
<1>5. PageInv'
  BY <1>1, <1>2, <1>3, <1>4, BlockFacts, QuietTypes
<1>6. OwnEditIsShown
  BY <1>1 DEF OwnEditIsShown
<1> QED BY <1>1, <1>5, <1>6, QuietStep

LEMMA TagKeeps == ASSUME PageInv, NEW e \in Registered, AttachTag(e) \/ DetachTag(e) PROVE PageInv' /\ PageStep
<1>1. /\ UNCHANGED <<versions, minted, stamped, hashes, mentioned, turn, posts, projected, typing, faults>>
      /\ tagging' = tagging - 1 /\ tagging > 0 /\ pinned' \subseteq pinned \cup {e}
  BY DEF AttachTag, DetachTag, Tagging
<1>2. pinned' \subseteq Registered /\ tagging' \in Nat /\ tagging' # tagging
  BY <1>1, BlockFacts
<1>4. SeesOwn'
  BY <1>1, BlockFacts DEF SeesOwn
<1>5. PageInv'
  BY <1>1, <1>2, <1>4, BlockFacts, QuietTypes
<1>6. OwnEditIsShown
  BY <1>1 DEF OwnEditIsShown
<1> QED BY <1>1, <1>2, <1>5, <1>6, QuietStep

LEMMA PageNextKeeps == ASSUME PageInv, PageNext PROVE PageInv' /\ PageStep
<1>1. CASE \E a \in Agents : AgentStep(a)
  <2>1. PICK a \in Agents : AgentStep(a)
    BY <1>1
  <2>2. CASE \E w \in Written : UpdatePage(a, w) \/ \E id \in IdsOf(live) : UpdateBlock(a, id, w)
    BY <2>2, UpdatePageKeeps, UpdateBlockKeeps
  <2>3. CASE \E w \in Written, at \in InsertPositions : InsertBlocks(a, at, w)
    BY <2>3, InsertKeeps
  <2>4. CASE \E id \in IdsOf(live) : DeleteBlock(a, id)
    BY <2>4, DeleteKeeps
  <2>5. CASE ReadAttribution(a) \/ WriteAttribution(a) \/ LoseAnswer(a) \/ ReadLive(a) \/ SyncRefs(a) \/ SyncMentions(a)
    BY <2>5, ReadAttributionKeeps, WriteAttributionKeeps, LoseAnswerKeeps, ReadLiveKeeps, SyncRefsKeeps, SyncMentionsKeeps
  <2> QED BY <2>1, <2>2, <2>3, <2>4, <2>5 DEF AgentStep
<1>2. CASE \E s \in Shelf \cup Registered \cup {"prose"} : TypeBlock(s)
  BY <1>2, TypeBlockKeeps
<1>3. CASE \E id \in IdsOf(live) : DeleteTyped(id)
  BY <1>3, DeleteTypedKeeps
<1>4. CASE PostEdits
  BY <1>4, PostKeeps
<1>5. CASE \E p \in posts : PostArrives(p)
  BY <1>5, ArrivesKeeps
<1>6. CASE \E e \in Registered : AttachTag(e) \/ DetachTag(e)
  BY <1>6, TagKeeps
<1> QED BY <1>1, <1>2, <1>3, <1>4, <1>5, <1>6 DEF PageNext

LEMMA PageStutters == ASSUME PageInv, UNCHANGED pageVars PROVE PageInv'
<1>1. /\ UNCHANGED <<versions, minted, stamped, hashes, mentioned, pinned, turn, posts, typing, tagging, faults>>
  BY DEF pageVars
<1>2. SeesOwn'
  BY <1>1, BlockFacts DEF SeesOwn
<1> QED BY <1>1, <1>2, BlockFacts, QuietTypes

LEMMA PageInitInv == PageInit => PageInv
<1> SUFFICES ASSUME PageInit PROVE PageInv
  OBVIOUS
<1>1. versions = << <<>> >> /\ minted = 0 /\ stamped = {} /\ hashes = {} /\ mentioned = {} /\ pinned = {} /\ posts = {}
  BY DEF PageInit
<1>2. PICK s \in Scenes : /\ turn = [a \in Agents |-> NoTurn(s.tools[a])]
                          /\ typing = s.typing /\ tagging = s.tagging /\ faults = s.faults
  BY DEF PageInit
<1>3. typing \in Nat /\ tagging \in Nat /\ faults \in Nat
  BY <1>2, PageAssumption
<1>4. /\ <<>> \in Seq(BlockOf(0)) /\ DOMAIN versions = {1} /\ versions[1] = <<>> /\ Len(versions) = 1
      /\ versions \in Seq(Seq(BlockOf(0)))
  <2>1. <<>> \in Seq(BlockOf(0))
    OBVIOUS
  <2> DEFINE e == <<>>
             S == Seq(BlockOf(0))
  <2>2. e \in S /\ versions = <<e>>
    BY <1>1, <2>1
  <2> HIDE DEF e, S
  <2>3. versions \in Seq(S) /\ DOMAIN versions = {1} /\ versions[1] = e /\ Len(versions) = 1
    BY <2>2
  <2> QED BY <2>1, <2>3 DEF e, S
<1>5. turn \in [Agents -> TurnOf(0, 1)] /\ SeesOwn
  <2>1. s.tools \in [Agents -> {"update_page", "update_block", "insert_blocks", "delete_block", "none"}]
    BY <1>2, PageAssumption
  <2>2. \A a \in Agents : NoTurn(s.tools[a]) \in TurnOf(0, 1) /\ NoTurn(s.tools[a]).stage = "idle"
    BY <2>1 DEF NoTurn, TurnOf
  <2> QED BY <1>2, <2>2 DEF SeesOwn
<1>6. HashesIn(<<>>) = {} /\ MentionsIn(<<>>) = {}
  BY DEF HashesIn, MentionsIn, Range
<1>7. RowsAreOfOneVersion
  BY <1>1, <1>4, <1>6 DEF RowsAreOfOneVersion
<1>8. \A k \in DOMAIN versions : Distinct(versions[k])
  BY <1>4 DEF Distinct
<1>9. PageTypes
  BY <1>1, <1>3, <1>4, <1>5 DEF PageTypes
<1> QED BY <1>5, <1>7, <1>8, <1>9 DEF PageInv

LEMMA PageInvGives == ASSUME PageInv PROVE PageTypeOK /\ IdsNameOneBlock
<1>1. \A k \in DOMAIN versions : versions[k] \in Seq(BlockOf(minted))
  BY DEF PageInv, PageTypes
<1>2. \A k \in DOMAIN versions : \A b \in Range(versions[k]) : b \in BlockOf(minted)
  <2> SUFFICES ASSUME NEW k \in DOMAIN versions, NEW i \in DOMAIN versions[k] PROVE versions[k][i] \in BlockOf(minted)
    BY DEF Range
  <2> QED BY <1>1
<1>3. \A a \in Agents : turn[a].made <= Len(versions) /\ turn[a].sees <= Len(versions)
  BY BlockFacts, LiveIs DEF TurnOf
<1>4. \A p \in posts : p.sees \in DOMAIN versions
  BY BlockFacts, LiveIs
<1>5. PageTypeOK
  BY <1>2, <1>3, <1>4 DEF PageTypeOK, PageInv, PageTypes, BlockOf, Said
<1>6. IdsNameOneBlock
  <2> SUFFICES ASSUME NEW k \in DOMAIN versions PROVE IsInjective([i \in DOMAIN versions[k] |-> versions[k][i].id])
    BY DEF IdsNameOneBlock
  <2>1. Distinct(versions[k])
    BY DEF PageInv
  <2> QED BY <2>1 DEF Distinct, IsInjective
<1> QED BY <1>5, <1>6

(* Blocks, attribution, rows, turns and posts keep their types, for any tools, typing and
   number of agents. *)
THEOREM PageTypeCorrect == PageSpec => []PageTypeOK
<1>1. PageInv /\ [PageNext]_pageVars => PageInv'
  BY PageNextKeeps, PageStutters
<1>2. PageInv => PageTypeOK
  BY PageInvGives
<1> QED BY <1>1, <1>2, PageInitInv, PTL DEF PageSpec

(* An id names one block for good; an operation leaves the blocks it does not name as they
   were and in their order; rows are those of one version, and a call's own projection shows
   its edit; the owner's tags are the owner's (collab.js, projectPage in tools.go). *)
THEOREM EditsAreKept == PageSpec => PageEditsHold
<1>1. PageInv /\ [PageNext]_pageVars => PageInv'
  BY PageNextKeeps, PageStutters
<1>2. PageInv /\ [PageNext]_pageVars =>
        [ /\ IdsNameOneBlock' /\ RowsAreOfOneVersion'
          /\ OthersStay /\ OwnEditIsShown
          /\ pinned' # pinned => tagging' # tagging ]_pageVars
  <2> SUFFICES ASSUME PageInv, PageNext
               PROVE  /\ IdsNameOneBlock' /\ RowsAreOfOneVersion'
                      /\ OthersStay /\ OwnEditIsShown
                      /\ pinned' # pinned => tagging' # tagging
    OBVIOUS
  <2>1. PageInv' /\ PageStep
    BY PageNextKeeps
  <2>2. IdsNameOneBlock'
    BY <2>1, PageInvGives, PTL
  <2> QED BY <2>1, <2>2 DEF PageInv, PageStep
<1> QED BY <1>1, <1>2, PageInitInv, PTL DEF PageSpec, PageEditsHold

-----------------------------------------------------------------------------
(* The components side by side. *)

\* A behaviour of the composition is a behaviour of each component.
LEMMA WorkspaceComposes ==
  WorkspaceSpec => /\ ResourceSpec /\ TreeSpec /\ CredentialSpec /\ ConnectionSpec
                   /\ IngestSpec /\ PageSpec /\ ListSpec /\ QuerySpec
<1>1. WorkspaceInit => /\ ResourceInit /\ TreeInit /\ CredentialInit /\ ConnectionInit
                       /\ IngestInit /\ PageInit /\ ListInit /\ QueryInit
  BY DEF WorkspaceInit
<1> DEFINE all == <<part, resourceVars, treeVars, credentialVars, connectionVars, ingestVars, pageVars, listVars, queryVars>>
<1>2. [WorkspaceNext]_all
        => /\ [ResourceNext]_resourceVars /\ [TreeNext]_treeVars /\ [CredentialNext]_credentialVars
           /\ [ConnectionNext]_connectionVars /\ [IngestNext]_ingestVars /\ [PageNext]_pageVars
           /\ [ListNext]_listVars /\ [QueryNext]_queryVars
  BY DEF WorkspaceNext
<1> QED BY <1>1, <1>2, PTL DEF WorkspaceSpec, ResourceSpec, TreeSpec, CredentialSpec, ConnectionSpec, IngestSpec,
                               PageSpec, ListSpec, QuerySpec

\* The types the run checks, of everything users keep on the server.
THEOREM WorkspaceTypeCorrect == WorkspaceSpec => []WorkspaceTypeOK
<1>1. ResourceTypeOK /\ TreeTypeOK /\ CredentialTypeOK /\ ConnectionTypeOK /\ IngestTypeOK /\ PageTypeOK /\ ListTypeOK /\ QueryTypeOK
        => WorkspaceTypeOK
  BY DEF WorkspaceTypeOK
<1> QED BY <1>1, WorkspaceComposes, ResourceTypeCorrect, TreeTypeCorrect, CredentialTypeCorrect, ConnectionTypeCorrect,
           IngestTypeCorrect, PageTypeCorrect, ListTypeCorrect, QueryTypeCorrect, PTL
=============================================================================

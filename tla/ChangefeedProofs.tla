-------------------------- MODULE ChangefeedProofs --------------------------
(* The drain publishes in order and leaves nothing behind, for every number *)
(* of tenants, entities and transactions, every batch limit, and any number *)
(* of failed reads, failed publications, restarts and prunes.               *)
EXTENDS Changefeed, OutboxLogProofs

(* The inductive invariant.  Every place the drain remembers is at or below *)
(* the horizon, where no row can appear any more ...                        *)
FeedBound ==
  /\ drain.cursor <= Horizon /\ drain.h <= Horizon /\ drain.next <= Horizon
  /\ \A s \in published : s.xid < Horizon
  /\ drain.pc = "select" => drain.cursor <= drain.h

(* ... and what was published is at or below what will be published next.   *)
FeedOrder ==
  /\ drain.pc \in {"tick", "select"} => \A s \in published : s.xid <= drain.cursor
  /\ drain.pc = "publish" =>
       /\ \A s \in published : s.xid <= drain.next
       /\ \A r \in drain.batch : r.xid < drain.next
       /\ \A r \in drain.batch, s \in published : s.xid <= r.xid

FeedInv == LogInv /\ FeedTypeOK /\ FeedBound /\ FeedOrder

(* A batch boundary between two rows of one transaction is the one place    *)
(* where the drain can leave a row behind: UpdateArtifactGraph with a move   *)
(* appends two rows in one transaction, every other operation one.          *)
OneRowPerXid == \A r, s \in log : r.xid = s.xid => r = s

(* While it publishes, the rows below the place it will resume at are        *)
(* published or still in the batch.                                          *)
FeedCovers ==
  /\ DrainCovers
  /\ drain.pc = "publish" =>
       \A r \in rows : seed <= r.xid /\ r.xid < drain.next
                         => r \in published \cup drain.batch

---------------------------------------------------------------------------
(* Preservation, one lemma per kind of step. *)

LEMMA FeedFacts ==
  ASSUME FeedInv
  PROVE  /\ Horizon \in Nat \ {0}
         /\ drain \in DrainState /\ seed \in Nat
         /\ published \in SUBSET Row /\ rows \in SUBSET Row
         /\ drain.batch \in SUBSET Row
         /\ drain.cursor \in Nat /\ drain.h \in Nat /\ drain.next \in Nat
         /\ left \in [{"prune", "error", "restart"} -> Nat]
BY HorizonIsLeast DEF FeedInv, LogInv, LogTypeOK, LogIds, FeedTypeOK, DrainState

LEMMA TakeType ==
  ASSUME left \in [{"prune", "error", "restart"} -> Nat],
         NEW d \in {"prune", "error", "restart"}, Take(d)
  PROVE  left' \in [{"prune", "error", "restart"} -> Nat]
<1>1. left[d] \in Nat /\ left[d] > 0
  BY DEF Take
<1>2. left[d] - 1 \in Nat
  BY <1>1
<1>3. left' = [left EXCEPT ![d] = left[d] - 1]
  BY DEF Take
<1> QED BY <1>2, <1>3

LEMMA FeedInitInv == Init => FeedInv /\ FeedCovers
<1> SUFFICES ASSUME Init PROVE FeedInv /\ FeedCovers
  OBVIOUS
<1>1. LogInv
  BY LogInitInv DEF Init
<1>2. Boot \in DrainState
  BY DEF Boot, DrainState
<1>3. FeedTypeOK
  BY <1>1, <1>2, ChangefeedAssumption DEF ChangefeedAssumption, Init, LogInv, FeedTypeOK
<1>4. Horizon \in Nat \ {0}
  BY <1>1, HorizonIsLeast DEF LogInv, LogTypeOK, LogIds
<1>5. FeedBound /\ FeedOrder
  BY <1>4 DEF Init, Boot, FeedBound, FeedOrder
<1>6. FeedCovers
  BY DEF Init, LogInit, FeedCovers, DrainCovers
<1> QED BY <1>1, <1>3, <1>5, <1>6 DEF FeedInv

(* A step of the log: nothing it makes visible is behind the drain.         *)
LEMMA FeedLogStep ==
  ASSUME FeedInv, LogNext, UNCHANGED <<drain, seed, published>>,
         left' \in [{"prune", "error", "restart"} -> Nat]
  PROVE  FeedInv' /\ (FeedCovers => FeedCovers')
<1>1. /\ LogInv' /\ Horizon' >= Horizon
      /\ \A r \in log' \ log : r.xid >= Horizon
  BY LogNextInv, GapFreeStep DEF FeedInv
<1>2. Horizon \in Nat /\ Horizon' \in Nat
  BY HorizonIsLeast, HorizonAfter DEF FeedInv, LogInv, LogTypeOK, LogIds
<1>3. FeedTypeOK'
  BY <1>1 DEF FeedInv, LogInv, FeedTypeOK
<1>4. FeedBound'
  <2>1. ASSUME NEW k \in Nat, k <= Horizon PROVE k <= Horizon'
    BY <1>1, <1>2, <2>1
  <2>2. ASSUME NEW k \in Nat, k < Horizon PROVE k < Horizon'
    BY <1>1, <1>2, <2>2
  <2>3. \A s \in published : s.xid \in Nat
    BY FeedFacts DEF Row
  <2> QED BY <2>1, <2>2, <2>3, FeedFacts DEF FeedInv, FeedBound
<1>5. FeedOrder'
  BY DEF FeedInv, FeedOrder
<1>6. ASSUME NEW r \in rows', NEW k \in Nat, k <= Horizon, r.xid < k
      PROVE  r \in rows
  <2>1. r \in Row /\ r.xid \in Nat
    BY <1>1 DEF LogInv, LogTypeOK, Row
  <2>2. rows' \subseteq rows \/ \E t \in running : Commit(t)
    BY DEF LogNext, Write, BeginUserTx, BeginOtherTx, Prune
  <2>3. ASSUME NEW t \in running, Commit(t)
        PROVE  r \in rows
    <3>1. PICK R : Ends(t, R)
      BY <2>3, CommitEnds DEF FeedInv, LogInv
    <3>2. t.xid >= Horizon /\ t.xid \in Nat
      BY HorizonIsLeast DEF FeedInv, LogInv, LogTypeOK, LogIds, Txn
    <3>3. r \in rows \/ r.xid = t.xid
      BY <3>1 DEF Ends
    <3> QED BY <1>2, <1>6, <2>1, <3>2, <3>3
  <2> QED BY <2>2, <2>3
<1>7. ASSUME FeedCovers PROVE FeedCovers'
  <2>1. DrainCovers'
    BY <1>6, <1>7, FeedFacts DEF FeedInv, FeedBound, FeedCovers, DrainCovers
  <2>2. ASSUME drain.pc = "publish", NEW r \in rows', seed <= r.xid, r.xid < drain.next
        PROVE  r \in published \cup drain.batch
    <3>1. r \in rows
      BY <1>6, <2>2, FeedFacts DEF FeedInv, FeedBound
    <3> QED BY <1>7, <2>2, <3>1 DEF FeedCovers
  <2> QED BY <2>1, <2>2 DEF FeedCovers
<1> QED BY <1>1, <1>3, <1>4, <1>5, <1>7 DEF FeedInv

(* What a step of the drain has to establish: the log does not move. *)
LEMMA FeedStep ==
  ASSUME FeedInv, UNCHANGED logVars,
         NEW d \in DrainState, drain' = d,
         d.cursor <= Horizon, d.h <= Horizon, d.next <= Horizon,
         d.pc = "select" => d.cursor <= d.h,
         published' \in SUBSET Row, \A s \in published' : s.xid < Horizon,
         FeedOrder', seed' \in Nat,
         left' \in [{"prune", "error", "restart"} -> Nat]
  PROVE  FeedInv'
<1>1. LogInv'
  BY DEF FeedInv, logVars, LogInv, LogTypeOK, LogIds, LogLocks, LogSeqs, XidOrderIsSeqOrder
<1>2. Horizon' = Horizon
  BY DEF logVars, Horizon
<1>3. FeedTypeOK'
  BY <1>1 DEF LogInv, FeedTypeOK
<1>4. FeedBound'
  BY <1>2 DEF FeedBound
<1> QED BY <1>1, <1>3, <1>4 DEF FeedInv

LEMMA SeedInv ==
  ASSUME FeedInv, Seed
  PROVE  FeedInv' /\ FeedCovers'
<1> DEFINE d == [drain EXCEPT !.pc = "tick", !.cursor = Horizon]
<1>1. /\ Horizon \in Nat /\ seed' = Horizon /\ drain' = d /\ UNCHANGED <<logVars, published, left>>
  BY FeedFacts DEF Seed
<1>2. /\ d \in DrainState /\ d.pc = "tick" /\ d.cursor = Horizon
      /\ d.h = drain.h /\ d.next = drain.next
  BY <1>1, FeedFacts DEF DrainState
<1>3. \A s \in published : s.xid \in Nat /\ s.xid < Horizon
  BY FeedFacts DEF FeedInv, FeedBound, Row
<1> HIDE DEF d
<1>4. FeedOrder'
  BY <1>1, <1>2, <1>3 DEF FeedOrder
<1>5. FeedInv'
  BY <1>1, <1>2, <1>3, <1>4, FeedFacts, FeedStep DEF FeedInv, FeedBound
<1>6. FeedCovers'
  \* nothing lies between the seed and the cursor
  <2>1. \A r \in rows : r.xid \in Nat
    BY FeedFacts DEF Row
  <2> QED BY <1>1, <1>2, <2>1 DEF logVars, FeedCovers, DrainCovers
<1> QED BY <1>5, <1>6

LEMMA ReadHorizonInv ==
  ASSUME FeedInv, ReadHorizon
  PROVE  FeedInv' /\ (FeedCovers => FeedCovers')
<1> DEFINE d == [drain EXCEPT !.pc = "select", !.h = Horizon]
<1>1. /\ Horizon \in Nat /\ drain' = d /\ UNCHANGED <<logVars, seed, published, left>>
  BY FeedFacts DEF ReadHorizon
<1>2. /\ d \in DrainState /\ d.pc = "select" /\ d.cursor = drain.cursor
      /\ d.h = Horizon /\ d.next = drain.next
  BY <1>1, FeedFacts DEF DrainState
<1> HIDE DEF d
<1>3. FeedOrder'
  BY <1>1, <1>2 DEF FeedInv, FeedOrder, ReadHorizon
<1>4. FeedInv'
  BY <1>1, <1>2, <1>3, FeedFacts, FeedStep DEF FeedInv, FeedBound
<1>5. FeedCovers => FeedCovers'
  BY <1>1, <1>2 DEF logVars, FeedCovers, DrainCovers
<1> QED BY <1>4, <1>5

LEMMA SelectBatchInv ==
  ASSUME FeedInv, SelectBatch
  PROVE  FeedInv' /\ (FeedCovers /\ OneRowPerXid => FeedCovers')
<1> DEFINE W == Within(rows, drain.cursor, drain.h)
<1>1. PICK B \in SUBSET W :
        /\ drain.pc = "select" /\ Batch(B, W)
        /\ drain' = [drain EXCEPT !.pc = "publish", !.batch = B, !.next = NextCursor(B, drain.h)]
        /\ UNCHANGED <<logVars, seed, published, left>>
  BY DEF SelectBatch
<1> DEFINE next == NextCursor(B, drain.h)
           d == [drain EXCEPT !.pc = "publish", !.batch = B, !.next = next]
<1>2. /\ next \in Nat /\ next <= drain.h /\ drain.cursor <= next
      /\ \A r \in B : r.xid < next
  BY <1>1, FeedFacts, NextCursorBound DEF FeedInv, FeedBound
<1>3. /\ W \in SUBSET Row /\ B \in SUBSET Row /\ IsFiniteSet(W)
      /\ \A r \in W : r \in rows /\ drain.cursor <= r.xid /\ r.xid < drain.h
  BY FeedFacts, FS_Subset DEF Within, FeedInv, LogInv
<1>4. ASSUME FeedCovers, OneRowPerXid,
             NEW r \in rows, seed <= r.xid, r.xid < next
      PROVE  r \in published \cup B
  <2>1. r.xid \in Nat
    BY FeedFacts DEF Row
  <2>2. CASE r.xid < drain.cursor
    BY <1>4, <2>2 DEF FeedCovers, DrainCovers
  <2>3. CASE r \in W \ B
    <3>1. PICK b \in B : b.xid = r.xid
      BY <1>1, <1>3, <1>4, <2>3, FeedFacts, BatchCovers
    <3>2. b \in log /\ r \in log
      BY <1>3 DEF FeedInv, LogInv, LogIds
    <3> QED BY <1>4, <2>3, <3>1, <3>2 DEF OneRowPerXid
  <2>4. r.xid < drain.cursor \/ r \in W
    BY <1>2, <1>4, <2>1, FeedFacts DEF Within
  <2> QED BY <2>2, <2>3, <2>4
<1> HIDE DEF W, next
<1>5. /\ d \in DrainState /\ d.pc = "publish" /\ d.cursor = drain.cursor
      /\ d.h = drain.h /\ d.next = next /\ d.batch = B /\ drain' = d
  BY <1>1, <1>2, <1>3, FeedFacts DEF DrainState, next
<1> HIDE DEF d
<1>6. \A s \in published : s.xid \in Nat /\ s.xid <= drain.cursor
  BY <1>1, FeedFacts DEF FeedInv, FeedOrder, Row
<1>7. FeedOrder'
  <2>1. \A s \in published : s.xid <= next
    BY <1>2, <1>6, FeedFacts
  <2>2. \A r \in B : r.xid \in Nat
    BY <1>3 DEF Row
  <2>3. \A r \in B, s \in published : s.xid <= r.xid
    BY <1>3, <1>6, <2>2, FeedFacts
  <2> QED BY <1>1, <1>2, <1>5, <2>1, <2>3 DEF FeedOrder
<1>8. FeedInv'
  <2>1. next <= Horizon
    BY <1>2, FeedFacts DEF FeedInv, FeedBound
  <2> QED BY <1>1, <1>5, <1>7, <2>1, FeedFacts, FeedStep DEF FeedInv, FeedBound
<1>9. FeedCovers /\ OneRowPerXid => FeedCovers'
  BY <1>1, <1>4, <1>5 DEF logVars, FeedCovers, DrainCovers
<1> QED BY <1>8, <1>9

LEMMA PublishRowInv ==
  ASSUME FeedInv, PublishRow
  PROVE  /\ FeedInv' /\ (FeedCovers => FeedCovers')
         /\ \A r \in published' \ published : \A s \in published : s.xid <= r.xid
<1>1. PICK r \in drain.batch :
        /\ \A s \in drain.batch : r.xid <= s.xid
        /\ drain.pc = "publish" /\ published' = published \cup {r}
        /\ drain' = [drain EXCEPT !.batch = drain.batch \ {r}]
        /\ UNCHANGED <<logVars, seed, left>>
  BY DEF PublishRow, Heads
<1> DEFINE d == [drain EXCEPT !.batch = drain.batch \ {r}]
<1>2. /\ d \in DrainState /\ d.pc = "publish" /\ d.cursor = drain.cursor /\ d.h = drain.h
      /\ d.next = drain.next /\ d.batch = drain.batch \ {r} /\ drain' = d
  BY <1>1, FeedFacts DEF DrainState
<1> HIDE DEF d
<1>3. /\ r \in Row /\ r.xid \in Nat /\ r.xid < drain.next
      /\ \A s \in published : s.xid <= r.xid /\ s.xid <= drain.next
      /\ \A s \in drain.batch : s.xid < drain.next
  BY <1>1, FeedFacts DEF FeedInv, FeedOrder, Row
<1>4. FeedOrder'
  <2>1. \A s \in drain.batch, v \in published : v.xid <= s.xid
    BY <1>1 DEF FeedInv, FeedOrder
  <2>2. \A s \in published' : s.xid <= drain.next
    BY <1>1, <1>3, FeedFacts
  <2> QED BY <1>1, <1>2, <1>3, <2>1, <2>2 DEF FeedOrder
<1>5. r.xid < Horizon
  BY <1>3, FeedFacts DEF FeedInv, FeedBound
<1>6. FeedInv'
  BY <1>1, <1>2, <1>3, <1>4, <1>5, FeedFacts, FeedStep DEF FeedInv, FeedBound
<1>7. FeedCovers => FeedCovers'
  BY <1>1, <1>2 DEF logVars, FeedCovers, DrainCovers
<1> QED BY <1>1, <1>3, <1>6, <1>7

(* The cursor goes back to the refused row: the rows before it are out.      *)
LEMMA PublishFailsInv ==
  ASSUME FeedInv, PublishFails
  PROVE  FeedInv' /\ (FeedCovers => FeedCovers')
<1>1. PICK r \in drain.batch :
        /\ \A s \in drain.batch : r.xid <= s.xid
        /\ drain.pc = "publish"
        /\ drain' = [drain EXCEPT !.pc = "tick", !.cursor = r.xid, !.batch = {}]
        /\ UNCHANGED <<logVars, seed, published, left>>
  BY DEF PublishFails, Heads
<1> DEFINE d == [drain EXCEPT !.pc = "tick", !.cursor = r.xid, !.batch = {}]
<1>2. /\ r.xid \in Nat /\ r.xid < drain.next
      /\ \A s \in published : s.xid <= r.xid
  BY <1>1, FeedFacts DEF FeedInv, FeedOrder, Row
<1>3. /\ d \in DrainState /\ d.pc = "tick" /\ d.cursor = r.xid /\ d.h = drain.h
      /\ d.next = drain.next /\ drain' = d
  BY <1>1, <1>2, FeedFacts DEF DrainState
<1> HIDE DEF d
<1>4. FeedOrder'
  BY <1>1, <1>2, <1>3 DEF FeedOrder
<1>5. r.xid <= Horizon
  BY <1>2, FeedFacts DEF FeedInv, FeedBound
<1>6. FeedInv'
  BY <1>1, <1>3, <1>4, <1>5, FeedFacts, FeedStep DEF FeedInv, FeedBound
<1>7. ASSUME FeedCovers, NEW s \in rows, seed <= s.xid, s.xid < r.xid
      PROVE  s \in published
  <2>1. s.xid \in Nat
    BY FeedFacts DEF Row
  <2>2. s \in published \cup drain.batch
    BY <1>1, <1>2, <1>7, <2>1, FeedFacts DEF FeedCovers
  <2> QED BY <1>1, <1>2, <1>7, <2>1, <2>2
<1>8. FeedCovers => FeedCovers'
  BY <1>1, <1>3, <1>7 DEF logVars, FeedCovers, DrainCovers
<1> QED BY <1>6, <1>8

LEMMA EndTickInv ==
  ASSUME FeedInv, EndTick
  PROVE  FeedInv' /\ (FeedCovers => FeedCovers')
<1> DEFINE d == [drain EXCEPT !.pc = "tick", !.cursor = drain.next]
<1>1. /\ drain.pc = "publish" /\ drain.batch = {} /\ drain' = d
      /\ UNCHANGED <<logVars, seed, published, left>>
  BY DEF EndTick
<1>2. /\ d \in DrainState /\ d.pc = "tick" /\ d.cursor = drain.next /\ d.h = drain.h
      /\ d.next = drain.next
  BY FeedFacts DEF DrainState
<1> HIDE DEF d
<1>3. FeedOrder'
  BY <1>1, <1>2 DEF FeedInv, FeedOrder
<1>4. FeedInv'
  BY <1>1, <1>2, <1>3, FeedFacts, FeedStep DEF FeedInv, FeedBound
<1>5. FeedCovers => FeedCovers'
  BY <1>1, <1>2 DEF logVars, FeedCovers, DrainCovers
<1> QED BY <1>4, <1>5

LEMMA DisturbInv ==
  ASSUME FeedInv, ReadFails \/ Restart
  PROVE  FeedInv' /\ (FeedCovers => FeedCovers')
<1>1. CASE ReadFails
  <2> DEFINE d == [drain EXCEPT !.pc = "tick"]
  <2>1. /\ drain.pc = "select" /\ drain' = d /\ UNCHANGED <<logVars, seed, published>>
        /\ left' \in [{"prune", "error", "restart"} -> Nat]
    BY <1>1, FeedFacts, TakeType DEF ReadFails
  <2>2. /\ d \in DrainState /\ d.pc = "tick" /\ d.cursor = drain.cursor /\ d.h = drain.h
        /\ d.next = drain.next
    BY FeedFacts DEF DrainState
  <2> HIDE DEF d
  <2>3. FeedOrder'
    BY <2>1, <2>2 DEF FeedInv, FeedOrder
  <2>4. FeedInv'
    BY <2>1, <2>2, <2>3, FeedFacts, FeedStep DEF FeedInv, FeedBound
  <2>5. FeedCovers => FeedCovers'
    BY <2>1, <2>2 DEF logVars, FeedCovers, DrainCovers
  <2> QED BY <2>4, <2>5
<1>2. CASE Restart
  <2>1. /\ drain' = Boot /\ UNCHANGED <<logVars, seed, published>>
        /\ left' \in [{"prune", "error", "restart"} -> Nat]
    BY <1>2, FeedFacts, TakeType DEF Restart
  <2>2. /\ Boot \in DrainState /\ Boot.pc = "boot" /\ Boot.cursor = 0 /\ Boot.h = 0
        /\ Boot.next = 0
    BY DEF Boot, DrainState
  <2>3. FeedOrder'
    BY <2>1, <2>2 DEF FeedOrder
  <2>4. FeedInv'
    BY <2>1, <2>2, <2>3, FeedFacts, FeedStep DEF FeedInv, FeedBound
  <2>5. \A r \in rows : r.xid \in Nat
    BY FeedFacts DEF Row
  <2>6. FeedCovers'
    BY <2>1, <2>2, <2>5 DEF logVars, FeedCovers, DrainCovers
  <2> QED BY <2>4, <2>6
<1> QED BY <1>1, <1>2

LEMMA FeedNextInv ==
  ASSUME FeedInv, [Next]_vars
  PROVE  FeedInv' /\ (FeedCovers /\ OneRowPerXid => FeedCovers')
<1>1. CASE ServerWrite
  <2>1. LogNext /\ UNCHANGED <<drain, seed, published, left>>
    BY <1>1 DEF ServerWrite, LogNext, feedVars
  <2> QED BY <2>1, FeedLogStep, FeedFacts
<1>2. CASE PruneLog
  <2>1. LogNext /\ UNCHANGED <<drain, seed, published>>
        /\ left' \in [{"prune", "error", "restart"} -> Nat]
    BY <1>2, FeedFacts, TakeType DEF PruneLog, LogNext
  <2> QED BY <2>1, FeedLogStep
<1>3. CASE DrainStep
  BY <1>3, SeedInv, ReadHorizonInv, SelectBatchInv, PublishRowInv, PublishFailsInv,
     EndTickInv DEF DrainStep
<1>4. CASE ReadFails \/ Restart
  BY <1>4, DisturbInv
<1>5. CASE UNCHANGED vars
  <2>1. /\ drain' = drain /\ UNCHANGED <<logVars, seed, published, left>>
    BY <1>5 DEF vars, feedVars
  <2>2. FeedOrder'
    BY <2>1 DEF FeedInv, FeedOrder
  <2>3. FeedInv'
    BY <2>1, <2>2, FeedFacts, FeedStep DEF FeedInv, FeedBound
  <2>4. FeedCovers => FeedCovers'
    BY <2>1 DEF logVars, FeedCovers, DrainCovers
  <2> QED BY <2>3, <2>4
<1> QED BY <1>1, <1>2, <1>3, <1>4, <1>5 DEF Next

---------------------------------------------------------------------------
(* The invariant of every execution of the drain. *)
THEOREM FeedInvariant == Spec => []FeedInv
<1>1. Init => FeedInv
  BY FeedInitInv
<1>2. FeedInv /\ [Next]_vars => FeedInv'
  BY FeedNextInv
<1> QED BY <1>1, <1>2, PTL DEF Spec

(* Type correctness of the drain and of the log it reads. *)
THEOREM FeedTypeCorrect == Spec => []FeedTypeOK
<1>1. FeedInv => FeedTypeOK
  BY DEF FeedInv
<1> QED BY <1>1, FeedInvariant, PTL

(* What the hub receives for the first time is never older than anything it  *)
(* received before, across batches, refusals, failed reads and restarts:     *)
(* what "in xid order" in DrainSince amounts to for a client.                *)
THEOREM DrainPublishesInOrder == Spec => PublishedInOrder
<1>1. FeedInv /\ [Next]_vars
      => [\A r \in published' \ published : \A s \in published : s.xid <= r.xid]_vars
  <2> SUFFICES ASSUME FeedInv, Next
               PROVE  \A r \in published' \ published : \A s \in published : s.xid <= r.xid
    OBVIOUS
  <2>1. CASE PublishRow
    BY <2>1, PublishRowInv
  <2>2. CASE published' = published
    BY <2>2
  <2> QED BY <2>1, <2>2 DEF Next, ServerWrite, feedVars, DrainStep, Seed, ReadHorizon,
             SelectBatch, PublishFails, EndTick, ReadFails, Restart, PruneLog
<1> QED BY <1>1, FeedInvariant, PTL DEF Spec, PublishedInOrder

(* When no transaction leaves two rows, the drain leaves no row behind: all  *)
(* that the outbox still holds between its seed and its cursor is published. *)
THEOREM DrainLeavesNothingBehind == Spec /\ []OneRowPerXid => []DrainCovers
<1>1. Init => FeedInv /\ FeedCovers
  BY FeedInitInv
<1>2. (FeedInv /\ FeedCovers) /\ OneRowPerXid /\ [Next]_vars => (FeedInv /\ FeedCovers)'
  BY FeedNextInv
<1>3. FeedInv /\ FeedCovers => DrainCovers
  BY DEF FeedCovers
<1> QED BY <1>1, <1>2, <1>3, PTL DEF Spec
=============================================================================

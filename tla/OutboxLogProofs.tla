-------------------------- MODULE OutboxLogProofs --------------------------
(* The log is gap-free below its horizon, and xid order is seq order, for   *)
(* every set of tenants and entities and any number of transactions.        *)
EXTENDS OutboxLog, SequenceTheorems, FiniteSetTheorems, WellFoundedInduction, TLAPS

(* A non-empty set of natural numbers has a least element. *)
LEMMA LeastNat ==
  ASSUME NEW S \in SUBSET Nat, S # {}
  PROVE  \E x \in S : \A y \in S : x <= y
<1>1. \E x \in S : \A y \in S : ~(<<y, x>> \in OpToRel(<, Nat))
  BY NatLessThanWellFounded, WFMin
<1>2. PICK x \in S : \A y \in S : ~(<<y, x>> \in OpToRel(<, Nat))
  BY <1>1
<1>3. ASSUME NEW y \in S PROVE x <= y
  <2>1. ~(y < x)
    BY <1>2 DEF OpToRel
  <2> QED BY <2>1
<1> QED BY <1>3

(* The horizon is a bound: below every transaction in progress and below    *)
(* the next id, and equal to one of them.                                   *)
LEMMA OldestIsLeast ==
  ASSUME NEW n \in Nat, NEW X \in SUBSET Nat, \A x \in X : x < n
  PROVE  /\ Oldest(X, n) \in X \cup {n}
         /\ \A x \in X : Oldest(X, n) <= x
         /\ Oldest(X, n) <= n
<1>1. CASE X = {}
  BY <1>1 DEF Oldest
<1>2. CASE X # {}
  <2>1. \E x \in X : \A y \in X : x <= y
    BY <1>2, LeastNat
  <2>2. Oldest(X, n) \in X /\ \A y \in X : Oldest(X, n) <= y
    BY <1>2, <2>1 DEF Oldest
  <2>3. Oldest(X, n) \in Nat /\ Oldest(X, n) < n
    BY <2>2
  <2>4. Oldest(X, n) <= n
    BY <2>3
  <2> QED BY <2>2, <2>4
<1> QED BY <1>1, <1>2

LEMMA HorizonIsLeast ==
  ASSUME nextXid \in Nat \ {0}, running \subseteq Txn,
         \A t \in running : t.xid < nextXid
  PROVE  /\ Horizon \in Nat \ {0}
         /\ Horizon <= nextXid
         /\ \A t \in running : Horizon <= t.xid
<1> DEFINE X == {t.xid : t \in running}
<1>1. X \in SUBSET (Nat \ {0}) /\ \A x \in X : x < nextXid
  BY DEF Txn
<1>2. /\ Oldest(X, nextXid) \in X \cup {nextXid}
      /\ \A x \in X : Oldest(X, nextXid) <= x
      /\ Oldest(X, nextXid) <= nextXid
  BY <1>1, OldestIsLeast
<1> QED BY <1>1, <1>2 DEF Horizon

---------------------------------------------------------------------------
(* The window and the batch.                                                *)

(* A non-empty set of natural numbers below a bound has a greatest element. *)
LEMMA GreatestNat ==
  ASSUME NEW h \in Nat, NEW S \in SUBSET Nat, S # {}, \A x \in S : x < h
  PROVE  MaxOf(S) \in S /\ \A x \in S : x <= MaxOf(S)
<1> DEFINE D == {h - x : x \in S}
<1>1. D \in SUBSET Nat /\ D # {}
  <2>1. \A x \in S : x \in Nat /\ h - x \in Nat
    OBVIOUS
  <2> QED BY <2>1
<1>2. PICK d \in D : \A e \in D : d <= e
  BY <1>1, LeastNat
<1>3. PICK m \in S : d = h - m
  BY <1>2
<1>4. ASSUME NEW x \in S PROVE x <= m
  <2>1. h - m <= h - x
    BY <1>2, <1>3
  <2>2. x \in Nat /\ m \in Nat
    OBVIOUS
  <2> QED BY <2>1, <2>2
<1>5. \E y \in S : \A x \in S : x <= y
  BY <1>4
<1> QED BY <1>5 DEF MaxOf

(* A batch of a window resumes inside the window, past every row it holds.  *)
LEMMA NextCursorBound ==
  ASSUME NEW R \in SUBSET Row, NEW c \in Nat, NEW h \in Nat,
         NEW B \in SUBSET Within(R, c, h)
  PROVE  /\ NextCursor(B, h) \in Nat
         /\ NextCursor(B, h) <= h
         /\ c <= h => c <= NextCursor(B, h)
         /\ \A r \in B : r.xid < NextCursor(B, h)
<1> DEFINE X == {r.xid : r \in B}
<1>1. X \in SUBSET Nat /\ \A x \in X : c <= x /\ x < h
  BY DEF Within, Row
<1>2. CASE Cardinality(B) = BatchLimit
  <2>1. B # {}
    BY <1>2, FS_EmptySet, OutboxAssumption DEF OutboxAssumption
  <2>2. X # {}
    BY <2>1
  <2>3. MaxOf(X) \in X /\ \A x \in X : x <= MaxOf(X)
    BY <1>1, <2>2, GreatestNat
  <2>4. \A r \in B : r.xid \in X
    OBVIOUS
  <2>5. NextCursor(B, h) = MaxOf(X) + 1
    BY <1>2 DEF NextCursor
  <2> DEFINE m == MaxOf(X)
  <2> HIDE DEF X, m
  <2>6. m \in Nat /\ c <= m /\ m < h /\ NextCursor(B, h) = m + 1
    BY <1>1, <2>3, <2>5 DEF m
  <2>7. ASSUME NEW r \in B PROVE r.xid < m + 1
    <3>1. r.xid \in Nat /\ r.xid <= m
      BY <1>1, <2>3, <2>4 DEF m
    <3> QED BY <2>6, <3>1
  <2> QED BY <2>6, <2>7
<1>3. CASE Cardinality(B) # BatchLimit
  <2>1. NextCursor(B, h) = h
    BY <1>3 DEF NextCursor
  <2> QED BY <1>1, <2>1
<1> QED BY <1>2, <1>3

(* A batch misses nothing below the place it resumes at, but for a row that  *)
(* shares its transaction id with a row of the batch.                        *)
LEMMA BatchCovers ==
  ASSUME NEW W \in SUBSET Row, IsFiniteSet(W), NEW h \in Nat, NEW B \in SUBSET W,
         Batch(B, W), \A r \in W : r.xid < h,
         NEW w \in W \ B, w.xid < NextCursor(B, h)
  PROVE  \E b \in B : b.xid = w.xid
<1> DEFINE X == {r.xid : r \in B}
<1>1. /\ Cardinality(B) = IF Cardinality(W) < BatchLimit THEN Cardinality(W) ELSE BatchLimit
      /\ \A r \in B : r.xid <= w.xid
  BY DEF Batch
<1>2. Cardinality(B) # Cardinality(W)
  BY FS_Subset
<1>3. Cardinality(B) = BatchLimit
  BY <1>1, <1>2
<1>4. X \in SUBSET Nat /\ \A x \in X : x < h
  BY DEF Row
<1>5. X # {}
  BY <1>3, FS_EmptySet, OutboxAssumption DEF OutboxAssumption
<1>6. MaxOf(X) \in X
  BY <1>4, <1>5, GreatestNat
<1>7. PICK b \in B : b.xid = MaxOf(X)
  BY <1>6
<1>8. NextCursor(B, h) = b.xid + 1
  BY <1>3, <1>7 DEF NextCursor
<1>9. b.xid <= w.xid /\ w.xid < b.xid + 1 /\ b.xid \in Nat /\ w.xid \in Nat
  BY <1>1, <1>8 DEF Row
<1> QED BY <1>9

---------------------------------------------------------------------------
(* The inductive invariant.  The user's lock gives LogLocks: at most one    *)
(* transaction of a user is open, and its id is above every row of the user.*)
LogIds ==
  /\ \A t \in running : t.xid < nextXid
  /\ \A r \in log : r.xid < nextXid
  /\ rows \subseteq log

LogLocks ==
  /\ \A s, t \in running : s.user = t.user /\ s.user \in Users => s = t
  /\ \A t \in running, r \in log :
       r.user = t.user /\ r.user \in Users => r.xid < t.xid

LogSeqs ==
  \A r \in log : \A e \in r.ents :
     /\ r.user = Owner[e.id]
     /\ e.seq <= Len(versions[e.id])

LogInv ==
  LogTypeOK /\ LogIds /\ LogLocks /\ LogSeqs /\ XidOrderIsSeqOrder /\ IsFiniteSet(rows)

(* What every way of ending transaction t has in common: it adds rows R that *)
(* carry its id and user, and each entity in them is at a seq its table row  *)
(* did not have before and has now.                                          *)
Ends(t, R) ==
  /\ nextXid' = nextXid
  /\ running' = running \ {t}
  /\ rows' = rows \cup R
  /\ log' = log \cup R
  /\ R \subseteq Row /\ IsFiniteSet(R)
  /\ versions' \in [Nodes -> Seq(Version)]
  /\ \A n \in Nodes : Len(versions[n]) <= Len(versions'[n])
  /\ \A r \in R :
       /\ r.xid = t.xid /\ r.user = t.user
       /\ \A e \in r.ents : /\ t.user = Owner[e.id]
                            /\ Len(versions[e.id]) < e.seq
                            /\ e.seq <= Len(versions'[e.id])

LEMMA TouchType ==
  ASSUME NEW n \in Nodes, NEW vs \in Seq(Version), NEW F
  PROVE  /\ Touch(n, vs, F) \in Version
         /\ Append(vs, Touch(n, vs, F)) \in Seq(Version)
         /\ Len(Append(vs, Touch(n, vs, F))) = Len(vs) + 1
         /\ Append(vs, Touch(n, vs, F)) # <<>>
<1>1. ASSUME vs = <<>> PROVE Touch(n, vs, F) \in Version
  BY <1>1 DEF Touch, Version
<1>2. ASSUME vs # <<>> PROVE Touch(n, vs, F) \in Version
  <2>1. vs[Len(vs)] \in Version /\ Len(vs) + 1 \in Nat
    BY <1>2
  <2>2. /\ vs[Len(vs)].deleted \in BOOLEAN
        /\ vs[Len(vs)].at \in [Fields -> Nat]
    BY <2>1 DEF Version
  <2>3. (vs[Len(vs)].deleted /\ n \in Tree) \in BOOLEAN
    OBVIOUS
  <2>4. [f \in Fields |-> IF f \in F THEN Len(vs) + 1 ELSE vs[Len(vs)].at[f]] \in [Fields -> Nat]
    BY <2>1, <2>2
  <2>5. Touch(n, vs, F) \in Version
    BY <1>2, <2>3, <2>4 DEF Touch, Version
  <2> QED BY <2>5
<1>3. Touch(n, vs, F) \in Version
  BY <1>1, <1>2
<1> DEFINE v == Touch(n, vs, F)
<1>4. v \in Version
  BY <1>3
<1> HIDE DEF v
<1>5. /\ Append(vs, v) \in Seq(Version)
      /\ Len(Append(vs, v)) = Len(vs) + 1
      /\ Append(vs, v) # <<>>
  BY <1>4, AppendProperties
<1> QED BY <1>4, <1>5 DEF v

LEMMA EntityType ==
  ASSUME NEW n \in Nodes, NEW vs \in Seq(Version), vs # <<>>
  PROVE  /\ EntityAt(n, vs) \in Entity
         /\ EntityAt(n, vs).id = n /\ EntityAt(n, vs).seq = Len(vs)
BY DEF EntityAt, Entity

LEMMA DataRowType ==
  ASSUME NEW t \in Txn, NEW i \in {1, 2}, NEW E \in SUBSET Entity
  PROVE  /\ DataRow(t, i, E) \in Row
         /\ DataRow(t, i, E).xid = t.xid /\ DataRow(t, i, E).user = t.user
         /\ DataRow(t, i, E).ents = E
BY DEF DataRow, Row, Txn

(* Each way of committing is an instance of Ends. *)
LEMMA WriteEnds ==
  ASSUME LogTypeOK, NEW t \in running, NEW n \in Nodes, NEW F, CommitWrite(t, n, F)
  PROVE  \E R : Ends(t, R)
<1> DEFINE vs == Append(versions[n], Touch(n, versions[n], F))
           r == DataRow(t, 1, {EntityAt(n, vs)})
<1>1. /\ t \in Txn /\ versions[n] \in Seq(Version)
      /\ versions \in [Nodes -> Seq(Version)]
  BY DEF LogTypeOK
<1>2. /\ vs \in Seq(Version) /\ Len(vs) = Len(versions[n]) + 1
      /\ Len(versions[n]) \in Nat /\ vs # <<>>
  BY <1>1, TouchType
<1>3. /\ EntityAt(n, vs) \in Entity
      /\ EntityAt(n, vs).id = n /\ EntityAt(n, vs).seq = Len(vs)
  BY <1>2, EntityType
<1>4. /\ r \in Row /\ r.xid = t.xid /\ r.user = t.user
      /\ r.ents = {EntityAt(n, vs)}
  BY <1>1, <1>3, DataRowType
<1>5. /\ versions' = [versions EXCEPT ![n] = vs] /\ t.user = Owner[n]
      /\ rows' = rows \cup {r} /\ log' = log \cup {r}
      /\ running' = running \ {t} /\ nextXid' = nextXid
  BY DEF CommitWrite, Append_, End
<1>6. /\ versions' \in [Nodes -> Seq(Version)] /\ versions'[n] = vs
      /\ \A m \in Nodes : Len(versions[m]) <= Len(versions'[m])
  BY <1>1, <1>2, <1>5
<1>7. \A e \in r.ents : /\ t.user = Owner[e.id]
                        /\ Len(versions[e.id]) < e.seq
                        /\ e.seq <= Len(versions'[e.id])
  <2> DEFINE e == EntityAt(n, vs)
  <2>1. e.id = n /\ e.seq = Len(versions[n]) + 1 /\ r.ents = {e}
    BY <1>2, <1>3, <1>4
  <2>2. Len(versions'[n]) = Len(versions[n]) + 1
    BY <1>2, <1>6
  <2> HIDE DEF vs, r, e
  <2> QED BY <1>2, <1>5, <2>1, <2>2
<1>8. Ends(t, {r})
  BY <1>4, <1>5, <1>6, <1>7, FS_Singleton DEF Ends
<1> QED BY <1>8

LEMMA MoveAndPatchEnds ==
  ASSUME LogTypeOK, NEW t \in running, NEW n \in Nodes, NEW F, NEW G,
         CommitMoveAndPatch(t, n, F, G)
  PROVE  \E R : Ends(t, R)
<1> DEFINE v1 == Append(versions[n], Touch(n, versions[n], F))
           v2 == Append(v1, Touch(n, v1, G))
           r1 == DataRow(t, 1, {EntityAt(n, v1)})
           r2 == DataRow(t, 2, {EntityAt(n, v2)})
<1>1. /\ t \in Txn /\ versions[n] \in Seq(Version)
      /\ versions \in [Nodes -> Seq(Version)]
  BY DEF LogTypeOK
<1>2. /\ v1 \in Seq(Version) /\ Len(v1) = Len(versions[n]) + 1
      /\ Len(versions[n]) \in Nat /\ v1 # <<>>
  BY <1>1, TouchType
<1>3. v2 \in Seq(Version) /\ Len(v2) = Len(v1) + 1 /\ v2 # <<>>
  BY <1>2, TouchType
<1>4. /\ EntityAt(n, v1) \in Entity /\ EntityAt(n, v2) \in Entity
      /\ EntityAt(n, v1).id = n /\ EntityAt(n, v1).seq = Len(v1)
      /\ EntityAt(n, v2).id = n /\ EntityAt(n, v2).seq = Len(v2)
  BY <1>2, <1>3, EntityType
<1>5. /\ r1 \in Row /\ r1.xid = t.xid /\ r1.user = t.user
      /\ r1.ents = {EntityAt(n, v1)}
  BY <1>1, <1>4, DataRowType
<1>6. /\ r2 \in Row /\ r2.xid = t.xid /\ r2.user = t.user
      /\ r2.ents = {EntityAt(n, v2)}
  BY <1>1, <1>4, DataRowType
<1>7. /\ versions' = [versions EXCEPT ![n] = v2] /\ t.user = Owner[n]
      /\ rows' = rows \cup {r1, r2} /\ log' = log \cup {r1, r2}
      /\ running' = running \ {t} /\ nextXid' = nextXid
  BY DEF CommitMoveAndPatch, Append_, End
<1>8. /\ versions' \in [Nodes -> Seq(Version)] /\ versions'[n] = v2
      /\ \A m \in Nodes : Len(versions[m]) <= Len(versions'[m])
  BY <1>1, <1>2, <1>3, <1>7
<1>9. \A e \in r1.ents \cup r2.ents : /\ t.user = Owner[e.id]
                                     /\ Len(versions[e.id]) < e.seq
                                     /\ e.seq <= Len(versions'[e.id])
  <2> HIDE DEF v1, v2, r1, r2
  <2> DEFINE e1 == EntityAt(n, v1)
             e2 == EntityAt(n, v2)
  <2>1. Len(versions'[n]) = Len(versions[n]) + 2 /\ Len(v1) = Len(versions[n]) + 1
    BY <1>2, <1>3, <1>8
  <2>2. /\ e1.id = n /\ e1.seq = Len(versions[n]) + 1
        /\ e2.id = n /\ e2.seq = Len(versions[n]) + 2
    BY <1>2, <1>3, <1>4
  <2>3. r1.ents \cup r2.ents = {e1, e2}
    BY <1>5, <1>6
  <2> HIDE DEF e1, e2
  <2> QED BY <1>2, <1>7, <2>1, <2>2, <2>3
<1>10. IsFiniteSet({r1, r2})
  <2>1. IsFiniteSet({r1})
    BY FS_Singleton
  <2>2. IsFiniteSet({r1} \cup {r2}) /\ {r1} \cup {r2} = {r1, r2}
    BY <2>1, FS_AddElement
  <2> QED BY <2>2
<1>11. Ends(t, {r1, r2})
  BY <1>5, <1>6, <1>7, <1>8, <1>9, <1>10 DEF Ends
<1> QED BY <1>11

LEMMA DeleteEnds ==
  ASSUME LogTypeOK, NEW t \in running, NEW S \in SUBSET Nodes, CommitDelete(t, S)
  PROVE  \E R : Ends(t, R)
<1> DEFINE E == {EntityAt(n, Tombstone(versions[n])) : n \in S}
           r == DataRow(t, 1, E)
<1>1. t \in Txn /\ versions \in [Nodes -> Seq(Version)]
  BY DEF LogTypeOK
<1>2. /\ \A n \in S : t.user = Owner[n] /\ versions[n] # <<>>
      /\ versions' = [n \in Nodes |-> IF n \in S THEN Tombstone(versions[n]) ELSE versions[n]]
      /\ rows' = rows \cup {r} /\ log' = log \cup {r}
      /\ running' = running \ {t} /\ nextXid' = nextXid
  BY DEF CommitDelete, Append_, End
<1>3. ASSUME NEW n \in S
      PROVE  /\ Tombstone(versions[n]) \in Seq(Version) /\ Tombstone(versions[n]) # <<>>
             /\ Len(Tombstone(versions[n])) = Len(versions[n]) + 1
             /\ Len(versions[n]) \in Nat
  <2>1. versions[n] \in Seq(Version) /\ versions[n] # <<>>
    BY <1>1, <1>2
  <2>2. versions[n][Len(versions[n])] \in Version
    BY <2>1
  <2>3. [deleted |-> TRUE, at |-> versions[n][Len(versions[n])].at] \in Version
    BY <2>2 DEF Version
  <2> QED BY <2>1, <2>3 DEF Tombstone
<1>4. \A n \in S : /\ EntityAt(n, Tombstone(versions[n])) \in Entity
                   /\ EntityAt(n, Tombstone(versions[n])).id = n
                   /\ EntityAt(n, Tombstone(versions[n])).seq = Len(versions[n]) + 1
  BY <1>3, EntityType
<1>5. E \in SUBSET Entity
  BY <1>4
<1>6. r \in Row /\ r.xid = t.xid /\ r.user = t.user /\ r.ents = E
  BY <1>1, <1>5, DataRowType
<1>7. /\ versions' \in [Nodes -> Seq(Version)]
      /\ \A m \in Nodes : Len(versions[m]) <= Len(versions'[m])
      /\ \A m \in S : Len(versions'[m]) = Len(versions[m]) + 1
  BY <1>1, <1>2, <1>3
<1>8. \A e \in r.ents : /\ t.user = Owner[e.id]
                        /\ Len(versions[e.id]) < e.seq
                        /\ e.seq <= Len(versions'[e.id])
  BY <1>2, <1>3, <1>4, <1>6, <1>7
<1>9. Ends(t, {r})
  BY <1>2, <1>6, <1>7, <1>8, FS_Singleton DEF Ends
<1> QED BY <1>9

LEMMA CommitEnds ==
  ASSUME LogTypeOK, NEW t \in running, Commit(t)
  PROVE  \E R : Ends(t, R)
<1>1. CASE \E n \in Nodes, F \in SUBSET Fields : CommitWrite(t, n, F)
  BY <1>1, WriteEnds
<1>2. CASE \E n \in Nodes, F \in SUBSET Fields, G \in SUBSET Fields :
             CommitMoveAndPatch(t, n, F, G)
  BY <1>2, MoveAndPatchEnds
<1>3. CASE \E S \in SUBSET Nodes : CommitDelete(t, S)
  BY <1>3, DeleteEnds
<1>4. ASSUME NEW k \in AppKinds \cup {"quote"}, CommitApp(t, k)
      PROVE  \E R : Ends(t, R)
  <2> DEFINE r == AppRow(t, k)
  <2>1. t \in Txn
    BY DEF LogTypeOK
  <2>2. r \in Row /\ r.xid = t.xid /\ r.user = t.user /\ r.ents = {}
    BY <2>1 DEF AppRow, Row, Txn
  <2>3. IsFiniteSet({r})
    BY FS_Singleton
  <2>4. /\ rows' = rows \cup {r} /\ log' = log \cup {r} /\ versions' = versions
        /\ running' = running \ {t} /\ nextXid' = nextXid
    BY <1>4 DEF CommitApp, Append_, End
  <2> HIDE DEF r
  <2>5. Ends(t, {r})
    BY <2>2, <2>3, <2>4 DEF Ends, LogTypeOK
  <2> QED BY <2>5
<1>5. CASE EndQuietly(t)
  <2>1. Ends(t, {})
    BY <1>5, FS_EmptySet DEF EndQuietly, End, Ends, LogTypeOK
  <2> QED BY <2>1
<1> QED BY <1>1, <1>2, <1>3, <1>4, <1>5 DEF Commit

---------------------------------------------------------------------------
(* Preservation of the invariant, one lemma per kind of step. *)

LEMMA LogInitInv == LogInit => LogInv
<1> SUFFICES ASSUME LogInit PROVE LogInv
  OBVIOUS
<1>1. LogTypeOK
  BY DEF LogInit, LogTypeOK
<1> QED BY <1>1, FS_EmptySet DEF LogInit, LogInv, LogIds, LogLocks, LogSeqs, XidOrderIsSeqOrder

(* A transaction of user u (or, with no lock, of NoUser) receives an id.     *)
LEMMA BeginInv ==
  ASSUME LogInv, NEW u \in Users \cup {NoUser},
         u \in Users => \A t \in running : t.user # u,
         running' = running \cup {[xid |-> nextXid, user |-> u]},
         nextXid' = nextXid + 1, UNCHANGED <<versions, rows, log>>
  PROVE  LogInv'
<1> DEFINE b == [xid |-> nextXid, user |-> u]
<1>1. nextXid \in Nat \ {0} /\ running \subseteq Txn /\ log \subseteq Row
  BY DEF LogInv, LogTypeOK
<1>2. b \in Txn /\ b.xid = nextXid /\ b.user = u
  BY <1>1 DEF Txn
<1>3. LogTypeOK'
  BY <1>1, <1>2 DEF LogInv, LogTypeOK
<1>4. LogIds'
  <2>1. \A t \in running : t.xid \in Nat /\ t.xid < nextXid
    BY <1>1 DEF LogInv, LogIds, Txn
  <2>2. \A r \in log : r.xid \in Nat /\ r.xid < nextXid
    BY <1>1 DEF LogInv, LogIds, Row
  <2> QED BY <1>1, <1>2, <2>1, <2>2 DEF LogInv, LogIds
<1>5. LogLocks'
  <2>1. \A s, t \in running' : s.user = t.user /\ s.user \in Users => s = t
    BY <1>2 DEF LogInv, LogLocks
  <2>2. \A t \in running', r \in log' :
          r.user = t.user /\ r.user \in Users => r.xid < t.xid
    BY <1>2 DEF LogInv, LogLocks, LogIds
  <2> QED BY <2>1, <2>2 DEF LogLocks
<1>6. LogSeqs' /\ XidOrderIsSeqOrder'
  BY DEF LogInv, LogSeqs, XidOrderIsSeqOrder
<1> QED BY <1>3, <1>4, <1>5, <1>6 DEF LogInv

LEMMA EndsInv ==
  ASSUME LogInv, NEW t \in running, NEW R, Ends(t, R)
  PROVE  LogInv'
<1>1. /\ nextXid \in Nat \ {0} /\ running \subseteq Txn
      /\ log \subseteq Row /\ rows \subseteq Row /\ versions \in [Nodes -> Seq(Version)]
  BY DEF LogInv, LogTypeOK
<1>2. LogTypeOK'
  BY <1>1 DEF Ends, LogTypeOK
<1>3. LogIds'
  BY <1>1 DEF Ends, LogInv, LogIds, Txn
<1>4. LogLocks'
  <2>1. \A s \in running' : s \in running /\ s # t
    BY DEF Ends
  <2>2. \A s, v \in running' : s.user = v.user /\ s.user \in Users => s = v
    BY <2>1 DEF LogInv, LogLocks
  <2>3. ASSUME NEW s \in running', NEW r \in log', r.user = s.user, r.user \in Users
        PROVE  r.xid < s.xid
    <3>1. CASE r \in log
      BY <2>1, <2>3, <3>1 DEF LogInv, LogLocks
    <3>2. CASE r \in R
      \* t and s would be two open transactions of one user
      BY <2>1, <2>3, <3>2 DEF LogInv, LogLocks, Ends
    <3> QED BY <3>1, <3>2 DEF Ends
  <2> QED BY <2>2, <2>3 DEF LogLocks
<1>5. \A n \in Nodes : Len(versions[n]) \in Nat /\ Len(versions'[n]) \in Nat
  BY <1>1 DEF Ends
<1>6. \A r \in log' : \A e \in r.ents : e.id \in Nodes /\ e.seq \in Nat
  BY <1>2 DEF LogTypeOK, Row, Entity
<1>7. LogSeqs'
  <2> SUFFICES ASSUME NEW r \in log', NEW e \in r.ents
               PROVE  r.user = Owner[e.id] /\ e.seq <= Len(versions'[e.id])
    BY DEF LogSeqs
  <2>1. CASE r \in log
    BY <1>5, <1>6, <2>1 DEF LogInv, LogSeqs, Ends
  <2>2. CASE r \in R
    BY <2>2 DEF Ends
  <2> QED BY <2>1, <2>2 DEF Ends
<1>8. XidOrderIsSeqOrder'
  <2> SUFFICES ASSUME NEW r \in log', NEW s \in log',
                      NEW e \in r.ents, NEW f \in s.ents,
                      e.id = f.id, r.xid < s.xid
               PROVE  e.seq < f.seq
    BY DEF XidOrderIsSeqOrder
  <2>1. r.user = Owner[e.id] /\ s.user = Owner[e.id]
    BY <1>7 DEF LogSeqs
  <2>2. Owner[e.id] \in Users
    BY <1>6, OutboxAssumption DEF OutboxAssumption
  <2>3. CASE r \in log /\ s \in log
    BY <2>3 DEF LogInv, XidOrderIsSeqOrder
  <2>4. CASE r \in log /\ s \in R
    <3>1. e.seq <= Len(versions[e.id])
      BY <2>4 DEF LogInv, LogSeqs
    <3>2. Len(versions[f.id]) < f.seq
      BY <2>4 DEF Ends
    <3> QED BY <1>5, <1>6, <3>1, <3>2
  <2>5. CASE r \in R /\ s \in log
    \* every row of the user has a smaller id than its open transaction t
    <3>1. r.xid = t.xid /\ t.user = s.user
      BY <2>1, <2>5 DEF Ends
    <3>2. s.xid < t.xid
      BY <2>1, <2>2, <2>5, <3>1 DEF LogInv, LogLocks
    <3>3. s.xid \in Nat /\ t.xid \in Nat
      BY <1>1, <2>5 DEF Row, Txn
    <3> QED BY <3>1, <3>2, <3>3
  <2>6. CASE r \in R /\ s \in R
    <3>1. r.xid = t.xid /\ s.xid = t.xid /\ t.xid \in Nat
      BY <1>1, <2>6 DEF Ends, Txn
    <3> QED BY <3>1
  <2> QED BY <2>3, <2>4, <2>5, <2>6 DEF Ends
<1>9. IsFiniteSet(rows')
  BY FS_Union DEF LogInv, Ends
<1> QED BY <1>2, <1>3, <1>4, <1>7, <1>8, <1>9 DEF LogInv

LEMMA PruneInv ==
  ASSUME LogInv, NEW P, Prune(P)
  PROVE  LogInv'
BY FS_Subset DEF Prune, LogInv, LogTypeOK, LogIds, LogLocks, LogSeqs, XidOrderIsSeqOrder

LEMMA LogNextInv == LogInv /\ [LogNext]_logVars => LogInv'
<1> SUFFICES ASSUME LogInv, [LogNext]_logVars PROVE LogInv'
  OBVIOUS
<1>1. ASSUME NEW u \in Users, BeginUserTx(u) PROVE LogInv'
  BY <1>1, BeginInv DEF BeginUserTx
<1>2. CASE BeginOtherTx
  BY <1>2, BeginInv, OutboxAssumption DEF BeginOtherTx, OutboxAssumption
<1>3. ASSUME NEW t \in running, Commit(t) PROVE LogInv'
  BY <1>3, CommitEnds, EndsInv DEF LogInv
<1>4. ASSUME NEW P \in SUBSET rows, Prune(P) PROVE LogInv'
  BY <1>4, PruneInv
<1>5. CASE UNCHANGED logVars
  BY <1>5 DEF logVars, LogInv, LogTypeOK, LogIds, LogLocks, LogSeqs, XidOrderIsSeqOrder
<1> QED BY <1>1, <1>2, <1>3, <1>4, <1>5 DEF LogNext, Write

(* The invariant of every execution of the outbox. *)
THEOREM LogInvariant == LogSpec => []LogInv
BY LogInitInv, LogNextInv, PTL DEF LogSpec

(* Type correctness of the tables, the open transactions and the log. *)
THEOREM LogTypeCorrect == LogSpec => []LogTypeOK
<1>1. LogInv => LogTypeOK
  BY DEF LogInv
<1> QED BY <1>1, LogInvariant, PTL

(* The advisory lock makes xid order the seq order of each entity.          *)
THEOREM XidOrder == LogSpec => []XidOrderIsSeqOrder
<1>1. LogInv => XidOrderIsSeqOrder
  BY DEF LogInv
<1> QED BY <1>1, LogInvariant, PTL

---------------------------------------------------------------------------
(* The horizon after a step is an id, that of the oldest open transaction   *)
(* or the next one.                                                          *)
LEMMA HorizonAfter ==
  ASSUME LogInv, [LogNext]_logVars
  PROVE  /\ Horizon' \in Nat \ {0}
         /\ Horizon' = nextXid' \/ \E t \in running' : Horizon' = t.xid
<1>1. LogInv'
  BY LogNextInv
<1>2. /\ nextXid' \in Nat \ {0} /\ running' \subseteq Txn
      /\ \A t \in running' : t.xid < nextXid'
  BY <1>1 DEF LogInv, LogTypeOK, LogIds
<1> DEFINE X == {t.xid : t \in running'}
<1>3. X \in SUBSET (Nat \ {0}) /\ \A x \in X : x < nextXid'
  BY <1>2 DEF Txn
<1>4. Oldest(X, nextXid') \in X \cup {nextXid'}
  BY <1>2, <1>3, OldestIsLeast
<1>5. Horizon' = Oldest(X, nextXid')
  BY DEF Horizon
<1> QED BY <1>2, <1>3, <1>4, <1>5

(* One step of the log: the horizon does not move back, and every row the   *)
(* step makes visible has an id at or above the horizon before it.          *)
LEMMA GapFreeStep ==
  ASSUME LogInv, [LogNext]_logVars
  PROVE  Horizon' >= Horizon /\ \A r \in log' \ log : r.xid >= Horizon
<1>1. /\ Horizon \in Nat \ {0} /\ Horizon <= nextXid
      /\ \A t \in running : Horizon <= t.xid
  BY HorizonIsLeast DEF LogInv, LogTypeOK, LogIds
<1>2. /\ Horizon' \in Nat \ {0}
      /\ Horizon' = nextXid' \/ \E t \in running' : Horizon' = t.xid
  BY HorizonAfter
<1>3. nextXid \in Nat /\ running \subseteq Txn
  BY DEF LogInv, LogTypeOK
<1>4. ASSUME NEW u, running' = running \cup {[xid |-> nextXid, user |-> u]},
             nextXid' = nextXid + 1, log' = log
      PROVE  Horizon' >= Horizon /\ \A r \in log' \ log : r.xid >= Horizon
  <2>1. \A t \in running' : t.xid >= Horizon
    BY <1>1, <1>3, <1>4 DEF Txn
  <2> QED BY <1>1, <1>2, <1>3, <1>4, <2>1
<1>5. ASSUME NEW u \in Users, BeginUserTx(u)
      PROVE  Horizon' >= Horizon /\ \A r \in log' \ log : r.xid >= Horizon
  BY <1>4, <1>5 DEF BeginUserTx
<1>6. ASSUME BeginOtherTx
      PROVE  Horizon' >= Horizon /\ \A r \in log' \ log : r.xid >= Horizon
  BY <1>4, <1>6 DEF BeginOtherTx
<1>7. ASSUME NEW t \in running, Commit(t)
      PROVE  Horizon' >= Horizon /\ \A r \in log' \ log : r.xid >= Horizon
  <2>1. PICK R : Ends(t, R)
    BY <1>7, CommitEnds DEF LogInv
  <2>2. /\ nextXid' = nextXid /\ running' \subseteq running
        /\ \A r \in log' \ log : r.xid = t.xid
    BY <2>1 DEF Ends
  <2> QED BY <1>1, <1>2, <1>3, <2>2 DEF Txn
<1>8. ASSUME NEW P, Prune(P)
      PROVE  Horizon' >= Horizon /\ \A r \in log' \ log : r.xid >= Horizon
  BY <1>1, <1>8 DEF Prune, Horizon
<1>9. ASSUME UNCHANGED logVars
      PROVE  Horizon' >= Horizon /\ \A r \in log' \ log : r.xid >= Horizon
  BY <1>1, <1>9 DEF logVars, Horizon
<1> QED BY <1>5, <1>6, <1>7, <1>8, <1>9 DEF LogNext, Write

(* Reading the rows below a horizon reads all there will ever be below it:  *)
(* the claim PullSince, DrainSince and every cursor rest on.                *)
THEOREM HorizonIsGapFree == LogSpec => GapFree
<1>1. LogInv /\ [LogNext]_logVars
      => [Horizon' >= Horizon /\ \A r \in log' \ log : r.xid >= Horizon]_logVars
  BY GapFreeStep
<1> QED BY <1>1, LogInvariant, PTL DEF LogSpec, GapFree
---------------------------------------------------------------------------
(* What a transaction publishes of an entity is what the table then holds at *)
(* that seq, what it published before stays, and application events carry no *)
(* entity.                                                                   *)
Publishes(R) ==
  /\ \A n \in Nodes : \A k \in 1 .. Len(versions[n]) : versions'[n][k] = versions[n][k]
  /\ \A r \in R : /\ r.type = "data_event" \/ r.ents = {}
                  /\ \A e \in r.ents : e.ver = versions'[e.id][e.seq]

LEMMA AppendKeeps ==
  ASSUME NEW S, NEW s \in Seq(S), NEW x \in S
  PROVE  /\ \A k \in 1 .. Len(s) : Append(s, x)[k] = s[k]
         /\ Append(s, x)[Len(s) + 1] = x
         /\ Append(s, x) \in Seq(S) /\ Len(Append(s, x)) = Len(s) + 1 /\ Len(s) \in Nat
BY AppendProperties, LenProperties

LEMMA CommitPublishes ==
  ASSUME LogTypeOK, NEW t \in running, Commit(t)
  PROVE  Publishes(log' \ log)
<1>0. /\ versions \in [Nodes -> Seq(Version)] /\ t \in Txn
      /\ \A n \in Nodes : versions[n] \in Seq(Version)
  BY DEF LogTypeOK
<1>1. ASSUME NEW n \in Nodes, NEW F, CommitWrite(t, n, F) PROVE Publishes(log' \ log)
  <2> DEFINE v == Touch(n, versions[n], F)
             w == Append(versions[n], v)
             e == EntityAt(n, w)
             r == DataRow(t, 1, {e})
  <2>1. v \in Version /\ versions[n] \in Seq(Version)
    BY <1>0, TouchType
  <2>2. versions' = [versions EXCEPT ![n] = w] /\ log' = log \cup {r}
    BY <1>1 DEF CommitWrite, Append_
  <2> HIDE DEF v
  <2>3. /\ \A k \in 1 .. Len(versions[n]) : w[k] = versions[n][k]
        /\ w[Len(w)] = v /\ Len(w) = Len(versions[n]) + 1
    BY <2>1, AppendKeeps
  <2>4. r.type = "data_event" /\ r.ents = {e} /\ e.id = n /\ e.seq = Len(w) /\ e.ver = w[Len(w)]
    BY DEF DataRow, EntityAt
  <2> HIDE DEF w, r, e
  <2>5. versions'[n] = w
    BY <1>0, <2>2
  <2>6. \A m \in Nodes : \A k \in 1 .. Len(versions[m]) : versions'[m][k] = versions[m][k]
    BY <1>0, <2>2, <2>3
  <2>7. log' \ log \subseteq {r}
    BY <2>2
  <2> QED BY <2>4, <2>5, <2>6, <2>7 DEF Publishes
<1>2. ASSUME NEW n \in Nodes, NEW F, NEW G, CommitMoveAndPatch(t, n, F, G) PROVE Publishes(log' \ log)
  <2> DEFINE v == Touch(n, versions[n], F)
             w == Append(versions[n], v)
             x == Touch(n, w, G)
             z == Append(w, x)
             e == EntityAt(n, w)
             f == EntityAt(n, z)
             r == DataRow(t, 1, {e})
             s == DataRow(t, 2, {f})
  <2>1. v \in Version /\ w \in Seq(Version) /\ versions[n] \in Seq(Version)
    BY <1>0, TouchType
  <2>2. x \in Version
    BY <2>1, TouchType
  <2>3. versions' = [versions EXCEPT ![n] = z] /\ log' = log \cup {r, s}
    BY <1>2 DEF CommitMoveAndPatch, Append_
  <2> HIDE DEF v, x
  <2>4. /\ \A k \in 1 .. Len(versions[n]) : w[k] = versions[n][k]
        /\ Len(w) = Len(versions[n]) + 1 /\ w \in Seq(Version) /\ Len(versions[n]) \in Nat
    BY <2>1, AppendKeeps
  <2>5. r.type = "data_event" /\ r.ents = {e} /\ e.id = n /\ e.seq = Len(w) /\ e.ver = w[Len(w)]
    BY DEF DataRow, EntityAt
  <2>6. s.type = "data_event" /\ s.ents = {f} /\ f.id = n /\ f.seq = Len(z) /\ f.ver = z[Len(z)]
    BY DEF DataRow, EntityAt
  <2> HIDE DEF w, r, s, e, f
  <2>7. \A k \in 1 .. Len(w) : z[k] = w[k]
    BY <2>2, <2>4, AppendKeeps
  <2> HIDE DEF z
  <2>8. versions'[n] = z
    BY <1>0, <2>3
  <2>9. \A m \in Nodes : \A k \in 1 .. Len(versions[m]) : versions'[m][k] = versions[m][k]
    <3>1. ASSUME NEW k \in 1 .. Len(versions[n]) PROVE z[k] = versions[n][k]
      <4>1. k \in 1 .. Len(w)
        BY <2>4
      <4> QED BY <2>4, <2>7, <4>1
    <3> QED BY <1>0, <2>3, <3>1
  <2>10. e.ver = z[e.seq]
    <3>1. Len(w) \in 1 .. Len(w)
      BY <2>4
    <3> QED BY <2>5, <2>7, <3>1
  <2>11. log' \ log \subseteq {r, s}
    BY <2>3
  <2> QED BY <2>5, <2>6, <2>8, <2>9, <2>10, <2>11 DEF Publishes
<1>3. ASSUME NEW S \in SUBSET Nodes, CommitDelete(t, S) PROVE Publishes(log' \ log)
  <2> DEFINE T(n) == Tombstone(versions[n])
             r == DataRow(t, 1, {EntityAt(n, T(n)) : n \in S})
  <2>1. /\ versions' = [n \in Nodes |-> IF n \in S THEN T(n) ELSE versions[n]] /\ log' = log \cup {r}
        /\ \A n \in S : versions[n] # <<>>
    BY <1>3 DEF CommitDelete, Append_
  <2>2. ASSUME NEW n \in S
        PROVE  \A k \in 1 .. Len(versions[n]) : T(n)[k] = versions[n][k]
    <3> DEFINE d == [deleted |-> TRUE, at |-> versions[n][Len(versions[n])].at]
    <3>1. versions[n][Len(versions[n])] \in Version /\ versions[n] \in Seq(Version)
      BY <1>0, <2>1
    <3>2. d \in Version
      BY <3>1 DEF Version
    <3>3. T(n) = Append(versions[n], d)
      BY DEF Tombstone
    <3> HIDE DEF d
    <3> QED BY <3>1, <3>2, <3>3, AppendKeeps
  <2>3. r.type = "data_event" /\ r.ents = {EntityAt(n, T(n)) : n \in S}
    BY DEF DataRow
  <2>4. \A n \in S : LET e == EntityAt(n, T(n)) IN e.id = n /\ e.ver = T(n)[e.seq]
    BY DEF EntityAt
  <2> HIDE DEF T, r
  <2>5. \A n \in S : versions'[n] = T(n)
    BY <2>1
  <2>6. \A e \in r.ents : e.ver = versions'[e.id][e.seq]
    BY <2>3, <2>4, <2>5
  <2>7. \A m \in Nodes : \A k \in 1 .. Len(versions[m]) : versions'[m][k] = versions[m][k]
    BY <2>1, <2>2
  <2>8. log' \ log \subseteq {r}
    BY <2>1
  <2> QED BY <2>3, <2>6, <2>7, <2>8 DEF Publishes
<1>4. ASSUME NEW k, CommitApp(t, k) PROVE Publishes(log' \ log)
  <2>1. versions' = versions /\ log' = log \cup {AppRow(t, k)}
    BY <1>4 DEF CommitApp, Append_
  <2>2. AppRow(t, k).ents = {}
    BY DEF AppRow
  <2> QED BY <2>1, <2>2 DEF Publishes
<1>5. CASE EndQuietly(t)
  BY <1>5 DEF EndQuietly, Publishes
<1> QED BY <1>1, <1>2, <1>3, <1>4, <1>5 DEF Commit
=============================================================================

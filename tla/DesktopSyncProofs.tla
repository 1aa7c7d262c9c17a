------------------------- MODULE DesktopSyncProofs -------------------------
(* The desktop client, for every number of tenants, entities, threads and   *)
(* transactions: its types and its tombstones in every behaviour; no cursor *)
(* passes a transaction in progress as long as the database is not restored *)
(* to an earlier moment; and on the delta path the cursor covers and the    *)
(* cache implements the replica contract.                                   *)
EXTENDS DesktopSync, OutboxLogProofs

---------------------------------------------------------------------------
(* Types, with what an answer in flight may carry: states the server has     *)
(* reached, also after a restore, which ends every request.                 *)

AnswersBound ==
  \A p \in Pullers : /\ \A e \in pull[p].ents : e.seq <= Seq_(e.id)
                     /\ pull[p].pc \in {"idle", "read"} => pull[p].ents = {}

TypeInv == LogInv /\ DesktopTypeOK /\ AnswersBound

(* A row of ApplyEnts is the one there was, or one of the frames' that is    *)
(* newer, and at least as new as each of them.                               *)
LEMMA ApplyEntsTakes ==
  ASSUME DesktopTypeOK, NEW E \in SUBSET Entity, \A e \in E : e.seq <= Seq_(e.id), NEW n \in Nodes
  PROVE  /\ \/ ApplyEnts(cache, E)[n] = cache[n]
            \/ \E e \in E : /\ e.id = n /\ e.seq > cache[n].seq
                            /\ ApplyEnts(cache, E)[n] = [seq |-> e.seq, ver |-> e.ver]
         /\ cache[n].seq <= ApplyEnts(cache, E)[n].seq
         /\ \A e \in E : e.id = n => e.seq <= ApplyEnts(cache, E)[n].seq
<1> DEFINE newer == {e \in E : e.id = n /\ e.seq > cache[n].seq}
<1>0. cache[n] \in [seq : Nat, ver : Version] /\ cache[n].seq \in Nat
  BY DEF DesktopTypeOK
<1>1. CASE newer = {}
  <2>1. ApplyEnts(cache, E)[n] = cache[n]
    BY <1>1 DEF ApplyEnts
  <2>2. ASSUME NEW e \in E, e.id = n PROVE e.seq <= cache[n].seq
    <3>1. ~(e.seq > cache[n].seq) /\ e.seq \in Nat
      BY <1>1, <2>2 DEF Entity
    <3> QED BY <1>0, <3>1
  <2> QED BY <1>0, <2>1, <2>2
<1>2. CASE newer # {}
  <2> DEFINE S == {e.seq : e \in newer}
             k == Seq_(n) + 1
  <2>1. Seq_(n) \in Nat /\ k \in Nat
    BY DEF DesktopTypeOK, LogTypeOK, Seq_
  <2>2. S \in SUBSET Nat /\ S # {} /\ \A x \in S : x < k
    BY <1>2, <2>1 DEF Entity
  <2>3. \E m \in S : \A x \in S : x <= m
    <3> HIDE DEF k, S
    <3> QED BY <2>1, <2>2, GreatestNat
  <2>4. \E f \in newer : \A g \in newer : g.seq <= f.seq
    BY <2>3
  <2> DEFINE e == CHOOSE f \in newer : \A g \in newer : g.seq <= f.seq
  <2>5. e \in newer /\ \A g \in newer : g.seq <= e.seq
    BY <2>4
  <2>6. ApplyEnts(cache, E)[n] = [seq |-> e.seq, ver |-> e.ver]
    BY <1>2 DEF ApplyEnts
  <2> HIDE DEF e
  <2>7. e.seq \in Nat /\ e.seq > cache[n].seq /\ e \in E /\ e.id = n
    BY <2>5 DEF Entity
  <2>8. ASSUME NEW f \in E, f.id = n PROVE f.seq <= e.seq
    <3>1. f.seq \in Nat
      BY DEF Entity
    <3>2. CASE f \in newer
      BY <2>5, <3>2
    <3>3. CASE f \notin newer
      BY <1>0, <2>7, <2>8, <3>1, <3>3
    <3> QED BY <3>2, <3>3
  <2> QED BY <1>0, <2>6, <2>7, <2>8
<1> QED BY <1>1, <1>2

LEMMA ApplyEntsType ==
  ASSUME DesktopTypeOK, NEW E \in SUBSET Entity, \A e \in E : e.seq <= Seq_(e.id)
  PROVE  ApplyEnts(cache, E) \in [Nodes -> [seq : Nat, ver : Version]]
<1>1. ASSUME NEW n \in Nodes PROVE ApplyEnts(cache, E)[n] \in [seq : Nat, ver : Version]
  <2>1. CASE ApplyEnts(cache, E)[n] = cache[n]
    BY <2>1 DEF DesktopTypeOK
  <2>2. ASSUME NEW e \in E, ApplyEnts(cache, E)[n] = [seq |-> e.seq, ver |-> e.ver]
        PROVE  ApplyEnts(cache, E)[n] \in [seq : Nat, ver : Version]
    BY <2>2 DEF Entity
  <2> QED BY ZenonT(40), <2>1, <2>2, ApplyEntsTakes
<1> QED BY <1>1 DEF ApplyEnts

LEMMA MissingType == Missing \in [seq : Nat, ver : Version] /\ Missing.seq = 0 /\ ~Missing.ver.deleted
BY DEF Missing, Version

LEMMA RetainOnlyType ==
  ASSUME NEW c \in [Nodes -> [seq : Nat, ver : Version]], NEW ids
  PROVE  RetainOnly(c, ids) \in [Nodes -> [seq : Nat, ver : Version]]
BY MissingType DEF RetainOnly

(* What a source returns is what the table holds.                           *)
LEMMA SnapshotBound ==
  ASSUME LogTypeOK, NEW u, NEW S \in SUBSET Nodes
  PROVE  Snapshot(u, S) \in SUBSET Entity /\ \A e \in Snapshot(u, S) : e.seq <= Seq_(e.id)
<1>1. ASSUME NEW n \in Nodes, versions[n] # <<>>
      PROVE  /\ EntityAt(n, versions[n]) \in Entity
             /\ EntityAt(n, versions[n]).id = n
             /\ EntityAt(n, versions[n]).seq = Seq_(n)
  BY <1>1, EntityType DEF LogTypeOK, Seq_
<1>2. \A n \in Nodes : Seq_(n) \in Nat
  BY DEF LogTypeOK, Seq_
<1> QED BY <1>1, <1>2 DEF Snapshot

(* And so is what a committed row carries. *)
LEMMA RowBound ==
  ASSUME LogInv, NEW x \in log
  PROVE  x.ents \in SUBSET Entity /\ \A e \in x.ents : e.seq <= Seq_(e.id)
BY DEF LogInv, LogTypeOK, LogSeqs, Seq_, Row

LEMMA SpendType ==
  ASSUME spent \in [Disturbances -> Nat], NEW d \in Disturbances, Spend(d)
  PROVE  spent' \in [Disturbances -> Nat]
<1>1. spent[d] + 1 \in Nat
  OBVIOUS
<1>2. spent' = [spent EXCEPT ![d] = spent[d] + 1]
  BY DEF Spend
<1> QED BY <1>1, <1>2

(* What is spent only grows. *)
LEMMA SpentType ==
  ASSUME spent \in [Disturbances -> Nat], [Next]_vars
  PROVE  /\ spent' \in [Disturbances -> Nat]
         /\ spent' = spent \/ \E d \in Disturbances : Spend(d)
<1>1. CASE UNCHANGED vars
  BY <1>1 DEF vars, desktopVars
<1>2. CASE ServerWrite
  BY <1>2 DEF ServerWrite, desktopVars
<1>3. ASSUME NEW p \in Pullers, Tick(p) \/ PullStep(p)
      PROVE  UNCHANGED spent
  BY <1>3 DEF Tick, PullStep, ReadCursor, MinXid, CheckHorizon, SinceHorizon, Select, ReadTree, ReadOther,
              SnapshotHorizon, ApplyNothing, ApplyFrames, AtServer, Server, Goto
<1>4. CASE Connect \/ LiveApply \/ ClearWorkspace \/ \E u \in Users : SignIn(u)
  BY <1>4 DEF Connect, LiveApply, ClearWorkspace, SignIn, Server, Goto
<1>5. ASSUME \/ (\E p \in Pullers : PullFails(p)) \/ Disconnect \/ SignOut \/ PruneOutbox
             \/ \E x \in 1 .. Horizon : Restore(x)
      PROVE  \E d \in Disturbances : Spend(d)
  BY <1>5 DEF PullFails, Disconnect, SignOut, PruneOutbox, Restore, Disturbances
<1>6. spent' = spent \/ \E d \in Disturbances : Spend(d)
  BY <1>1, <1>2, <1>3, <1>4, <1>5 DEF Next
<1> QED BY <1>6, SpendType

(* A step of the client or of its request, which leaves the log alone.      *)
LEMMA DesktopStep ==
  ASSUME TypeInv, UNCHANGED logVars, spent' \in [Disturbances -> Nat],
         NEW p \in Pullers, NEW r \in PullState, pull' = [pull EXCEPT ![p] = r],
         \A e \in r.ents : e.seq <= Seq_(e.id), r.pc \in {"idle", "read"} => r.ents = {},
         cache' \in [Nodes -> [seq : Nat, ver : Version]],
         cursor' \in Nat, session' \in Users \cup {NoUser}, clearing' \in BOOLEAN,
         ws' \in Users \cup {NoUser}
  PROVE  TypeInv'
<1>1. LogInv'
  BY DEF TypeInv, logVars, LogInv, LogTypeOK, LogIds, LogLocks, LogSeqs, XidOrderIsSeqOrder
<1>2. pull \in [Pullers -> PullState]
  BY DEF TypeInv, DesktopTypeOK
<1>3. DesktopTypeOK'
  BY <1>1, <1>2 DEF LogInv, DesktopTypeOK
<1>4. AnswersBound'
  BY <1>2 DEF TypeInv, AnswersBound, logVars, Seq_
<1> QED BY <1>1, <1>3, <1>4 DEF TypeInv

(* The same, for a step that touches no thread's pull. *)
LEMMA ClientStep ==
  ASSUME TypeInv, UNCHANGED logVars, pull' = pull, spent' \in [Disturbances -> Nat],
         cache' \in [Nodes -> [seq : Nat, ver : Version]],
         cursor' \in Nat, session' \in Users \cup {NoUser}, clearing' \in BOOLEAN,
         ws' \in Users \cup {NoUser}
  PROVE  TypeInv'
<1>1. /\ Socket \in Pullers /\ pull \in [Pullers -> PullState]
      /\ pull' = [pull EXCEPT ![Socket] = pull[Socket]]
  BY DesktopAssumption DEF DesktopAssumption, TypeInv, DesktopTypeOK
<1> QED BY <1>1, DesktopStep DEF TypeInv, AnswersBound

(* A step of the log leaves the client where it was, and behind. *)
LEMMA LogStep ==
  ASSUME TypeInv, LogNext, UNCHANGED <<cache, cursor, session, clearing, ws, pull>>,
         spent' \in [Disturbances -> Nat]
  PROVE  TypeInv' /\ Horizon' >= Horizon /\ \A n \in Nodes : Seq_(n) <= Seq_(n)'
<1>1. LogInv' /\ Horizon' >= Horizon
  BY LogNextInv, GapFreeStep DEF TypeInv
<1>2. \A n \in Nodes : Seq_(n) <= Seq_(n)' /\ Seq_(n) \in Nat /\ Seq_(n)' \in Nat
  <2>1. versions \in [Nodes -> Seq(Version)] /\ versions' \in [Nodes -> Seq(Version)]
    BY <1>1 DEF TypeInv, LogInv, LogTypeOK
  <2>2. ASSUME NEW t \in running, Commit(t)
        PROVE  \A n \in Nodes : Len(versions[n]) <= Len(versions'[n])
    BY <2>2, CommitEnds DEF TypeInv, LogInv, Ends
  <2>3. ASSUME versions' = versions
        PROVE  \A n \in Nodes : Len(versions[n]) <= Len(versions'[n])
    BY <2>1, <2>3
  <2>4. \A n \in Nodes : Len(versions[n]) <= Len(versions'[n])
    BY <2>2, <2>3 DEF LogNext, Write, BeginUserTx, BeginOtherTx, Prune
  <2> QED BY <2>1, <2>4 DEF Seq_
<1>3. DesktopTypeOK'
  BY <1>1 DEF TypeInv, LogInv, DesktopTypeOK
<1>4. AnswersBound'
  BY <1>2 DEF TypeInv, AnswersBound, DesktopTypeOK, PullState, Entity
<1> QED BY <1>1, <1>2, <1>3, <1>4 DEF TypeInv

LEMMA InitTypes == Init => TypeInv /\ Horizon \in Nat
<1>1. Idle \in PullState /\ Idle.ents = {}
  BY DEF Idle, At, PullState
<1>2. ASSUME Init PROVE TypeInv /\ Horizon \in Nat
  <2>1. LogInv
    BY <1>2, LogInitInv DEF Init
  <2>2. DesktopTypeOK
    BY <1>1, <1>2, <2>1, MissingType, OutboxAssumption DEF OutboxAssumption, Init, LogInv, DesktopTypeOK
  <2>3. AnswersBound
    BY <1>1, <1>2 DEF Init, AnswersBound
  <2> QED BY <2>1, <2>2, <2>3, HorizonIsLeast DEF TypeInv, LogInv, LogTypeOK, LogIds
<1> QED BY <1>2

(* Each step of a pull is an instance of DesktopStep. *)
LEMMA PullTypes ==
  ASSUME TypeInv, NEW p \in Pullers, spent' \in [Disturbances -> Nat],
         Tick(p) \/ (p = Socket /\ Connect) \/ PullStep(p) \/ PullFails(p)
  PROVE  TypeInv'
<1>1. /\ pull[p] \in PullState /\ pull[p].user \in Users \cup {NoUser}
      /\ \A e \in pull[p].ents : e.seq <= Seq_(e.id)
      /\ pull[p].pc \in {"idle", "read"} => pull[p].ents = {}
  BY DEF TypeInv, DesktopTypeOK, AnswersBound, PullState
<1>2. Horizon \in Nat \ {0} /\ LogTypeOK
  BY HorizonIsLeast DEF TypeInv, LogInv, LogTypeOK, LogIds
<1>3. /\ cache \in [Nodes -> [seq : Nat, ver : Version]] /\ cursor \in Nat
      /\ session \in Users \cup {NoUser} /\ clearing \in BOOLEAN /\ ws \in Users \cup {NoUser}
  BY DEF TypeInv, DesktopTypeOK
<1> DEFINE Sound(r) == /\ r \in PullState /\ \A e \in r.ents : e.seq <= Seq_(e.id)
                       /\ r.pc \in {"idle", "read"} => r.ents = {}
           Becomes(r) == Sound(r) /\ pull' = [pull EXCEPT ![p] = r] /\ UNCHANGED logVars
<1>4. ASSUME NEW r, Becomes(r), UNCHANGED Client PROVE TypeInv'
  BY <1>3, <1>4, DesktopStep DEF Client
<1>5. \A u \in Users \cup {NoUser}, c \in Nat, pc \in {"idle", "read", "min", "tree"} :
        Sound(At(pc, u, c))
  BY DEF At, PullState
<1>6. Sound(Idle)
  BY <1>5 DEF Idle
<1>7. CASE Tick(p)
  <2>1. Becomes(At("read", session, 0))
    BY <1>3, <1>5, <1>7 DEF Tick, Goto, Server
  <2> QED BY <1>4, <1>7, <2>1 DEF Tick
<1>8. CASE p = Socket /\ Connect
  <2>1. Becomes(At("read", session, 0))
    BY <1>3, <1>5, <1>8 DEF Connect, Goto, Server
  <2> QED BY <1>3, <1>8, <2>1, DesktopStep DEF Connect
<1>9. CASE ReadCursor(p)
  <2>1. Becomes(At(IF cursor = 0 THEN "tree" ELSE "min", pull[p].user, cursor))
    BY <1>1, <1>3, <1>5, <1>9 DEF ReadCursor, Goto, Server
  <2> QED BY <1>4, <1>9, <2>1 DEF ReadCursor
<1>10. CASE MinXid(p)
  <2>1. PICK pc \in {"tree", "check"} : pull' = [pull EXCEPT ![p] = [pull[p] EXCEPT !.pc = pc]]
    BY <1>10 DEF MinXid, Goto
  <2>2. Sound([pull[p] EXCEPT !.pc = pc])
    BY <1>1 DEF PullState
  <2> QED BY <1>4, <1>10, <2>1, <2>2 DEF MinXid, AtServer, Server
<1>11. CASE CheckHorizon(p)
  <2>1. PICK pc \in {"tree", "since"} : pull' = [pull EXCEPT ![p] = [pull[p] EXCEPT !.pc = pc]]
    BY <1>11 DEF CheckHorizon, Goto
  <2>2. Sound([pull[p] EXCEPT !.pc = pc])
    BY <1>1 DEF PullState
  <2> QED BY <1>4, <1>11, <2>1, <2>2 DEF CheckHorizon, AtServer, Server
<1>12. CASE SinceHorizon(p)
  <2>1. ASSUME NEW k \in Nat PROVE Sound([pull[p] EXCEPT !.pc = "select", !.h = k])
    BY <1>1, <2>1 DEF PullState
  <2> QED BY <1>2, <1>4, <1>12, <2>1 DEF SinceHorizon, AtServer, Server, Goto
<1>13. CASE Select(p)
  <2>1. PICK B \in SUBSET Window(p) :
          pull' = [pull EXCEPT ![p] =
                     [pull[p] EXCEPT !.pc = "reply", !.next = NextCursor(B, pull[p].h),
                                     !.ents = UNION {r.ents : r \in B}, !.mode = "delta"]]
    BY <1>13 DEF Select, Goto
  <2>2. NextCursor(B, pull[p].h) \in Nat
    <3>1. /\ DataRows(pull[p].user) \in SUBSET Row
          /\ pull[p].h \in Nat /\ pull[p].cursor \in Nat
          /\ B \in SUBSET Within(DataRows(pull[p].user), pull[p].cursor, pull[p].h)
      BY <1>1, <1>2 DEF DataRows, Window, LogTypeOK, PullState
    <3> QED BY <3>1, NextCursorBound
  <2>3. B \subseteq log
    BY DEF Within, Window, DataRows, TypeInv, LogInv, LogIds
  <2> DEFINE E == UNION {r.ents : r \in B}
  <2>4. E \in SUBSET Entity /\ \A e \in E : e.seq <= Seq_(e.id)
    BY <2>3, RowBound DEF TypeInv
  <2> HIDE DEF E
  <2>5. Sound([pull[p] EXCEPT !.pc = "reply", !.next = NextCursor(B, pull[p].h),
                              !.ents = E, !.mode = "delta"])
    BY <1>1, <2>2, <2>4 DEF PullState
  <2> QED BY <1>4, <1>13, <2>1, <2>5 DEF Select, AtServer, Server, E
<1>14. CASE ReadTree(p)
  <2> DEFINE E == Snapshot(pull[p].user, Tree)
  <2>1. E \in SUBSET Entity /\ \A e \in E : e.seq <= Seq_(e.id)
    BY <1>2, SnapshotBound, OutboxAssumption DEF OutboxAssumption
  <2>2. Sound([pull[p] EXCEPT !.pc = "other", !.ents = E])
    BY <1>1, <2>1 DEF PullState
  <2> QED BY <1>4, <1>14, <2>2 DEF ReadTree, AtServer, Server, Goto
<1>15. CASE ReadOther(p)
  <2> DEFINE E == pull[p].ents \cup Snapshot(pull[p].user, Nodes \ Tree)
  <2>1. E \in SUBSET Entity /\ \A e \in E : e.seq <= Seq_(e.id)
    BY <1>1, <1>2, SnapshotBound DEF PullState
  <2>2. Sound([pull[p] EXCEPT !.pc = "horizon", !.ents = E])
    BY <1>1, <2>1 DEF PullState
  <2> QED BY <1>4, <1>15, <2>2 DEF ReadOther, AtServer, Server, Goto
<1>16. CASE SnapshotHorizon(p)
  <2>1. ASSUME NEW k \in Nat
        PROVE  Sound([pull[p] EXCEPT !.pc = "reply", !.next = k, !.mode = "snapshot"])
    BY <1>1, <2>1 DEF PullState
  <2> QED BY <1>2, <1>4, <1>16, <2>1 DEF SnapshotHorizon, AtServer, Server, Goto
<1>17. CASE ApplyNothing(p)
  <2>1. Becomes(Idle)
    BY <1>6, <1>17 DEF ApplyNothing, Goto, Server
  <2>2. cursor' \in Nat
    BY <1>1, <1>3, <1>17 DEF ApplyNothing, PullState
  <2> QED BY <1>3, <1>17, <2>1, <2>2, DesktopStep DEF ApplyNothing
<1>18. CASE ApplyFrames(p)
  <2>1. PICK r \in {Idle, At("read", pull[p].user, 0)} : Becomes(r)
    BY <1>1, <1>5, <1>6, <1>18 DEF ApplyFrames, Goto, Server
  <2>2. cursor' \in Nat
    BY <1>1, <1>18 DEF ApplyFrames, PullState
  <2>3. cache' \in [Nodes -> [seq : Nat, ver : Version]]
    BY <1>1, <1>18, ApplyEntsType, RetainOnlyType DEF ApplyFrames, TypeInv, PullState
  <2> QED BY <1>3, <1>18, <2>1, <2>2, <2>3, DesktopStep DEF ApplyFrames
<1>19. CASE PullFails(p)
  <2>1. Becomes(Idle)
    BY <1>6, <1>19 DEF PullFails, Goto
  <2> QED BY <1>4, <1>19, <2>1 DEF PullFails
<1> QED BY <1>7, <1>8, <1>9, <1>10, <1>11, <1>12, <1>13, <1>14, <1>15, <1>16, <1>17,
           <1>18, <1>19 DEF PullStep

(* A restore leaves a log like any other: the entities are at the last seq    *)
(* of a row that is kept.                                                    *)
LEMMA RestoreTypes ==
  ASSUME TypeInv, spent' \in [Disturbances -> Nat], NEW x \in 1 .. Horizon, Restore(x)
  PROVE  TypeInv'
<1> DEFINE kept == {r \in log : r.xid < x}
           seqs(n) == {0} \cup {e.seq : e \in {f \in UNION {r.ents : r \in kept} : f.id = n}}
<1>1. /\ nextXid' = x /\ running' = {} /\ log' = kept /\ rows' = rows \cap kept
      /\ versions' = [n \in Nodes |-> SubSeq(versions[n], 1, MaxOf(seqs(n)))]
      /\ pull' = [p \in Pullers |-> IF pull[p].pc \in {"idle", "read"} THEN pull[p] ELSE Idle]
      /\ UNCHANGED Client
  BY DEF Restore
<1>2. /\ Horizon \in Nat \ {0} /\ LogTypeOK /\ x \in Nat \ {0}
  BY HorizonIsLeast DEF TypeInv, LogInv, LogTypeOK, LogIds
<1>3. ASSUME NEW n \in Nodes
      PROVE  /\ versions'[n] \in Seq(Version) /\ Len(versions'[n]) = MaxOf(seqs(n))
             /\ \A k \in seqs(n) : k <= MaxOf(seqs(n))
  <2>1. versions[n] \in Seq(Version) /\ Len(versions[n]) \in Nat
    BY <1>2 DEF LogTypeOK
  <2>2. \A k \in seqs(n) : k \in Nat /\ k <= Len(versions[n])
    BY <1>2, <2>1 DEF LogTypeOK, Row, Entity, TypeInv, LogInv, LogSeqs
  <2> DEFINE S == seqs(n)
             h == Len(versions[n]) + 1
             m == MaxOf(S)
  <2>3. S # {} /\ S \in SUBSET Nat /\ h \in Nat /\ \A k \in S : k < h
    <3>1. 0 \in S
      OBVIOUS
    <3>2. \A k \in S : k \in Nat /\ k <= Len(versions[n])
      BY <2>2
    <3> HIDE DEF S
    <3> QED BY <2>1, <3>1, <3>2
  <2>4. versions'[n] = SubSeq(versions[n], 1, m)
    BY <1>1
  <2> HIDE DEF S
  <2>5. m \in S /\ \A k \in S : k <= m
    <3> HIDE DEF h
    <3> QED BY <2>3, GreatestNat
  <2>6. m \in Nat /\ m <= Len(versions[n])
    BY <2>2, <2>5 DEF S
  <2> HIDE DEF m
  <2>7. /\ SubSeq(versions[n], 1, m) \in Seq(Version) /\ Len(SubSeq(versions[n], 1, m)) = m
    BY <2>1, <2>6, SubSeqProperties
  <2> QED BY <2>4, <2>5, <2>7 DEF m, S
<1>4. LogTypeOK'
  <2>1. versions' \in [Nodes -> Seq(Version)]
    BY <1>1, <1>3
  <2> QED BY <1>1, <1>2, <2>1 DEF LogTypeOK
<1>5. LogIds' /\ LogLocks' /\ XidOrderIsSeqOrder'
  BY <1>1 DEF TypeInv, LogInv, LogIds, LogLocks, XidOrderIsSeqOrder
<1>6. LogSeqs'
  <2>1. ASSUME NEW r \in kept, NEW e \in r.ents
        PROVE  r.user = Owner[e.id] /\ e.seq <= Len(versions'[e.id])
    <3>1. e.id \in Nodes /\ e.seq \in seqs(e.id)
      BY <1>2 DEF LogTypeOK, Row, Entity
    <3>2. r.user = Owner[e.id]
      BY DEF TypeInv, LogInv, LogSeqs
    <3> QED BY <1>3, <3>1, <3>2
  <2> QED BY <1>1, <2>1 DEF LogSeqs
<1>7. LogInv'
  BY <1>1, <1>4, <1>5, <1>6, FS_Subset DEF TypeInv, LogInv
<1>8. Idle \in PullState /\ Idle.ents = {}
  BY DEF Idle, At, PullState
<1>9. DesktopTypeOK'
  BY <1>1, <1>4, <1>8 DEF TypeInv, DesktopTypeOK, Client
<1>10. AnswersBound'
  BY <1>1, <1>8 DEF TypeInv, AnswersBound
<1> QED BY <1>7, <1>9, <1>10 DEF TypeInv

LEMMA NextTypes == TypeInv /\ [Next]_vars => TypeInv'
<1> SUFFICES ASSUME TypeInv, [Next]_vars PROVE TypeInv'
  OBVIOUS
<1>1. /\ cache \in [Nodes -> [seq : Nat, ver : Version]] /\ cursor \in Nat
      /\ session \in Users \cup {NoUser} /\ clearing \in BOOLEAN /\ ws \in Users \cup {NoUser}
      /\ spent' \in [Disturbances -> Nat]
  BY SpentType DEF TypeInv, DesktopTypeOK
<1>2. CASE ServerWrite
  BY <1>1, <1>2, LogStep DEF ServerWrite, LogNext, desktopVars
<1>3. CASE PruneOutbox
  BY <1>1, <1>3, LogStep DEF PruneOutbox, LogNext, Client
<1>4. ASSUME NEW p \in Pullers, Tick(p) \/ PullStep(p) \/ PullFails(p) PROVE TypeInv'
  BY <1>1, <1>4, PullTypes
<1>5. CASE Connect
  BY <1>1, <1>5, PullTypes, DesktopAssumption DEF DesktopAssumption
<1>6. CASE LiveApply
  <2>1. PICK r \in log : /\ cache' = ApplyEnts(cache, r.ents)
                         /\ UNCHANGED <<Server, cursor, session, clearing, ws, pull>>
    BY <1>6 DEF LiveApply
  <2>2. cache' \in [Nodes -> [seq : Nat, ver : Version]]
    BY <2>1, RowBound, ApplyEntsType DEF TypeInv
  <2> QED BY <1>1, <2>1, <2>2, ClientStep DEF Server
<1>7. CASE Disconnect
  BY <1>1, <1>7, ClientStep DEF Disconnect
<1>8. CASE SignOut
  BY <1>1, <1>8, ClientStep DEF SignOut
<1>9. CASE ClearWorkspace
  BY <1>1, <1>9, MissingType, ClientStep DEF ClearWorkspace
<1>10. CASE \E u \in Users : SignIn(u)
  BY <1>1, <1>10, ClientStep DEF SignIn
<1>11. CASE \E x \in 1 .. Horizon : Restore(x)
  BY <1>1, <1>11, RestoreTypes
<1>12. CASE UNCHANGED vars
  BY <1>1, <1>12, ClientStep DEF vars, desktopVars
<1> QED BY <1>2, <1>3, <1>4, <1>5, <1>6, <1>7, <1>8, <1>9, <1>10, <1>11, <1>12 DEF Next

THEOREM TypeInvariant == Spec => []TypeInv
<1>1. Init => TypeInv
  BY InitTypes
<1> QED BY <1>1, NextTypes, PTL DEF Spec

(* Type correctness of the whole client and server, in every behaviour.      *)
THEOREM DesktopTypeCorrect == Spec => []DesktopTypeOK
<1>1. TypeInv => DesktopTypeOK
  BY DEF TypeInv
<1> QED BY <1>1, TypeInvariant, PTL

(* No step but the clearing of the workspace takes a tombstone back: neither  *)
(* late, repeated or overtaking frames, nor a snapshot, of this database or   *)
(* of one that was restored.                                                 *)
THEOREM TombstonesStay == Spec => NoResurrection
<1>1. ASSUME TypeInv, [Next]_vars
      PROVE  [\A n \in Nodes :
                cache[n].ver.deleted => cache'[n].seq >= cache[n].seq \/ ClearWorkspace]_vars
  <2>1. \A n \in Nodes : cache[n].seq \in Nat
    BY <1>1 DEF TypeInv, DesktopTypeOK
  <2>2. ASSUME NEW E \in SUBSET Entity, \A e \in E : e.seq <= Seq_(e.id), NEW n \in Nodes, cache[n].ver.deleted
        PROVE  /\ ApplyEnts(cache, E)[n].seq >= cache[n].seq
               /\ RetainOnly(ApplyEnts(cache, E), {e.id : e \in E})[n] = ApplyEnts(cache, E)[n]
    <3>1. /\ ApplyEnts(cache, E)[n] = cache[n] \/ \E e \in E : e.id = n
          /\ cache[n].seq <= ApplyEnts(cache, E)[n].seq
      BY <1>1, <2>2, ApplyEntsTakes DEF TypeInv
    <3>2. ApplyEnts(cache, E)[n].seq \in Nat
      BY <1>1, <2>2, ApplyEntsType DEF TypeInv
    <3> QED BY <2>1, <2>2, <3>1, <3>2 DEF RetainOnly
  <2>3. CASE LiveApply
    <3>1. PICK r \in log : cache' = ApplyEnts(cache, r.ents)
      BY <2>3 DEF LiveApply
    <3> QED BY <1>1, <2>2, <3>1, RowBound DEF TypeInv
  <2>4. ASSUME NEW p \in Pullers, ApplyFrames(p), NEW n \in Nodes, cache[n].ver.deleted
        PROVE  cache'[n].seq >= cache[n].seq
    <3> DEFINE E == pull[p].ents
    <3>1. E \in SUBSET Entity /\ \A e \in E : e.seq <= Seq_(e.id)
      BY <1>1 DEF TypeInv, DesktopTypeOK, AnswersBound, PullState
    <3>2. \/ cache' = ApplyEnts(cache, E)
          \/ cache' = RetainOnly(ApplyEnts(cache, E), {e.id : e \in E})
      BY <2>4 DEF ApplyFrames
    <3> HIDE DEF E
    <3> QED BY <2>2, <2>4, <3>1, <3>2
  <2>5. ASSUME UNCHANGED cache, NEW n \in Nodes PROVE cache'[n].seq >= cache[n].seq
    BY <2>1, <2>5
  <2>6. ASSUME NEW p \in Pullers, Tick(p) \/ PullFails(p) \/ ReadCursor(p) \/ MinXid(p) \/ CheckHorizon(p)
               \/ SinceHorizon(p) \/ Select(p) \/ ReadTree(p) \/ ReadOther(p) \/ SnapshotHorizon(p) \/ ApplyNothing(p)
        PROVE  UNCHANGED cache
    BY <2>6 DEF Tick, PullFails, ReadCursor, MinXid, CheckHorizon, SinceHorizon, Select, ReadTree, ReadOther,
                SnapshotHorizon, ApplyNothing, AtServer, Client
  <2>7. ServerWrite \/ Connect \/ Disconnect \/ SignOut \/ PruneOutbox \/ (\E u \in Users : SignIn(u))
        \/ (\E x \in 1 .. Horizon : Restore(x))
        => UNCHANGED cache
    BY DEF ServerWrite, desktopVars, Connect, Disconnect, SignOut, PruneOutbox, SignIn, Restore, Client
  <2> QED BY <1>1, <2>3, <2>4, <2>5, <2>6, <2>7 DEF Next, PullStep
<1> QED BY <1>1, TypeInvariant, PTL DEF Spec, NoResurrection

---------------------------------------------------------------------------
(* Until the database is restored, no cursor passes the horizon and no cached *)
(* row is ahead of the server.                                               *)

CursorBound ==
  /\ cursor <= Horizon
  /\ \A p \in Pullers : pull[p].h <= Horizon /\ pull[p].next <= Horizon

SeqBound == \A n \in Nodes : cache[n].seq <= Seq_(n)

SyncInv == TypeInv /\ CursorBound /\ SeqBound

Unrestored == spent["restore"] = 0

(* apply_frame keeps the cache behind the server when the frames are.        *)
LEMMA ApplyEntsBound ==
  ASSUME DesktopTypeOK, SeqBound, NEW E \in SUBSET Entity, \A e \in E : e.seq <= Seq_(e.id)
  PROVE  \A n \in Nodes : ApplyEnts(cache, E)[n].seq <= Seq_(n)
<1> SUFFICES ASSUME NEW n \in Nodes PROVE ApplyEnts(cache, E)[n].seq <= Seq_(n)
  OBVIOUS
<1>1. CASE ApplyEnts(cache, E)[n] = cache[n]
  BY <1>1 DEF SeqBound
<1>2. ASSUME NEW e \in E, e.id = n, ApplyEnts(cache, E)[n] = [seq |-> e.seq, ver |-> e.ver]
      PROVE  ApplyEnts(cache, E)[n].seq <= Seq_(n)
  BY <1>2
<1> QED BY <1>1, <1>2, ApplyEntsTakes

(* A step of the client that keeps these bounds. *)
LEMMA BoundStep ==
  ASSUME SyncInv, TypeInv', UNCHANGED logVars, cursor' <= Horizon,
         NEW p \in Pullers, pull' = [pull EXCEPT ![p] = pull'[p]],
         pull'[p].h <= Horizon, pull'[p].next <= Horizon,
         \A n \in Nodes : cache'[n].seq <= Seq_(n)
  PROVE  SyncInv'
<1>1. Horizon' = Horizon
  BY DEF logVars, Horizon
<1>2. CursorBound'
  <2>1. pull \in [Pullers -> PullState]
    BY DEF SyncInv, TypeInv, DesktopTypeOK
  <2>2. ASSUME NEW q \in Pullers PROVE pull'[q].h <= Horizon /\ pull'[q].next <= Horizon
    BY <2>1 DEF SyncInv, CursorBound
  <2> QED BY <1>1, <2>2 DEF CursorBound
<1>3. SeqBound'
  BY DEF SeqBound, logVars, Seq_
<1> QED BY <1>2, <1>3 DEF SyncInv

LEMMA PullBounds ==
  ASSUME SyncInv, TypeInv', NEW p \in Pullers,
         Tick(p) \/ (p = Socket /\ Connect) \/ PullStep(p) \/ PullFails(p)
  PROVE  SyncInv'
<1>1. /\ pull \in [Pullers -> PullState] /\ pull[p] \in PullState /\ Horizon \in Nat \ {0} /\ cursor <= Horizon
      /\ pull[p].h <= Horizon /\ pull[p].next <= Horizon /\ pull[p].ents \in SUBSET Entity
      /\ pull[p].h \in Nat /\ pull[p].cursor \in Nat
      /\ \A n \in Nodes : cache[n].seq <= Seq_(n) /\ Seq_(n) \in Nat
  BY HorizonIsLeast DEF SyncInv, TypeInv, DesktopTypeOK, CursorBound, SeqBound, PullState, LogInv, LogTypeOK, LogIds, Seq_
<1>2. ASSUME NEW r, pull' = [pull EXCEPT ![p] = r], r.h <= Horizon, r.next <= Horizon,
             UNCHANGED <<logVars, cache>>, cursor' <= Horizon
      PROVE  SyncInv'
  <2>1. pull'[p] = r /\ pull' = [pull EXCEPT ![p] = pull'[p]]
    BY <1>1, <1>2
  <2> QED BY <1>1, <1>2, <2>1, BoundStep
<1>3. \A pc, u, c : At(pc, u, c).h <= Horizon /\ At(pc, u, c).next <= Horizon
  BY <1>1 DEF At
<1>4. CASE Tick(p) \/ (p = Socket /\ Connect) \/ ReadCursor(p) \/ PullFails(p)
  <2>1. /\ UNCHANGED <<logVars, cache, cursor>>
        /\ \E pc, u, c : pull' = [pull EXCEPT ![p] = At(pc, u, c)]
    BY <1>4 DEF Tick, Connect, ReadCursor, PullFails, Goto, Server, Client, Idle
  <2> QED BY <1>1, <1>2, <1>3, <2>1
<1>5. CASE MinXid(p) \/ CheckHorizon(p) \/ ReadTree(p) \/ ReadOther(p)
  <2>1. PICK pc, E : pull' = [pull EXCEPT ![p] = [pull[p] EXCEPT !.pc = pc, !.ents = E]]
    <3>1. \A pc : [pull[p] EXCEPT !.pc = pc] = [pull[p] EXCEPT !.pc = pc, !.ents = pull[p].ents]
      BY <1>1 DEF PullState
    <3>2. CASE MinXid(p) \/ CheckHorizon(p)
      <4>1. PICK pc : pull' = [pull EXCEPT ![p] = [pull[p] EXCEPT !.pc = pc]]
        BY <3>2 DEF MinXid, CheckHorizon, Goto
      <4>2. pull' = [pull EXCEPT ![p] = [pull[p] EXCEPT !.pc = pc, !.ents = pull[p].ents]]
        BY <3>1, <4>1
      <4> QED BY <4>2
    <3>3. CASE ReadTree(p) \/ ReadOther(p)
      BY <3>3 DEF ReadTree, ReadOther, Goto
    <3> QED BY <1>5, <3>2, <3>3
  <2> DEFINE r == [pull[p] EXCEPT !.pc = pc, !.ents = E]
  <2>2. r.h = pull[p].h /\ r.next = pull[p].next
    BY <1>1 DEF PullState
  <2>3. UNCHANGED <<logVars, cache, cursor>>
    BY <1>5 DEF MinXid, CheckHorizon, ReadTree, ReadOther, AtServer, Server, Client
  <2> HIDE DEF r
  <2> QED BY <1>1, <1>2, <2>1, <2>2, <2>3 DEF r
<1>6. CASE SinceHorizon(p)
  <2> DEFINE r == [pull[p] EXCEPT !.pc = "select", !.h = Horizon]
  <2>1. r.h = Horizon /\ r.next = pull[p].next
    BY <1>1 DEF PullState
  <2>2. pull' = [pull EXCEPT ![p] = r] /\ UNCHANGED <<logVars, cache, cursor>>
    BY <1>6 DEF SinceHorizon, AtServer, Goto, Server, Client
  <2>3. r.h <= Horizon /\ r.next <= Horizon
    <3> HIDE DEF r
    <3> QED BY <1>1, <2>1
  <2> HIDE DEF r
  <2> QED BY <1>1, <1>2, <2>2, <2>3
<1>7. CASE Select(p)
  <2>1. PICK B \in SUBSET Window(p) :
          /\ AtServer(p, "select")
          /\ Goto(p, [pull[p] EXCEPT !.pc = "reply", !.next = NextCursor(B, pull[p].h),
                                     !.ents = UNION {x.ents : x \in B}, !.mode = "delta"])
    BY <1>7 DEF Select
  <2> DEFINE k == NextCursor(B, pull[p].h)
             E == UNION {x.ents : x \in B}
             r == [pull[p] EXCEPT !.pc = "reply", !.next = k, !.ents = E, !.mode = "delta"]
  <2>2. k \in Nat /\ k <= Horizon
    <3>1. /\ DataRows(pull[p].user) \in SUBSET Row
          /\ B \in SUBSET Within(DataRows(pull[p].user), pull[p].cursor, pull[p].h)
      BY DEF DataRows, Window, SyncInv, TypeInv, LogInv, LogTypeOK
    <3>2. k \in Nat /\ k <= pull[p].h
      BY <1>1, <3>1, NextCursorBound
    <3> HIDE DEF k
    <3> QED BY <1>1, <3>2
  <2> HIDE DEF k, E
  <2>3. r.h = pull[p].h /\ r.next = k
    BY <1>1 DEF PullState
  <2>4. pull' = [pull EXCEPT ![p] = r] /\ UNCHANGED <<logVars, cache, cursor>>
    BY <2>1 DEF AtServer, Goto, Server, Client, k, E
  <2> HIDE DEF r
  <2> QED BY <1>1, <1>2, <2>2, <2>3, <2>4
<1>8. CASE SnapshotHorizon(p)
  <2> DEFINE r == [pull[p] EXCEPT !.pc = "reply", !.next = Horizon, !.mode = "snapshot"]
  <2>1. r.h = pull[p].h /\ r.next = Horizon
    BY <1>1 DEF PullState
  <2>2. pull' = [pull EXCEPT ![p] = r] /\ UNCHANGED <<logVars, cache, cursor>>
    BY <1>8 DEF SnapshotHorizon, AtServer, Goto, Server, Client
  <2>3. r.h <= Horizon /\ r.next <= Horizon
    <3> HIDE DEF r
    <3> QED BY <1>1, <2>1
  <2> HIDE DEF r
  <2> QED BY <1>1, <1>2, <2>2, <2>3
<1>9. CASE ApplyNothing(p)
  <2>1. /\ cursor' \in {cursor, pull[p].next} /\ UNCHANGED <<logVars, cache>>
        /\ \E pc, u, c : pull' = [pull EXCEPT ![p] = At(pc, u, c)]
    BY <1>9 DEF ApplyNothing, Goto, Server, Idle
  <2> QED BY <1>1, <1>2, <1>3, <2>1
<1>10. CASE ApplyFrames(p)
  <2>1. /\ cursor' = pull[p].next /\ UNCHANGED logVars
        /\ \E pc, u, c : pull' = [pull EXCEPT ![p] = At(pc, u, c)]
    BY <1>10 DEF ApplyFrames, Goto, Server, Idle
  <2>2. pull' = [pull EXCEPT ![p] = pull'[p]] /\ pull'[p].h <= Horizon /\ pull'[p].next <= Horizon
    BY <1>1, <1>3, <2>1
  <2> DEFINE c == ApplyEnts(cache, pull[p].ents)
  <2>3. \A n \in Nodes : c[n].seq <= Seq_(n)
    BY <1>1, ApplyEntsBound DEF SyncInv, TypeInv, AnswersBound
  <2>4. \A n \in Nodes : cache'[n].seq <= Seq_(n)
    <3> HIDE DEF c
    <3>1. cache' = c \/ \E ids : cache' = RetainOnly(c, ids)
      BY <1>10 DEF ApplyFrames, c
    <3>2. \A ids : \A n \in Nodes : RetainOnly(c, ids)[n].seq <= Seq_(n)
      BY <1>1, <2>3, MissingType DEF RetainOnly
    <3> QED BY <2>3, <3>1, <3>2
  <2> QED BY <1>1, <2>1, <2>2, <2>4, BoundStep
<1> QED BY <1>4, <1>5, <1>6, <1>7, <1>8, <1>9, <1>10 DEF PullStep

LEMMA NextInv ==
  ASSUME SyncInv, spent'["restore"] = 0, [Next]_vars
  PROVE  SyncInv'
<1>1. TypeInv' /\ spent \in [Disturbances -> Nat]
  BY NextTypes DEF SyncInv, TypeInv, DesktopTypeOK
<1>2. /\ Horizon \in Nat /\ cursor \in Nat /\ cursor <= Horizon /\ pull \in [Pullers -> PullState]
      /\ \A n \in Nodes : cache[n].seq <= Seq_(n) /\ Seq_(n) \in Nat
  BY HorizonIsLeast DEF SyncInv, TypeInv, DesktopTypeOK, CursorBound, SeqBound, LogInv, LogTypeOK, LogIds, Seq_
<1>3. ASSUME UNCHANGED <<logVars, pull>>, cursor' <= Horizon, \A n \in Nodes : cache'[n].seq <= Seq_(n)
      PROVE  SyncInv'
  <2>1. /\ Socket \in Pullers /\ pull' = [pull EXCEPT ![Socket] = pull'[Socket]]
        /\ pull'[Socket].h <= Horizon /\ pull'[Socket].next <= Horizon
    BY <1>2, <1>3, DesktopAssumption DEF DesktopAssumption, SyncInv, CursorBound
  <2> QED BY <1>1, <1>3, <2>1, BoundStep
<1>4. ASSUME LogNext, UNCHANGED <<cache, cursor, session, clearing, ws, pull>> PROVE SyncInv'
  <2>1. Horizon' >= Horizon /\ \A n \in Nodes : Seq_(n) <= Seq_(n)'
    BY <1>1, <1>4, LogStep DEF SyncInv, TypeInv, DesktopTypeOK
  <2>2. Horizon' \in Nat /\ \A n \in Nodes : Seq_(n)' \in Nat
    <3>1. LogInv /\ [LogNext]_logVars
      BY <1>4 DEF SyncInv, TypeInv
    <3>2. Horizon' \in Nat
      BY <3>1, HorizonAfter
    <3>3. versions' \in [Nodes -> Seq(Version)]
      BY <1>1 DEF TypeInv, LogInv, LogTypeOK
    <3> QED BY <3>2, <3>3 DEF Seq_
  <2>3. CursorBound'
    BY <1>2, <1>4, <2>1, <2>2 DEF SyncInv, CursorBound, PullState
  <2>4. SeqBound'
    BY <1>2, <1>4, <2>1, <2>2 DEF SeqBound, SyncInv, TypeInv, DesktopTypeOK
  <2> QED BY <1>1, <2>3, <2>4 DEF SyncInv
<1>5. CASE ServerWrite
  BY <1>4, <1>5 DEF ServerWrite, LogNext, desktopVars
<1>6. CASE PruneOutbox
  BY <1>4, <1>6 DEF PruneOutbox, LogNext, Client
<1>7. ASSUME NEW p \in Pullers, Tick(p) \/ PullStep(p) \/ PullFails(p) PROVE SyncInv'
  BY <1>1, <1>7, PullBounds
<1>8. CASE Connect
  BY <1>1, <1>8, PullBounds, DesktopAssumption DEF DesktopAssumption
<1>9. CASE LiveApply
  <2>1. PICK r \in log : /\ cache' = ApplyEnts(cache, r.ents)
                         /\ UNCHANGED <<Server, cursor, session, clearing, ws, pull>>
    BY <1>9 DEF LiveApply
  <2>2. \A n \in Nodes : cache'[n].seq <= Seq_(n)
    BY <2>1, RowBound, ApplyEntsBound DEF SyncInv, TypeInv
  <2> QED BY <1>2, <1>3, <2>1, <2>2 DEF Server
<1>10. CASE Disconnect \/ SignOut \/ (\E u \in Users : SignIn(u)) \/ UNCHANGED vars
  BY <1>2, <1>3, <1>10 DEF Disconnect, SignOut, SignIn, vars, desktopVars
<1>11. CASE ClearWorkspace
  BY <1>2, <1>3, <1>11, MissingType DEF ClearWorkspace
<1>12. CASE \E x \in 1 .. Horizon : Restore(x)
  \* the step would have spent a restore
  <2>1. spent' = [spent EXCEPT !["restore"] = @ + 1]
    BY <1>12 DEF Restore, Spend
  <2> QED BY <1>1, <2>1 DEF Disturbances
<1> QED BY <1>5, <1>6, <1>7, <1>8, <1>9, <1>10, <1>11, <1>12 DEF Next

THEOREM SyncInvariant == Spec => [](Unrestored => SyncInv)
<1>1. Init => SyncInv
  <2>1. Idle.h = 0 /\ Idle.next = 0
    BY DEF Idle, At
  <2>2. ASSUME Init PROVE CursorBound /\ SeqBound
    <3>1. Horizon \in Nat
      BY <2>2, InitTypes
    <3> QED BY <2>1, <2>2, <3>1, MissingType DEF Init, LogInit, CursorBound, SeqBound, Seq_
  <2> QED BY <2>2, InitTypes DEF SyncInv
<1>2. TypeInv /\ (Unrestored => SyncInv) /\ [Next]_vars => (Unrestored => SyncInv)'
  <2> SUFFICES ASSUME TypeInv, Unrestored => SyncInv, [Next]_vars, Unrestored' PROVE SyncInv'
    OBVIOUS
  <2>1. spent \in [Disturbances -> Nat]
    BY DEF TypeInv, DesktopTypeOK
  <2>2. spent' = spent \/ \E d \in Disturbances : Spend(d)
    BY <2>1, SpentType
  <2>3. ASSUME NEW d \in Disturbances, Spend(d), d # "restore" PROVE Unrestored
    BY <2>1, <2>3 DEF Spend, Unrestored, Disturbances
  <2>4. ~Spend("restore")
    <3>1. Spend("restore") => spent'["restore"] = spent["restore"] + 1
      BY <2>1 DEF Spend, Disturbances
    <3> QED BY <2>1, <3>1 DEF Unrestored, Disturbances
  <2>5. Unrestored
    BY <2>2, <2>3, <2>4 DEF Unrestored
  <2> QED BY <2>5, NextInv DEF Unrestored
<1> QED BY <1>1, <1>2, TypeInvariant, PTL DEF Spec

(* The pull cursor never passes a transaction in progress, whatever is       *)
(* pruned, lost, retried, cleared or run by two threads at once: what such a *)
(* transaction commits is always ahead of the cursor.                        *)
THEOREM CursorNeverPassesInFlight == Spec => []CursorBehindInFlight
<1>1. (Unrestored => SyncInv) => CursorBehindInFlight
  <2> SUFFICES ASSUME SyncInv, NEW t \in running
               PROVE  /\ cursor <= t.xid
                      /\ \A p \in Pullers : pull[p].h <= t.xid /\ pull[p].next <= t.xid
    BY DEF CursorBehindInFlight, Unrestored
  <2>1. /\ Horizon \in Nat /\ running \subseteq Txn
        /\ \A s \in running : Horizon <= s.xid
    BY HorizonIsLeast DEF SyncInv, TypeInv, LogInv, LogTypeOK, LogIds
  <2>2. /\ cursor \in Nat /\ cursor <= Horizon
        /\ \A p \in Pullers : /\ pull[p].h \in Nat /\ pull[p].h <= Horizon
                               /\ pull[p].next \in Nat /\ pull[p].next <= Horizon
    BY DEF SyncInv, TypeInv, CursorBound, DesktopTypeOK, PullState
  <2> QED BY <2>1, <2>2 DEF Txn
<1> QED BY <1>1, SyncInvariant, PTL

---------------------------------------------------------------------------
(* The delta path: a client in steady state, as long as nothing is pruned,   *)
(* nobody signs out and the database is not restored.  No pull of it is ever *)
(* answered with a snapshot, and then what it holds are versions the server  *)
(* published (Genuine), and all of them below its cursor (Covered).          *)
Undisturbed == \A d \in {"prune", "signout", "restore"} : spent[d] = 0

Asking == {"min", "check", "since", "select"}

SteadyPull(r) ==
  /\ r.pc \in Asking \cup {"idle", "read", "reply"}
  /\ r.pc # "idle" => r.user = session
  /\ r.pc \in Asking => 1 <= r.cursor /\ r.cursor <= Horizon
  /\ r.pc = "select" => r.cursor <= r.h
  /\ r.pc = "reply" => r.mode = "delta" /\ 1 <= r.next

Steady ==
  /\ rows = log /\ \E r \in DataRows(session) : r.xid = 1
  /\ session \in Users /\ ~clearing /\ ws \in {NoUser, session} /\ 1 <= cursor
  /\ \A p \in Pullers : SteadyPull(pull[p])

Genuine ==
  /\ \A r \in log : /\ r.type = "data_event" \/ r.ents = {}
                    /\ \A e \in r.ents : e.ver = versions[e.id][e.seq]
  /\ \A p \in Pullers : \A e \in pull[p].ents : e.ver = versions[e.id][e.seq]
  /\ \A n \in Nodes : cache[n].seq # 0 => cache[n].ver = versions[n][cache[n].seq]

SteadyInv == SyncInv /\ Steady /\ Genuine

Held(e) == cache[e.id].seq >= e.seq

CoveredPull(r) ==
  \A x \in log : x.user = session =>
    /\ r.pc \in Asking /\ x.xid < r.cursor => \A e \in x.ents : Held(e)
    /\ r.pc = "reply" /\ x.xid < r.next => \A e \in x.ents : Held(e) \/ e \in r.ents

Covered ==
  /\ \A x \in log : x.user = session /\ x.xid < cursor => \A e \in x.ents : Held(e)
  /\ \A p \in Pullers : CoveredPull(pull[p])

(* A step that spends on none of the three is none of them. *)
LEMMA StaysUndisturbed ==
  ASSUME SyncInv, [Next]_vars, Undisturbed'
  PROVE  /\ Undisturbed /\ spent'["restore"] = 0
         /\ ~PruneOutbox /\ ~SignOut /\ ~(\E x \in 1 .. Horizon : Restore(x))
<1>0. spent \in [Disturbances -> Nat]
  BY DEF SyncInv, TypeInv, DesktopTypeOK
<1>1. ASSUME NEW d \in Disturbances, Spend(d)
      PROVE  /\ d \notin {"prune", "signout", "restore"}
             /\ \A b \in {"prune", "signout", "restore"} : spent[b] = spent'[b]
  <2>1. spent' = [spent EXCEPT ![d] = spent[d] + 1] /\ spent[d] + 1 # 0
    BY <1>0, <1>1 DEF Spend
  <2>2. spent'[d] # 0
    BY <1>0, <2>1
  <2> QED BY <1>0, <2>1, <2>2 DEF Undisturbed, Disturbances
<1>2. spent' = spent \/ \E d \in Disturbances : Spend(d)
  BY <1>0, SpentType
<1>3. Undisturbed
  BY <1>1, <1>2 DEF Undisturbed
<1>4. ~Spend("prune") /\ ~Spend("signout") /\ ~Spend("restore")
  BY <1>1 DEF Disturbances
<1>5. spent'["restore"] = 0
  BY DEF Undisturbed
<1> QED BY <1>3, <1>4, <1>5 DEF PruneOutbox, SignOut, Restore
(* A client in steady state starts there. *)
LEMMA EstablishedInv == Established => SteadyInv /\ Covered
<1> SUFFICES ASSUME Established PROVE SteadyInv /\ Covered
  OBVIOUS
<1> DEFINE vs(n) == <<Touch(n, <<>>, Fields)>>
           e(n) == EntityAt(n, vs(n))
           row(n) == DataRow([xid |-> 1, user |-> Owner[n]], 1, {e(n)})
<1>1. PICK n \in Nodes :
        /\ nextXid = 2 /\ running = {} /\ rows = {row(n)} /\ log = {row(n)}
        /\ versions = [m \in Nodes |-> IF m = n THEN vs(n) ELSE <<>>]
        /\ cache = ApplyEnts([m \in Nodes |-> Missing], row(n).ents) /\ cursor = 2
        /\ session = Owner[n] /\ clearing = FALSE /\ ws = NoUser
        /\ pull = [p \in Pullers |-> Idle]
        /\ spent = [d \in Disturbances |-> 0]
  BY DEF Established
<1>2. vs(n) \in Seq(Version) /\ vs(n) # <<>> /\ Len(vs(n)) = 1
  <2>1. Touch(n, <<>>, Fields) \in Version
    <3>1. <<>> \in Seq(Version)
      OBVIOUS
    <3> QED BY <3>1, TouchType
  <2> QED BY <2>1
<1>3. /\ e(n) \in Entity /\ e(n).id = n /\ e(n).seq = 1 /\ e(n).ver = vs(n)[1] /\ e(n).ver \in Version
  BY <1>2, EntityType DEF EntityAt, Entity
<1>4. Owner[n] \in Users /\ Owner[n] # NoUser
  BY OutboxAssumption DEF OutboxAssumption
<1>5. /\ row(n) \in Row /\ row(n).xid = 1 /\ row(n).user = Owner[n] /\ row(n).ents = {e(n)}
      /\ row(n).type = "data_event"
  <2> DEFINE t == [xid |-> 1, user |-> Owner[n]]
  <2>1. t \in Txn /\ t.xid = 1 /\ t.user = Owner[n]
    BY <1>4 DEF Txn
  <2> HIDE DEF t, e
  <2>2. DataRow(t, 1, {e(n)}).type = "data_event"
    BY DEF DataRow
  <2> QED BY <1>3, <2>1, <2>2, DataRowType DEF t
<1> HIDE DEF e, row
<1>6. /\ versions \in [Nodes -> Seq(Version)] /\ versions[n] = vs(n) /\ Len(versions[n]) = 1
      /\ \A m \in Nodes : m # n => versions[m] = <<>>
  BY <1>1, <1>2
<1> HIDE DEF vs
<1>7. LogInv
  <2>1. LogTypeOK
    BY <1>1, <1>5, <1>6 DEF LogTypeOK
  <2>2. LogIds /\ LogLocks
    BY <1>1, <1>5 DEF LogIds, LogLocks
  <2>3. LogSeqs
    <3>1. ASSUME NEW r \in log, NEW f \in r.ents
          PROVE  r.user = Owner[f.id] /\ f.seq <= Len(versions[f.id])
      <4>1. r.user = Owner[n] /\ f.id = n /\ f.seq = 1
        BY <1>1, <1>3, <1>5, <3>1
      <4>2. Len(versions[f.id]) = 1
        BY <1>6, <4>1
      <4> QED BY <4>1, <4>2
    <3> QED BY <3>1 DEF LogSeqs
  <2>4. XidOrderIsSeqOrder
    BY <1>1, <1>5 DEF XidOrderIsSeqOrder
  <2> QED BY <1>1, <2>1, <2>2, <2>3, <2>4, FS_Singleton DEF LogInv
<1>8. Horizon = 2
  <2>1. {t.xid : t \in running} = {}
    BY <1>1
  <2> QED BY <1>1, <2>1 DEF Horizon, Oldest
<1>9. /\ Idle \in PullState /\ Idle.h = 0 /\ Idle.next = 0 /\ Idle.ents = {} /\ Idle.pc = "idle"
  BY DEF Idle, At, PullState
<1>10. /\ cache \in [Nodes -> [seq : Nat, ver : Version]]
       /\ cache[n].seq = 1 /\ cache[n].ver = e(n).ver
       /\ \A m \in Nodes : m # n => cache[m].seq = 0
  <2> DEFINE c == [m \in Nodes |-> Missing]
  <2>1. Missing \in [seq : Nat, ver : Version] /\ Missing.seq = 0
    BY DEF Missing, Version
  <2>2. ASSUME NEW m \in Nodes, m # n PROVE cache[m] = Missing
    <3>1. {f \in {e(n)} : f.id = m /\ f.seq > c[m].seq} = {}
      BY <1>3, <2>2
    <3> QED BY <1>1, <1>5, <3>1 DEF ApplyEnts
  <2>3. cache[n] = [seq |-> e(n).seq, ver |-> e(n).ver]
    <3> DEFINE newer == {f \in {e(n)} : f.id = n /\ f.seq > c[n].seq}
    <3>1. newer = {e(n)}
      BY <1>3, <2>1
    <3>2. cache[n] = IF newer = {} THEN c[n]
                     ELSE LET g == CHOOSE f \in newer : \A h \in newer : h.seq <= f.seq
                          IN [seq |-> g.seq, ver |-> g.ver]
      BY <1>1, <1>5 DEF ApplyEnts
    <3> HIDE DEF newer
    <3>3. (CHOOSE f \in newer : \A h \in newer : h.seq <= f.seq) = e(n)
      BY <1>3, <3>1
    <3> QED BY <3>1, <3>2, <3>3
  <2>4. cache = [m \in Nodes |-> cache[m]]
    BY <1>1 DEF ApplyEnts
  <2> QED BY <1>3, <2>1, <2>2, <2>3, <2>4
<1>11. DesktopTypeOK
  BY <1>1, <1>4, <1>7, <1>9, <1>10 DEF LogInv, DesktopTypeOK
<1>12. CursorBound
  BY <1>1, <1>8, <1>9 DEF CursorBound
<1>13. SeqBound
  <2>1. \A m \in Nodes : cache[m].seq <= Seq_(m)
    <3>1. \A m \in Nodes : Seq_(m) \in Nat
      BY <1>6 DEF Seq_
    <3>2. cache[n].seq <= Seq_(n)
      BY <1>6, <1>10 DEF Seq_
    <3>3. \A m \in Nodes : m # n => cache[m].seq <= Seq_(m)
      BY <1>10, <3>1
    <3> QED BY <3>2, <3>3
  <2> QED BY <1>1, <1>9, <2>1 DEF SeqBound
<1>14. Steady
  <2>1. \A p \in Pullers : SteadyPull(pull[p])
    BY <1>1, <1>9 DEF SteadyPull, Asking
  <2>2. row(n) \in DataRows(session)
    BY <1>1, <1>5 DEF DataRows
  <2> QED BY <1>1, <1>4, <1>5, <2>1, <2>2 DEF Steady
<1>15. Genuine
  BY <1>1, <1>3, <1>5, <1>6, <1>9, <1>10 DEF Genuine
<1>16. Covered
  <2>1. \A p \in Pullers : CoveredPull(pull[p])
    BY <1>1, <1>9 DEF CoveredPull, Asking
  <2>2. \A x \in log : \A f \in x.ents : Held(f)
    <3>1. ASSUME NEW x \in log, NEW f \in x.ents PROVE Held(f)
      <4>1. f.id = n /\ f.seq = 1
        BY <1>1, <1>3, <1>5, <3>1
      <4> QED BY <1>10, <4>1 DEF Held
    <3> QED BY <3>1
  <2> QED BY <2>1, <2>2 DEF Covered
<1>17. AnswersBound
  BY <1>1, <1>9 DEF AnswersBound
<1> QED BY <1>7, <1>11, <1>12, <1>13, <1>14, <1>15, <1>16, <1>17 DEF SyncInv, TypeInv, SteadyInv
(* A transaction of the server leaves the client on the delta path: what it  *)
(* commits is at or above the horizon, and so above every cursor there is.   *)
LEMMA ServerSteady ==
  ASSUME SteadyInv, SyncInv', ServerWrite
  PROVE  Steady' /\ Genuine' /\ (Covered => Covered')
<1>1. /\ UNCHANGED <<cache, cursor, session, clearing, ws, pull, spent>>
      /\ LogInv /\ LogTypeOK /\ LogNext
  BY DEF ServerWrite, desktopVars, SteadyInv, SyncInv, TypeInv, LogInv, LogNext
<1>2. /\ Horizon' >= Horizon /\ \A r \in log' \ log : r.xid >= Horizon
  BY <1>1, GapFreeStep
<1>3. /\ Horizon \in Nat /\ Horizon' \in Nat
  BY <1>1, HorizonIsLeast, HorizonAfter DEF LogInv, LogTypeOK, LogIds
<1>4. rows' = log' /\ rows \subseteq rows' /\ log \subseteq log'
      /\ Publishes(log' \ log)
  <2>1. rows = log
    BY DEF SteadyInv, Steady
  <2>2. CASE \E t \in running : Commit(t)
    <3>1. PICK t \in running : Commit(t)
      BY <2>2
    <3>2. PICK R : Ends(t, R)
      BY <1>1, <3>1, CommitEnds
    <3> QED BY <1>1, <2>1, <3>1, <3>2, CommitPublishes DEF Ends
  <2>3. CASE (\E u \in Users : BeginUserTx(u)) \/ BeginOtherTx
    <3>1. UNCHANGED <<versions, rows, log>>
      BY <2>3 DEF BeginUserTx, BeginOtherTx
    <3> QED BY <2>1, <3>1 DEF Publishes
  <2> QED BY <2>2, <2>3 DEF ServerWrite, Write
<1>5. ASSUME NEW p \in Pullers
      PROVE  /\ pull[p].cursor \in Nat /\ pull[p].h \in Nat /\ pull[p].next \in Nat
             /\ pull[p].next <= Horizon /\ SteadyPull(pull[p]) /\ pull[p].ents \in SUBSET Entity
  BY DEF SteadyInv, SyncInv, TypeInv, DesktopTypeOK, PullState, CursorBound, Steady
<1>6. \A p \in Pullers : SteadyPull(pull[p])'
  <2> SUFFICES ASSUME NEW p \in Pullers PROVE SteadyPull(pull[p])'
    OBVIOUS
  <2>1. pull[p].cursor <= Horizon => pull[p].cursor <= Horizon'
    BY <1>2, <1>3, <1>5
  <2> QED BY <1>1, <1>5, <2>1 DEF SteadyPull
<1>7. Steady'
  <2>1. \E r \in DataRows(session)' : r.xid = 1
    BY <1>1, <1>4 DEF SteadyInv, Steady, DataRows
  <2> QED BY <1>1, <1>4, <1>6, <2>1 DEF SteadyInv, Steady
<1>8. ASSUME NEW n \in Nodes, NEW k \in Nat \ {0}, k <= Seq_(n)
      PROVE  versions'[n][k] = versions[n][k]
  <2>1. k \in 1 .. Len(versions[n])
    BY <1>1, <1>8 DEF LogTypeOK, Seq_
  <2> QED BY <1>4, <2>1 DEF Publishes
<1>9. Genuine'
  <2>1. ASSUME NEW r \in log', NEW e \in r.ents PROVE e.ver = versions'[e.id][e.seq]
    <3>1. CASE r \in log
      <4>1. e \in Entity /\ e.seq <= Seq_(e.id) /\ e.ver = versions[e.id][e.seq]
        BY <1>1, <3>1 DEF LogTypeOK, Row, LogInv, LogSeqs, Seq_, SteadyInv, Genuine
      <4> QED BY <1>8, <4>1 DEF Entity
    <3>2. CASE r \notin log
      BY <1>4, <3>2 DEF Publishes
    <3> QED BY <3>1, <3>2
  <2>2. \A r \in log' : r.type = "data_event" \/ r.ents = {}
    BY <1>4 DEF Publishes, SteadyInv, Genuine
  <2>3. ASSUME NEW p \in Pullers, NEW e \in pull[p].ents PROVE e.ver = versions'[e.id][e.seq]
    <3>1. e \in Entity /\ e.seq <= Seq_(e.id) /\ e.ver = versions[e.id][e.seq]
      BY <1>5 DEF SteadyInv, SyncInv, TypeInv, AnswersBound, Genuine
    <3> QED BY <1>8, <3>1 DEF Entity
  <2>4. ASSUME NEW n \in Nodes, cache[n].seq # 0 PROVE cache[n].ver = versions'[n][cache[n].seq]
    <3>1. cache[n].seq \in Nat \ {0} /\ cache[n].seq <= Seq_(n) /\ cache[n].ver = versions[n][cache[n].seq]
      BY <2>4 DEF SteadyInv, SyncInv, TypeInv, DesktopTypeOK, SeqBound, Genuine
    <3> QED BY <1>8, <3>1
  <2> QED BY <1>1, <2>1, <2>2, <2>3, <2>4 DEF Genuine
<1>10. ASSUME Covered PROVE Covered'
  <2>1. \A x \in log' : x.xid \in Nat
    BY DEF SyncInv, TypeInv, LogInv, LogTypeOK, Row
  <2>2. ASSUME NEW x \in log', NEW c \in Nat, c <= Horizon, x.xid < c PROVE x \in log
    BY <1>2, <1>3, <2>1, <2>2
  <2>3. cursor \in Nat /\ cursor <= Horizon
    BY DEF SteadyInv, SyncInv, TypeInv, DesktopTypeOK, CursorBound
  <2>4. \A e : Held(e)' = Held(e)
    BY <1>1 DEF Held
  <2>5. \A x \in log' : x.user = session' /\ x.xid < cursor' => \A e \in x.ents : Held(e)'
    BY <1>1, <1>10, <2>2, <2>3, <2>4 DEF Covered
  <2>6. ASSUME NEW p \in Pullers PROVE CoveredPull(pull[p])'
    <3>1. CoveredPull(pull[p])
      BY <1>10 DEF Covered
    <3>2. ASSUME NEW x \in log', x.user = session, pull[p].pc \in Asking, x.xid < pull[p].cursor
          PROVE  \A e \in x.ents : Held(e)'
      <4>1. x \in log
        BY <1>5, <2>2, <3>2 DEF SteadyPull
      <4> QED BY <2>4, <3>1, <3>2, <4>1 DEF CoveredPull
    <3>3. ASSUME NEW x \in log', x.user = session, pull[p].pc = "reply", x.xid < pull[p].next
          PROVE  \A e \in x.ents : Held(e)' \/ e \in pull[p].ents
      <4>1. x \in log
        BY <1>5, <2>2, <3>3
      <4> QED BY <2>4, <3>1, <3>3, <4>1 DEF CoveredPull
    <3> QED BY <1>1, <3>2, <3>3 DEF CoveredPull
  <2> QED BY <2>5, <2>6 DEF Covered
<1> QED BY <1>7, <1>9, <1>10
(* A turn of the pull loop, with what it makes of the cache and the cursor.  *)
LEMMA TurnSteady ==
  ASSUME SteadyInv, UNCHANGED <<logVars, session, clearing>>, ws' \in {NoUser, session},
         cursor' \in Nat, 1 <= cursor', NEW p \in Pullers, NEW r \in PullState,
         pull' = [pull EXCEPT ![p] = r], SteadyPull(r),
         \A e \in r.ents : e.ver = versions[e.id][e.seq],
         \A n \in Nodes : cache'[n].seq # 0 => cache'[n].ver = versions[n][cache'[n].seq]
  PROVE  Steady' /\ Genuine'
<1>1. pull \in [Pullers -> PullState]
  BY DEF SteadyInv, SyncInv, TypeInv, DesktopTypeOK
<1>2. Horizon' = Horizon /\ DataRows(session)' = DataRows(session)
  BY DEF logVars, Horizon, DataRows
<1>3. ASSUME NEW q \in Pullers PROVE SteadyPull(pull[q])'
  <2>1. SteadyPull(pull'[q])
    BY <1>1 DEF SteadyInv, Steady
  <2> QED BY <1>2, <2>1 DEF SteadyPull
<1>4. Steady'
  BY <1>2, <1>3 DEF logVars, SteadyInv, Steady
<1>5. ASSUME NEW q \in Pullers, NEW e \in pull'[q].ents PROVE e.ver = versions[e.id][e.seq]
  BY <1>1, <1>5 DEF SteadyInv, Genuine
<1>6. Genuine'
  BY <1>5 DEF logVars, SteadyInv, Genuine
<1> QED BY <1>4, <1>6

(* What covers the log before such a turn covers it after it: the rows are    *)
(* the same, and nothing in the cache steps back.                            *)
LEMMA TurnCovered ==
  ASSUME SteadyInv, Covered, UNCHANGED <<logVars, session>>, \A n \in Nodes : cache[n].seq <= cache'[n].seq,
         cache' \in [Nodes -> [seq : Nat, ver : Version]],
         NEW p \in Pullers, NEW r \in PullState, pull' = [pull EXCEPT ![p] = r],
         CoveredPull(r) \/ (r.pc \notin Asking /\ r.pc # "reply"),
         \A x \in log : x.user = session /\ x.xid < cursor' => \A e \in x.ents : Held(e)'
  PROVE  Covered'
<1>1. /\ pull \in [Pullers -> PullState] /\ cache \in [Nodes -> [seq : Nat, ver : Version]]
      /\ log' = log /\ \A x \in log : x.ents \in SUBSET Entity
  BY DEF SteadyInv, SyncInv, TypeInv, DesktopTypeOK, LogTypeOK, Row, logVars
<1>2. ASSUME NEW e \in Entity, Held(e) PROVE Held(e)'
  BY <1>1, <1>2 DEF Held, Entity
<1>3. ASSUME NEW s, CoveredPull(s) PROVE CoveredPull(s)'
  BY <1>1, <1>2, <1>3 DEF CoveredPull
<1>4. ASSUME NEW s, s.pc \notin Asking, s.pc # "reply" PROVE CoveredPull(s)'
  BY <1>4 DEF CoveredPull
<1>5. CoveredPull(r)'
  BY <1>3, <1>4
<1>6. ASSUME NEW q \in Pullers PROVE CoveredPull(pull[q])'
  <2>1. CASE q = p
    BY <1>1, <1>5, <2>1 DEF CoveredPull
  <2>2. CASE q # p
    <3>1. pull'[q] = pull[q] /\ CoveredPull(pull[q])
      BY <1>1, <2>2 DEF Covered
    <3>2. CoveredPull(pull[q])'
      BY <1>1, <1>2, <3>1 DEF CoveredPull
    <3> QED BY <3>2
  <2> QED BY <2>1, <2>2
<1> QED BY <1>1, <1>6 DEF Covered
(* A batch that carries every row below the cursor it answers with: it does  *)
(* not end between two rows of one transaction.                              *)
WholeBatches ==
  \A p \in Pullers : Select(p) =>
    \A r \in Window(p) : r.xid < pull'[p].next => r.ents \subseteq pull'[p].ents

(* Each step of a pull keeps to the delta path, brings nothing the server did *)
(* not publish, and leaves nothing out.                                      *)
LEMMA PullSteady ==
  ASSUME SteadyInv, SyncInv', NEW p \in Pullers,
         Tick(p) \/ (p = Socket /\ Connect) \/ PullStep(p) \/ PullFails(p)
  PROVE  Steady' /\ Genuine' /\ (Covered /\ WholeBatches => Covered')
<1> DEFINE r == pull'[p]
<1>1. /\ pull \in [Pullers -> PullState] /\ pull[p] \in PullState /\ r \in PullState
      /\ cursor \in Nat /\ cursor <= Horizon /\ cursor' \in Nat /\ Horizon \in Nat
      /\ cache \in [Nodes -> [seq : Nat, ver : Version]] /\ cache' \in [Nodes -> [seq : Nat, ver : Version]]
      /\ pull[p].cursor \in Nat /\ pull[p].next \in Nat /\ pull[p].h \in Nat /\ pull[p].ents \in SUBSET Entity
  BY HorizonIsLeast DEF SteadyInv, SyncInv, TypeInv, DesktopTypeOK, CursorBound, LogInv, LogTypeOK, LogIds, PullState
<1>2. /\ SteadyPull(pull[p]) /\ 1 <= cursor /\ session \in Users /\ ~clearing /\ ws \in {NoUser, session}
      /\ \A e \in pull[p].ents : e.ver = versions[e.id][e.seq]
      /\ \A n \in Nodes : cache[n].seq # 0 => cache[n].ver = versions[n][cache[n].seq]
  BY DEF SteadyInv, Steady, Genuine
<1>3. ASSUME NEW s, pull' = [pull EXCEPT ![p] = s]
      PROVE  r = s /\ pull' = [pull EXCEPT ![p] = r]
  BY <1>1, <1>3
<1>4. /\ log \subseteq Row /\ rows = log /\ \A n \in Nodes : cache[n].seq \in Nat
      /\ \A x \in log : x.ents \in SUBSET Entity /\ (x.type = "data_event" \/ x.ents = {})
  BY <1>1 DEF SteadyInv, SyncInv, TypeInv, LogInv, LogTypeOK, Row, Steady, Genuine
<1> DEFINE Calm == /\ UNCHANGED <<logVars, session, clearing, cache, cursor>> /\ ws' \in {NoUser, session}
                   /\ pull' = [pull EXCEPT ![p] = r]
<1> HIDE DEF r
\* a step that touches neither the cache nor the cursor
<1>5. ASSUME Calm, SteadyPull(r), \A e \in r.ents : e.ver = versions[e.id][e.seq],
             Covered /\ WholeBatches => CoveredPull(r) \/ (r.pc \notin Asking /\ r.pc # "reply")
      PROVE  Steady' /\ Genuine' /\ (Covered /\ WholeBatches => Covered')
  <2>1. Steady' /\ Genuine'
    BY <1>1, <1>2, <1>5, TurnSteady
  <2>2. ASSUME Covered, WholeBatches PROVE Covered'
    <3>1. \A x \in log : x.user = session /\ x.xid < cursor' => \A e \in x.ents : Held(e)'
      BY <1>5, <2>2 DEF Covered, Held
    <3>2. \A n \in Nodes : cache[n].seq <= cache'[n].seq
      BY <1>4, <1>5
    <3>3. UNCHANGED <<logVars, session>> /\ pull' = [pull EXCEPT ![p] = r]
      BY <1>5
    <3>4. CoveredPull(r) \/ (r.pc \notin Asking /\ r.pc # "reply")
      BY <1>5, <2>2
    <3> QED BY <1>1, <2>2, <3>1, <3>2, <3>3, <3>4, TurnCovered
  <2> QED BY <2>1, <2>2
<1>6. ASSUME NEW pc \in {"idle", "read"}, NEW u, NEW c,
             r = At(pc, u, c), pc = "read" => u = session
      PROVE  /\ SteadyPull(r) /\ r.ents = {} /\ r.pc \notin Asking /\ r.pc # "reply"
  BY <1>6 DEF At, SteadyPull, Asking
<1>7. CASE Tick(p)
  <2>1. Calm /\ r = At("read", session, 0)
    BY <1>2, <1>3, <1>7 DEF Tick, Goto, Server, Client
  <2>2. SteadyPull(r) /\ r.ents = {} /\ r.pc \notin Asking /\ r.pc # "reply"
    BY <1>6, <2>1
  <2> QED BY <1>5, <2>1, <2>2
<1>8. CASE p = Socket /\ Connect
  <2>1. Calm /\ r = At("read", session, 0)
    BY <1>2, <1>3, <1>8 DEF Connect, Goto, Server
  <2>2. SteadyPull(r) /\ r.ents = {} /\ r.pc \notin Asking /\ r.pc # "reply"
    BY <1>6, <2>1
  <2> QED BY <1>5, <2>1, <2>2
<1>9. CASE PullFails(p)
  <2>1. Calm /\ r = At("idle", NoUser, 0)
    BY <1>2, <1>3, <1>9 DEF PullFails, Goto, Client, Idle
  <2>2. SteadyPull(r) /\ r.ents = {} /\ r.pc \notin Asking /\ r.pc # "reply"
    BY <1>6, <2>1
  <2> QED BY <1>5, <2>1, <2>2
<1>10. CASE ReadCursor(p)
  <2>1. Calm /\ r = At("min", pull[p].user, cursor)
    <3>1. cursor # 0
      BY <1>1, <1>2
    <3>2. pull' = [pull EXCEPT ![p] = At("min", pull[p].user, cursor)]
      BY <1>10, <3>1 DEF ReadCursor, Goto
    <3> QED BY <1>2, <1>3, <1>10, <3>2 DEF ReadCursor, Server, Client
  <2>2. SteadyPull(r) /\ r.ents = {} /\ r.cursor = cursor /\ r.pc = "min"
    BY <1>1, <1>2, <1>10, <2>1 DEF At, SteadyPull, Asking, ReadCursor
  <2>3. Covered => CoveredPull(r)
    BY <2>2 DEF Covered, CoveredPull
  <2> QED BY <1>5, <2>1, <2>2, <2>3
<1>11. CASE MinXid(p)
  <2> DEFINE X == {x.xid : x \in DataRows(pull[p].user)}
  <2>1. pull[p].pc = "min" /\ pull[p].user = session /\ 1 <= pull[p].cursor /\ pull[p].cursor <= Horizon
    BY <1>2, <1>11 DEF MinXid, AtServer, SteadyPull, Asking
  <2>2. 1 \in X /\ X \subseteq Nat \ {0}
    BY <1>4, <2>1 DEF SteadyInv, Steady, DataRows, Row
  <2>3. MinOf(X) = 1
    <3>1. \A y \in X : 1 <= y
      BY <2>2
    <3>2. MinOf(X) \in X /\ \A y \in X : MinOf(X) <= y
      BY <2>2, <3>1 DEF MinOf
    <3>3. MinOf(X) <= 1 /\ 1 <= MinOf(X) /\ MinOf(X) \in Nat
      BY <2>2, <3>1, <3>2
    <3> QED BY <3>3
  <2>4. Calm /\ r = [pull[p] EXCEPT !.pc = "check"]
    <3>1. ~(pull[p].cursor < MinOf({x.xid : x \in DataRows(pull[p].user)}))
      BY <1>1, <2>1, <2>3
    <3> QED BY <1>2, <1>3, <1>11, <3>1 DEF MinXid, AtServer, Goto, Server, Client
  <2>5. /\ r.pc = "check" /\ r.user = session /\ r.cursor = pull[p].cursor /\ r.ents = pull[p].ents
    BY <1>1, <2>1, <2>4 DEF PullState
  <2>6. SteadyPull(r)
    BY <2>1, <2>5 DEF SteadyPull, Asking
  <2>7. Covered => CoveredPull(r)
    BY <2>1, <2>5 DEF Covered, CoveredPull, Asking
  <2> QED BY <1>2, <1>5, <2>4, <2>5, <2>6, <2>7
<1>12. CASE CheckHorizon(p)
  <2>1. pull[p].pc = "check" /\ pull[p].user = session /\ 1 <= pull[p].cursor /\ pull[p].cursor <= Horizon
    BY <1>2, <1>12 DEF CheckHorizon, AtServer, SteadyPull, Asking
  <2>2. Calm /\ r = [pull[p] EXCEPT !.pc = "since"]
    <3>1. ~(pull[p].cursor > Horizon)
      BY <1>1, <2>1
    <3> QED BY <1>2, <1>3, <1>12, <3>1 DEF CheckHorizon, AtServer, Goto, Server, Client
  <2>3. /\ r.pc = "since" /\ r.user = session /\ r.cursor = pull[p].cursor /\ r.ents = pull[p].ents
    BY <1>1, <2>1, <2>2 DEF PullState
  <2>4. SteadyPull(r)
    BY <2>1, <2>3 DEF SteadyPull, Asking
  <2>5. Covered => CoveredPull(r)
    BY <2>1, <2>3 DEF Covered, CoveredPull, Asking
  <2> QED BY <1>2, <1>5, <2>2, <2>3, <2>4, <2>5
<1>13. CASE SinceHorizon(p)
  <2>1. pull[p].pc = "since" /\ pull[p].user = session /\ 1 <= pull[p].cursor /\ pull[p].cursor <= Horizon
    BY <1>2, <1>13 DEF SinceHorizon, AtServer, SteadyPull, Asking
  <2>2. Calm /\ r = [pull[p] EXCEPT !.pc = "select", !.h = Horizon]
    BY <1>2, <1>3, <1>13 DEF SinceHorizon, AtServer, Goto, Server, Client
  <2>3. /\ r.pc = "select" /\ r.user = session /\ r.cursor = pull[p].cursor /\ r.ents = pull[p].ents
        /\ r.h = Horizon
    BY <1>1, <2>1, <2>2 DEF PullState
  <2>4. SteadyPull(r)
    BY <2>1, <2>3 DEF SteadyPull, Asking
  <2>5. Covered => CoveredPull(r)
    BY <2>1, <2>3 DEF Covered, CoveredPull, Asking
  <2> QED BY <1>2, <1>5, <2>2, <2>3, <2>4, <2>5
<1>14. CASE Select(p)
  <2>1. /\ pull[p].pc = "select" /\ pull[p].user = session /\ 1 <= pull[p].cursor
        /\ pull[p].cursor <= pull[p].h
    BY <1>2, <1>14 DEF Select, AtServer, SteadyPull, Asking
  <2>2. PICK B \in SUBSET Window(p) :
          /\ AtServer(p, "select")
          /\ Goto(p, [pull[p] EXCEPT !.pc = "reply", !.next = NextCursor(B, pull[p].h),
                                     !.ents = UNION {x.ents : x \in B}, !.mode = "delta"])
    BY <1>14 DEF Select
  <2> DEFINE k == NextCursor(B, pull[p].h)
             E == UNION {x.ents : x \in B}
  <2>3. k \in Nat /\ pull[p].cursor <= k
    <3>1. /\ DataRows(pull[p].user) \in SUBSET Row
          /\ B \in SUBSET Within(DataRows(pull[p].user), pull[p].cursor, pull[p].h)
      BY <1>4 DEF DataRows, Window
    <3> QED BY <1>1, <2>1, <3>1, NextCursorBound
  <2>4. B \subseteq log
    BY <1>4 DEF Within, Window, DataRows
  <2>5. \A e \in E : e.ver = versions[e.id][e.seq]
    BY <2>4 DEF SteadyInv, Genuine
  <2> HIDE DEF k, E
  <2>6. Calm /\ r = [pull[p] EXCEPT !.pc = "reply", !.next = k, !.ents = E, !.mode = "delta"]
    BY <1>2, <1>3, <2>2 DEF AtServer, Goto, Server, Client, k, E
  <2>7. /\ r.pc = "reply" /\ r.user = session /\ r.next = k /\ r.ents = E /\ r.mode = "delta"
    BY <1>1, <2>1, <2>6 DEF PullState
  <2>8. SteadyPull(r)
    BY <1>1, <2>1, <2>3, <2>7 DEF SteadyPull, Asking
  <2>9. ASSUME Covered, WholeBatches PROVE CoveredPull(r)
    <3>1. ASSUME NEW x \in log, x.user = session, x.xid < k, NEW e \in x.ents
          PROVE  Held(e) \/ e \in r.ents
      <4>1. CASE x.xid < pull[p].cursor
        BY <2>1, <2>9, <3>1, <4>1 DEF Covered, CoveredPull, Asking
      <4>2. CASE ~(x.xid < pull[p].cursor)
        <5>1. x \in DataRows(pull[p].user)
          BY <1>4, <2>1, <3>1 DEF DataRows
        <5>2. k <= pull[p].h
          <6>1. /\ DataRows(pull[p].user) \in SUBSET Row
                /\ B \in SUBSET Within(DataRows(pull[p].user), pull[p].cursor, pull[p].h)
            BY <1>4 DEF DataRows, Window
          <6> QED BY <1>1, <6>1, NextCursorBound DEF k
        <5>3. x.xid \in Nat
          BY <1>4 DEF Row
        <5>4. x \in Window(p)
          BY <1>1, <2>3, <3>1, <4>2, <5>1, <5>2, <5>3 DEF Window, Within
        <5>5. x.ents \subseteq pull'[p].ents
          BY <1>14, <2>7, <2>9, <3>1, <5>4 DEF WholeBatches, r
        <5> QED BY <3>1, <5>5 DEF r
      <4> QED BY <4>1, <4>2
    <3> QED BY <2>7, <3>1 DEF CoveredPull, Asking
  <2> QED BY <1>5, <2>5, <2>6, <2>7, <2>8, <2>9
<1>15. CASE ApplyNothing(p)
  <2>1. /\ pull[p].pc = "reply" /\ pull[p].ents = {} /\ 1 <= pull[p].next
        /\ cursor' = IF pull[p].next > pull[p].cursor THEN pull[p].next ELSE cursor
        /\ UNCHANGED <<logVars, cache, session, clearing, ws>>
        /\ pull' = [pull EXCEPT ![p] = r] /\ r = At("idle", NoUser, 0)
    BY <1>2, <1>3, <1>15 DEF ApplyNothing, SteadyPull, Goto, Server, Idle
  <2>2. SteadyPull(r) /\ r.ents = {} /\ r.pc \notin Asking /\ r.pc # "reply"
    BY <1>6, <2>1
  <2>3. 1 <= cursor'
    BY <1>1, <1>2, <2>1
  <2>4. Steady' /\ Genuine'
    BY <1>1, <1>2, <2>1, <2>2, <2>3, TurnSteady
  <2>5. ASSUME Covered PROVE Covered'
    <3>1. ASSUME NEW x \in log, x.user = session, x.xid < cursor', NEW e \in x.ents PROVE Held(e)
      <4>1. CASE cursor' = cursor
        BY <2>5, <3>1, <4>1 DEF Covered
      <4>2. CASE cursor' = pull[p].next
        BY <2>1, <2>5, <3>1, <4>2 DEF Covered, CoveredPull
      <4> QED BY <2>1, <4>1, <4>2
    <3>2. \A x \in log : x.user = session /\ x.xid < cursor' => \A e \in x.ents : Held(e)'
      BY <2>1, <3>1 DEF Held
    <3>3. \A n \in Nodes : cache[n].seq <= cache'[n].seq
      BY <1>4, <2>1
    <3> QED BY <1>1, <2>1, <2>2, <2>5, <3>2, <3>3, TurnCovered
  <2> QED BY <2>4, <2>5
<1>16. CASE ApplyFrames(p)
  <2> DEFINE E == pull[p].ents
             c == ApplyEnts(cache, E)
  <2>1. /\ pull[p].pc = "reply" /\ pull[p].mode = "delta" /\ 1 <= pull[p].next /\ pull[p].user = session
        /\ cache' = c /\ cursor' = pull[p].next
        /\ UNCHANGED <<logVars, session, clearing, ws>>
        /\ pull' = [pull EXCEPT ![p] = r]
        /\ r = At("idle", NoUser, 0) \/ r = At("read", session, 0)
    BY <1>2, <1>3, <1>16 DEF ApplyFrames, SteadyPull, Goto, Server, Idle
  <2>2. SteadyPull(r) /\ r.ents = {} /\ r.pc \notin Asking /\ r.pc # "reply"
    <3>1. CASE r = At("idle", NoUser, 0)
      BY <1>6, <3>1
    <3>2. CASE r = At("read", session, 0)
      BY <1>6, <3>2
    <3> QED BY <2>1, <3>1, <3>2
  <2>3. E \in SUBSET Entity /\ (\A e \in E : e.seq <= Seq_(e.id)) /\ SyncInv
    BY <1>1 DEF SteadyInv, SyncInv, TypeInv, AnswersBound
  <2>4. ASSUME NEW n \in Nodes
        PROVE  /\ c[n] = cache[n] \/ \E e \in E : e.id = n /\ c[n] = [seq |-> e.seq, ver |-> e.ver]
               /\ cache[n].seq <= c[n].seq
               /\ \A e \in E : e.id = n => e.seq <= c[n].seq
    BY <2>3, ApplyEntsTakes DEF SyncInv, TypeInv
  <2> HIDE DEF c
  <2>5. ASSUME NEW n \in Nodes, cache'[n].seq # 0
        PROVE  cache'[n].ver = versions[n][cache'[n].seq]
    <3>1. CASE c[n] = cache[n]
      BY <1>2, <2>1, <2>5, <3>1
    <3>2. ASSUME NEW e \in E, e.id = n, c[n] = [seq |-> e.seq, ver |-> e.ver]
          PROVE  cache'[n].ver = versions[n][cache'[n].seq]
      BY <1>2, <2>1, <3>2
    <3> QED BY <2>4, <3>1, <3>2
  <2>6. Steady' /\ Genuine'
    BY <1>1, <1>2, <2>1, <2>2, <2>5, TurnSteady
  <2>7. ASSUME Covered PROVE Covered'
    <3>1. ASSUME NEW x \in log, x.user = session, x.xid < cursor', NEW e \in x.ents PROVE Held(e)'
      <4>1. e \in Entity /\ e.id \in Nodes /\ e.seq \in Nat
        BY <1>4, <3>1 DEF Entity
      <4>2. Held(e) \/ e \in E
        BY <2>1, <2>7, <3>1 DEF Covered, CoveredPull
      <4>3. cache[e.id].seq \in Nat /\ cache'[e.id].seq \in Nat
        BY <1>1, <4>1
      <4> QED BY <2>1, <2>4, <4>1, <4>2, <4>3 DEF Held
    <3>2. \A n \in Nodes : cache[n].seq <= cache'[n].seq
      BY <2>1, <2>4
    <3> QED BY <1>1, <2>1, <2>2, <2>7, <3>1, <3>2, TurnCovered
  <2> QED BY <2>6, <2>7
<1>17. CASE ReadTree(p) \/ ReadOther(p) \/ SnapshotHorizon(p)
  BY <1>2, <1>17 DEF ReadTree, ReadOther, SnapshotHorizon, AtServer, SteadyPull, Asking
<1> QED BY <1>7, <1>8, <1>9, <1>10, <1>11, <1>12, <1>13, <1>14, <1>15, <1>16, <1>17 DEF PullStep
(* A live frame brings nothing else than a pull would. *)
LEMMA LiveSteady ==
  ASSUME SteadyInv, SyncInv', LiveApply
  PROVE  Steady' /\ Genuine' /\ (Covered => Covered')
<1>1. PICK x \in log : cache' = ApplyEnts(cache, x.ents) /\ UNCHANGED <<Server, cursor, session, clearing, ws, pull>>
  BY DEF LiveApply
<1>2. /\ x.ents \in SUBSET Entity /\ (\A e \in x.ents : e.seq <= Seq_(e.id)) /\ SyncInv
      /\ \A e \in x.ents : e.ver = versions[e.id][e.seq]
  BY DEF SteadyInv, SyncInv, TypeInv, LogInv, LogTypeOK, LogSeqs, Seq_, Row, Genuine
<1>3. ASSUME NEW n \in Nodes
      PROVE  /\ cache'[n] = cache[n] \/ \E e \in x.ents : e.id = n /\ cache'[n] = [seq |-> e.seq, ver |-> e.ver]
             /\ cache[n].seq <= cache'[n].seq
  BY <1>1, <1>2, ApplyEntsTakes DEF SyncInv, TypeInv
<1>4. ASSUME NEW n \in Nodes, cache'[n].seq # 0
      PROVE  cache'[n].ver = versions[n][cache'[n].seq]
  <2>1. CASE cache'[n] = cache[n]
    BY <1>4, <2>1 DEF SteadyInv, Genuine
  <2>2. ASSUME NEW e \in x.ents, e.id = n, cache'[n] = [seq |-> e.seq, ver |-> e.ver]
        PROVE  cache'[n].ver = versions[n][cache'[n].seq]
    BY <1>2, <2>2
  <2> QED BY <1>3, <2>1, <2>2
<1> DEFINE r == pull[Socket]
<1>5. /\ Socket \in Pullers /\ r \in PullState /\ pull' = [pull EXCEPT ![Socket] = r]
      /\ cursor' \in Nat /\ 1 <= cursor' /\ ws' \in {NoUser, session} /\ SteadyPull(r)
      /\ UNCHANGED <<logVars, session, clearing>> /\ \A e \in r.ents : e.ver = versions[e.id][e.seq]
      /\ cache' \in [Nodes -> [seq : Nat, ver : Version]]
  BY <1>1, DesktopAssumption DEF DesktopAssumption, Server, SteadyInv, SyncInv, TypeInv, DesktopTypeOK, Steady, Genuine
<1>6. Steady' /\ Genuine'
  <2> HIDE DEF r
  <2> QED BY <1>4, <1>5, TurnSteady
<1>7. ASSUME Covered PROVE Covered'
  <2>1. ASSUME NEW y \in log, y.user = session, y.xid < cursor', NEW e \in y.ents PROVE Held(e)'
    <3>1. e \in Entity /\ Held(e)
      BY <1>1, <1>7, <2>1 DEF SteadyInv, SyncInv, TypeInv, DesktopTypeOK, LogTypeOK, Row, Covered
    <3>2. cache[e.id].seq \in Nat /\ cache'[e.id].seq \in Nat /\ cache[e.id].seq <= cache'[e.id].seq /\ e.seq \in Nat
      BY <1>3, <1>5, <3>1 DEF Entity, SteadyInv, SyncInv, TypeInv, DesktopTypeOK
    <3> QED BY <3>1, <3>2 DEF Held
  <2>2. CoveredPull(r)
    BY <1>5, <1>7 DEF Covered
  <2> HIDE DEF r
  <2> QED BY <1>3, <1>5, <1>7, <2>1, <2>2, TurnCovered
<1> QED BY <1>6, <1>7

LEMMA SteadyNext ==
  ASSUME SteadyInv, [Next]_vars, Undisturbed'
  PROVE  SteadyInv' /\ (Covered /\ [WholeBatches]_vars => Covered')
<1>1. SyncInv' /\ ~PruneOutbox /\ ~SignOut /\ ~(\E x \in 1 .. Horizon : Restore(x))
  BY StaysUndisturbed, NextInv DEF SteadyInv
<1>2. ~ClearWorkspace /\ ~(\E u \in Users : SignIn(u))
  BY OutboxAssumption DEF OutboxAssumption, SteadyInv, Steady, ClearWorkspace, SignIn
<1>3. CASE ServerWrite
  BY <1>1, <1>3, ServerSteady DEF SteadyInv
<1>4. ASSUME UNCHANGED <<logVars, cache, cursor, session, clearing, pull>>, ws' \in {NoUser, session}
      PROVE  SteadyInv' /\ (Covered => Covered')
  <2>1. Horizon' = Horizon /\ DataRows(session)' = DataRows(session)
    BY <1>4 DEF logVars, Horizon, DataRows
  <2>2. Steady'
    BY <1>4, <2>1 DEF logVars, SteadyInv, Steady, SteadyPull
  <2>3. Genuine' /\ (Covered => Covered')
    BY <1>4 DEF logVars, SteadyInv, Genuine, Covered, CoveredPull, Held
  <2> QED BY <1>1, <2>2, <2>3 DEF SteadyInv
<1>5. CASE UNCHANGED vars
  BY <1>4, <1>5 DEF vars, desktopVars, SteadyInv, Steady
<1>6. CASE Disconnect
  BY <1>4, <1>6 DEF Disconnect
<1>7. CASE LiveApply
  BY <1>1, <1>7, LiveSteady DEF SteadyInv
<1>8. ASSUME NEW p \in Pullers, Tick(p) \/ (p = Socket /\ Connect) \/ PullStep(p) \/ PullFails(p)
      PROVE  SteadyInv' /\ (Covered /\ [WholeBatches]_vars => Covered')
  <2>1. Steady' /\ Genuine' /\ (Covered /\ WholeBatches => Covered')
    BY <1>1, <1>8, PullSteady
  <2>2. CASE WholeBatches
    BY <1>1, <2>1, <2>2 DEF SteadyInv
  <2>3. CASE UNCHANGED vars
    BY <1>5, <2>3
  <2> QED BY <1>1, <2>1, <2>2, <2>3 DEF SteadyInv
<1>9. Connect => \E p \in Pullers : p = Socket /\ Connect
  BY DesktopAssumption DEF DesktopAssumption
<1> QED BY <1>1, <1>2, <1>3, <1>5, <1>6, <1>7, <1>8, <1>9 DEF Next

(* On the delta path nothing below the durable cursor is missing in the      *)
(* cache, for any number of threads pulling at once with live frames, lost    *)
(* answers and reconnects between them: whatever order their answers are      *)
(* stored in, and when a cursor steps back.  The premises name what breaks    *)
(* it: pruning, signing out, a restore, and a batch that ends between two     *)
(* rows of a transaction.                                                     *)
THEOREM CursorCoversDeltas ==
  EstablishedSpec /\ []Undisturbed /\ [][WholeBatches]_vars => []CursorCovers
<1>1. Established => SteadyInv /\ Covered
  BY EstablishedInv
<1>2. SteadyInv /\ Covered /\ [Next]_vars /\ Undisturbed' /\ [WholeBatches]_vars
      => (SteadyInv /\ Covered)'
  BY SteadyNext
<1>3. SteadyInv /\ Covered => CursorCovers
  BY DEF Covered, Held, CursorCovers
<1> QED BY <1>1, <1>2, <1>3, PTL DEF EstablishedSpec
---------------------------------------------------------------------------
(* The refinement. *)

(* A sequence that keeps what another one had begins with it. *)
LEMMA PrefixIsSubSeq ==
  ASSUME NEW S, NEW s \in Seq(S), NEW t \in Seq(S), Len(s) <= Len(t),
         \A k \in 1 .. Len(s) : t[k] = s[k]
  PROVE  SubSeq(t, 1, Len(s)) = s
<1>1. Len(s) \in Nat /\ Len(t) \in Nat
  OBVIOUS
<1> DEFINE u == SubSeq(t, 1, Len(s))
<1>2. /\ u \in Seq(S) /\ Len(u) = Len(s)
      /\ \A k \in 1 .. Len(s) : u[k] = t[k]
  BY <1>1, SubSeqProperties
<1> HIDE DEF u
<1>3. u = s
  BY <1>1, <1>2, SeqEqual
<1> QED BY <1>3 DEF u

(* What a pull or a live frame makes of the cache: rows that stay, and rows    *)
(* that move on to a version the server had.                                 *)
LEMMA FramesObserve ==
  ASSUME SteadyInv, versions' = versions, NEW E \in SUBSET Entity,
         \A e \in E : e.seq <= Seq_(e.id) /\ e.ver = versions[e.id][e.seq],
         cache' = ApplyEnts(cache, E)
  PROVE  Contract!Observe
<1>1. ASSUME NEW n \in Nodes
      PROVE  \/ cache'[n] = cache[n]
             \/ \E k \in 1 .. Len(versions[n]) : k > cache[n].seq /\ cache'[n] = [seq |-> k, ver |-> versions[n][k]]
  <2>1. CASE cache'[n] = cache[n]
    BY <2>1
  <2>2. ASSUME NEW e \in E, e.id = n, e.seq > cache[n].seq, cache'[n] = [seq |-> e.seq, ver |-> e.ver]
        PROVE  \E k \in 1 .. Len(versions[n]) : k > cache[n].seq /\ cache'[n] = [seq |-> k, ver |-> versions[n][k]]
    <3>1. e.seq \in 1 .. Len(versions[n])
      <4>1. e.seq \in Nat \ {0} /\ e.seq <= Len(versions[n]) /\ Len(versions[n]) \in Nat
        BY <2>2 DEF Entity, Seq_, SteadyInv, SyncInv, TypeInv, LogInv, LogTypeOK
      <4> QED BY <4>1
    <3> QED BY <2>2, <3>1
  <2> QED BY <2>1, <2>2, ApplyEntsTakes DEF SteadyInv, SyncInv, TypeInv
<1> QED BY <1>1 DEF Contract!Observe

(* Every step of the client and the server is a publication, an observation   *)
(* or a stutter.                                                             *)
LEMMA ContractStep ==
  ASSUME SteadyInv, [Next]_vars, Undisturbed'
  PROVE  [Contract!Publish \/ Contract!Observe]_(Contract!contractVars)
<1>1. SyncInv' /\ ~PruneOutbox /\ ~SignOut /\ ~(\E x \in 1 .. Horizon : Restore(x))
  BY StaysUndisturbed, NextInv DEF SteadyInv
<1>2. ~ClearWorkspace /\ ~(\E u \in Users : SignIn(u))
  BY OutboxAssumption DEF OutboxAssumption, SteadyInv, Steady, ClearWorkspace, SignIn
<1>3. CASE UNCHANGED <<versions, cache>>
  BY <1>3 DEF Contract!contractVars
<1>4. CASE ServerWrite
  <2>1. ASSUME NEW t \in running, Commit(t) PROVE Contract!Publish
    <3>1. versions \in [Nodes -> Seq(Version)] /\ versions' \in [Nodes -> Seq(Version)] /\ LogTypeOK
      BY <1>1 DEF SteadyInv, SyncInv, TypeInv, LogInv, LogTypeOK
    <3>2. Publishes(log' \ log) /\ \E R : Ends(t, R)
      BY <2>1, <3>1, CommitPublishes, CommitEnds
    <3>3. ASSUME NEW n \in Nodes
          PROVE  Len(versions[n]) <= Len(versions'[n]) /\ SubSeq(versions'[n], 1, Len(versions[n])) = versions[n]
      <4>1. Len(versions[n]) <= Len(versions'[n]) /\ \A k \in 1 .. Len(versions[n]) : versions'[n][k] = versions[n][k]
        BY <3>2 DEF Ends, Publishes
      <4>2. versions[n] \in Seq(Version) /\ versions'[n] \in Seq(Version)
        BY <3>1
      <4> QED BY <4>1, <4>2, PrefixIsSubSeq
    <3> QED BY <1>4, <3>3 DEF Contract!Publish, ServerWrite, desktopVars
  <2>2. CASE (\E u \in Users : BeginUserTx(u)) \/ BeginOtherTx
    BY <1>3, <1>4, <2>2 DEF BeginUserTx, BeginOtherTx, ServerWrite, desktopVars
  <2> QED BY <1>4, <2>1, <2>2 DEF ServerWrite, Write
<1>5. CASE LiveApply
  <2>1. PICK x \in log : cache' = ApplyEnts(cache, x.ents) /\ UNCHANGED Server
    BY <1>5 DEF LiveApply
  <2>2. /\ x.ents \in SUBSET Entity
        /\ \A e \in x.ents : e.seq <= Seq_(e.id) /\ e.ver = versions[e.id][e.seq]
    BY DEF SteadyInv, SyncInv, TypeInv, LogInv, LogTypeOK, LogSeqs, Seq_, Row, Genuine
  <2>3. versions' = versions
    BY <2>1 DEF Server, logVars
  <2> QED BY <2>1, <2>2, <2>3, FramesObserve
<1>6. ASSUME NEW p \in Pullers, ApplyFrames(p) PROVE Contract!Observe
  <2>1. cache' = ApplyEnts(cache, pull[p].ents) /\ UNCHANGED Server
    BY <1>6 DEF ApplyFrames, SteadyInv, Steady, SteadyPull
  <2>2. /\ pull[p].ents \in SUBSET Entity
        /\ \A e \in pull[p].ents : e.seq <= Seq_(e.id) /\ e.ver = versions[e.id][e.seq]
    BY DEF SteadyInv, SyncInv, TypeInv, DesktopTypeOK, PullState, AnswersBound, Genuine
  <2>3. versions' = versions
    BY <2>1 DEF Server, logVars
  <2> QED BY <2>1, <2>2, <2>3, FramesObserve
<1>7. ASSUME NEW p \in Pullers, Tick(p) \/ ReadCursor(p) \/ MinXid(p) \/ CheckHorizon(p) \/ SinceHorizon(p) \/ Select(p)
             \/ ReadTree(p) \/ ReadOther(p) \/ SnapshotHorizon(p) \/ ApplyNothing(p) \/ PullFails(p)
      PROVE  UNCHANGED <<versions, cache>>
  BY <1>7 DEF Tick, ReadCursor, MinXid, CheckHorizon, SinceHorizon, Select, ReadTree, ReadOther, SnapshotHorizon,
              ApplyNothing, PullFails, AtServer, Server, Client, logVars
<1>8. CASE Connect \/ Disconnect \/ UNCHANGED vars
  BY <1>3, <1>8 DEF Connect, Disconnect, Server, logVars, vars, desktopVars
<1> QED BY <1>1, <1>2, <1>3, <1>4, <1>5, <1>6, <1>7, <1>8 DEF Next, PullStep

LEMMA ContractStart ==
  ASSUME SteadyInv
  PROVE  Contract!ContractInit
<1>1. ASSUME NEW n \in Nodes, cache[n].seq # 0
      PROVE  \E k \in 1 .. Len(versions[n]) : cache[n] = [seq |-> k, ver |-> versions[n][k]]
  <2>1. /\ cache[n] \in [seq : Nat, ver : Version] /\ cache[n].seq <= Len(versions[n])
        /\ cache[n].ver = versions[n][cache[n].seq] /\ Len(versions[n]) \in Nat
    BY <1>1 DEF SteadyInv, SyncInv, TypeInv, DesktopTypeOK, SeqBound, Seq_, Genuine, LogInv, LogTypeOK
  <2>2. cache[n].seq \in 1 .. Len(versions[n])
    BY <1>1, <2>1
  <2>3. cache[n] = [seq |-> cache[n].seq, ver |-> cache[n].ver]
    BY <2>1
  <2> QED BY <2>1, <2>2, <2>3
<1> QED BY <1>1 DEF Contract!ContractInit

(* The cache of a client on the delta path implements the replica contract:   *)
(* each row shows a version the server published and only moves forward.      *)
THEOREM DeltasImplementContract ==
  EstablishedSpec /\ []Undisturbed => ImplementsContract
<1>1. Established => SteadyInv
  BY EstablishedInv
<1>2. SteadyInv /\ [Next]_vars /\ Undisturbed' => SteadyInv'
  BY SteadyNext
<1>3. SteadyInv /\ [Next]_vars /\ Undisturbed' => [Contract!Publish \/ Contract!Observe]_(Contract!contractVars)
  BY ContractStep
<1>4. SteadyInv => Contract!ContractInit
  BY ContractStart
<1> QED BY <1>1, <1>2, <1>3, <1>4, PTL DEF EstablishedSpec, ImplementsContract, Contract!ContractSpec
=============================================================================

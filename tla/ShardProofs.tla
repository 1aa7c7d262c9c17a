---------------------------- MODULE ShardProofs ----------------------------
(* Shards: what a projection shows conforms to the projected schema, for every schema;
   for every set of requests, records and contracts, a command is applied once and,
   in PostgreSQL, what is stored has the schema it is read under; and for all records,
   contracts and queries, what is read page by page is whole and within its scope. *)
EXTENDS ShardSchema, ShardResources, ShardQueries, NaturalsInduction, WellFoundedInduction, FiniteSetTheorems, TLAPS

(* What is inside the selection without being selected lies directly below
   something that is inside it too. *)
LEMMA InsideIsBelow ==
  ASSUME NEW selection \in SUBSET Pointers, NEW p \in Pointers, Inside(selection, p), p \notin selection
  PROVE  Above[p] \in Pointers /\ Inside(selection, Above[p])
<1>1. PICK q \in selection : <<p, q>> \in AtOrBelow
  BY DEF Inside
<1>2. <<Above[p], q>> \in AtOrBelow
  BY <1>1, PointerAssumption
<1> QED
  BY <1>2, PointerAssumption DEF Inside

(* A field that is kept and not declared lies inside the selection: on the way
   to a selected field everything is declared. *)
LEMMA UndeclaredIsInside ==
  ASSUME NEW s, ValidateSchema(s), NEW selection \in SUBSET s.declared,
         NEW p \in Pointers, Kept(selection, p), p \notin s.declared
  PROVE  Inside(selection, p)
<1>1. ASSUME NEW q \in selection, <<q, p>> \in AtOrBelow
      PROVE  FALSE
  BY <1>1 DEF ValidateSchema
<1> QED
  BY <1>1 DEF Kept, Inside

(* ProjectData answers what ProjectSchema describes: a record that conforms to
   the contract's schema is answered as data that conforms to the projected
   schema, whatever the schema, the selection and the record. *)
THEOREM ProjectionsConform ==
  ASSUME NEW s, NEW selection, NEW d
  PROVE  ProjectionConforms(s, selection, d)
<1> SUFFICES ASSUME ValidateSchema(s), IsData(d), Projects(s, selection), ValidateData(s, d),
                    ~ProjectionFails(d, selection)
             PROVE  ValidateData(ProjectSchema(s, selection), ProjectData(d, selection))
  BY DEF ProjectionConforms
<1>1. CASE selection = {}
  BY <1>1 DEF ProjectSchema, ProjectData
<1>2. CASE selection # {}
  <2> DEFINE t == ProjectSchema(s, selection)
             e == ProjectData(d, selection)
  <2>1. /\ t.declared = {p \in s.declared : Kept(selection, p)}
        /\ t.types = [p \in t.declared |-> s.types[p]]
        /\ t.required = s.required \cap t.declared
        /\ t.open = {p \in s.open : Inside(selection, p)}
    BY <1>2 DEF ProjectSchema
  <2>2. /\ DOMAIN e = {q \in DOMAIN d : Kept(selection, q)}
        /\ \A p \in DOMAIN e : e[p] = d[p]
    BY <1>2 DEF ProjectData
  <2>3. selection \subseteq Pointers /\ selection \subseteq s.declared
    BY DEF Projects, FieldSchema, ValidateSchema
  <2>4. ASSUME NEW p \in DOMAIN e \cap t.declared
        PROVE  e[p].type \in t.types[p]
    BY <2>1, <2>2, <2>4 DEF ValidateData
  <2>5. ASSUME NEW p \in DOMAIN e \ t.declared, Above[p] \in t.declared \cup {Document}
        PROVE  Above[p] \in t.open
    <3>1. p \in DOMAIN d /\ p \in Pointers /\ Kept(selection, p) /\ p \notin s.declared
      BY <2>1, <2>2, <2>5 DEF IsData
    <3>2. Inside(selection, p) /\ p \notin selection
      BY <3>1, <2>3, UndeclaredIsInside
    <3>3. Above[p] \in Pointers /\ Inside(selection, Above[p])
      BY <3>1, <3>2, <2>3, InsideIsBelow
    <3>4. Above[p] \in s.open
      BY <3>1, <3>3, <2>1, <2>5, PointerAssumption DEF ValidateData
    <3> QED
      BY <3>3, <3>4, <2>1
  <2>6. ASSUME NEW p \in t.required, IsObject(e, Above[p])
        PROVE  p \in DOMAIN e
    <3>1. p \in s.required /\ p \in t.declared /\ Kept(selection, p)
      BY <2>1, <2>6
    <3>2. IsObject(d, Above[p])
      BY <2>2, <2>6 DEF IsObject
    <3> QED
      BY <3>1, <3>2, <2>2 DEF ValidateData
  <2> HIDE DEF t, e
  <2> QED
    BY <2>4, <2>5, <2>6 DEF ValidateData, t, e
<1> QED
  BY <1>1, <1>2

---------------------------------------------------------------------------
(* Records and receipts. *)

(* The data of the invariant: what a receipt, an answer and an archive are. *)
RowType == [rev : Revisions, shape : Contracts, live : BOOLEAN]
Hashes == {<<>>} \cup {<<c>> : c \in Commands} \cup {<<c, i>> : c \in Commands, i \in Ids}
ReceiptType == [hash : Hashes, ok : BOOLEAN, id : Ids \cup {NoId}, rev : Revisions]
AnswerType == {<<>>} \cup {Outcome(r) : r \in ReceiptType}
ShopType ==
  [store : {"postgres", "mongo"}, quota : Nat, activations : Nat, crashes : Nat, losses : Nat,
   down : BOOLEAN, tries : [Requests -> Nat]]

(* A revision of a record for every receipt that made one, and back. *)
Matched(w, r) ==
  \A i \in Ids :
    /\ {r[q].rev : q \in {p \in Requests : r[p].ok /\ r[p].id = i}} = 1 .. w[i].rev
    /\ Cardinality({p \in Requests : r[p].ok /\ r[p].id = i}) = w[i].rev

ShardTypes ==
  /\ active \in Contracts \cup {NoContract}
  /\ rows \in [Ids -> RowType] /\ receipts \in [Requests -> ReceiptType]
  /\ archive \in [contract : Contracts \cup {NoContract}, complete : BOOLEAN, rows : [Ids -> RowType],
                  receipts : [Requests -> ReceiptType]]
  /\ command \in [Requests -> Commands \cup {NoCommand}]
  /\ attempt \in [Attempts -> [at : {"free", "received", "resolved", "stored"},
                               req : Requests \cup {NoAttempt.req}, answer : AnswerType]]
  /\ told = [q \in Requests |-> told[q]] /\ shop \in ShopType

(* What is live has a revision, in the store and in an archive. *)
LiveIsWritten ==
  \A i \in Ids : (rows[i].live => rows[i].rev > 0) /\ (archive.rows[i].live => archive.rows[i].rev > 0)

(* An attempt in the server has the command its request was first sent with. *)
Sent ==
  \A a \in Attempts : attempt[a].at # "free" =>
    attempt[a].req \in Requests /\ command[attempt[a].req] \in Commands

(* A stored attempt carries the outcome its receipt records. *)
StoredAnswers ==
  \A a \in Attempts : attempt[a].at = "stored" =>
    /\ receipts[attempt[a].req] # NoReceipt
    /\ attempt[a].answer = Outcome(receipts[attempt[a].req])

(* A complete archive is consistent in itself, and what it says of a request is still so;
   while the data is lost it is all there is. *)
ArchiveHolds ==
  /\ archive.complete =>
       /\ Matched(archive.rows, archive.receipts)
       /\ ~shop.down => \A q \in Requests : archive.receipts[q] # NoReceipt => receipts[q] = archive.receipts[q]
  /\ shop.down =>
       /\ archive.complete
       /\ rows = [i \in Ids |-> NoRow] /\ receipts = [q \in Requests |-> NoReceipt]
       /\ \A a \in Attempts : attempt[a].at = "free"

(* The receipts there are, in the store or to be restored to it. *)
Held == IF shop.down THEN archive.receipts ELSE receipts

(* Postgres hashes the command alone, and what was told is what the receipt says. *)
ToldOfReceipt ==
  shop.store = "postgres" =>
    \A q \in Requests :
      /\ Held[q] # NoReceipt => Held[q].hash = <<command[q]>> /\ command[q] \in Commands
      /\ \A t \in Outcomes(q) : Held[q] # NoReceipt /\ t = Outcome(Held[q])

ShardInv ==
  /\ ShardTypes /\ LiveIsWritten /\ Sent /\ StoredAnswers /\ ArchiveHolds
  /\ RevisionsHaveReceipts /\ StoredMatchesActive /\ ToldOfReceipt

LEMMA ShardInitInv == ResourceInit => ShardInv
<1> SUFFICES ASSUME ResourceInit PROVE ShardInv
  OBVIOUS
<1> USE ShardAssumption DEF ResourceInit
<1>1. NoRow \in RowType /\ NoReceipt \in ReceiptType
  <2>1. 0 \in Revisions
    BY FS_CardinalityType DEF Revisions
  <2> QED BY <2>1 DEF NoRow, NoReceipt, RowType, ReceiptType, Contracts, Hashes
<1>2. ShardTypes
  <2>1. NoCommand \in Commands \cup {NoCommand} /\ <<>> \in AnswerType
    BY DEF AnswerType
  <2>2. shop \in ShopType
    <3>1. PICK c \in ShardConfigs :
            shop = [store |-> c.store, quota |-> c.quota, activations |-> c.activations, crashes |-> c.crashes,
                    losses |-> c.losses, down |-> FALSE, tries |-> [q \in Requests |-> c.tries]]
      OBVIOUS
    <3>2. /\ c.store \in {"postgres", "mongo"} /\ c.quota \in Nat /\ c.activations \in Nat
          /\ c.crashes \in Nat /\ c.losses \in Nat /\ c.tries \in Nat
      OBVIOUS
    <3> QED BY <3>1, <3>2 DEF ShopType
  <2> QED BY <1>1, <2>1, <2>2 DEF ShardTypes, NoArchive, NoAttempt
<1>3. \A i \in Ids : rows[i] = NoRow /\ archive.rows[i] = NoRow
  BY DEF NoArchive
<1>4. Matched(rows, receipts)
  <2> SUFFICES ASSUME NEW i \in Ids
               PROVE  /\ {receipts[q].rev : q \in {p \in Requests : receipts[p].ok /\ receipts[p].id = i}} = 1 .. rows[i].rev
                      /\ Cardinality({p \in Requests : receipts[p].ok /\ receipts[p].id = i}) = rows[i].rev
    BY DEF Matched
  <2>1. {p \in Requests : receipts[p].ok /\ receipts[p].id = i} = {}
    BY DEF NoReceipt
  <2>2. rows[i].rev = 0
    BY DEF NoRow
  <2>3. 1 .. rows[i].rev = {}
    BY <2>2
  <2>4. {receipts[q].rev : q \in {p \in Requests : receipts[p].ok /\ receipts[p].id = i}} = {}
    BY <2>1
  <2> QED BY <2>1, <2>2, <2>3, <2>4, FS_EmptySet
<1>5. LiveIsWritten /\ Sent /\ StoredAnswers /\ ArchiveHolds /\ StoredMatchesActive
  BY <1>3 DEF LiveIsWritten, NoRow, Sent, StoredAnswers, NoAttempt, ArchiveHolds, NoArchive,
              StoredMatchesActive, Conforming
<1>6. ToldOfReceipt
  <2>1. \A q \in Requests : receipts[q] = NoReceipt /\ Outcomes(q) = {}
    BY DEF Outcomes
  <2>2. ~shop.down
    OBVIOUS
  <2> QED BY <2>1, <2>2 DEF ToldOfReceipt, Held
<1> QED BY <1>2, <1>4, <1>5, <1>6 DEF ShardInv, RevisionsHaveReceipts, Matched

(* The manager touches neither records, receipts nor requests. *)
LEMMA ManagerKeeps ==
  ASSUME ShardInv, UNCHANGED <<rows, receipts, archive, command, attempt, told>>,
         shop' \in ShopType, shop'.store = shop.store, shop'.down = shop.down,
         active' \in Contracts \cup {NoContract}, StoredMatchesActive'
  PROVE  ShardInv'
<1> USE DEF ShardInv
<1>1. ShardTypes'
  BY DEF ShardTypes
<1>2. LiveIsWritten' /\ Sent' /\ StoredAnswers'
  BY DEF LiveIsWritten, Sent, StoredAnswers
<1>3. RevisionsHaveReceipts'
  BY DEF RevisionsHaveReceipts
<1>4. Matched(archive.rows, archive.receipts) => Matched(archive.rows, archive.receipts)'
  BY DEF Matched
<1>5. ArchiveHolds'
  BY <1>4 DEF ArchiveHolds
<1>6. ToldOfReceipt'
  BY DEF ToldOfReceipt, Held, Outcomes
<1> QED BY <1>1, <1>2, <1>3, <1>5, <1>6

LEMMA ManagerInv ==
  ASSUME ShardInv, NEW c \in Contracts,
         \/ StageResourceBuild(c) \/ FreezeNamespace(c) \/ ActivateResourceRelease(c)
         \/ UnfreezeNamespace(c) \/ ManagerCrashes(c)
  PROVE  ShardInv'
<1>1. shop \in ShopType /\ active \in Contracts \cup {NoContract} /\ StoredMatchesActive
  BY DEF ShardInv, ShardTypes
<1>2. CASE ActivateResourceRelease(c)
  <2>1. StoredMatchesActive'
    BY <1>1, <1>2 DEF ActivateResourceRelease, StoredMatchesActive, Conforming, StoredConforms, SchemaUnchanged
  <2> QED BY <1>1, <1>2, <2>1, ManagerKeeps DEF ActivateResourceRelease
<1>3. CASE StageResourceBuild(c) \/ UnfreezeNamespace(c)
  <2>1. StoredMatchesActive'
    BY <1>1, <1>3 DEF StageResourceBuild, UnfreezeNamespace, StoredMatchesActive, Conforming
  <2> QED BY <1>1, <1>3, <2>1, ManagerKeeps DEF StageResourceBuild, UnfreezeNamespace
<1>4. CASE FreezeNamespace(c) \/ ManagerCrashes(c)
  <2>1. shop' \in ShopType /\ shop'.store = shop.store /\ shop'.down = shop.down
    BY <1>1, <1>4 DEF FreezeNamespace, ManagerCrashes, Use, ShopType
  <2>2. StoredMatchesActive'
    BY <1>1, <1>4, <2>1 DEF FreezeNamespace, ManagerCrashes, StoredMatchesActive, Conforming
  <2> QED BY <1>1, <1>4, <2>1, <2>2, ManagerKeeps DEF FreezeNamespace, ManagerCrashes
<1> QED BY <1>2, <1>3, <1>4

(* A step of an attempt keeps the invariant, when it stores what the receipt says and
   tells nothing else as an outcome. *)
LEMMA AttemptKeeps ==
  ASSUME ShardInv, UNCHANGED <<active, rows, receipts, archive, command, shop>>,
         NEW a \in Attempts, attempt[a].at # "free", NEW t, attempt' = [attempt EXCEPT ![a] = t],
         \/ t = NoAttempt
         \/ /\ t \in [at : {"received", "resolved", "stored"}, req : Requests, answer : AnswerType]
            /\ t.req = attempt[a].req
            /\ t.at = "stored" => receipts[t.req] # NoReceipt /\ t.answer = Outcome(receipts[t.req]),
         \/ told' = told
         \/ \E answer :
              /\ told' = [told EXCEPT ![attempt[a].req] = @ \cup {answer}]
              /\ answer[1] \in {"ok", "failed", "mismatch"} /\ shop.store = "postgres" =>
                   receipts[attempt[a].req] # NoReceipt /\ answer = Outcome(receipts[attempt[a].req])
  PROVE  ShardInv'
<1> USE DEF ShardInv
<1>1. attempt[a].req \in Requests /\ ~shop.down
  BY DEF Sent, ArchiveHolds, ShardTypes
<1>2. ShardTypes'
  <2>1. /\ <<>> \in AnswerType
        /\ NoAttempt \in [at : {"free", "received", "resolved", "stored"}, req : Requests \cup {NoAttempt.req},
                          answer : AnswerType]
    BY DEF AnswerType, NoAttempt
  <2>2. attempt' \in [Attempts -> [at : {"free", "received", "resolved", "stored"},
                                   req : Requests \cup {NoAttempt.req}, answer : AnswerType]]
    BY <2>1 DEF ShardTypes
  <2>3. told' = [q \in Requests |-> told'[q]]
    BY DEF ShardTypes
  <2> QED BY <2>2, <2>3 DEF ShardTypes
<1>3. LiveIsWritten' /\ StoredMatchesActive'
  BY DEF LiveIsWritten, StoredMatchesActive, Conforming
<1>4. Sent' /\ StoredAnswers'
  BY <1>1 DEF Sent, StoredAnswers, ShardTypes, NoAttempt
<1>5. RevisionsHaveReceipts'
  BY DEF RevisionsHaveReceipts
<1>6. Matched(archive.rows, archive.receipts) => Matched(archive.rows, archive.receipts)'
  BY DEF Matched
<1>7. ArchiveHolds'
  BY <1>1, <1>6 DEF ArchiveHolds
<1>8. ToldOfReceipt'
  <2> SUFFICES ASSUME shop.store = "postgres", NEW q \in Requests
               PROVE  /\ receipts[q] # NoReceipt => receipts[q].hash = <<command[q]>> /\ command[q] \in Commands
                      /\ \A u \in Outcomes(q)' : receipts[q] # NoReceipt /\ u = Outcome(receipts[q])
    BY <1>1 DEF ToldOfReceipt, Held, Outcome
  <2>1. /\ receipts[q] # NoReceipt => receipts[q].hash = <<command[q]>> /\ command[q] \in Commands
        /\ \A u \in Outcomes(q) : receipts[q] # NoReceipt /\ u = Outcome(receipts[q])
    BY <1>1 DEF ToldOfReceipt, Held
  <2>2. CASE told' = told
    BY <2>1, <2>2 DEF Outcomes
  <2>3. CASE told' # told
    <3>1. PICK answer :
            /\ told' = [told EXCEPT ![attempt[a].req] = @ \cup {answer}]
            /\ answer[1] \in {"ok", "failed", "mismatch"} =>
                 receipts[attempt[a].req] # NoReceipt /\ answer = Outcome(receipts[attempt[a].req])
      BY <2>3
    <3>2. told'[q] = IF q = attempt[a].req THEN told[q] \cup {answer} ELSE told[q]
      BY <3>1, <1>1 DEF ShardTypes
    <3> QED BY <2>1, <3>1, <3>2 DEF Outcomes
  <2> QED BY <2>2, <2>3
<1> QED BY <1>2, <1>3, <1>4, <1>5, <1>7, <1>8

LEMMA AnsweredKeeps ==
  ASSUME ShardInv, UNCHANGED <<active, rows, receipts, archive, command, shop>>,
         NEW a \in Attempts, attempt[a].at # "free", NEW answer, Answered(a, answer),
         \/ answer[1] \in {"contract-changed", "frozen", "quota"}
         \/ answer[1] = "mismatch" /\ shop.store = "mongo"
         \/ receipts[attempt[a].req] # NoReceipt /\ answer = Outcome(receipts[attempt[a].req])
  PROVE  ShardInv'
<1>1. answer[1] \in {"ok", "failed", "mismatch"} /\ shop.store = "postgres" =>
        receipts[attempt[a].req] # NoReceipt /\ answer = Outcome(receipts[attempt[a].req])
  OBVIOUS
<1>2. attempt' = [attempt EXCEPT ![a] = NoAttempt] /\ told' = [told EXCEPT ![attempt[a].req] = @ \cup {answer}]
  BY DEF Answered
<1> QED BY <1>1, <1>2, AttemptKeeps

LEMMA ResolveInv == ASSUME ShardInv, NEW a \in Attempts, ResolveMutation(a) PROVE ShardInv'
<1>1. attempt[a].at # "free" /\ attempt[a].req \in Requests
      /\ attempt[a] \in [at : {"free", "received", "resolved", "stored"}, req : Requests \cup {NoAttempt.req},
                         answer : AnswerType]
  BY DEF ResolveMutation, ShardInv, Sent, ShardTypes
<1>2. CASE attempt' = [attempt EXCEPT ![a].at = "resolved"] /\ UNCHANGED told
  <2> DEFINE t == [attempt[a] EXCEPT !.at = "resolved"]
  <2>1. attempt' = [attempt EXCEPT ![a] = t]
    BY <1>2, <1>1
  <2>2. /\ t \in [at : {"received", "resolved", "stored"}, req : Requests, answer : AnswerType]
        /\ t.req = attempt[a].req /\ t.at # "stored"
    BY <1>1
  <2> HIDE DEF t
  <2> QED BY <1>1, <1>2, <2>1, <2>2, AttemptKeeps DEF ResolveMutation
<1>3. CASE Answered(a, <<"contract-changed">>)
  BY <1>1, <1>3, AnsweredKeeps DEF ResolveMutation
<1> QED BY <1>2, <1>3 DEF ResolveMutation

LEMMA AnswerInv == ASSUME ShardInv, NEW a \in Attempts, AnswerMutation(a) PROVE ShardInv'
<1>1. attempt[a].at = "stored" /\ receipts[attempt[a].req] # NoReceipt
      /\ attempt[a].answer = Outcome(receipts[attempt[a].req])
  BY DEF AnswerMutation, ShardInv, StoredAnswers
<1>2. PICK answer : /\ Answered(a, answer)
                    /\ answer = attempt[a].answer \/ answer = <<"contract-changed">>
  BY DEF AnswerMutation
<1> QED BY <1>1, <1>2, AnsweredKeeps DEF AnswerMutation

LEMMA LoseAttemptInv == ASSUME ShardInv, NEW a \in Attempts, LoseAttempt(a) PROVE ShardInv'
BY AttemptKeeps DEF LoseAttempt

(* The records and receipts of a request that is applied for the first time. *)
LEMMA UnusedId ==
  ASSUME ShardInv, NEW q \in Requests, receipts[q] = NoReceipt
  PROVE  \E i \in RandomIds : rows[i].rev = 0
<1> SUFFICES ASSUME \A i \in RandomIds : rows[i].rev # 0 PROVE FALSE
  OBVIOUS
<1> DEFINE Of(i) == {p \in Requests : receipts[p].ok /\ receipts[p].id = i}
           f == [i \in RandomIds |-> CHOOSE p \in Requests : receipts[p].ok /\ receipts[p].id = i]
<1>1. ASSUME NEW i \in RandomIds PROVE f[i] \in Requests \ {q} /\ receipts[f[i]].ok /\ receipts[f[i]].id = i
  <2>1. Cardinality(Of(i)) # 0
    BY DEF ShardInv, RevisionsHaveReceipts, Ids
  <2>2. \E p \in Requests : receipts[p].ok /\ receipts[p].id = i
    BY <2>1, FS_EmptySet
  <2> QED BY <2>2 DEF NoReceipt
<1>2. IsFiniteSet(Requests \ {q}) /\ Cardinality(Requests \ {q}) = Cardinality(Requests) - 1
  BY ShardAssumption, FS_RemoveElement
<1>3. Cardinality(Requests \ {q}) < Cardinality(RandomIds)
  BY <1>2, ShardAssumption, FS_CardinalityType
<1>4. f \in [RandomIds -> Requests \ {q}]
  BY <1>1
<1> HIDE DEF f
<1>5. \E x, y \in RandomIds : x # y /\ f[x] = f[y]
  BY <1>2, <1>3, <1>4, ShardAssumption, FS_PigeonHole
<1> QED BY <1>1, <1>5

LEMMA FirstTimeMatches ==
  ASSUME NEW w \in [Ids -> RowType], NEW r \in [Requests -> ReceiptType], Matched(w, r),
         NEW q \in Requests, ~r[q].ok, NEW id \in Ids, NEW new \in ReceiptType, NEW row,
         new.ok /\ new.id = id /\ new.rev = w[id].rev + 1 /\ row.rev = w[id].rev + 1
  PROVE  Matched([w EXCEPT ![id] = row], [r EXCEPT ![q] = new])
<1> DEFINE w2 == [w EXCEPT ![id] = row]
           r2 == [r EXCEPT ![q] = new]
           Of(i) == {p \in Requests : r[p].ok /\ r[p].id = i}
           Of2(i) == {p \in Requests : r2[p].ok /\ r2[p].id = i}
<1>1. \A i \in Ids : Of2(i) = IF i = id THEN Of(i) \cup {q} ELSE Of(i)
  OBVIOUS
<1>2. \A i \in Ids : q \notin Of(i)
  OBVIOUS
<1>3. SUFFICES ASSUME NEW i \in Ids
               PROVE  {r2[p].rev : p \in Of2(i)} = 1 .. w2[i].rev /\ Cardinality(Of2(i)) = w2[i].rev
  BY DEF Matched
<1>4. {r[p].rev : p \in Of(i)} = 1 .. w[i].rev /\ Cardinality(Of(i)) = w[i].rev
  BY DEF Matched
<1>5. \A p \in Of(i) : r2[p].rev = r[p].rev
  BY <1>2
<1>6. IsFiniteSet(Of(i)) /\ w[i].rev \in Nat
  BY <1>4, ShardAssumption, FS_Subset, FS_CardinalityType
<1>9. w2[i].rev = IF i = id THEN w[i].rev + 1 ELSE w[i].rev
  OBVIOUS
<1>10. r2[q].rev = w[id].rev + 1
  OBVIOUS
<1> HIDE DEF Of, Of2, r2, w2
<1>7. CASE i # id
  <2>1. Of2(i) = Of(i) /\ w2[i].rev = w[i].rev
    BY <1>1, <1>7, <1>9
  <2>2. {r2[p].rev : p \in Of2(i)} = {r[p].rev : p \in Of(i)}
    BY <2>1, <1>5
  <2> QED BY <2>1, <2>2, <1>4
<1>8. CASE i = id
  <2>1. Of2(i) = Of(i) \cup {q} /\ r2[q].rev = w[i].rev + 1 /\ w2[i].rev = w[i].rev + 1
    BY <1>1, <1>8, <1>9, <1>10
  <2>2. Cardinality(Of2(i)) = w[i].rev + 1
    <3>1. q \notin Of(i)
      BY <1>2
    <3>2. Cardinality(Of(i) \cup {q}) = Cardinality(Of(i)) + 1
      BY <3>1, <1>6, FS_AddElement
    <3> QED BY <2>1, <3>2, <1>4
  <2>3. {r2[p].rev : p \in Of2(i)} = {r[p].rev : p \in Of(i)} \cup {w[i].rev + 1}
    BY <2>1, <1>5
  <2>4. (1 .. w[i].rev) \cup {w[i].rev + 1} = 1 .. (w[i].rev + 1)
    BY <1>6
  <2> QED BY <2>1, <2>2, <2>3, <2>4, <1>4
<1> QED BY <1>7, <1>8

(* What a store does with a resolved attempt. *)
LEMMA FirstTimeInv ==
  ASSUME ShardInv, UNCHANGED <<active, archive, command, shop>>, NEW a \in Attempts, attempt[a].at = "resolved",
         NEW c, c = command[attempt[a].req], NEW hash \in Hashes, hash # <<>>,
         shop.store = "postgres" => active = c.contract /\ hash = <<c>>,
         FirstTime(a, c, IdOf(c), hash)
  PROVE  ShardInv'
<1> USE DEF ShardInv
<1> DEFINE q == attempt[a].req
           id == IdOf(c)
           ok == Refusal(c, id) = "none"
           new == [hash |-> hash, ok |-> ok, id |-> id, rev |-> IF ok THEN rows[id].rev + 1 ELSE 0]
           row == [rev |-> rows[id].rev + 1, shape |-> c.contract, live |-> c.op # "delete"]
<1>1. q \in Requests /\ c \in Commands /\ receipts[q] = NoReceipt /\ ~receipts[q].ok /\ ~shop.down
  BY DEF Sent, ShardTypes, ArchiveHolds, FirstTime, NoReceipt
<1>2. id \in Ids /\ rows[id] \in RowType /\ rows[id].rev \in Nat
  <2>1. id \in Ids
    <3>1. CASE c.id # NoId
      BY <1>1, <3>1 DEF IdOf, Ids, Commands
    <3>2. CASE c.id = NoId
      BY <1>1, <3>2, UnusedId DEF IdOf, Ids
    <3> QED BY <3>1, <3>2
  <2>2. rows[id] \in RowType
    BY <2>1 DEF ShardTypes
  <2>3. rows[id].rev \in Nat
    BY <2>2, ShardAssumption, FS_CardinalityType DEF RowType, Revisions
  <2> QED BY <2>1, <2>2, <2>3
<1> HIDE DEF id
<1>3. rows[id].rev + 1 \in Revisions
  <2> DEFINE Of == {p \in Requests : receipts[p].ok /\ receipts[p].id = id}
  <2>1. Of \in SUBSET (Requests \ {q}) /\ Cardinality(Of) = rows[id].rev
    BY <1>1, <1>2 DEF RevisionsHaveReceipts
  <2>2. IsFiniteSet(Requests \ {q}) /\ Cardinality(Requests \ {q}) = Cardinality(Requests) - 1
    BY <1>1, ShardAssumption, FS_RemoveElement
  <2>3. Cardinality(Of) <= Cardinality(Requests \ {q})
    BY <2>1, <2>2, FS_Subset
  <2>4. Cardinality(Requests) \in Nat
    BY ShardAssumption, FS_CardinalityType
  <2> HIDE DEF Of
  <2> QED BY <1>2, <2>1, <2>2, <2>3, <2>4 DEF Revisions
<1>4. new \in ReceiptType /\ row \in RowType /\ new # NoReceipt
  <2>1. ok \in BOOLEAN /\ 0 \in Revisions
    BY ShardAssumption, FS_CardinalityType DEF Revisions
  <2>2. c.contract \in Contracts
    BY <1>1 DEF Commands
  <2> QED BY <1>2, <1>3, <2>1, <2>2 DEF ReceiptType, RowType, NoReceipt
<1>5. /\ rows' = IF ok THEN [rows EXCEPT ![id] = row] ELSE rows
      /\ receipts' = [receipts EXCEPT ![q] = new]
      /\ attempt' = [attempt EXCEPT ![a] = [attempt[a] EXCEPT !.at = "stored", !.answer = Outcome(new)]]
      /\ told' = told
  <2>1. [rows EXCEPT ![id] = [rev |-> @.rev + 1, shape |-> c.contract, live |-> c.op # "delete"]]
          = [rows EXCEPT ![id] = row]
    OBVIOUS
  <2>2. [attempt EXCEPT ![a].at = "stored", ![a].answer = Outcome(new)]
          = [attempt EXCEPT ![a] = [attempt[a] EXCEPT !.at = "stored", !.answer = Outcome(new)]]
    BY DEF ShardTypes
  <2> QED BY <2>1, <2>2 DEF FirstTime, Applied, id
<1> HIDE DEF new, row
<1>6. ShardTypes'
  <2>1. Outcome(new) \in AnswerType
    BY <1>4 DEF AnswerType
  <2>2. rows' \in [Ids -> RowType] /\ receipts' \in [Requests -> ReceiptType]
    BY <1>4, <1>5 DEF ShardTypes
  <2>3. attempt' \in [Attempts -> [at : {"free", "received", "resolved", "stored"},
                                   req : Requests \cup {NoAttempt.req}, answer : AnswerType]]
    BY ZenonT(40), <1>5, <2>1 DEF ShardTypes
  <2> QED BY <1>5, <2>2, <2>3 DEF ShardTypes
<1>7. LiveIsWritten'
  <2>1. row.rev > 0
    BY <1>2 DEF row
  <2> QED BY <1>5, <1>2, <2>1 DEF LiveIsWritten, ShardTypes
<1>8. Sent'
  BY <1>5 DEF Sent, ShardTypes
<1>9. StoredAnswers'
  <2> SUFFICES ASSUME NEW b \in Attempts, attempt'[b].at = "stored"
               PROVE  receipts'[attempt'[b].req] # NoReceipt
                      /\ attempt'[b].answer = Outcome(receipts'[attempt'[b].req])
    BY DEF StoredAnswers, Outcome
  <2>1. CASE b = a
    BY <1>1, <1>4, <1>5, <2>1 DEF ShardTypes
  <2>2. CASE b # a
    <3>1. attempt'[b] = attempt[b]
      BY <1>5, <2>2 DEF ShardTypes
    <3>2. receipts[attempt[b].req] # NoReceipt /\ attempt[b].req # q
          /\ attempt[b].answer = Outcome(receipts[attempt[b].req]) /\ attempt[b].req \in Requests
      BY <1>1, <3>1 DEF StoredAnswers, Sent
    <3> QED BY <1>5, <3>1, <3>2 DEF ShardTypes
  <2> QED BY <2>1, <2>2
<1>10. Matched(rows', receipts')
  <2>1. rows \in [Ids -> RowType] /\ receipts \in [Requests -> ReceiptType] /\ Matched(rows, receipts)
    BY DEF ShardTypes, RevisionsHaveReceipts, Matched
  <2>2. CASE ok
    <3>1. new.ok /\ new.id = id /\ new.rev = rows[id].rev + 1 /\ row.rev = rows[id].rev + 1
      BY <2>2 DEF new, row
    <3> QED BY <1>1, <1>2, <1>4, <1>5, <2>1, <2>2, <3>1, FirstTimeMatches
  <2>3. CASE ~ok
    <3>1. ~new.ok /\ rows' = rows
      BY <1>5, <2>3 DEF new
    <3>2. ASSUME NEW i \in Ids
          PROVE  {p \in Requests : receipts'[p].ok /\ receipts'[p].id = i}
                   = {p \in Requests : receipts[p].ok /\ receipts[p].id = i}
      BY <1>1, <1>5, <2>1, <3>1
    <3>3. ASSUME NEW i \in Ids, NEW p \in {p \in Requests : receipts[p].ok /\ receipts[p].id = i}
          PROVE  receipts'[p].rev = receipts[p].rev
      BY <1>1, <1>5, <2>1, <3>3
    <3> SUFFICES ASSUME NEW i \in Ids
                 PROVE  /\ {receipts'[p].rev : p \in {p \in Requests : receipts'[p].ok /\ receipts'[p].id = i}}
                             = 1 .. rows'[i].rev
                        /\ Cardinality({p \in Requests : receipts'[p].ok /\ receipts'[p].id = i}) = rows'[i].rev
      BY DEF Matched
    <3> DEFINE Of == {p \in Requests : receipts[p].ok /\ receipts[p].id = i}
    <3>4. {receipts'[p].rev : p \in Of} = {receipts[p].rev : p \in Of}
      BY <3>3
    <3>5. {receipts[p].rev : p \in Of} = 1 .. rows[i].rev /\ Cardinality(Of) = rows[i].rev
      BY <2>1 DEF Matched
    <3> QED BY <3>1, <3>2, <3>4, <3>5
  <2> QED BY <2>2, <2>3
<1>11. ArchiveHolds'
  <2>1. Matched(archive.rows, archive.receipts) => Matched(archive.rows, archive.receipts)'
    BY DEF Matched
  <2> QED BY <1>1, <1>5, <2>1 DEF ArchiveHolds, ShardTypes
<1>12. StoredMatchesActive'
  BY <1>2, <1>5 DEF StoredMatchesActive, Conforming, ShardTypes, row
<1>13. ToldOfReceipt'
  <2> SUFFICES ASSUME shop.store = "postgres", NEW p \in Requests
               PROVE  /\ receipts'[p] # NoReceipt => receipts'[p].hash = <<command[p]>> /\ command[p] \in Commands
                      /\ \A u \in Outcomes(p) : receipts'[p] # NoReceipt /\ u = Outcome(receipts'[p])
    BY <1>1, <1>5 DEF ToldOfReceipt, Held, Outcomes, Outcome
  <2>1. /\ receipts[p] # NoReceipt => receipts[p].hash = <<command[p]>> /\ command[p] \in Commands
        /\ \A u \in Outcomes(p) : receipts[p] # NoReceipt /\ u = Outcome(receipts[p])
    BY <1>1 DEF ToldOfReceipt, Held
  <2>2. CASE p = q
    BY <1>1, <1>4, <1>5, <2>1, <2>2 DEF ShardTypes, new
  <2>3. CASE p # q
    BY <1>5, <2>1, <2>3 DEF ShardTypes
  <2> QED BY <2>2, <2>3
<1> QED BY <1>6, <1>7, <1>8, <1>9, <1>10, <1>11, <1>12, <1>13 DEF RevisionsHaveReceipts, Matched

LEMMA RunInv ==
  ASSUME ShardInv, UNCHANGED <<active, archive, command, shop>>, NEW a \in Attempts, attempt[a].at = "resolved",
         NEW c, c = command[attempt[a].req], NEW hash, hash # <<>>, receipts[attempt[a].req] = NoReceipt => hash \in Hashes,
         shop.store = "postgres" => active = c.contract /\ hash = <<c>>,
         Run(a, c, IdOf(c), hash)
  PROVE  ShardInv'
<1> DEFINE q == attempt[a].req
           r == receipts[q]
<1>1. q \in Requests /\ ~shop.down /\ attempt[a] \in [at : {"free", "received", "resolved", "stored"},
        req : Requests \cup {NoAttempt.req}, answer : AnswerType] /\ r \in ReceiptType
  BY DEF ShardInv, Sent, ShardTypes, ArchiveHolds
<1>2. CASE Replay(a, hash)
  <2>1. CASE r.hash = hash
    <3> DEFINE t == [attempt[a] EXCEPT !.at = "stored", !.answer = Outcome(r)]
    <3>1. attempt' = [attempt EXCEPT ![a] = t] /\ told' = told /\ r # NoReceipt
      BY <1>2, <2>1 DEF Replay
    <3>2. Outcome(r) \in AnswerType
      BY <1>1 DEF AnswerType
    <3>3. /\ t \in [at : {"received", "resolved", "stored"}, req : Requests, answer : AnswerType]
          /\ t.req = attempt[a].req /\ t.answer = Outcome(r)
      BY <1>1, <3>2
    <3> HIDE DEF t
    <3> QED BY <1>1, <1>2, <3>1, <3>3, AttemptKeeps DEF Replay
  <2>2. CASE r.hash # hash
    <3>1. shop.store = "mongo"
      BY <1>1, <1>2, <2>2 DEF Replay, ShardInv, ToldOfReceipt, Held, ShardTypes, ShopType
    <3>2. Answered(a, <<"mismatch">>)
      BY <1>2, <2>2 DEF Replay
    <3>3. UNCHANGED <<active, rows, receipts, archive, command, shop>>
      BY <1>2 DEF Replay
    <3> QED BY <1>1, <3>1, <3>2, <3>3, AnsweredKeeps
  <2> QED BY <2>1, <2>2
<1>3. CASE FirstTime(a, c, IdOf(c), hash)
  BY <1>3, FirstTimeInv DEF FirstTime
<1>4. CASE OverQuota(a)
  BY <1>4, AnsweredKeeps DEF OverQuota
<1> QED BY <1>2, <1>3, <1>4 DEF Run

LEMMA StoreMutateInv == ASSUME ShardInv, NEW a \in Attempts, StoreMutate(a) PROVE ShardInv'
<1> DEFINE c == command[attempt[a].req]
<1>1. c \in Commands /\ attempt[a].at = "resolved" /\ UNCHANGED <<active, archive, command, shop>>
  BY DEF StoreMutate, ShardInv, Sent
<1>2. CASE shop.store = "postgres" /\ PostgresMutate(a, c)
  <2>1. <<c>> \in Hashes /\ <<c>> # <<>>
    BY <1>1 DEF Hashes
  <2>2. CASE active # c.contract
    BY <1>1, <1>2, <2>2, AnsweredKeeps DEF PostgresMutate
  <2>3. CASE active = c.contract
    BY <1>1, <1>2, <2>1, <2>3, RunInv DEF PostgresMutate
  <2> QED BY <2>2, <2>3
<1>3. CASE shop.store = "mongo" /\ MongoMutate(a, c)
  <2>1. CASE frozen
    BY <1>1, <1>3, <2>1, AnsweredKeeps DEF MongoMutate
  <2>2. CASE ~frozen
    <3>1. Run(a, c, IdOf(c), <<c, IdOf(c)>>)
      BY <1>3, <2>2 DEF MongoMutate
    <3>2. ASSUME receipts[attempt[a].req] = NoReceipt PROVE <<c, IdOf(c)>> \in Hashes
      <4>1. \E i \in RandomIds : rows[i].rev = 0
        BY <3>2, <1>1, UnusedId DEF ShardInv, Sent
      <4>2. IdOf(c) \in Ids
        BY <4>1, <1>1 DEF IdOf, Ids, Commands
      <4> QED BY <1>1, <4>2 DEF Hashes
    <3>3. <<c, IdOf(c)>> # <<>>
      OBVIOUS
    <3>4. UNCHANGED <<active, archive, command, shop>> /\ shop.store # "postgres"
      BY <1>1, <1>3
    <3> QED BY <1>1, <3>1, <3>2, <3>3, <3>4, RunInv
  <2> QED BY <2>1, <2>2
<1> QED BY <1>2, <1>3 DEF StoreMutate

LEMMA ShopSends ==
  ASSUME shop \in ShopType, NEW q \in Requests, shop.tries[q] > 0, shop' = [shop EXCEPT !.tries[q] = @ - 1]
  PROVE  shop' \in ShopType /\ shop'.store = shop.store /\ shop'.down = shop.down
BY DEF ShopType

LEMMA ShopLoses ==
  ASSUME shop \in ShopType, shop.losses > 0, shop' = [shop EXCEPT !.losses = @ - 1, !.down = TRUE]
  PROVE  shop' \in ShopType /\ shop'.store = shop.store /\ shop'.down
<1> DEFINE s == [shop EXCEPT !.losses = @ - 1]
<1>1. s \in ShopType /\ s.store = shop.store
  BY DEF ShopType
<1>2. shop' = [s EXCEPT !.down = TRUE]
  OBVIOUS
<1> HIDE DEF s
<1> QED BY <1>1, <1>2 DEF ShopType

(* A request is sent with the command it was first sent with. *)
LEMMA SendInv == ASSUME ShardInv, NEW a \in Attempts, NEW q \in Requests, SendMutation(a, q) PROVE ShardInv'
<1> USE DEF ShardInv
<1>1. PICK c \in Commands :
        /\ command[q] # NoCommand => c = command[q]
        /\ command' = [command EXCEPT ![q] = c]
  BY DEF SendMutation
<1>2. attempt[a].at = "free" /\ ~shop.down /\ UNCHANGED <<active, rows, receipts, archive, told>>
      /\ attempt' = [attempt EXCEPT ![a] = [at |-> "received", req |-> q, answer |-> <<>>]]
      /\ shop' = [shop EXCEPT !.tries[q] = @ - 1] /\ shop.tries[q] > 0
  BY DEF SendMutation
<1>3. shop' \in ShopType /\ shop'.store = shop.store /\ shop'.down = shop.down
  <2>1. shop \in ShopType
    BY DEF ShardTypes
  <2> QED BY <1>2, <2>1, ShopSends
<1>4. ShardTypes'
  <2>1. <<>> \in AnswerType
    BY DEF AnswerType
  <2>2. command' \in [Requests -> Commands \cup {NoCommand}]
    BY <1>1 DEF ShardTypes
  <2>3. attempt' \in [Attempts -> [at : {"free", "received", "resolved", "stored"},
                                   req : Requests \cup {NoAttempt.req}, answer : AnswerType]]
    BY <1>2, <2>1 DEF ShardTypes
  <2> QED BY <1>2, <1>3, <2>2, <2>3 DEF ShardTypes
<1>5. LiveIsWritten' /\ RevisionsHaveReceipts' /\ StoredMatchesActive'
  BY <1>2, <1>3 DEF LiveIsWritten, RevisionsHaveReceipts, StoredMatchesActive, Conforming
<1>6. Sent'
  BY <1>1, <1>2 DEF Sent, ShardTypes
<1>7. StoredAnswers'
  BY <1>2 DEF StoredAnswers, ShardTypes, Outcome
<1>8. ArchiveHolds'
  <2>1. Matched(archive.rows, archive.receipts) => Matched(archive.rows, archive.receipts)'
    BY <1>2 DEF Matched
  <2> QED BY <1>2, <1>3, <2>1 DEF ArchiveHolds
<1>9. ToldOfReceipt'
  <2>1. NoCommand \notin Commands
    BY DEF NoCommand, Commands
  <2>2. \A p \in Requests : command[p] \in Commands => command'[p] = command[p]
    BY <1>1, <2>1 DEF ShardTypes
  <2> QED BY <1>2, <1>3, <2>2 DEF ToldOfReceipt, Held, Outcomes, Outcome
<1> QED BY <1>4, <1>5, <1>6, <1>7, <1>8, <1>9

(* The archive: what is exported is what is there, and a restore finds nothing. *)
LEMMA ExportInv == ASSUME ShardInv, ExportResourceData PROVE ShardInv'
<1> USE DEF ShardInv
<1>1. PICK whole \in BOOLEAN :
        archive' = [contract |-> active, complete |-> whole, rows |-> rows,
                    receipts |-> IF whole THEN receipts ELSE NoArchive.receipts]
  BY DEF ExportResourceData
<1>2. ~shop.down /\ UNCHANGED <<active, rows, receipts, command, attempt, told, shop>>
      /\ archive'.rows = rows /\ (archive'.complete => archive'.receipts = receipts)
  BY <1>1 DEF ExportResourceData
<1>3. ShardTypes'
  <2>1. NoArchive.receipts \in [Requests -> ReceiptType]
    <3>1. 0 \in Revisions
      BY ShardAssumption, FS_CardinalityType DEF Revisions
    <3>2. NoReceipt \in ReceiptType
      BY <3>1 DEF NoReceipt, ReceiptType, Hashes
    <3> QED BY <3>2 DEF NoArchive
  <2>2. active \in Contracts \cup {NoContract} /\ rows \in [Ids -> RowType] /\ receipts \in [Requests -> ReceiptType]
    BY DEF ShardTypes
  <2> DEFINE kept == IF whole THEN receipts ELSE NoArchive.receipts
  <2>3. kept \in [Requests -> ReceiptType]
    BY <2>1, <2>2
  <2> HIDE DEF kept
  <2>4. archive' \in [contract : Contracts \cup {NoContract}, complete : BOOLEAN, rows : [Ids -> RowType],
                       receipts : [Requests -> ReceiptType]]
    BY <1>1, <2>2, <2>3 DEF kept
  <2> QED BY <1>2, <2>4 DEF ShardTypes
<1>4. LiveIsWritten' /\ Sent' /\ StoredAnswers' /\ RevisionsHaveReceipts' /\ StoredMatchesActive'
  BY <1>2 DEF LiveIsWritten, Sent, StoredAnswers, RevisionsHaveReceipts, StoredMatchesActive, Conforming, Outcome
<1>5. ArchiveHolds'
  <2>2. Matched(rows, receipts)
    BY DEF RevisionsHaveReceipts, Matched
  <2> QED BY <1>2, <2>2 DEF ArchiveHolds, Matched
<1>6. ToldOfReceipt'
  BY <1>2 DEF ToldOfReceipt, Held, Outcomes, Outcome
<1> QED BY <1>3, <1>4, <1>5, <1>6

LEMMA LossInv == ASSUME ShardInv, LoseNamespaceData PROVE ShardInv'
<1> USE DEF ShardInv
<1>1. /\ archive.complete /\ archive.receipts = receipts /\ archive.rows = rows
      /\ shop' = [shop EXCEPT !.losses = @ - 1, !.down = TRUE] /\ shop.losses > 0
      /\ rows' = [i \in Ids |-> NoRow] /\ receipts' = [q \in Requests |-> NoReceipt]
      /\ attempt' = [a \in Attempts |-> NoAttempt]
      /\ UNCHANGED <<active, archive, command, told>>
  BY DEF LoseNamespaceData
<1>2. shop' \in ShopType /\ shop'.store = shop.store /\ shop'.down
  <2>1. shop \in ShopType
    BY DEF ShardTypes
  <2> QED BY <1>1, <2>1, ShopLoses
<1>3. NoRow \in RowType /\ NoReceipt \in ReceiptType /\ <<>> \in AnswerType /\ ~NoReceipt.ok
  <2>1. 0 \in Revisions
    BY ShardAssumption, FS_CardinalityType DEF Revisions
  <2> QED BY <2>1 DEF NoRow, NoReceipt, RowType, ReceiptType, Contracts, Hashes, AnswerType
<1>4. ShardTypes'
  BY <1>1, <1>2, <1>3 DEF ShardTypes, NoAttempt
<1>5. LiveIsWritten' /\ Sent' /\ StoredAnswers' /\ StoredMatchesActive'
  BY <1>1 DEF LiveIsWritten, NoRow, Sent, StoredAnswers, NoAttempt, StoredMatchesActive, Conforming
<1>6. RevisionsHaveReceipts'
  <2> SUFFICES ASSUME NEW i \in Ids
               PROVE  /\ {receipts'[q].rev : q \in {p \in Requests : receipts'[p].ok /\ receipts'[p].id = i}}
                           = 1 .. rows'[i].rev
                      /\ Cardinality({p \in Requests : receipts'[p].ok /\ receipts'[p].id = i}) = rows'[i].rev
    BY DEF RevisionsHaveReceipts
  <2>1. {p \in Requests : receipts'[p].ok /\ receipts'[p].id = i} = {}
    BY <1>1, <1>3
  <2>2. rows'[i].rev = 0 /\ 1 .. rows'[i].rev = {}
    BY <1>1 DEF NoRow
  <2>3. {receipts'[q].rev : q \in {p \in Requests : receipts'[p].ok /\ receipts'[p].id = i}} = {}
    BY <2>1
  <2> QED BY <2>1, <2>2, <2>3, FS_EmptySet
<1>7. ArchiveHolds'
  <2>1. Matched(archive.rows, archive.receipts) => Matched(archive.rows, archive.receipts)'
    BY <1>1 DEF Matched
  <2> QED BY <1>1, <1>2, <2>1 DEF ArchiveHolds, NoAttempt
<1>8. ToldOfReceipt'
  <2>1. Held' = Held
    BY <1>1, <1>2 DEF Held
  <2> QED BY <1>1, <1>2, <2>1 DEF ToldOfReceipt, Outcomes, Outcome
<1> QED BY <1>4, <1>5, <1>6, <1>7, <1>8

LEMMA RestoreInv == ASSUME ShardInv, RestoreResourceData PROVE ShardInv'
<1> USE DEF ShardInv
<1>1. /\ archive.complete /\ ~Occupied
      /\ \A i \in Ids : archive.rows[i].rev > 0 => archive.rows[i].shape = active
      /\ rows' = archive.rows /\ receipts' = archive.receipts /\ shop' = [shop EXCEPT !.down = FALSE]
      /\ UNCHANGED <<active, archive, command, attempt, told>>
  BY DEF RestoreResourceData
<1>2. shop' \in ShopType /\ shop'.store = shop.store /\ ~shop'.down
  BY <1>1 DEF ShardTypes, ShopType
<1>3. \A q \in Requests : receipts[q] = NoReceipt
  BY <1>1 DEF Occupied
<1>4. Held' = Held
  <2>1. CASE shop.down
    BY <1>1, <1>2, <2>1 DEF Held
  <2>2. CASE ~shop.down
    <3>1. \A q \in Requests : archive.receipts[q] = NoReceipt
      BY <1>1, <1>3, <2>2 DEF ArchiveHolds
    <3>2. archive.receipts = receipts
      BY <1>3, <3>1 DEF ShardTypes
    <3> QED BY <1>1, <1>2, <2>2, <3>2 DEF Held
  <2> QED BY <2>1, <2>2
<1>5. ShardTypes' /\ Sent' /\ LiveIsWritten'
  BY <1>1, <1>2 DEF ShardTypes, Sent, LiveIsWritten
<1>6. StoredAnswers'
  BY <1>1, <1>3 DEF StoredAnswers, Sent
<1>7. Matched(archive.rows, archive.receipts)
  BY <1>1 DEF ArchiveHolds
<1>8. RevisionsHaveReceipts'
  BY <1>1, <1>7 DEF RevisionsHaveReceipts, Matched
<1>9. ArchiveHolds'
  BY <1>1, <1>2, <1>7 DEF ArchiveHolds, Matched
<1>10. StoredMatchesActive'
  BY <1>1 DEF StoredMatchesActive, Conforming, LiveIsWritten
<1>11. ToldOfReceipt'
  BY <1>1, <1>2, <1>4 DEF ToldOfReceipt, Outcomes, Outcome
<1> QED BY <1>5, <1>6, <1>8, <1>9, <1>10, <1>11

LEMMA ShardNextInv == ShardInv /\ [ResourceNext]_resourceVars => ShardInv'
<1> SUFFICES ASSUME ShardInv, [ResourceNext]_resourceVars PROVE ShardInv'
  OBVIOUS
<1>1. CASE UNCHANGED resourceVars
  <2>1. shop' \in ShopType /\ active' \in Contracts \cup {NoContract} /\ StoredMatchesActive'
    BY <1>1 DEF resourceVars, resourceState, ShardInv, ShardTypes, StoredMatchesActive, Conforming
  <2> QED BY <1>1, <2>1, ManagerKeeps DEF resourceVars, resourceState
<1>2. ASSUME NEW c \in Contracts,
             \/ StageResourceBuild(c) \/ FreezeNamespace(c) \/ ActivateResourceRelease(c)
             \/ UnfreezeNamespace(c) \/ ManagerCrashes(c)
      PROVE  ShardInv'
  BY <1>2, ManagerInv
<1>3. ASSUME NEW a \in Attempts, NEW q \in Requests, SendMutation(a, q) PROVE ShardInv'
  BY <1>3, SendInv
<1>4. ASSUME NEW a \in Attempts, ResolveMutation(a) \/ StoreMutate(a) \/ AnswerMutation(a) \/ LoseAttempt(a)
      PROVE  ShardInv'
  BY <1>4, ResolveInv, StoreMutateInv, AnswerInv, LoseAttemptInv
<1>5. CASE ExportResourceData \/ LoseNamespaceData \/ RestoreResourceData
  BY <1>5, ExportInv, LossInv, RestoreInv
<1> QED BY <1>1, <1>2, <1>3, <1>4, <1>5 DEF ResourceNext

(* In PostgreSQL what is stored has the schema of the contract it is read under, for any
   contracts, records and requests, through activations that race writes and restores. *)
THEOREM StoredConformsToActive == ResourceSpec => []StoredMatchesActive
<1>1. ShardInv => StoredMatchesActive
  BY DEF ShardInv
<1> QED BY <1>1, ShardInitInv, ShardNextInv, PTL DEF ResourceSpec

(* A command is applied once however often it is sent, and in PostgreSQL its client is
   told one outcome. *)
THEOREM CommandsAreAppliedOnce == ResourceSpec => []AppliedOnce
<1>1. ShardInv => AppliedOnce
  <2> SUFFICES ASSUME ShardInv, shop.store = "postgres", NEW q \in Requests PROVE Cardinality(Outcomes(q)) <= 1
    BY DEF AppliedOnce, OneOutcome, ReplaysAgree, ShardInv
  <2>1. Outcomes(q) \in SUBSET {Outcome(Held[q])}
    BY DEF ShardInv, ToldOfReceipt
  <2>2. IsFiniteSet({Outcome(Held[q])}) /\ Cardinality({Outcome(Held[q])}) = 1
    BY FS_Singleton
  <2>3. Cardinality(Outcomes(q)) <= Cardinality({Outcome(Held[q])})
    BY <2>1, <2>2, FS_Subset
  <2> QED BY <2>2, <2>3
<1> QED BY <1>1, ShardInitInv, ShardNextInv, PTL DEF ResourceSpec


-----------------------------------------------------------------------------
(* The manager's types and the quota of receipts, those that may be restored included. *)

Recorded(r) == {q \in Requests : r[q] # NoReceipt}

ManagerTypes ==
  /\ staged \in SUBSET Contracts /\ manager \in [Managers -> {"idle", "frozen", "activated"}] /\ frozen \in BOOLEAN

QuotaHolds == Cardinality(Recorded(receipts)) <= shop.quota /\ Cardinality(Recorded(archive.receipts)) <= shop.quota

LEMMA ManagerTypesStep == ASSUME ManagerTypes, [ResourceNext]_resourceVars PROVE ManagerTypes'
<1>1. CASE UNCHANGED resourceVars
  BY <1>1 DEF ManagerTypes, resourceVars, resourceState
<1>2. ASSUME NEW c \in Contracts,
             \/ StageResourceBuild(c) \/ FreezeNamespace(c) \/ ActivateResourceRelease(c)
             \/ UnfreezeNamespace(c) \/ ManagerCrashes(c)
      PROVE  ManagerTypes'
  BY <1>2 DEF ManagerTypes, Managers, StageResourceBuild, FreezeNamespace, ActivateResourceRelease, UnfreezeNamespace,
              ManagerCrashes
<1>3. ASSUME NEW a \in Attempts, NEW q \in Requests, SendMutation(a, q) PROVE ManagerTypes'
  BY <1>3 DEF ManagerTypes, SendMutation
<1>4. ASSUME NEW a \in Attempts, ResolveMutation(a) \/ StoreMutate(a) \/ AnswerMutation(a) \/ LoseAttempt(a)
      PROVE  ManagerTypes'
  BY <1>4 DEF ManagerTypes, ResolveMutation, StoreMutate, AnswerMutation, LoseAttempt
<1>5. CASE ExportResourceData \/ LoseNamespaceData \/ RestoreResourceData
  BY <1>5 DEF ManagerTypes, ExportResourceData, LoseNamespaceData, RestoreResourceData
<1> QED BY <1>1, <1>2, <1>3, <1>4, <1>5 DEF ResourceNext

\* Only a first mutation writes a receipt, and only while the quota leaves room.
LEMMA StoreWithinQuota ==
  ASSUME ShardInv, QuotaHolds, NEW a \in Attempts, StoreMutate(a)
  PROVE  QuotaHolds'
<1>1. UNCHANGED <<archive, shop>>
  BY DEF StoreMutate
<1>2. receipts' = receipts \/ (\E r : ReceiptsLeft /\ receipts[attempt[a].req] = NoReceipt
                                       /\ receipts' = [receipts EXCEPT ![attempt[a].req] = r])
  BY DEF StoreMutate, PostgresMutate, MongoMutate, Run, Replay, FirstTime, OverQuota
<1>3. CASE receipts' = receipts
  BY <1>1, <1>3 DEF QuotaHolds, Recorded
<1>4. ASSUME NEW r, ReceiptsLeft, receipts' = [receipts EXCEPT ![attempt[a].req] = r] PROVE QuotaHolds'
  <2>1. receipts = [q \in Requests |-> receipts[q]]
    BY DEF ShardInv, ShardTypes
  <2>2. PICK q0 : q0 = attempt[a].req
    OBVIOUS
  <2>3. Recorded(receipts') \subseteq Recorded(receipts) \cup {q0}
    BY <1>4, <2>1, <2>2 DEF Recorded
  <2>4. IsFiniteSet(Recorded(receipts)) /\ IsFiniteSet(Recorded(receipts) \cup {q0})
    <3>1. IsFiniteSet(Recorded(receipts))
      BY ShardAssumption, FS_Subset DEF Recorded
    <3> QED BY <3>1, FS_AddElement
  <2>5. Cardinality(Recorded(receipts) \cup {q0}) <= Cardinality(Recorded(receipts)) + 1
    BY <2>4, FS_AddElement, FS_CardinalityType
  <2>6. Cardinality(Recorded(receipts')) <= Cardinality(Recorded(receipts) \cup {q0})
    BY <2>3, <2>4, FS_Subset
  <2>7. Cardinality(Recorded(receipts)) < shop.quota /\ shop.quota \in Nat
    BY <1>4 DEF ReceiptsLeft, Recorded, ShardInv, ShardTypes, ShopType
  <2>8. IsFiniteSet(Recorded(receipts'))
    BY <2>3, <2>4, FS_Subset
  <2>9. Cardinality(Recorded(receipts')) <= shop.quota
    BY <2>4, <2>5, <2>6, <2>7, <2>8, FS_CardinalityType
  <2> QED BY <1>1, <2>9 DEF QuotaHolds, Recorded
<1> QED BY <1>2, <1>3, <1>4

LEMMA QuotaStep == ASSUME ShardInv, QuotaHolds, [ResourceNext]_resourceVars PROVE QuotaHolds'
<1>1. shop \in ShopType
  BY DEF ShardInv, ShardTypes
<1>2. ASSUME UNCHANGED <<receipts, archive>>, shop'.quota = shop.quota PROVE QuotaHolds'
  BY <1>2 DEF QuotaHolds, Recorded
<1>3. CASE UNCHANGED resourceVars
  BY <1>2, <1>3 DEF resourceVars, resourceState
<1>4. ASSUME NEW c \in Contracts,
             \/ StageResourceBuild(c) \/ FreezeNamespace(c) \/ ActivateResourceRelease(c)
             \/ UnfreezeNamespace(c) \/ ManagerCrashes(c)
      PROVE  QuotaHolds'
  BY <1>1, <1>2, <1>4 DEF ShopType, Use, StageResourceBuild, FreezeNamespace, ActivateResourceRelease, UnfreezeNamespace,
                          ManagerCrashes
<1>5. ASSUME NEW a \in Attempts, NEW q \in Requests, SendMutation(a, q) PROVE QuotaHolds'
  BY <1>1, <1>2, <1>5 DEF ShopType, SendMutation
<1>6. ASSUME NEW a \in Attempts, ResolveMutation(a) \/ AnswerMutation(a) \/ LoseAttempt(a) PROVE QuotaHolds'
  BY <1>2, <1>6 DEF ResolveMutation, AnswerMutation, LoseAttempt
<1>7. ASSUME NEW a \in Attempts, StoreMutate(a) PROVE QuotaHolds'
  BY <1>7, StoreWithinQuota
<1>8. Cardinality(Recorded([q \in Requests |-> NoReceipt])) <= shop.quota
  <2>1. Recorded([q \in Requests |-> NoReceipt]) = {}
    BY DEF Recorded
  <2> QED BY <1>1, <2>1, FS_EmptySet DEF ShopType
<1>9. CASE ExportResourceData
  <2>1. UNCHANGED <<receipts, shop>>
    BY <1>9 DEF ExportResourceData
  <2>2. archive'.receipts = receipts \/ archive'.receipts = [q \in Requests |-> NoReceipt]
    BY <1>9 DEF ExportResourceData, NoArchive
  <2> QED BY <1>8, <2>1, <2>2 DEF QuotaHolds
<1>10. CASE LoseNamespaceData
  <2>1. UNCHANGED archive /\ receipts' = [q \in Requests |-> NoReceipt] /\ shop'.quota = shop.quota
    BY <1>1, <1>10 DEF LoseNamespaceData, ShopType
  <2> QED BY <1>8, <2>1 DEF QuotaHolds, Recorded
<1>11. CASE RestoreResourceData
  <2>1. UNCHANGED archive /\ receipts' = archive.receipts /\ shop'.quota = shop.quota
    BY <1>1, <1>11 DEF RestoreResourceData, ShopType
  <2> QED BY <2>1 DEF QuotaHolds, Recorded
<1> QED BY <1>3, <1>4, <1>5, <1>6, <1>7, <1>9, <1>10, <1>11 DEF ResourceNext

\* Releases, fences, records, receipts and attempts keep their types, and no shard keeps more
\* receipts than its quota, also none that a restore brings back (shardresource/postgres.go).
THEOREM ResourceTypeCorrect == ResourceSpec => []ResourceTypeOK
<1>1. ResourceInit => ManagerTypes /\ QuotaHolds
  <2> SUFFICES ASSUME ResourceInit PROVE ManagerTypes /\ QuotaHolds
    OBVIOUS
  <2>1. shop \in ShopType
    BY ShardInitInv DEF ShardInv, ShardTypes
  <2>2. Recorded(receipts) = {} /\ Recorded(archive.receipts) = {}
    BY DEF ResourceInit, NoArchive, Recorded
  <2>3. QuotaHolds
    BY <2>1, <2>2, FS_EmptySet DEF QuotaHolds, ShopType
  <2> QED BY <2>3 DEF ResourceInit, ManagerTypes
<1>2. ShardInv /\ ManagerTypes /\ QuotaHolds => ResourceTypeOK
  BY DEF ShardInv, ShardTypes, RowType, ReceiptType, ManagerTypes, QuotaHolds, Recorded, ResourceTypeOK
<1> QED BY <1>1, <1>2, ShardInitInv, ShardNextInv, ManagerTypesStep, QuotaStep, PTL DEF ResourceSpec

-----------------------------------------------------------------------------
(* Reading: the least of some numbers, for what comes first. *)

LEMMA LeastOf ==
  ASSUME NEW S \in SUBSET Nat, S # {}
  PROVE  \E x \in S : \A y \in S : x <= y
<1>1. PICK x \in S : \A y \in S : ~(<<y, x>> \in OpToRel(<, Nat))
  BY NatLessThanWellFounded, WFMin
<1>2. ASSUME NEW y \in S PROVE x <= y
  <2>1. ~(y < x)
    BY <1>1 DEF OpToRel
  <2> QED BY <2>1
<1> QED BY <1>2

-----------------------------------------------------------------------------
(* The order of rows is a strict total order, whatever is sorted by. *)

Kinds == {"number", "string", "object", "boolean"}

LEMMA KindsRank ==
  \A s, t \in Kinds : KindRank(s) \in Nat /\ (KindRank(s) = KindRank(t) => s = t)
BY DEF Kinds, KindRank

\* What a field of a record is to the sort.
Sortable(f) == Lacking(f) \/ (f.type \in Kinds /\ f.n \in Int)

LEMMA FieldsSort ==
  ASSUME NEW d, Stored(d), NEW p
  PROVE  Sortable(FieldOf(d, p))
<1>1. CASE p \in DOMAIN d
  <2>1. d[p] \in Values
    BY <1>1 DEF Stored
  <2> QED BY <1>1, <2>1 DEF Sortable, FieldOf, Values, Lacking, SchemaTypes, Scalars, Kinds
<1>2. CASE p \notin DOMAIN d
  BY <1>2 DEF Sortable, FieldOf, NoField, Lacking
<1> QED BY <1>1, <1>2

LEMMA LessOrders ==
  ASSUME NEW f, NEW g, NEW h, f.type \in Kinds, g.type \in Kinds, h.type \in Kinds,
         f.n \in Int, g.n \in Int, h.n \in Int
  PROVE  /\ Less(f, g) => ~Less(g, f)
         /\ ~Less(f, g) /\ ~Less(g, h) => ~Less(f, h)
BY KindsRank DEF Less

\* Fields are ordered but for ties.
LEMMA FieldsOrder ==
  ASSUME NEW o, NEW d, NEW e, NEW m, Stored(d), Stored(e), Stored(m)
  PROVE  /\ Precedes(o, d, e) => ~Precedes(o, e, d)
         /\ ~Precedes(o, d, e) /\ ~Precedes(o, e, m) => ~Precedes(o, d, m)
<1> DEFINE f == FieldOf(d, o.field)  g == FieldOf(e, o.field)  h == FieldOf(m, o.field)
<1>1. Sortable(f) /\ Sortable(g) /\ Sortable(h)
  BY FieldsSort
<1>2. /\ Precedes(o, d, e) <=> \/ ~Lacking(f) /\ Lacking(g)
                               \/ ~Lacking(f) /\ ~Lacking(g) /\ (IF o.down THEN Less(g, f) ELSE Less(f, g))
      /\ Precedes(o, e, d) <=> \/ ~Lacking(g) /\ Lacking(f)
                               \/ ~Lacking(g) /\ ~Lacking(f) /\ (IF o.down THEN Less(f, g) ELSE Less(g, f))
      /\ Precedes(o, e, m) <=> \/ ~Lacking(g) /\ Lacking(h)
                               \/ ~Lacking(g) /\ ~Lacking(h) /\ (IF o.down THEN Less(h, g) ELSE Less(g, h))
      /\ Precedes(o, d, m) <=> \/ ~Lacking(f) /\ Lacking(h)
                               \/ ~Lacking(f) /\ ~Lacking(h) /\ (IF o.down THEN Less(h, f) ELSE Less(f, h))
  BY DEF Precedes
<1> HIDE DEF f, g, h
<1>3. ~Lacking(f) /\ ~Lacking(g) => (Less(f, g) => ~Less(g, f))
  BY <1>1, LessOrders DEF Sortable
<1>4. ~Lacking(f) /\ ~Lacking(g) /\ ~Lacking(h) =>
        /\ ~Less(f, g) /\ ~Less(g, h) => ~Less(f, h)
        /\ ~Less(h, g) /\ ~Less(g, f) => ~Less(h, f)
  BY <1>1, LessOrders DEF Sortable
<1> QED BY <1>2, <1>3, <1>4

RecordsFine ==
  IsFiniteSet(DOMAIN records) /\ DOMAIN records \subseteq Nat /\ \A i \in DOMAIN records : Stored(records[i])

LEMMA RowsSort ==
  ASSUME RecordsFine, NEW n \in Nat, NEW order, DOMAIN order = 1 .. n,
         NEW i \in DOMAIN records, NEW j \in DOMAIN records, NEW m \in DOMAIN records
  PROVE  /\ SortsBefore(order, i, j) => ~SortsBefore(order, j, i)
         /\ i # j => SortsBefore(order, i, j) \/ SortsBefore(order, j, i)
         /\ SortsBefore(order, i, j) /\ SortsBefore(order, j, m) => SortsBefore(order, i, m)
<1> DEFINE P(k, a, b) == Precedes(order[k], records[a], records[b])
           T(k, a, b) == Tied(order[k], records[a], records[b])
           B(a, b) == \/ \E k \in 1 .. n : P(k, a, b) /\ \A l \in 1 .. k - 1 : T(l, a, b)
                      \/ (\A k \in 1 .. n : T(k, a, b)) /\ a < b
<1>1. \A a, b \in DOMAIN records : SortsBefore(order, a, b) <=> B(a, b)
  BY DEF SortsBefore
<1>2. \A k \in 1 .. n : \A a, b, c \in DOMAIN records :
        /\ P(k, a, b) => ~P(k, b, a)
        /\ ~P(k, a, b) /\ ~P(k, b, c) => ~P(k, a, c)
        /\ T(k, a, b) <=> ~P(k, a, b) /\ ~P(k, b, a)
  BY FieldsOrder DEF RecordsFine, Tied
<1>3. i \in Nat /\ j \in Nat /\ m \in Nat
  BY DEF RecordsFine
<1> HIDE DEF P, T
<1>4. B(i, j) => ~B(j, i)
  <2> SUFFICES ASSUME B(i, j), B(j, i) PROVE FALSE
    OBVIOUS
  <2>1. CASE \A k \in 1 .. n : T(k, i, j)
    BY <2>1, <1>2, <1>3
  <2>2. CASE ~\A k \in 1 .. n : T(k, i, j)
    <3>1. PICK k \in 1 .. n : P(k, i, j) /\ \A l \in 1 .. k - 1 : T(l, i, j)
      BY <2>2
    <3>2. PICK k2 \in 1 .. n : P(k2, j, i) /\ \A l \in 1 .. k2 - 1 : T(l, j, i)
      BY <2>2, <1>2
    <3>3. k < k2 \/ k2 < k \/ k = k2
      OBVIOUS
    <3> QED BY <3>1, <3>2, <3>3, <1>2
  <2> QED BY <2>1, <2>2
<1>5. i # j => B(i, j) \/ B(j, i)
  <2> SUFFICES ASSUME i # j PROVE B(i, j) \/ B(j, i)
    OBVIOUS
  <2>1. CASE \A k \in 1 .. n : T(k, i, j)
    BY <2>1, <1>2, <1>3
  <2>2. CASE ~\A k \in 1 .. n : T(k, i, j)
    <3> DEFINE S == {k \in 1 .. n : ~T(k, i, j)}
    <3>1. PICK k \in S : \A l \in S : k <= l
      <4>1. S \in SUBSET Nat /\ S # {}
        BY <2>2
      <4> HIDE DEF S
      <4> QED BY <4>1, LeastOf
    <3>2. \A l \in 1 .. k - 1 : T(l, i, j) /\ T(l, j, i)
      BY <3>1, <1>2
    <3>3. P(k, i, j) \/ P(k, j, i)
      BY <3>1, <1>2
    <3> QED BY <3>1, <3>2, <3>3
  <2> QED BY <2>1, <2>2
<1>6. B(i, j) /\ B(j, m) => B(i, m)
  <2> SUFFICES ASSUME B(i, j), B(j, m) PROVE B(i, m)
    OBVIOUS
  <2>1. \A k \in 1 .. n : T(k, i, j) /\ T(k, j, m) => T(k, i, m)
    BY <1>2
  <2>2. \A k \in 1 .. n : (T(k, i, j) /\ P(k, j, m)) \/ (P(k, i, j) /\ T(k, j, m)) \/ (P(k, i, j) /\ P(k, j, m)) => P(k, i, m)
    BY <1>2
  <2>3. CASE (\A k \in 1 .. n : T(k, i, j)) /\ i < j
    <3>1. CASE (\A k \in 1 .. n : T(k, j, m)) /\ j < m
      BY <2>3, <3>1, <2>1, <1>3
    <3>2. CASE \E k \in 1 .. n : P(k, j, m) /\ \A l \in 1 .. k - 1 : T(l, j, m)
      BY <2>3, <3>2, <2>1, <2>2
    <3> QED BY <3>1, <3>2
  <2>4. ASSUME NEW k \in 1 .. n, P(k, i, j), \A l \in 1 .. k - 1 : T(l, i, j) PROVE B(i, m)
    <3>1. CASE (\A l \in 1 .. n : T(l, j, m)) /\ j < m
      BY <2>4, <3>1, <2>1, <2>2
    <3>2. ASSUME NEW k2 \in 1 .. n, P(k2, j, m), \A l \in 1 .. k2 - 1 : T(l, j, m) PROVE B(i, m)
      <4>1. CASE k < k2
        <5>1. P(k, i, m)
          BY <2>4, <3>2, <4>1, <2>2
        <5>2. \A l \in 1 .. k - 1 : T(l, i, m)
          BY <2>4, <3>2, <4>1, <2>1
        <5> QED BY <5>1, <5>2
      <4>2. CASE k = k2
        <5>1. P(k, i, m)
          BY <2>4, <3>2, <4>2, <2>2
        <5>2. \A l \in 1 .. k - 1 : T(l, i, m)
          BY <2>4, <3>2, <4>2, <2>1
        <5> QED BY <5>1, <5>2
      <4>3. CASE k2 < k
        <5>1. P(k2, i, m)
          BY <2>4, <3>2, <4>3, <2>2
        <5>2. \A l \in 1 .. k2 - 1 : T(l, i, m)
          BY <2>4, <3>2, <4>3, <2>1
        <5> QED BY <5>1, <5>2
      <4> QED BY <4>1, <4>2, <4>3
    <3> QED BY <3>1, <3>2
  <2> QED BY <2>3, <2>4
<1> QED BY <1>1, <1>4, <1>5, <1>6

-----------------------------------------------------------------------------
(* The rows of a view are the records that match, each once, in that order. *)

Found(v) == {i \in DOMAIN records : Matches(shelf.store, v.query.where, records[i])}
InOrder(s, S, order) ==
  /\ s \in Seq(Nat) /\ Len(s) = Cardinality(S)
  /\ \A k \in 1 .. Len(s) : s[k] \in S
  /\ \A i \in S : \E k \in 1 .. Len(s) : s[k] = i
  /\ \A k, l \in 1 .. Len(s) : k < l => SortsBefore(order, s[k], s[l])

LEMMA RowsAre ==
  ASSUME RecordsFine, NEW v, NEW n \in Nat, DOMAIN v.query.order = 1 .. n
  PROVE  InOrder(Rows(shelf.store, v), Found(v), v.query.order)
<1> DEFINE S == Found(v)
           order == v.query.order
           Prior(i) == {j \in S : SortsBefore(order, j, i)}
           place == [i \in S |-> 1 + Cardinality(Prior(i))]
           N == Cardinality(S)
           found == [k \in 1 .. N |-> CHOOSE i \in S : place[i] = k]
<1>1. Rows(shelf.store, v) = found
  BY DEF Rows, Found
<1>2. IsFiniteSet(S) /\ N \in Nat /\ S \subseteq DOMAIN records /\ S \subseteq Nat
  BY FS_Subset, FS_CardinalityType DEF RecordsFine, Found
<1>3. \A i, j \in S : /\ SortsBefore(order, i, j) => ~SortsBefore(order, j, i)
                      /\ i # j => SortsBefore(order, i, j) \/ SortsBefore(order, j, i)
  BY <1>2, RowsSort
<1>4. ASSUME NEW i \in S, NEW j \in S, NEW m \in S, SortsBefore(order, i, j), SortsBefore(order, j, m)
      PROVE SortsBefore(order, i, m)
  BY <1>2, <1>4, RowsSort
<1> HIDE DEF S, order
<1>5. ASSUME NEW i \in S PROVE IsFiniteSet(Prior(i)) /\ Cardinality(Prior(i)) \in Nat /\ Cardinality(Prior(i)) < N
  <2>1. Prior(i) \in SUBSET S /\ i \notin Prior(i)
    <3>1. ~SortsBefore(order, i, i)
      BY <1>3
    <3> QED BY <3>1
  <2>2. IsFiniteSet(Prior(i)) /\ Cardinality(Prior(i)) <= N /\ Cardinality(Prior(i)) # N
    BY <2>1, <1>2, FS_Subset
  <2> QED BY <2>2, <1>2, FS_CardinalityType
<1>6. ASSUME NEW i \in S, NEW j \in S, SortsBefore(order, i, j) PROVE place[i] < place[j]
  <2>1. Prior(i) \in SUBSET Prior(j) /\ i \in Prior(j) /\ i \notin Prior(i)
    <3>1. ~SortsBefore(order, i, i)
      BY <1>3
    <3>2. \A m \in S : SortsBefore(order, m, i) => SortsBefore(order, m, j)
      BY <1>4, <1>6
    <3> QED BY <3>1, <3>2, <1>6
  <2>2. Cardinality(Prior(i)) <= Cardinality(Prior(j)) /\ Cardinality(Prior(i)) # Cardinality(Prior(j))
    BY <2>1, <1>5, FS_Subset
  <2>3. Cardinality(Prior(i)) < Cardinality(Prior(j))
    <3> HIDE DEF Prior
    <3> QED BY <2>2, <1>5
  <2>4. place[i] = 1 + Cardinality(Prior(i)) /\ place[j] = 1 + Cardinality(Prior(j))
    OBVIOUS
  <2> HIDE DEF place, Prior
  <2> QED BY <2>3, <2>4, <1>5
<1>7. place \in [S -> 1 .. N]
  <2>1. \A i \in S : 1 + Cardinality(Prior(i)) \in 1 .. N
    <3> HIDE DEF Prior
    <3> QED BY <1>5, <1>2
  <2> QED BY <2>1
<1> HIDE DEF place
<1>8. \A i, j \in S : place[i] = place[j] => i = j
  <2>1. ASSUME NEW i \in S, NEW j \in S, place[i] = place[j], i # j PROVE FALSE
    <3>1. place[i] < place[j] \/ place[j] < place[i]
      BY <1>3, <1>6, <2>1
    <3>2. place[i] \in Int /\ place[j] \in Int
      BY <1>7
    <3> QED BY <3>1, <3>2, <2>1
  <2> QED BY <2>1
<1>9. \A k \in 1 .. N : \E i \in S : place[i] = k
  <2>1. place \in Injection(S, 1 .. N)
    BY <1>7, <1>8 DEF Injection, IsInjective
  <2>2. IsFiniteSet(1 .. N) /\ Cardinality(1 .. N) = N
    BY <1>2, FS_Interval
  <2>3. place \in Surjection(S, 1 .. N)
    BY <2>1, <2>2, FS_Injection
  <2> QED BY <2>3 DEF Surjection
<1>10. \A k \in 1 .. N : found[k] \in S /\ place[found[k]] = k
  BY <1>9
<1>11. found \in Seq(Nat) /\ Len(found) = N /\ DOMAIN found = 1 .. N
  <2>1. \A k \in 1 .. N : (CHOOSE i \in S : place[i] = k) \in Nat
    BY <1>10, <1>2
  <2>2. found \in [1 .. N -> Nat]
    BY <2>1
  <2> HIDE DEF found, N
  <2> QED BY <2>2, <1>2
<1> HIDE DEF found
<1>12. \A i \in S : \E k \in 1 .. N : found[k] = i
  <2>1. ASSUME NEW i \in S PROVE found[place[i]] = i /\ place[i] \in 1 .. N
    <3>1. place[i] \in 1 .. N
      BY <1>7
    <3>2. found[place[i]] \in S /\ place[found[place[i]]] = place[i]
      BY <3>1, <1>10
    <3> QED BY <3>1, <3>2, <1>8
  <2> QED BY <2>1
<1>13. ASSUME NEW k \in 1 .. N, NEW l \in 1 .. N, k < l PROVE SortsBefore(order, found[k], found[l])
  <2>1. ~SortsBefore(order, found[l], found[k])
    BY <1>6, <1>10, <1>13, <1>2
  <2> QED BY <2>1, <1>3, <1>10, <1>13
<1> QED BY <1>1, <1>10, <1>11, <1>12, <1>13 DEF InOrder, S, order

-----------------------------------------------------------------------------
(* The stores find the same records, and what a query may be. *)

\* What ValidLeaf leaves of a leaf for the stores.
Comparable(l) == l \in Predicates /\ (l.op \in {"gt", "lt"} => \A v \in l.values : v.type = "number")

LEMMA StoresAgree ==
  ASSUME NEW d, Stored(d), NEW l, Comparable(l)
  PROVE  MongoLeaf(l, d) <=> PostgresLeaf(l, d)
<1> DEFINE f == FieldOf(d, l.field)
<1>1. \A v \in l.values : v \in Values /\ v # NoField
  BY DEF Comparable, Predicates, Values, NoField, SchemaTypes, Scalars
<1>2. f \in Values \/ f = NoField
  BY DEF FieldOf, Stored
<1>3. \A v \in Values : v.type = "null" <=> v = Null
  BY DEF Values, Null
<1>4. f.type = "null" <=> f = Null
  BY <1>2, <1>3 DEF NoField, Null
<1>5. l.op \in {"exists", "eq", "in", "gt", "lt"} /\ l.wanted \in BOOLEAN
  BY DEF Comparable, Predicates
<1>6. NoField # Null
  BY DEF NoField, Null
<1>7. CASE l.op = "exists"
  <2>1. MongoLeaf(l, d) <=> (IF l.wanted THEN f # NoField ELSE f = NoField)
    BY <1>7 DEF MongoLeaf
  <2>2. PostgresLeaf(l, d) <=> ((f # NoField) = l.wanted)
    BY <1>7 DEF PostgresLeaf
  <2> HIDE DEF f
  <2> QED BY <2>1, <2>2, <1>5
<1>8. CASE l.op \in {"eq", "in"}
  <2>1. MongoLeaf(l, d) <=> \/ l.values # {Null} /\ (f \in l.values \ {Null} \/ (Null \in l.values \ {Null} /\ f = NoField))
                            \/ Null \in l.values /\ f.type = "null"
    BY <1>8 DEF MongoLeaf
  <2>2. PostgresLeaf(l, d) <=> f # NoField /\ f \in l.values
    BY <1>8 DEF PostgresLeaf
  <2> HIDE DEF f
  <2>3. CASE f = Null
    BY <2>1, <2>2, <2>3, <1>4, <1>6
  <2>4. CASE f # Null
    BY <2>1, <2>2, <2>4, <1>1, <1>4
  <2> QED BY <2>3, <2>4
<1>9. CASE l.op = "gt"
  <2>1. MongoLeaf(l, d) <=> \E v \in l.values : f.type = v.type /\ f.n > v.n
    BY <1>9 DEF MongoLeaf
  <2>2. PostgresLeaf(l, d) <=> f.type = "number" /\ \E v \in l.values : f.n > v.n
    BY <1>9 DEF PostgresLeaf
  <2>3. \A v \in l.values : v.type = "number"
    BY <1>9 DEF Comparable
  <2> HIDE DEF f
  <2> QED BY <2>1, <2>2, <2>3
<1>10. CASE l.op = "lt"
  <2>1. MongoLeaf(l, d) <=> \E v \in l.values : f.type = v.type /\ f.n < v.n
    BY <1>10 DEF MongoLeaf
  <2>2. PostgresLeaf(l, d) <=> f.type = "number" /\ \E v \in l.values : f.n < v.n
    BY <1>10 DEF PostgresLeaf
  <2>3. \A v \in l.values : v.type = "number"
    BY <1>10 DEF Comparable
  <2> HIDE DEF f
  <2> QED BY <2>1, <2>2, <2>3
<1> QED BY <1>5, <1>7, <1>8, <1>9, <1>10

\* A view that was resolved: of a contract that was active, by what it lets the reader ask.
Resolved(r, v) ==
  /\ v.release \in 1 .. release /\ Compiles(Contract(v.release))
  /\ Granted(r, v.release) /\ Answerable(r, v.release)
  /\ v = ViewOf(r, v.release)

Plain(q) ==
  /\ q.limit \in Nat \ {0} /\ Len(q.order) \in Nat /\ DOMAIN q.order = 1 .. Len(q.order)
  /\ \A clause \in q.where : \A l \in clause : Comparable(l)

LEMMA AskedFacts ==
  ASSUME IsScene(shelf), NEW r \in Readers, NEW n \in 1 .. Len(shelf.contracts), Granted(r, n)
  PROVE  LET b == Contract(n).bindings[Asked(r).binding]
             q == IF Asked(r).supplies THEN Narrowed(b, Asked(r).query) ELSE b.query
         IN q \in Queries /\ b.query \in Queries /\ b.query.where \subseteq q.where
<1> DEFINE b == Contract(n).bindings[Asked(r).binding]
           a == Asked(r).query
<1>1. b.query \in Queries
  BY DEF IsScene, Granted, Contract
<1>2. a \in Queries
  BY DEF IsScene, Asked
<1>3. Narrowed(b, a) = [where |-> b.query.where \cup a.where, order |-> IF a.order = <<>> THEN b.query.order ELSE a.order,
                        limit |-> IF a.limit = 0 THEN b.query.limit ELSE a.limit]
  BY DEF Narrowed
<1> HIDE DEF a, b
<1>4. Narrowed(b, a) \in Queries /\ Narrowed(b, a).where = b.query.where \cup a.where
  BY <1>1, <1>2, <1>3 DEF Queries
<1> QED BY <1>1, <1>4 DEF a, b

LEMMA ViewFacts ==
  ASSUME IsScene(shelf), release \in 1 .. Len(shelf.contracts), NEW r \in Readers, NEW v, Resolved(r, v)
  PROVE  LET c == Contract(v.release)  b == c.bindings[Asked(r).binding]
         IN /\ Plain(v.query) /\ v.query.limit <= MostOf(c.resource)
            /\ b.query.where \subseteq v.query.where /\ v.select = b.select
<1> DEFINE n == v.release
           c == Contract(n)
           b == c.bindings[Asked(r).binding]
           q == IF Asked(r).supplies THEN Narrowed(b, Asked(r).query) ELSE b.query
<1>1. n \in 1 .. Len(shelf.contracts) /\ Granted(r, n) /\ Answerable(r, n)
  BY DEF Resolved
<1>2. q \in Queries /\ b.query.where \subseteq q.where
  BY <1>1, AskedFacts
<1>3. v.query = Limited(c.resource, q) /\ v.select = b.select
  <2>1. v = ViewOf(r, n)
    BY DEF Resolved
  <2>2. ViewOf(r, n).query = Limited(c.resource, q) /\ ViewOf(r, n).select = b.select
    BY DEF ViewOf
  <2> QED BY <2>1, <2>2
<1>4. c.resource.max \in Nat /\ PageDefault \in Nat \ {0}
  BY <1>1, QueryAssumption DEF IsScene, Contract
<1>5. ValidateQuery(c.resource, c.resource.schema, v.query)
  <2>1. ValidateQuery(c.resource, c.resource.schema, ViewOf(r, n).query)
    BY <1>1 DEF Answerable
  <2> QED BY <2>1 DEF Resolved
<1> HIDE DEF n, c, b, q
<1> DEFINE r1 == c.resource
<1> HIDE DEF r1
<1>6. v.query.limit \in Nat \ {0} /\ v.query.where = q.where /\ v.query.order = q.order
  <2>1. q.limit \in Nat /\ q = [where |-> q.where, order |-> q.order, limit |-> q.limit]
    BY <1>2 DEF Queries
  <2>2. v.query = [q EXCEPT !.limit = IF c.resource.kind = "singleton" THEN 1
                      ELSE IF q.limit # 0 THEN q.limit
                      ELSE IF c.resource.max > 0 /\ c.resource.max < PageDefault THEN c.resource.max ELSE PageDefault]
    BY <1>3, <2>1 DEF Limited
  <2> QED BY <2>1, <2>2, <1>4
<1>7. v.query.order \in Seq([field : Pointers, down : BOOLEAN]) /\ v.query.where \in SUBSET SUBSET Predicates
  BY <1>2, <1>6 DEF Queries
<1>8. Len(v.query.order) \in Nat /\ DOMAIN v.query.order = 1 .. Len(v.query.order)
  BY <1>7
<1>9. ASSUME NEW clause \in v.query.where, NEW l \in clause PROVE Comparable(l)
  <2>1. l \in Predicates
    BY <1>7
  <2>2. ValidLeaf(c.resource, c.resource.schema, l)
    BY <1>5, <1>9 DEF ValidateQuery, LeavesOf
  <2>3. l.op \in {"gt", "lt"} => \A x \in l.values : x.type = "number"
    BY <2>2 DEF ValidLeaf
  <2> QED BY <2>1, <2>3 DEF Comparable
<1>10. v.query.limit <= MostOf(c.resource)
  BY <1>5, <1>6 DEF ValidateQuery, LimitOf
<1> QED BY <1>2, <1>3, <1>6, <1>8, <1>9, <1>10 DEF Plain, n, c, b

\* In either store a view finds what its query means.
LEMMA FoundIsMeant ==
  ASSUME RecordsFine, shelf.store \in {"postgres", "mongo"}, NEW v, Plain(v.query)
  PROVE  Found(v) = Meant(v.query.where)
<1>1. ASSUME NEW i \in DOMAIN records, NEW clause \in v.query.where, NEW l \in clause
      PROVE  MongoLeaf(l, records[i]) <=> PostgresLeaf(l, records[i])
  BY StoresAgree DEF RecordsFine, Plain
<1>2. ASSUME NEW i \in DOMAIN records
      PROVE  Matches(shelf.store, v.query.where, records[i]) <=>
               \A clause \in v.query.where : \E l \in clause : PostgresLeaf(l, records[i])
  BY <1>1 DEF Matches
<1> QED BY <1>2 DEF Found, Meant

-----------------------------------------------------------------------------
(* Reading page by page. *)

QueryStages == {"new", "calling", "ready", "resolved", "paging", "inserting", "fetched", "paged", "done", "failed"}
Viewed == {"resolved", "paging", "inserting", "fetched", "paged", "done"}
InPage == {"paging", "inserting", "fetched"}

All(v) == Rows(shelf.store, v)
Begins(s, t) == Len(s) <= Len(t) /\ \A k \in 1 .. Len(s) : s[k] = t[k]

\* Where a cursor leads is where the pages so far end.
Leads(t, seen) == \A c \in cursors : c.token = t => c.offset = Len(seen) /\ Begins(seen, All(c.view))

ReadTypes(x) ==
  /\ x = [stage |-> x.stage, knows |-> x.knows, view |-> x.view, token |-> x.token, offset |-> x.offset, page |-> x.page,
          next |-> x.next, told |-> x.told, seen |-> x.seen, quiet |-> x.quiet]
  /\ x.stage \in QueryStages /\ x.knows \in 0 .. release /\ x.token \in 0 .. issued /\ x.next \in 0 .. issued
  /\ x.offset \in Nat /\ x.seen \in Seq(Nat) /\ x.quiet \in BOOLEAN
  /\ x.stage \in {"new", "calling"} => x.token = 0
  /\ x.stage \in {"paging", "inserting"} => shelf.store = "mongo"

\* A page holds records of its time that match.
PageIsFine(x) ==
  x.stage \in InPage =>
    /\ Len(x.page) \in Nat /\ DOMAIN x.page = 1 .. Len(x.page) /\ Len(x.page) <= x.view.query.limit
    /\ \A k \in 1 .. Len(x.page) :
         /\ x.page[k].id \in Nat /\ Stored(x.page[k].data)
         /\ \A clause \in x.view.query.where : \E l \in clause : PostgresLeaf(l, x.page[k].data)

\* What was read so far, if nothing was written since it began.
ReadSoFar(x) ==
  /\ x.stage \in {"new", "calling", "ready", "resolved"} /\ x.token = 0 => x.seen = <<>> /\ ~x.quiet
  /\ x.quiet =>
       /\ x.stage \in {"ready", "resolved"} => Leads(x.token, x.seen)
       /\ x.stage = "paged" => Leads(x.next, x.seen)
       /\ x.stage \in InPage => /\ x.offset = Len(x.seen) /\ Begins(x.seen, All(x.view))
                                /\ x.page = PageOf(x.view, x.offset)
       /\ x.stage \in {"paging", "inserting"} => MoreAfter(x.view, x.offset)
       /\ x.stage = "fetched" /\ x.next = 0 => ~MoreAfter(x.view, x.offset)
       /\ x.stage = "fetched" /\ x.next # 0 =>
            /\ MoreAfter(x.view, x.offset)
            /\ \A c \in cursors : c.token = x.next => c.view = x.view /\ c.offset = x.offset + x.view.query.limit
       /\ x.stage = "done" => Len(x.seen) = Len(All(x.view)) /\ Begins(x.seen, All(x.view))

ReadInv(r, x) ==
  /\ ReadTypes(x) /\ PageIsFine(x) /\ ReadSoFar(x)
  /\ x.stage \in Viewed => Resolved(r, x.view)

CursorsFine ==
  /\ IsFiniteSet(cursors) /\ (shelf.store = "postgres" => Cardinality(cursors) <= CursorQuota)
  /\ \A c \in cursors : c.token \in 1 .. issued /\ c.offset \in Nat \ {0}
  /\ \A c, d \in cursors : c.token = d.token => c = d

QueryInv ==
  /\ IsScene(shelf) /\ release \in 1 .. Len(shelf.contracts) /\ Compiles(Contract(release))
  /\ RecordsFine /\ issued \in Nat /\ CursorsFine
  /\ reader = [r \in Readers |-> reader[r]]
  /\ \A r \in Readers : ReadInv(r, reader[r])

\* What a step leaves as it was: the rows of every view where no record is written, ...
SortsIn(recs, order, i, j) ==
  \/ \E k \in DOMAIN order : /\ Precedes(order[k], recs[i], recs[j])
                             /\ \A l \in 1 .. k - 1 : Tied(order[l], recs[i], recs[j])
  \/ (\A k \in DOMAIN order : Tied(order[k], recs[i], recs[j])) /\ i < j
RowsIn(recs, store, v) ==
  LET found == {i \in DOMAIN recs : Matches(store, v.query.where, recs[i])}
      place == [i \in found |-> 1 + Cardinality({j \in found : SortsIn(recs, v.query.order, j, i)})]
  IN [k \in 1 .. Cardinality(found) |-> CHOOSE i \in found : place[i] = k]

LEMMA RowsStay ==
  ASSUME records' = records, shelf'.store = shelf.store, NEW v
  PROVE  All(v)' = All(v) /\ \A n : PageOf(v, n)' = PageOf(v, n) /\ (MoreAfter(v, n)' <=> MoreAfter(v, n))
<1>1. All(v) = RowsIn(records, shelf.store, v)
  BY DEF All, Rows, RowsIn, SortsBefore, SortsIn
<1>2. All(v)' = RowsIn(records', shelf'.store, v)
  BY DEF All, Rows, RowsIn, SortsBefore, SortsIn
<1>3. All(v)' = All(v)
  BY <1>1, <1>2
<1>4. ASSUME NEW n PROVE PageOf(v, n)' = PageOf(v, n) /\ (MoreAfter(v, n)' <=> MoreAfter(v, n))
  <2>1. PageOf(v, n) = [k \in {m \in 1 .. v.query.limit : n + m <= Len(All(v))} |->
                          [id |-> All(v)[n + k], data |-> records[All(v)[n + k]]]]
    BY DEF PageOf, All
  <2>2. PageOf(v, n)' = [k \in {m \in 1 .. v.query.limit : n + m <= Len(All(v)')} |->
                          [id |-> All(v)'[n + k], data |-> records'[All(v)'[n + k]]]]
    BY DEF PageOf, All
  <2>3. MoreAfter(v, n) <=> Len(All(v)) > n + v.query.limit
    BY DEF MoreAfter, All
  <2>4. MoreAfter(v, n)' <=> Len(All(v)') > n + v.query.limit
    BY DEF MoreAfter, All
  <2>5. PageOf(v, n)' = PageOf(v, n)
    BY <1>3, <2>1, <2>2
  <2> QED BY <1>3, <2>3, <2>4, <2>5
<1> QED BY <1>3, <1>4

\* ... and what a contract lets a reader ask.
SceneStays == shelf'.store = shelf.store /\ shelf'.contracts = shelf.contracts /\ shelf'.asks = shelf.asks

LEMMA ResolvedStays ==
  ASSUME SceneStays, release \in Nat, release' \in Nat, release <= release', NEW r, NEW v, Resolved(r, v)
  PROVE  Resolved(r, v)'
<1>1. \A n : Contract(n)' = Contract(n)
  BY DEF SceneStays, Contract
<1>2. Asked(r)' = Asked(r)
  BY DEF SceneStays, Asked
<1>3. \A n : ViewOf(r, n)' = ViewOf(r, n)
  BY <1>1, <1>2 DEF ViewOf
<1>4. \A n : Granted(r, n)' <=> Granted(r, n)
  BY <1>1, <1>2 DEF Granted, Capability
<1>5. \A n : Answerable(r, n)' <=> Answerable(r, n)
  BY <1>1, <1>3 DEF Answerable
<1>6. v.release \in 1 .. release'
  BY DEF Resolved
<1> QED BY <1>1, <1>3, <1>4, <1>5, <1>6 DEF Resolved

\* What a view that was resolved finds.
LEMMA ViewFinds ==
  ASSUME QueryInv, NEW r \in Readers, NEW v, Resolved(r, v)
  PROVE  /\ InOrder(All(v), Found(v), v.query.order) /\ Found(v) = Meant(v.query.where) /\ Plain(v.query)
         /\ Found(v) \subseteq DOMAIN records /\ IsFiniteSet(Found(v)) /\ Len(All(v)) \in Nat
<1>1. Plain(v.query)
  BY ViewFacts DEF QueryInv
<1>2. InOrder(All(v), Found(v), v.query.order)
  BY <1>1, RowsAre DEF QueryInv, Plain, All
<1>3. Found(v) = Meant(v.query.where)
  BY <1>1, FoundIsMeant DEF QueryInv, IsScene
<1>4. Found(v) \subseteq DOMAIN records /\ IsFiniteSet(Found(v))
  BY FS_Subset DEF QueryInv, RecordsFine, Found
<1>5. Len(All(v)) \in Nat
  BY <1>2, <1>4, FS_CardinalityType DEF InOrder
<1> QED BY <1>1, <1>2, <1>3, <1>4, <1>5

LEMMA PageFacts ==
  ASSUME QueryInv, NEW r \in Readers, NEW v, Resolved(r, v), NEW offset \in Nat
  PROVE  LET page == PageOf(v, offset)
         IN /\ Len(page) \in Nat /\ DOMAIN page = 1 .. Len(page) /\ Len(page) <= v.query.limit
            /\ \A k \in 1 .. Len(page) : offset + k <= Len(All(v)) /\ page[k].id = All(v)[offset + k] /\ page[k].id \in Nat
            /\ \A k \in 1 .. Len(page) :
                 /\ Stored(page[k].data)
                 /\ \A clause \in v.query.where : \E l \in clause : PostgresLeaf(l, page[k].data)
            /\ MoreAfter(v, offset) => Len(page) = v.query.limit
            /\ ~MoreAfter(v, offset) /\ offset <= Len(All(v)) => offset + Len(page) = Len(All(v))
<1> DEFINE page == PageOf(v, offset)
           L == Len(All(v))
           lim == v.query.limit
           m == IF L - offset >= lim THEN lim ELSE IF L >= offset THEN L - offset ELSE 0
           cell(k) == [id |-> All(v)[offset + k], data |-> records[All(v)[offset + k]]]
<1>1. L \in Nat /\ lim \in Nat /\ lim >= 1
  BY ViewFinds DEF Plain
<1>2. page = [k \in {n \in 1 .. lim : offset + n <= L} |-> cell(k)]
  BY DEF PageOf, All
<1>3. MoreAfter(v, offset) <=> L > offset + lim
  BY DEF MoreAfter, All
<1>4. InOrder(All(v), Found(v), v.query.order) /\ Found(v) = Meant(v.query.where) /\ Found(v) \subseteq DOMAIN records
  BY ViewFinds
<1>5. \A k \in 1 .. L : All(v)[k] \in Meant(v.query.where) /\ All(v)[k] \in DOMAIN records /\ All(v)[k] \in Nat
  BY <1>4 DEF InOrder, QueryInv, RecordsFine
<1> HIDE DEF L, lim, page
<1>6. m \in Nat /\ {n \in 1 .. lim : offset + n <= L} = 1 .. m /\ m <= lim /\ (m > 0 => offset + m <= L)
      /\ (L > offset + lim => m = lim) /\ (~(L > offset + lim) /\ offset <= L => offset + m = L)
  BY <1>1
<1> HIDE DEF m
<1>7. page = [k \in 1 .. m |-> cell(k)]
  BY <1>2, <1>6
<1>8. Len(page) = m /\ DOMAIN page = 1 .. m
  <2>1. page \in Seq({cell(k) : k \in 1 .. m})
    <3> HIDE DEF cell
    <3> QED BY <1>6, <1>7
  <2> QED BY <1>6, <1>7, <2>1
<1>9. \A k \in 1 .. m : page[k] = cell(k) /\ offset + k <= L /\ offset + k \in 1 .. L
  <2> HIDE DEF cell
  <2> QED BY <1>1, <1>6, <1>7
<1>10. ASSUME NEW k \in 1 .. m
       PROVE  /\ page[k].id = All(v)[offset + k] /\ page[k].id \in Nat /\ Stored(page[k].data)
              /\ \A clause \in v.query.where : \E l \in clause : PostgresLeaf(l, page[k].data)
  <2>1. page[k].id = All(v)[offset + k] /\ page[k].data = records[All(v)[offset + k]]
    <3>1. page[k] = cell(k)
      BY <1>9
    <3>2. cell(k).id = All(v)[offset + k] /\ cell(k).data = records[All(v)[offset + k]]
      OBVIOUS
    <3> HIDE DEF cell
    <3> QED BY <3>1, <3>2
  <2>2. All(v)[offset + k] \in Meant(v.query.where) /\ All(v)[offset + k] \in DOMAIN records /\ All(v)[offset + k] \in Nat
    BY <1>5, <1>9
  <2> QED BY <2>1, <2>2 DEF Meant, QueryInv, RecordsFine
<1> QED BY <1>3, <1>6, <1>8, <1>9, <1>10 DEF page, L, lim

-----------------------------------------------------------------------------
(* The invariant, step by step. *)

OnlyCursors == /\ UNCHANGED <<shelf, release, records>>
         /\ \/ UNCHANGED <<cursors, issued>>
            \/ \E v, n : /\ n \in Nat \ {0} /\ NewCursor(v, n)
                         /\ shelf.store = "postgres" => Cardinality(cursors) < CursorQuota

LEMMA CursorsGrow ==
  ASSUME QueryInv, OnlyCursors
  PROVE  CursorsFine' /\ issued' \in Nat /\ issued <= issued' /\ \A c \in cursors' : c.token <= issued => c \in cursors
<1>1. CASE UNCHANGED <<cursors, issued>>
  BY <1>1 DEF QueryInv, CursorsFine, OnlyCursors
<1>2. ASSUME NEW v, NEW n \in Nat \ {0}, NewCursor(v, n), shelf.store = "postgres" => Cardinality(cursors) < CursorQuota
      PROVE  CursorsFine' /\ issued' \in Nat /\ issued <= issued' /\ \A c \in cursors' : c.token <= issued => c \in cursors
  <2> DEFINE new == [token |-> issued + 1, view |-> v, offset |-> n]
  <2>1. issued \in Nat /\ issued' = issued + 1 /\ cursors' = cursors \cup {new} /\ new.token = issued + 1 /\ new.offset = n
    BY <1>2 DEF NewCursor, QueryInv
  <2>2. IsFiniteSet(cursors) /\ \A c \in cursors : c.token \in 1 .. issued /\ c.offset \in Nat \ {0}
    BY DEF QueryInv, CursorsFine
  <2>3. \A c, d \in cursors : c.token = d.token => c = d
    BY DEF QueryInv, CursorsFine
  <2> HIDE DEF new
  <2>4. IsFiniteSet(cursors') /\ Cardinality(cursors') <= Cardinality(cursors) + 1 /\ Cardinality(cursors) \in Nat
    <3>1. IsFiniteSet(cursors \cup {new}) /\ Cardinality(cursors \cup {new}) =
            IF new \in cursors THEN Cardinality(cursors) ELSE Cardinality(cursors) + 1
      BY <2>2, FS_AddElement
    <3> QED BY <2>1, <2>2, <3>1, FS_CardinalityType
  <2>5. \A c, d \in cursors' : c.token = d.token => c = d
    BY <2>1, <2>2, <2>3
  <2>6. \A c \in cursors' : c.token \in 1 .. issued' /\ c.offset \in Nat \ {0}
    BY <2>1, <2>2
  <2>7. shelf'.store = "postgres" => Cardinality(cursors') <= CursorQuota
    <3>1. shelf' = shelf /\ CursorQuota \in Nat
      BY QueryAssumption DEF OnlyCursors
    <3>2. IsFiniteSet(cursors') => Cardinality(cursors') \in Nat
      BY FS_CardinalityType
    <3>3. ASSUME shelf.store = "postgres" PROVE Cardinality(cursors') <= CursorQuota
      <4>1. Cardinality(cursors) < CursorQuota
        BY <3>3, <1>2
      <4> QED BY <3>1, <3>2, <2>4, <4>1
    <3> QED BY <3>1, <3>3
  <2>8. \A c \in cursors' : c.token <= issued => c \in cursors
    BY <2>1
  <2> QED BY <2>1, <2>4, <2>5, <2>6, <2>7, <2>8 DEF CursorsFine
<1> QED BY <1>1, <1>2 DEF OnlyCursors

\* Whoever does not step keeps what it has read.
LEMMA ReadersWait ==
  ASSUME QueryInv, OnlyCursors, NEW p, NEW x, ReadInv(p, x)
  PROVE  ReadInv(p, x)'
<1>1. shelf' = shelf /\ release' = release /\ records' = records
  BY DEF OnlyCursors
<1>2. issued \in Nat /\ issued' \in Nat /\ issued <= issued' /\ \A c \in cursors' : c.token <= issued => c \in cursors
  BY CursorsGrow DEF QueryInv
<1>3. ReadTypes(x)'
  BY <1>1, <1>2 DEF ReadInv, ReadTypes
<1>4. PageIsFine(x)'
  BY DEF ReadInv, PageIsFine
<1>5. \A v : All(v)' = All(v) /\ \A n : PageOf(v, n)' = PageOf(v, n) /\ (MoreAfter(v, n)' <=> MoreAfter(v, n))
  BY <1>1, RowsStay
<1>6. \A t \in 0 .. issued : \A s : Leads(t, s) => Leads(t, s)'
  BY <1>2, <1>5 DEF Leads
<1>7. x.token \in 0 .. issued /\ x.next \in 0 .. issued
  BY DEF ReadInv, ReadTypes
<1>8. ReadSoFar(x)'
  <2>1. ReadSoFar(x)
    BY DEF ReadInv
  <2>2. \A c \in cursors' : c.token = x.next => c \in cursors
    BY <1>2, <1>7
  <2> QED BY <2>1, <2>2, <1>5, <1>6, <1>7 DEF ReadSoFar
<1>9. x.stage \in Viewed => Resolved(p, x.view)'
  <2>1. SceneStays /\ release \in Nat
    BY <1>1 DEF SceneStays, QueryInv
  <2> QED BY <2>1, <1>1, ResolvedStays DEF ReadInv
<1> QED BY <1>3, <1>4, <1>8, <1>9 DEF ReadInv

LEMMA ReaderSteps ==
  ASSUME QueryInv, OnlyCursors, NEW r \in Readers, NEW y, Becomes(r, y), ReadInv(r, y)'
  PROVE  QueryInv'
<1>1. shelf' = shelf /\ release' = release /\ records' = records
  BY DEF OnlyCursors
<1>2. reader = [p \in Readers |-> reader[p]] /\ reader' = [reader EXCEPT ![r] = y]
  BY DEF QueryInv, Becomes
<1>3. reader' = [p \in Readers |-> reader'[p]] /\ \A p \in Readers : reader'[p] = IF p = r THEN y ELSE reader[p]
  BY <1>2
<1>4. ASSUME NEW p \in Readers PROVE ReadInv(p, reader[p])'
  <2>1. CASE p = r
    <3>1. reader'[p] = y
      BY <1>3, <2>1
    <3> QED BY <3>1, <2>1
  <2>2. CASE p # r
    <3>1. PICK x : x = reader[p]
      OBVIOUS
    <3>2. ReadInv(p, x)
      BY <3>1 DEF QueryInv
    <3>3. ReadInv(p, x)'
      BY <3>2, ReadersWait
    <3>4. reader'[p] = x
      BY <1>3, <2>2, <3>1
    <3> QED BY <3>3, <3>4
  <2> QED BY <2>1, <2>2
<1>5. (RecordsFine /\ IsScene(shelf) /\ Compiles(Contract(release)) /\ release \in 1 .. Len(shelf.contracts))'
  <2>1. Contract(release)' = Contract(release)
    BY <1>1 DEF Contract
  <2> QED BY <1>1, <2>1 DEF RecordsFine, QueryInv
<1> QED BY <1>3, <1>4, <1>5, CursorsGrow DEF QueryInv
LEMMA HelloReads ==
  ASSUME QueryInv, NEW r \in Readers, Hello(r)
  PROVE  QueryInv'
<1>1. PICK x : x = reader[r]
  OBVIOUS
<1>2. PICK y : y = [x EXCEPT !.stage = IF Asked(r).handler = "" THEN "ready" ELSE "calling", !.knows = release] /\ Becomes(r, y)
  BY <1>1 DEF Hello
<1>3. OnlyCursors /\ x.stage = "new" /\ release' = release /\ issued' = issued
  BY <1>1 DEF Hello, OnlyCursors
<1>4. ReadInv(r, x) /\ release \in Nat
  BY <1>1 DEF QueryInv
<1>5. /\ y = [stage |-> y.stage, knows |-> y.knows, view |-> y.view, token |-> y.token, offset |-> y.offset, page |-> y.page,
              next |-> y.next, told |-> y.told, seen |-> y.seen, quiet |-> y.quiet]
      /\ y.stage \in {"ready", "calling"} /\ y.knows = release
      /\ y.token = x.token /\ y.offset = x.offset /\ y.next = x.next /\ y.seen = x.seen /\ y.quiet = x.quiet
  BY <1>2, <1>4 DEF ReadInv, ReadTypes
<1>6. ReadTypes(y)' /\ x.token = 0
  BY <1>3, <1>4, <1>5 DEF ReadInv, ReadTypes, QueryStages
<1>7. y.seen = <<>> /\ ~y.quiet
  BY <1>3, <1>4, <1>5, <1>6 DEF ReadInv, ReadSoFar
<1>8. ReadInv(r, y)'
  BY <1>5, <1>6, <1>7 DEF ReadInv, ReadSoFar, PageIsFine, InPage, Viewed
<1> QED BY <1>2, <1>3, <1>8, ReaderSteps

LEMMA FailedReads ==
  ASSUME QueryInv, NEW r \in Readers, OnlyCursors, ReadFails(r)
  PROVE  QueryInv'
<1>1. PICK x : x = reader[r]
  OBVIOUS
<1>2. PICK y : y = [x EXCEPT !.stage = "failed"] /\ Becomes(r, y)
  BY <1>1 DEF ReadFails
<1>3. ReadInv(r, x)'
  BY <1>1, ReadersWait DEF QueryInv
<1>4. /\ y = [stage |-> y.stage, knows |-> y.knows, view |-> y.view, token |-> y.token, offset |-> y.offset, page |-> y.page,
              next |-> y.next, told |-> y.told, seen |-> y.seen, quiet |-> y.quiet]
      /\ y.stage = "failed" /\ y.knows = x.knows
      /\ y.token = x.token /\ y.offset = x.offset /\ y.next = x.next /\ y.seen = x.seen /\ y.quiet = x.quiet
  BY <1>2, <1>3 DEF ReadInv, ReadTypes
<1>5. ReadTypes(y)'
  BY <1>3, <1>4 DEF ReadInv, ReadTypes, QueryStages
<1>6. ReadInv(r, y)'
  BY <1>4, <1>5 DEF ReadInv, ReadSoFar, PageIsFine, InPage, Viewed
<1> QED BY <1>2, <1>6, ReaderSteps

LEMMA InvokeReads ==
  ASSUME QueryInv, NEW r \in Readers, Invoke(r)
  PROVE  QueryInv'
<1>0. OnlyCursors
  BY DEF Invoke, OnlyCursors
<1>1. CASE ReadFails(r)
  BY <1>0, <1>1, FailedReads
<1>2. CASE Becomes(r, [reader[r] EXCEPT !.stage = "ready"])
  <2>1. PICK x : x = reader[r]
    OBVIOUS
  <2>2. PICK y : y = [x EXCEPT !.stage = "ready"] /\ Becomes(r, y)
    BY <1>2, <2>1
  <2>3. x.stage = "calling" /\ ReadInv(r, x)'
    BY <1>0, <2>1, ReadersWait DEF Invoke, QueryInv
  <2>4. /\ y = [stage |-> y.stage, knows |-> y.knows, view |-> y.view, token |-> y.token, offset |-> y.offset, page |-> y.page,
                next |-> y.next, told |-> y.told, seen |-> y.seen, quiet |-> y.quiet]
        /\ y.stage = "ready" /\ y.knows = x.knows
        /\ y.token = x.token /\ y.offset = x.offset /\ y.next = x.next /\ y.seen = x.seen /\ y.quiet = x.quiet
    BY <2>2, <2>3 DEF ReadInv, ReadTypes
  <2>5. ReadTypes(y)' /\ y.seen = <<>> /\ ~y.quiet
    BY <2>3, <2>4 DEF ReadInv, ReadTypes, ReadSoFar, QueryStages
  <2>6. ReadInv(r, y)'
    BY <2>4, <2>5 DEF ReadInv, ReadSoFar, PageIsFine, InPage, Viewed
  <2> QED BY <1>0, <2>2, <2>6, ReaderSteps
<1> QED BY <1>1, <1>2 DEF Invoke

LEMMA ResolveReads ==
  ASSUME QueryInv, NEW r \in Readers, Resolve(r)
  PROVE  QueryInv'
<1>0. OnlyCursors
  BY DEF Resolve, OnlyCursors
<1>1. CASE ReadFails(r)
  BY <1>0, <1>1, FailedReads
<1>2. CASE Granted(r, release) /\ Answerable(r, release)
           /\ Becomes(r, [reader[r] EXCEPT !.stage = "resolved", !.view = ViewOf(r, release)])
  <2>1. PICK x : x = reader[r]
    OBVIOUS
  <2>2. PICK y : y = [x EXCEPT !.stage = "resolved", !.view = ViewOf(r, release)] /\ Becomes(r, y)
    BY <1>2, <2>1
  <2>3. x.stage = "ready" /\ ReadInv(r, x)'
    BY <1>0, <2>1, ReadersWait DEF Resolve, QueryInv
  <2>4. /\ y = [stage |-> y.stage, knows |-> y.knows, view |-> y.view, token |-> y.token, offset |-> y.offset, page |-> y.page,
                next |-> y.next, told |-> y.told, seen |-> y.seen, quiet |-> y.quiet]
        /\ y.stage = "resolved" /\ y.knows = x.knows /\ y.view = ViewOf(r, release)
        /\ y.token = x.token /\ y.offset = x.offset /\ y.next = x.next /\ y.seen = x.seen /\ y.quiet = x.quiet
    BY <2>2, <2>3 DEF ReadInv, ReadTypes
  <2>5. ReadTypes(y)'
    BY <2>3, <2>4 DEF ReadInv, ReadTypes, QueryStages
  <2>6. ReadSoFar(y)'
    BY <2>3, <2>4 DEF ReadInv, ReadSoFar, InPage
  <2>7. Resolved(r, y.view)'
    <3>1. y.view.release = release /\ release \in Nat \ {0} /\ Compiles(Contract(release))
      BY <2>4 DEF ViewOf, QueryInv
    <3>2. Resolved(r, y.view)
      BY <2>4, <3>1, <1>2 DEF Resolved
    <3>3. SceneStays /\ release' = release
      BY <1>0 DEF OnlyCursors, SceneStays
    <3> QED BY <3>1, <3>2, <3>3, ResolvedStays
  <2>8. ReadInv(r, y)'
    BY <2>4, <2>5, <2>6, <2>7 DEF ReadInv, PageIsFine, InPage, Viewed
  <2> QED BY <1>0, <2>2, <2>8, ReaderSteps
<1> QED BY <1>1, <1>2 DEF Resolve
\* Where the page that is fetched starts.
LEMMA OffsetFacts ==
  ASSUME QueryInv, NEW r \in Readers, NEW x, x = reader[r], x.stage = "resolved",
         x.token = 0 \/ Opens(x.view, x.token) # {}
  PROVE  /\ OffsetOf(x.view, x.token) \in Nat
         /\ x.token = 0 \/ x.quiet => /\ OffsetOf(x.view, x.token) = Len(x.seen)
                                      /\ Begins(x.seen, All(x.view))
<1>1. ReadInv(r, x) /\ Resolved(r, x.view)
  BY DEF QueryInv, ReadInv, Viewed
<1>2. CASE x.token = 0
  <2>1. OffsetOf(x.view, x.token) = 0 /\ x.seen = <<>>
    BY <1>1, <1>2 DEF OffsetOf, ReadInv, ReadSoFar
  <2>2. Len(All(x.view)) \in Nat
    BY <1>1, ViewFinds
  <2>3. Begins(<<>>, All(x.view))
    BY <2>2 DEF Begins
  <2> QED BY <2>1, <2>3
<1>3. CASE x.token # 0
  <2>1. PICK c : c = CHOOSE d \in Opens(x.view, x.token) : TRUE
    OBVIOUS
  <2>2. c \in cursors /\ c.token = x.token /\ c.view = x.view
    BY <1>3, <2>1 DEF Opens
  <2>3. OffsetOf(x.view, x.token) = c.offset
    BY <1>3, <2>1 DEF OffsetOf
  <2>4. c.offset \in Nat
    BY <2>2 DEF QueryInv, CursorsFine
  <2>5. x.quiet => c.offset = Len(x.seen) /\ Begins(x.seen, All(c.view))
    BY <1>1, <2>2 DEF ReadInv, ReadSoFar, Leads
  <2> QED BY <1>3, <2>2, <2>3, <2>4, <2>5
<1> QED BY <1>2, <1>3

LEMMA FetchedReads ==
  ASSUME QueryInv, OnlyCursors, NEW r \in Readers, NEW x, x = reader[r], x.stage = "resolved",
         NEW offset, offset = OffsetOf(x.view, x.token), x.token = 0 \/ Opens(x.view, x.token) # {},
         NEW next, next \in 0 .. issued', Fetched(r, offset, next),
         next = 0 => ~MoreAfter(x.view, offset),
         next # 0 => /\ MoreAfter(x.view, offset)
                     /\ \A c \in cursors' : c.token = next => c.view = x.view /\ c.offset = offset + x.view.query.limit
  PROVE  QueryInv'
<1>1. PICK q : q = IF x.token = 0 THEN TRUE ELSE x.quiet
  OBVIOUS
<1>2. PICK y : y = [x EXCEPT !.stage = "fetched", !.offset = offset, !.page = PageOf(x.view, offset), !.next = next, !.quiet = q]
               /\ Becomes(r, y)
  BY <1>1 DEF Fetched
<1>3. ReadInv(r, x)'
  BY ReadersWait DEF QueryInv
<1>4. Resolved(r, x.view) /\ Resolved(r, x.view)'
  BY <1>3 DEF QueryInv, ReadInv, Viewed
<1>5. offset \in Nat /\ (q => offset = Len(x.seen) /\ Begins(x.seen, All(x.view)))
  BY <1>1, OffsetFacts
<1>6. q \in BOOLEAN
  BY <1>1, <1>3 DEF ReadInv, ReadTypes
<1>7. /\ y = [stage |-> y.stage, knows |-> y.knows, view |-> y.view, token |-> y.token, offset |-> y.offset, page |-> y.page,
              next |-> y.next, told |-> y.told, seen |-> y.seen, quiet |-> y.quiet]
      /\ y.stage = "fetched" /\ y.knows = x.knows /\ y.view = x.view /\ y.page = PageOf(x.view, offset)
      /\ y.token = x.token /\ y.offset = offset /\ y.next = next /\ y.seen = x.seen /\ y.quiet = q
  BY <1>2, <1>3 DEF ReadInv, ReadTypes
<1>8. ReadTypes(y)'
  BY <1>3, <1>5, <1>6, <1>7 DEF ReadInv, ReadTypes, QueryStages
<1>9. PageIsFine(y)
  BY <1>4, <1>5, <1>7, PageFacts DEF PageIsFine
<1>10. \A v : All(v)' = All(v) /\ \A n : PageOf(v, n)' = PageOf(v, n) /\ (MoreAfter(v, n)' <=> MoreAfter(v, n))
  BY RowsStay DEF OnlyCursors
<1>11. ReadSoFar(y)'
  BY <1>5, <1>7, <1>10 DEF ReadSoFar, InPage
<1>12. ReadInv(r, y)'
  <2>1. PageIsFine(y)'
    BY <1>9 DEF PageIsFine
  <2> QED BY <1>4, <1>7, <1>8, <1>11, <2>1 DEF ReadInv
<1> QED BY <1>2, <1>12, ReaderSteps

LEMMA PostgresReads ==
  ASSUME QueryInv, NEW r \in Readers, Snapshot(r), PostgresSnapshot(r), shelf.store = "postgres"
  PROVE  QueryInv'
<1>1. PICK x : x = reader[r]
  OBVIOUS
<1>2. PICK offset : offset = OffsetOf(x.view, x.token)
  OBVIOUS
<1>3. PICK after : after = offset + x.view.query.limit
  OBVIOUS
<1>4. x.stage = "resolved" /\ UNCHANGED <<shelf, release, records>>
  BY <1>1 DEF Snapshot
<1>5. \/ ReadFails(r) /\ UNCHANGED <<cursors, issued>>
      \/ /\ x.token = 0 \/ Opens(x.view, x.token) # {}
         /\ \/ ~MoreAfter(x.view, offset) /\ Fetched(r, offset, 0) /\ UNCHANGED <<cursors, issued>>
            \/ /\ MoreAfter(x.view, offset)
               /\ \E c \in CursorAt(x.view, after) : Fetched(r, offset, c.token)
               /\ UNCHANGED <<cursors, issued>>
            \/ /\ MoreAfter(x.view, offset) /\ Cardinality(cursors) < CursorQuota
               /\ Fetched(r, offset, issued + 1) /\ NewCursor(x.view, after)
  BY <1>1, <1>2, <1>3 DEF PostgresSnapshot
<1>6. CASE ReadFails(r) /\ UNCHANGED <<cursors, issued>>
  BY <1>4, <1>6, FailedReads DEF OnlyCursors
<1>7. issued \in Nat /\ \A c \in cursors : c.token \in 1 .. issued
  BY DEF QueryInv, CursorsFine
<1>8. CASE (x.token = 0 \/ Opens(x.view, x.token) # {}) /\ ~MoreAfter(x.view, offset) /\ Fetched(r, offset, 0)
           /\ UNCHANGED <<cursors, issued>>
  <2>1. OnlyCursors /\ 0 \in 0 .. issued'
    BY <1>4, <1>7, <1>8 DEF OnlyCursors
  <2> QED BY <1>1, <1>2, <1>4, <1>8, <2>1, FetchedReads
<1>9. ASSUME x.token = 0 \/ Opens(x.view, x.token) # {}, MoreAfter(x.view, offset),
             NEW c \in CursorAt(x.view, after), Fetched(r, offset, c.token), UNCHANGED <<cursors, issued>>
      PROVE  QueryInv'
  <2>1. OnlyCursors /\ c.token \in 0 .. issued' /\ c.token # 0
    BY <1>4, <1>7, <1>9 DEF OnlyCursors, CursorAt
  <2>2. \A d \in cursors' : d.token = c.token => d.view = x.view /\ d.offset = offset + x.view.query.limit
    BY <1>3, <1>9 DEF QueryInv, CursorsFine, CursorAt
  <2> QED BY <1>1, <1>2, <1>4, <1>9, <2>1, <2>2, FetchedReads
<1>10. CASE /\ x.token = 0 \/ Opens(x.view, x.token) # {}
            /\ MoreAfter(x.view, offset) /\ Cardinality(cursors) < CursorQuota
            /\ Fetched(r, offset, issued + 1) /\ NewCursor(x.view, after)
  <2>1. after \in Nat \ {0}
    <3>1. Resolved(r, x.view)
      BY <1>1, <1>4 DEF QueryInv, ReadInv, Viewed
    <3>2. x.view.query.limit \in Nat \ {0}
      BY <3>1, ViewFinds DEF Plain
    <3>3. offset \in Nat
      BY <1>1, <1>2, <1>4, <1>10, OffsetFacts
    <3> QED BY <1>3, <3>2, <3>3
  <2>2. OnlyCursors
    BY <1>4, <1>10, <2>1 DEF OnlyCursors
  <2>3. issued' = issued + 1 /\ cursors' = cursors \cup {[token |-> issued + 1, view |-> x.view, offset |-> after]}
    BY <1>10 DEF NewCursor
  <2>4. issued + 1 \in 0 .. issued' /\ issued + 1 # 0
    BY <1>7, <2>3
  <2>5. \A c \in cursors' : c.token = issued + 1 => c.view = x.view /\ c.offset = after
    BY <1>7, <2>3
  <2> QED BY <1>1, <1>2, <1>3, <1>4, <1>10, <2>2, <2>4, <2>5, FetchedReads
<1> QED BY <1>5, <1>6, <1>8, <1>9, <1>10
LEMMA MongoReads ==
  ASSUME QueryInv, NEW r \in Readers, Snapshot(r), MongoSnapshot(r), shelf.store = "mongo"
  PROVE  QueryInv'
<1>1. PICK x : x = reader[r]
  OBVIOUS
<1>2. PICK offset : offset = OffsetOf(x.view, x.token)
  OBVIOUS
<1>3. PICK q : q = IF x.token = 0 THEN TRUE ELSE x.quiet
  OBVIOUS
<1>4. x.stage = "resolved" /\ OnlyCursors /\ issued' = issued
  BY <1>1 DEF Snapshot, MongoSnapshot, OnlyCursors
<1>5. \/ ReadFails(r)
      \/ /\ x.token = 0 \/ Opens(x.view, x.token) # {}
         /\ \/ ~MoreAfter(x.view, offset) /\ Fetched(r, offset, 0)
            \/ /\ MoreAfter(x.view, offset)
               /\ Becomes(r, [x EXCEPT !.stage = "paging", !.offset = offset, !.page = PageOf(x.view, offset), !.quiet = q])
  BY <1>1, <1>2, <1>3 DEF MongoSnapshot
<1>6. CASE ReadFails(r)
  BY <1>4, <1>6, FailedReads
<1>7. CASE (x.token = 0 \/ Opens(x.view, x.token) # {}) /\ ~MoreAfter(x.view, offset) /\ Fetched(r, offset, 0)
  <2>1. 0 \in 0 .. issued'
    BY <1>4 DEF QueryInv
  <2> QED BY <1>1, <1>2, <1>4, <1>7, <2>1, FetchedReads
<1>8. ASSUME x.token = 0 \/ Opens(x.view, x.token) # {}, MoreAfter(x.view, offset),
             NEW y, y = [x EXCEPT !.stage = "paging", !.offset = offset, !.page = PageOf(x.view, offset), !.quiet = q], Becomes(r, y)
      PROVE  QueryInv'
  <2>1. ReadInv(r, x)'
    BY <1>1, <1>4, ReadersWait DEF QueryInv
  <2>2. Resolved(r, x.view) /\ Resolved(r, x.view)'
    BY <2>1, <1>1, <1>4 DEF QueryInv, ReadInv, Viewed
  <2>3. offset \in Nat /\ (q => offset = Len(x.seen) /\ Begins(x.seen, All(x.view)))
    BY <1>1, <1>2, <1>3, <1>4, <1>8, OffsetFacts
  <2>4. q \in BOOLEAN
    BY <1>3, <2>1 DEF ReadInv, ReadTypes
  <2>5. /\ y = [stage |-> y.stage, knows |-> y.knows, view |-> y.view, token |-> y.token, offset |-> y.offset, page |-> y.page,
                next |-> y.next, told |-> y.told, seen |-> y.seen, quiet |-> y.quiet]
        /\ y.stage = "paging" /\ y.knows = x.knows /\ y.view = x.view /\ y.page = PageOf(x.view, offset)
        /\ y.token = x.token /\ y.offset = offset /\ y.next = x.next /\ y.seen = x.seen /\ y.quiet = q
    BY <1>8, <2>1 DEF ReadInv, ReadTypes
  <2>6. ReadTypes(y)'
    BY <1>4, <2>1, <2>3, <2>4, <2>5 DEF OnlyCursors, ReadInv, ReadTypes, QueryStages
  <2>7. PageIsFine(y)
    BY <2>2, <2>3, <2>5, PageFacts DEF PageIsFine
  <2>8. \A v : All(v)' = All(v) /\ \A n : PageOf(v, n)' = PageOf(v, n) /\ (MoreAfter(v, n)' <=> MoreAfter(v, n))
    BY <1>4, RowsStay DEF OnlyCursors
  <2>9. ReadSoFar(y)'
    BY <1>8, <2>3, <2>5, <2>8 DEF ReadSoFar, InPage
  <2>10. ReadInv(r, y)'
    <3>1. PageIsFine(y)'
      BY <2>7 DEF PageIsFine
    <3> QED BY <2>2, <2>5, <2>6, <2>9, <3>1 DEF ReadInv
  <2> QED BY <1>4, <1>8, <2>10, ReaderSteps
<1> QED BY <1>5, <1>6, <1>7, <1>8

LEMMA FindReads ==
  ASSUME QueryInv, NEW r \in Readers, FindCursor(r)
  PROVE  QueryInv'
<1>1. PICK x : x = reader[r]
  OBVIOUS
<1>2. PICK after : after = x.offset + x.view.query.limit
  OBVIOUS
<1>3. x.stage = "paging" /\ OnlyCursors /\ UNCHANGED <<shelf, release, records, cursors, issued>>
  BY <1>1 DEF FindCursor, OnlyCursors
<1>4. \/ \E c \in CursorAt(x.view, after) : Becomes(r, [x EXCEPT !.stage = "fetched", !.next = c.token])
      \/ Becomes(r, [x EXCEPT !.stage = "inserting"])
      \/ ReadFails(r)
  BY <1>1, <1>2 DEF FindCursor
<1>5. ReadInv(r, x)'
  BY <1>1, <1>3, ReadersWait DEF QueryInv
<1>6. CASE ReadFails(r)
  BY <1>3, <1>6, FailedReads
<1>7. ASSUME NEW y, y = [x EXCEPT !.stage = "inserting"], Becomes(r, y)
      PROVE  QueryInv'
  <2>1. /\ y = [stage |-> y.stage, knows |-> y.knows, view |-> y.view, token |-> y.token, offset |-> y.offset, page |-> y.page,
                next |-> y.next, told |-> y.told, seen |-> y.seen, quiet |-> y.quiet]
        /\ y.stage = "inserting" /\ y.knows = x.knows /\ y.view = x.view /\ y.page = x.page
        /\ y.token = x.token /\ y.offset = x.offset /\ y.next = x.next /\ y.seen = x.seen /\ y.quiet = x.quiet
    BY <1>5, <1>7 DEF ReadInv, ReadTypes
  <2>2. ReadTypes(y)'
    BY <1>3, <1>5, <2>1 DEF ReadInv, ReadTypes, QueryStages
  <2>3. ReadInv(r, y)'
    BY <1>3, <1>5, <2>1, <2>2 DEF ReadInv, ReadSoFar, PageIsFine, InPage, Viewed
  <2> QED BY <1>3, <1>7, <2>3, ReaderSteps
<1>8. ASSUME NEW c \in CursorAt(x.view, after), NEW y, y = [x EXCEPT !.stage = "fetched", !.next = c.token], Becomes(r, y)
      PROVE  QueryInv'
  <2>1. /\ y = [stage |-> y.stage, knows |-> y.knows, view |-> y.view, token |-> y.token, offset |-> y.offset, page |-> y.page,
                next |-> y.next, told |-> y.told, seen |-> y.seen, quiet |-> y.quiet]
        /\ y.stage = "fetched" /\ y.knows = x.knows /\ y.view = x.view /\ y.page = x.page
        /\ y.token = x.token /\ y.offset = x.offset /\ y.next = c.token /\ y.seen = x.seen /\ y.quiet = x.quiet
    BY <1>5, <1>8 DEF ReadInv, ReadTypes
  <2>2. c.token \in 1 .. issued' /\ issued' \in Nat
    BY <1>3, <1>8 DEF QueryInv, CursorsFine, CursorAt
  <2>3. \A d \in cursors' : d.token = c.token => d.view = x.view /\ d.offset = x.offset + x.view.query.limit
    BY <1>2, <1>3, <1>8 DEF QueryInv, CursorsFine, CursorAt
  <2>4. ReadTypes(y)'
    BY <1>5, <2>1, <2>2 DEF ReadInv, ReadTypes, QueryStages
  <2>5. ReadSoFar(y)'
    BY <1>3, <1>5, <2>1, <2>2, <2>3 DEF ReadInv, ReadSoFar, InPage
  <2>6. ReadInv(r, y)'
    BY <1>3, <1>5, <2>1, <2>4, <2>5 DEF ReadInv, PageIsFine, InPage, Viewed
  <2> QED BY <1>3, <1>8, <2>6, ReaderSteps
<1> QED BY <1>4, <1>6, <1>7, <1>8

LEMMA InsertReads ==
  ASSUME QueryInv, NEW r \in Readers, InsertCursor(r)
  PROVE  QueryInv'
<1>1. PICK x : x = reader[r]
  OBVIOUS
<1>2. x.stage = "inserting" /\ NewCursor(x.view, x.offset + x.view.query.limit) /\ UNCHANGED <<shelf, release, records>>
  BY <1>1 DEF InsertCursor
<1>3. x.offset \in Nat /\ x.view.query.limit \in Nat \ {0} /\ issued \in Nat /\ \A c \in cursors : c.token \in 1 .. issued
  <2>1. Resolved(r, x.view)
    BY <1>1, <1>2 DEF QueryInv, ReadInv, Viewed
  <2>2. x.view.query.limit \in Nat \ {0}
    BY <2>1, ViewFinds DEF Plain
  <2> QED BY <1>1, <2>2 DEF QueryInv, ReadInv, ReadTypes, CursorsFine
<1>4. OnlyCursors
  <2>1. x.offset + x.view.query.limit \in Nat \ {0}
    BY <1>3
  <2>2. shelf.store # "postgres"
    BY <1>1, <1>2 DEF QueryInv, ReadInv, ReadTypes
  <2> QED BY <1>2, <2>1, <2>2 DEF OnlyCursors
<1>5. ReadInv(r, x)'
  BY <1>1, <1>4, ReadersWait DEF QueryInv
<1>6. PICK y : y = [x EXCEPT !.stage = "fetched", !.next = issued + 1] /\ Becomes(r, y)
  BY <1>1 DEF InsertCursor
<1>7. /\ y = [stage |-> y.stage, knows |-> y.knows, view |-> y.view, token |-> y.token, offset |-> y.offset, page |-> y.page,
              next |-> y.next, told |-> y.told, seen |-> y.seen, quiet |-> y.quiet]
      /\ y.stage = "fetched" /\ y.knows = x.knows /\ y.view = x.view /\ y.page = x.page
      /\ y.token = x.token /\ y.offset = x.offset /\ y.next = issued + 1 /\ y.seen = x.seen /\ y.quiet = x.quiet
  BY <1>5, <1>6 DEF ReadInv, ReadTypes
<1>8. issued' = issued + 1
      /\ cursors' = cursors \cup {[token |-> issued + 1, view |-> x.view, offset |-> x.offset + x.view.query.limit]}
  BY <1>2 DEF NewCursor
<1>9. \A d \in cursors' : d.token = issued + 1 => d.view = x.view /\ d.offset = x.offset + x.view.query.limit
  BY <1>3, <1>8
<1>10. ReadTypes(y)'
  BY <1>3, <1>5, <1>7, <1>8 DEF ReadInv, ReadTypes, QueryStages
<1>11. ReadSoFar(y)'
  BY <1>2, <1>3, <1>5, <1>7, <1>9 DEF ReadInv, ReadSoFar, InPage
<1>12. ReadInv(r, y)'
  BY <1>2, <1>5, <1>7, <1>10, <1>11 DEF ReadInv, PageIsFine, InPage, Viewed
<1> QED BY <1>4, <1>6, <1>12, ReaderSteps
LEMMA Joined ==
  ASSUME NEW a \in Seq(Nat), NEW b \in Seq(Nat)
  PROVE  /\ a \o b \in Seq(Nat) /\ Len(a \o b) = Len(a) + Len(b) /\ Len(a) \in Nat
         /\ \A k \in 1 .. Len(a) : (a \o b)[k] = a[k]
         /\ \A l \in 1 .. Len(b) : (a \o b)[Len(a) + l] = b[l]
<1>1. a \o b \in Seq(Nat)
  OBVIOUS
<1>2. Len(a \o b) = Len(a) + Len(b)
  OBVIOUS
<1>3. Len(a) \in Nat /\ Len(b) \in Nat
  OBVIOUS
<1>4. \A k \in 1 .. Len(a) : (a \o b)[k] = a[k]
  OBVIOUS
<1>5. \A l \in 1 .. Len(b) : (a \o b)[Len(a) + l] = b[l]
  BY <1>3
<1> QED BY <1>1, <1>2, <1>3, <1>4, <1>5

\* A page that is answered goes on where the pages before it ended.
LEMMA AnswerGoesOn ==
  ASSUME QueryInv, NEW r \in Readers, NEW x, x = reader[r], x.stage = "fetched", NEW s, s = x.seen \o PageIds(x.page)
  PROVE  /\ s \in Seq(Nat)
         /\ x.quiet => /\ Begins(s, All(x.view))
                       /\ x.next = 0 => Len(s) = Len(All(x.view))
                       /\ x.next # 0 => Leads(x.next, s)
<1> DEFINE v == x.view
           ids == PageIds(x.page)
           n == Len(x.page)
<1>1. ReadInv(r, x) /\ Resolved(r, v)
  BY DEF QueryInv, ReadInv, Viewed
<1>2. x.seen \in Seq(Nat) /\ x.offset \in Nat
  BY <1>1 DEF ReadInv, ReadTypes
<1>3. n \in Nat /\ DOMAIN x.page = 1 .. n /\ \A k \in 1 .. n : x.page[k].id \in Nat
  BY <1>1 DEF ReadInv, PageIsFine, InPage
<1>4. ids = [k \in 1 .. n |-> x.page[k].id]
  BY <1>3 DEF PageIds
<1>5. ids \in Seq(Nat) /\ Len(ids) = n
  <2> HIDE DEF ids, n
  <2>1. ids \in [1 .. n -> Nat]
    BY <1>3, <1>4
  <2> QED BY <2>1, <1>3
<1>6. \A k \in 1 .. n : ids[k] = x.page[k].id
  BY <1>4
<1>10. s = x.seen \o ids
  OBVIOUS
<1> HIDE DEF ids, n
<1>7. s \in Seq(Nat) /\ Len(s) = Len(x.seen) + n /\ Len(x.seen) \in Nat
  BY ZenonT(40), <1>2, <1>5, <1>10, Joined
<1>8. /\ \A k \in 1 .. Len(x.seen) : s[k] = x.seen[k]
      /\ \A l \in 1 .. n : s[Len(x.seen) + l] = ids[l]
  BY <1>2, <1>5, <1>10, Joined
<1>9. ASSUME x.quiet
      PROVE  /\ Begins(s, All(v))
             /\ x.next = 0 => Len(s) = Len(All(v))
             /\ x.next # 0 => Leads(x.next, s)
  <2>1. x.offset = Len(x.seen) /\ Begins(x.seen, All(v)) /\ x.page = PageOf(v, x.offset)
    BY <1>1, <1>9 DEF ReadInv, ReadSoFar, InPage
  <2>2. /\ \A k \in 1 .. n : x.offset + k <= Len(All(v)) /\ x.page[k].id = All(v)[x.offset + k]
        /\ MoreAfter(v, x.offset) => n = v.query.limit
        /\ ~MoreAfter(v, x.offset) /\ x.offset <= Len(All(v)) => x.offset + n = Len(All(v))
    <3>1. LET page == PageOf(v, x.offset)
          IN /\ \A k \in 1 .. Len(page) : x.offset + k <= Len(All(v)) /\ page[k].id = All(v)[x.offset + k]
             /\ MoreAfter(v, x.offset) => Len(page) = v.query.limit
             /\ ~MoreAfter(v, x.offset) /\ x.offset <= Len(All(v)) => x.offset + Len(page) = Len(All(v))
      BY SMTT(30), <1>1, <1>2, PageFacts
    <3> HIDE DEF v
    <3> QED BY <3>1, <2>1 DEF n
  <2>3. Len(All(v)) \in Nat
    BY <1>1, ViewFinds
  <2>4. Begins(s, All(v))
    <3>1. Len(s) <= Len(All(v))
      <4>1. CASE n = 0
        BY <4>1, <1>7, <2>1 DEF Begins
      <4>2. CASE n # 0
        <5>1. x.offset + n <= Len(All(v))
          BY <4>2, <1>3, <2>2
        <5> QED BY <5>1, <1>7, <2>1
      <4> QED BY <4>1, <4>2
    <3>2. \A k \in 1 .. Len(x.seen) : s[k] = All(v)[k]
      BY <1>8, <2>1 DEF Begins
    <3>3. \A l \in 1 .. n : s[Len(x.seen) + l] = All(v)[Len(x.seen) + l]
      BY ZenonT(40), <1>6, <1>8, <2>1, <2>2
    <3>4. ASSUME NEW k \in 1 .. Len(s) PROVE k \in 1 .. Len(x.seen) \/ \E l \in 1 .. n : k = Len(x.seen) + l
      <4>1. CASE k <= Len(x.seen)
        BY <4>1, <1>7
      <4>2. CASE k > Len(x.seen)
        <5>1. k - Len(x.seen) \in 1 .. n /\ k = Len(x.seen) + (k - Len(x.seen))
          BY <4>2, <1>3, <1>7
        <5> QED BY <5>1
      <4> QED BY <4>1, <4>2, <1>7
    <3>5. \A k \in 1 .. Len(s) : s[k] = All(v)[k]
      BY <3>2, <3>3, <3>4
    <3> QED BY <3>1, <3>5 DEF Begins
  <2>5. x.next = 0 => Len(s) = Len(All(v))
    <3>1. x.next = 0 => ~MoreAfter(v, x.offset)
      BY <1>1, <1>9 DEF ReadInv, ReadSoFar
    <3> QED BY <3>1, <1>7, <2>1, <2>2 DEF Begins
  <2>6. x.next # 0 => Leads(x.next, s)
    <3>1. x.next # 0 => /\ MoreAfter(v, x.offset)
                        /\ \A c \in cursors : c.token = x.next => c.view = v /\ c.offset = x.offset + v.query.limit
      BY <1>1, <1>9 DEF ReadInv, ReadSoFar
    <3> QED BY <3>1, <1>7, <2>1, <2>2, <2>4 DEF Leads
  <2> QED BY <2>4, <2>5, <2>6
<1> QED BY <1>7, <1>9 DEF v

LEMMA AnswerReads ==
  ASSUME QueryInv, NEW r \in Readers, AnswerRead(r)
  PROVE  QueryInv'
<1>1. PICK x : x = reader[r]
  OBVIOUS
<1>2. PICK stage : stage = IF x.next = 0 THEN "done" ELSE "paged"
  OBVIOUS
<1>3. PICK s : s = x.seen \o PageIds(x.page)
  OBVIOUS
<1>4. x.stage = "fetched" /\ OnlyCursors /\ UNCHANGED <<shelf, release, records, cursors, issued>>
  BY <1>1 DEF AnswerRead, OnlyCursors
<1>5. CASE ReadFails(r)
  BY <1>4, <1>5, FailedReads
<1>6. ASSUME NEW y, y = [x EXCEPT !.stage = stage, !.told = Told(x.view, x.page), !.page = <<>>, !.seen = s], Becomes(r, y)
      PROVE  QueryInv'
  <2>1. ReadInv(r, x)'
    BY <1>1, <1>4, ReadersWait DEF QueryInv
  <2>2. /\ y = [stage |-> y.stage, knows |-> y.knows, view |-> y.view, token |-> y.token, offset |-> y.offset, page |-> y.page,
                next |-> y.next, told |-> y.told, seen |-> y.seen, quiet |-> y.quiet]
        /\ y.stage = stage /\ y.knows = x.knows /\ y.view = x.view
        /\ y.token = x.token /\ y.offset = x.offset /\ y.next = x.next /\ y.seen = s /\ y.quiet = x.quiet
    BY <1>6, <2>1 DEF ReadInv, ReadTypes
  <2>3. /\ s \in Seq(Nat)
        /\ x.quiet => /\ Begins(s, All(x.view))
                      /\ x.next = 0 => Len(s) = Len(All(x.view))
                      /\ x.next # 0 => Leads(x.next, s)
    BY <1>1, <1>3, <1>4, AnswerGoesOn
  <2>4. \A v : All(v)' = All(v)
    BY <1>4, RowsStay
  <2>5. Leads(x.next, s)' <=> Leads(x.next, s)
    BY <1>4, <2>4 DEF Leads
  <2>6. ReadTypes(y)'
    BY <1>2, <2>1, <2>2, <2>3 DEF ReadInv, ReadTypes, QueryStages
  <2>7. ReadSoFar(y)'
    BY <1>2, <2>2, <2>3, <2>4, <2>5 DEF ReadSoFar, InPage
  <2>8. ReadInv(r, y)'
    BY <1>2, <1>4, <2>1, <2>2, <2>6, <2>7 DEF ReadInv, PageIsFine, InPage, Viewed
  <2> QED BY <1>4, <1>6, <2>8, ReaderSteps
<1>7. ReadFails(r) \/ Becomes(r, [x EXCEPT !.stage = stage, !.told = Told(x.view, x.page), !.page = <<>>, !.seen = s])
  BY <1>1, <1>2, <1>3 DEF AnswerRead
<1> QED BY <1>5, <1>6, <1>7

LEMMA NextReads ==
  ASSUME QueryInv, NEW r \in Readers, NEW token \in 1 .. issued, NextPage(r, token)
  PROVE  QueryInv'
<1>1. PICK x : x = reader[r]
  OBVIOUS
<1>2. PICK s : s = IF token = x.next THEN x.seen ELSE <<>>
  OBVIOUS
<1>3. PICK q : q = (x.quiet /\ token = x.next)
  OBVIOUS
<1>4. x.stage = "paged" /\ OnlyCursors /\ UNCHANGED <<shelf, release, records, cursors, issued>>
  BY <1>1 DEF NextPage, OnlyCursors
<1>5. PICK y : y = [x EXCEPT !.stage = "ready", !.token = token, !.told = <<>>, !.seen = s, !.quiet = q] /\ Becomes(r, y)
  BY <1>1, <1>2, <1>3 DEF NextPage
<1>6. ReadInv(r, x)'
  BY <1>1, <1>4, ReadersWait DEF QueryInv
<1>7. /\ y = [stage |-> y.stage, knows |-> y.knows, view |-> y.view, token |-> y.token, offset |-> y.offset, page |-> y.page,
              next |-> y.next, told |-> y.told, seen |-> y.seen, quiet |-> y.quiet]
      /\ y.stage = "ready" /\ y.knows = x.knows /\ y.view = x.view
      /\ y.token = token /\ y.offset = x.offset /\ y.next = x.next /\ y.seen = s /\ y.quiet = q
  BY <1>5, <1>6 DEF ReadInv, ReadTypes
<1>8. s \in Seq(Nat) /\ q \in BOOLEAN
  BY <1>2, <1>3, <1>6 DEF ReadInv, ReadTypes
<1>9. ReadTypes(y)' /\ token # 0
  BY <1>4, <1>6, <1>7, <1>8 DEF ReadInv, ReadTypes, QueryStages, QueryInv
<1>10. q => Leads(token, s)'
  BY <1>2, <1>3, <1>4, <1>6 DEF ReadInv, ReadSoFar
<1>11. ReadInv(r, y)'
  BY <1>7, <1>9, <1>10 DEF ReadInv, ReadSoFar, PageIsFine, InPage, Viewed
<1> QED BY <1>4, <1>5, <1>11, ReaderSteps
\* A step of nobody who reads: what was read stays true where no record is written ...
LEMMA ReadersStay ==
  ASSUME QueryInv, SceneStays, release' \in Nat, release <= release', records' = records, cursors' \subseteq cursors,
         issued' = issued, NEW p, NEW x, ReadInv(p, x)
  PROVE  ReadInv(p, x)'
<1>1. release \in Nat /\ shelf'.store = shelf.store
  BY DEF QueryInv, SceneStays
<1>2. ReadTypes(x)'
  BY <1>1 DEF ReadInv, ReadTypes
<1>3. PageIsFine(x)'
  BY DEF ReadInv, PageIsFine
<1>4. \A v : All(v)' = All(v) /\ \A n : PageOf(v, n)' = PageOf(v, n) /\ (MoreAfter(v, n)' <=> MoreAfter(v, n))
  BY <1>1, RowsStay
<1>5. \A t, s : Leads(t, s) => Leads(t, s)'
  BY <1>4 DEF Leads
<1>6. ReadSoFar(x)'
  <2>1. ReadSoFar(x)
    BY DEF ReadInv
  <2> QED BY <2>1, <1>4, <1>5 DEF ReadSoFar
<1>7. x.stage \in Viewed => Resolved(p, x.view)'
  BY <1>1, ResolvedStays DEF ReadInv
<1> QED BY <1>2, <1>3, <1>6, <1>7 DEF ReadInv

LEMMA ExpireReads ==
  ASSUME QueryInv, NEW c \in cursors, ExpireCursor(c)
  PROVE  QueryInv'
<1>1. IsScene(shelf) /\ shelf.expiries > 0 /\ shelf' = [shelf EXCEPT !.expiries = shelf.expiries - 1]
      /\ cursors' = cursors \ {c} /\ UNCHANGED <<release, records, issued, reader>>
  BY DEF ExpireCursor, QueryInv
<1>2. /\ shelf' = [store |-> shelf'.store, contracts |-> shelf'.contracts, asks |-> shelf'.asks, records |-> shelf'.records,
                   samples |-> shelf'.samples, writes |-> shelf'.writes, expiries |-> shelf'.expiries]
      /\ SceneStays /\ shelf'.records = shelf.records /\ shelf'.samples = shelf.samples /\ shelf'.writes = shelf.writes
      /\ shelf'.expiries = shelf.expiries - 1
  BY <1>1 DEF IsScene, SceneStays
<1>3. IsScene(shelf)'
  BY <1>1, <1>2 DEF IsScene, SceneStays
<1>4. (release \in 1 .. Len(shelf.contracts) /\ Compiles(Contract(release)) /\ RecordsFine /\ issued \in Nat)'
  <2>1. Contract(release)' = Contract(release)
    BY <1>1, <1>2 DEF Contract, SceneStays
  <2> QED BY <1>1, <1>2, <2>1 DEF QueryInv, RecordsFine, SceneStays
<1>5. CursorsFine'
  <2>1. IsFiniteSet(cursors') /\ Cardinality(cursors') \in Nat /\ Cardinality(cursors) \in Nat
        /\ Cardinality(cursors') <= Cardinality(cursors)
    BY <1>1, FS_Subset, FS_CardinalityType DEF QueryInv, CursorsFine
  <2>2. CursorQuota \in Nat /\ shelf'.store = shelf.store
    BY <1>2, QueryAssumption DEF SceneStays
  <2>3. shelf'.store = "postgres" => Cardinality(cursors') <= CursorQuota
    BY <2>1, <2>2 DEF QueryInv, CursorsFine
  <2> QED BY <1>1, <2>1, <2>3 DEF QueryInv, CursorsFine
<1>6. ASSUME NEW p \in Readers PROVE ReadInv(p, reader[p])'
  <2>1. PICK x : x = reader[p]
    OBVIOUS
  <2>2. ReadInv(p, x) /\ release \in Nat /\ release' = release
    BY <1>1, <2>1 DEF QueryInv
  <2>3. ReadInv(p, x)'
    BY <1>1, <1>2, <2>2, ReadersStay
  <2>4. reader'[p] = x
    BY <1>1, <2>1
  <2> QED BY <2>3, <2>4
<1> QED BY <1>1, <1>3, <1>4, <1>5, <1>6 DEF QueryInv

LEMMA ActivateReads ==
  ASSUME QueryInv, Activate
  PROVE  QueryInv'
<1>1. release < Len(shelf.contracts) /\ Compiles(Contract(release + 1)) /\ release' = release + 1
      /\ UNCHANGED <<shelf, records, cursors, issued, reader>>
  BY DEF Activate
<1>2. release \in 1 .. Len(shelf.contracts) /\ Len(shelf.contracts) \in Nat
  BY DEF QueryInv, IsScene
<1>3. release' \in 1 .. Len(shelf.contracts) /\ release' \in Nat /\ release \in Nat /\ release <= release'
  BY <1>1, <1>2
<1>4. (IsScene(shelf) /\ release \in 1 .. Len(shelf.contracts) /\ Compiles(Contract(release)) /\ RecordsFine /\ issued \in Nat
       /\ CursorsFine)'
  <2>1. Contract(release)' = Contract(release + 1)
    BY <1>1 DEF Contract
  <2> QED BY <1>1, <1>3, <2>1 DEF QueryInv, RecordsFine, CursorsFine
<1>5. ASSUME NEW p \in Readers PROVE ReadInv(p, reader[p])'
  <2>1. PICK x : x = reader[p]
    OBVIOUS
  <2>2. ReadInv(p, x) /\ SceneStays
    BY <1>1, <2>1 DEF QueryInv, SceneStays
  <2>3. ReadInv(p, x)'
    BY <1>1, <1>3, <2>2, ReadersStay
  <2>4. reader'[p] = x
    BY <1>1, <2>1
  <2> QED BY <2>3, <2>4
<1> QED BY <1>1, <1>4, <1>5 DEF QueryInv

\* ... and a write quiets nobody.
LEMMA WriteReads ==
  ASSUME QueryInv, NEW new, Rewritten(new), RecordsFine'
  PROVE  QueryInv'
<1>1. IsScene(shelf) /\ shelf.writes > 0 /\ shelf' = [shelf EXCEPT !.writes = shelf.writes - 1]
      /\ reader' = [r \in Readers |-> [reader[r] EXCEPT !.quiet = FALSE]] /\ UNCHANGED <<release, cursors, issued>>
  BY DEF Rewritten, QueryInv
<1>2. /\ shelf' = [store |-> shelf'.store, contracts |-> shelf'.contracts, asks |-> shelf'.asks, records |-> shelf'.records,
                   samples |-> shelf'.samples, writes |-> shelf'.writes, expiries |-> shelf'.expiries]
      /\ SceneStays /\ shelf'.records = shelf.records /\ shelf'.samples = shelf.samples /\ shelf'.expiries = shelf.expiries
      /\ shelf'.writes = shelf.writes - 1
  BY <1>1 DEF IsScene, SceneStays
<1>3. IsScene(shelf)'
  BY <1>1, <1>2 DEF IsScene, SceneStays
<1>4. (release \in 1 .. Len(shelf.contracts) /\ Compiles(Contract(release)) /\ issued \in Nat /\ CursorsFine)'
  <2>1. Contract(release)' = Contract(release)
    BY <1>1, <1>2 DEF Contract, SceneStays
  <2> QED BY <1>1, <1>2, <2>1 DEF QueryInv, SceneStays, CursorsFine
<1>5. ASSUME NEW p \in Readers PROVE ReadInv(p, reader[p])'
  <2>1. PICK x : x = reader[p]
    OBVIOUS
  <2>2. ReadInv(p, x) /\ release \in Nat /\ release' = release
    BY <1>1, <2>1 DEF QueryInv
  <2>3. PICK y : y = [x EXCEPT !.quiet = FALSE]
    OBVIOUS
  <2>4. /\ y = [stage |-> y.stage, knows |-> y.knows, view |-> y.view, token |-> y.token, offset |-> y.offset, page |-> y.page,
                next |-> y.next, told |-> y.told, seen |-> y.seen, quiet |-> y.quiet]
        /\ y.stage = x.stage /\ y.knows = x.knows /\ y.view = x.view /\ y.page = x.page
        /\ y.token = x.token /\ y.offset = x.offset /\ y.next = x.next /\ y.seen = x.seen /\ y.quiet = FALSE
    BY <2>2, <2>3 DEF ReadInv, ReadTypes
  <2>5. ReadTypes(y)'
    BY <1>1, <1>2, <2>2, <2>4 DEF ReadInv, ReadTypes, SceneStays
  <2>6. x.stage \in Viewed => Resolved(p, x.view)'
    BY <1>2, <2>2, ResolvedStays DEF ReadInv
  <2>7. ReadInv(p, y)'
    BY <2>2, <2>4, <2>5, <2>6 DEF ReadInv, PageIsFine, ReadSoFar
  <2>8. reader'[p] = y
    BY <1>1, <2>1, <2>3
  <2> QED BY <2>7, <2>8
<1> QED BY <1>1, <1>3, <1>4, <1>5 DEF QueryInv

LEMMA MutateReads ==
  ASSUME QueryInv, NEW i \in DOMAIN shelf.samples, Mutate(i, shelf.samples[i])
  PROVE  QueryInv'
<1>1. PICK d : d = shelf.samples[i]
  OBVIOUS
<1>2. PICK new : new = [j \in DOMAIN records \cup {i} |-> IF j = i THEN d ELSE records[j]]
  OBVIOUS
<1>3. Rewritten(new)
  BY <1>1, <1>2 DEF Mutate
<1>4. Stored(d) /\ i \in Nat /\ RecordsFine
  BY <1>1 DEF QueryInv, IsScene
<1>5. DOMAIN new = DOMAIN records \cup {i} /\ \A j \in DOMAIN new : new[j] = IF j = i THEN d ELSE records[j]
  BY <1>2
<1>6. IsFiniteSet(DOMAIN records \cup {i})
  BY <1>4, FS_AddElement DEF RecordsFine
<1>7. RecordsFine'
  <2>1. records' = new
    BY <1>3 DEF Rewritten
  <2> QED BY <1>4, <1>5, <1>6, <2>1 DEF RecordsFine
<1> QED BY <1>3, <1>7, WriteReads

LEMMA DeleteReads ==
  ASSUME QueryInv, NEW i \in DOMAIN records, Delete(i)
  PROVE  QueryInv'
<1>1. PICK new : new = [j \in DOMAIN records \ {i} |-> records[j]]
  OBVIOUS
<1>2. Rewritten(new) /\ records' = new
  BY <1>1 DEF Delete, Rewritten
<1>3. DOMAIN new = DOMAIN records \ {i} /\ \A j \in DOMAIN new : new[j] = records[j]
  BY <1>1
<1>4. RecordsFine /\ IsFiniteSet(DOMAIN records \ {i})
  BY FS_RemoveElement DEF QueryInv, RecordsFine
<1>5. RecordsFine'
  BY <1>2, <1>3, <1>4 DEF RecordsFine
<1> QED BY <1>2, <1>5, WriteReads

LEMMA QueryInitInv == QueryInit => QueryInv
<1> SUFFICES ASSUME QueryInit PROVE QueryInv
  OBVIOUS
<1>1. IsScene(shelf) /\ Compiles(Contract(1)) /\ release = 1 /\ records = shelf.records /\ cursors = {} /\ issued = 0
      /\ reader = [r \in Readers |-> NewReader]
  BY QueryAssumption DEF QueryInit, Contract
<1>2. RecordsFine /\ 1 \in 1 .. Len(shelf.contracts)
  BY <1>1 DEF IsScene, RecordsFine
<1>3. CursorsFine
  BY <1>1, FS_EmptySet, QueryAssumption DEF CursorsFine
<1>4. ASSUME NEW r \in Readers PROVE ReadInv(r, NewReader)
  BY <1>1 DEF ReadInv, ReadTypes, PageIsFine, ReadSoFar, NewReader, QueryStages, InPage, Viewed
<1> QED BY <1>1, <1>2, <1>3, <1>4 DEF QueryInv

LEMMA QueryNextInv == QueryInv /\ [QueryNext]_queryVars => QueryInv'
<1> SUFFICES ASSUME QueryInv, [QueryNext]_queryVars PROVE QueryInv'
  OBVIOUS
<1>1. CASE UNCHANGED queryVars
  <2>1. shelf' = shelf /\ release' = release /\ records' = records /\ cursors' = cursors /\ issued' = issued /\ reader' = reader
    BY <1>1 DEF queryVars
  <2>2. ASSUME NEW p \in Readers PROVE ReadInv(p, reader[p])'
    <3>1. PICK x : x = reader[p]
      OBVIOUS
    <3>2. ReadInv(p, x) /\ OnlyCursors
      BY <2>1, <3>1 DEF QueryInv, OnlyCursors
    <3>3. ReadInv(p, x)'
      BY <3>2, ReadersWait
    <3>4. reader'[p] = x
      BY <2>1, <3>1
    <3> QED BY <3>3, <3>4
  <2>3. Contract(release)' = Contract(release)
    BY <2>1 DEF Contract
  <2> QED BY <2>1, <2>2, <2>3 DEF QueryInv, RecordsFine, CursorsFine
<1>2. ASSUME NEW r \in Readers,
             \/ Hello(r) \/ Invoke(r) \/ Resolve(r) \/ Snapshot(r) \/ FindCursor(r) \/ InsertCursor(r)
             \/ AnswerRead(r) \/ \E token \in 1 .. issued : NextPage(r, token)
      PROVE  QueryInv'
  <2>1. Snapshot(r) => QueryInv'
    BY PostgresReads, MongoReads DEF Snapshot
  <2> QED BY <1>2, <2>1, HelloReads, InvokeReads, ResolveReads, FindReads, InsertReads, AnswerReads, NextReads
<1> QED BY <1>1, <1>2, ExpireReads, MutateReads, DeleteReads, ActivateReads DEF QueryNext
-----------------------------------------------------------------------------
(* What the invariant says of the answers. *)

LEMMA WholePages == QueryInv => PagesAreWhole
<1> SUFFICES ASSUME QueryInv, NEW r \in Readers, NEW x, x = reader[r], x.stage = "done", x.quiet
             PROVE  /\ {x.seen[k] : k \in DOMAIN x.seen} = Meant(x.view.query.where)
                    /\ Len(x.seen) = Cardinality(Meant(x.view.query.where))
                    /\ \A k \in 2 .. Len(x.seen) : SortsBefore(x.view.query.order, x.seen[k - 1], x.seen[k])
  BY DEF PagesAreWhole
<1> DEFINE v == x.view
           all == All(v)
           n == Len(x.seen)
<1>1. ReadInv(r, x) /\ Resolved(r, v)
  BY DEF QueryInv, ReadInv, Viewed
<1>2. InOrder(all, Meant(v.query.where), v.query.order)
  BY <1>1, ViewFinds
<1>3. Len(all) = n /\ Begins(x.seen, all) /\ x.seen \in Seq(Nat)
  BY <1>1 DEF ReadInv, ReadSoFar, ReadTypes
<1>4. DOMAIN x.seen = 1 .. n /\ n \in Nat
  BY <1>3
<1> HIDE DEF v, all, n
<1>5. \A k \in 1 .. n : x.seen[k] = all[k]
  BY <1>3 DEF Begins, n
<1>6. {x.seen[k] : k \in DOMAIN x.seen} = Meant(v.query.where)
  BY <1>2, <1>3, <1>4, <1>5 DEF InOrder
<1>7. ASSUME NEW k \in 2 .. n PROVE SortsBefore(v.query.order, x.seen[k - 1], x.seen[k])
  <2>1. k - 1 \in 1 .. n /\ k \in 1 .. n /\ k - 1 < k
    BY <1>4, <1>7
  <2>2. SortsBefore(v.query.order, all[k - 1], all[k])
    BY <1>2, <1>3, <2>1 DEF InOrder
  <2> QED BY <1>5, <2>1, <2>2
<1> QED BY <1>2, <1>3, <1>6, <1>7 DEF InOrder, v, n

\* Nobody but who answers a read ends it.
LEMMA OnlyAnswers ==
  ASSUME QueryInv, [QueryNext]_queryVars, NEW r \in Readers, reader[r].stage = "fetched", reader'[r].stage \in {"paged", "done"}
  PROVE  AnswerRead(r) /\ Contract(release)' = Contract(release)
<1> DEFINE x == reader[r]
<1>1. reader = [p \in Readers |-> reader[p]]
      /\ x = [stage |-> x.stage, knows |-> x.knows, view |-> x.view, token |-> x.token, offset |-> x.offset, page |-> x.page,
              next |-> x.next, told |-> x.told, seen |-> x.seen, quiet |-> x.quiet]
  BY DEF QueryInv, ReadInv, ReadTypes
<1>2. ASSUME NEW p \in Readers, p # r, NEW y, Becomes(p, y) PROVE FALSE
  <2>1. reader'[r] = reader[r]
    BY <1>1, <1>2 DEF Becomes
  <2> QED BY <2>1
<1>3. ASSUME NEW p \in Readers,
             \/ Hello(p) \/ Invoke(p) \/ Resolve(p) \/ Snapshot(p) \/ FindCursor(p) \/ InsertCursor(p)
             \/ AnswerRead(p) \/ \E token \in 1 .. issued : NextPage(p, token)
      PROVE  AnswerRead(r)
  <2>1. CASE p = r
    BY <1>3, <2>1 DEF Hello, Invoke, Resolve, Snapshot, FindCursor, InsertCursor, NextPage
  <2>2. CASE p # r
    <3>1. \E y : Becomes(p, y)
      <4>1. Hello(p) \/ Invoke(p) \/ Resolve(p) => \E y : Becomes(p, y)
        BY DEF Hello, Invoke, Resolve, ReadFails
      <4>2. PostgresSnapshot(p) => \E y : Becomes(p, y)
        BY DEF PostgresSnapshot, Fetched, ReadFails
      <4>3. MongoSnapshot(p) => \E y : Becomes(p, y)
        BY DEF MongoSnapshot, Fetched, ReadFails
      <4>4. FindCursor(p) \/ InsertCursor(p) => \E y : Becomes(p, y)
        BY DEF FindCursor, InsertCursor, ReadFails
      <4>5. AnswerRead(p) => \E y : Becomes(p, y)
        BY DEF AnswerRead, ReadFails
      <4>6. ASSUME NEW token, NextPage(p, token) PROVE \E y : Becomes(p, y)
        BY <4>6 DEF NextPage
      <4> QED BY <1>3, <4>1, <4>2, <4>3, <4>4, <4>5, <4>6 DEF Snapshot
    <3> QED BY <1>2, <2>2, <3>1
  <2> QED BY <2>1, <2>2
<1>4. ~(reader' = reader)
  BY <1>1
<1>5. ASSUME NEW new, Rewritten(new) PROVE FALSE
  <2>1. reader'[r] = [x EXCEPT !.quiet = FALSE]
    BY <1>5 DEF Rewritten
  <2>2. reader'[r].stage = x.stage
    BY <1>1, <2>1
  <2> QED BY <2>2
<1>6. AnswerRead(r)
  <2>1. \E p \in Readers : \/ Hello(p) \/ Invoke(p) \/ Resolve(p) \/ Snapshot(p) \/ FindCursor(p) \/ InsertCursor(p)
                           \/ AnswerRead(p) \/ \E token \in 1 .. issued : NextPage(p, token)
    BY <1>4, <1>5 DEF QueryNext, queryVars, ExpireCursor, Mutate, Delete, Activate
  <2> QED BY <1>3, <2>1
<1>7. Contract(release)' = Contract(release)
  BY <1>6 DEF AnswerRead, Contract
<1> QED BY <1>6, <1>7

\* What is told of a page.
LEMMA Telling ==
  ASSUME NEW v, NEW page, NEW n \in Nat, DOMAIN page = 1 .. n
  PROVE  /\ Len(Told(v, page)) = n /\ DOMAIN Told(v, page) = 1 .. n
         /\ \A k \in 1 .. n : Told(v, page)[k].id = page[k].id /\ Told(v, page)[k].data = ProjectData(page[k].data, v.select)
<1> DEFINE cell(k) == [id |-> page[k].id, data |-> ProjectData(page[k].data, v.select)]
           answer == [k \in 1 .. n |-> cell(k)]
<1>1. Told(v, page) = answer
  BY DEF Told
<1>2. \A k \in 1 .. n : answer[k].id = page[k].id /\ answer[k].data = ProjectData(page[k].data, v.select)
  OBVIOUS
<1>3. Len(answer) = n /\ DOMAIN answer = 1 .. n
  <2> HIDE DEF cell
  <2>1. answer \in Seq({cell(k) : k \in 1 .. n})
    OBVIOUS
  <2> QED BY <2>1
<1> QED BY <1>1, <1>2, <1>3

LEMMA ScopedAnswers ==
  ASSUME QueryInv, [QueryNext]_queryVars
  PROVE  AnswersAreScoped
<1> SUFFICES ASSUME NEW r \in Readers, reader[r].stage = "fetched", reader'[r].stage \in {"paged", "done"}
             PROVE  LET b == Contract(release).bindings[Asked(r).binding]  s == Contract(release).resource.schema
                        page == reader[r].page  answer == reader'[r].told
                    IN /\ Len(answer) = Len(page) /\ Len(answer) <= MostOf(Contract(release).resource)
                       /\ \A k \in DOMAIN answer :
                            /\ answer[k].id = page[k].id
                            /\ \A clause \in b.query.where : \E leaf \in clause : PostgresLeaf(leaf, page[k].data)
                            /\ \A p \in DOMAIN answer[k].data : b.select # {} => Kept(b.select, p)
                            /\ ValidateData(ProjectSchema(s, b.select), answer[k].data)
  BY DEF AnswersAreScoped
<1> DEFINE x == reader[r]
           v == x.view
           page == x.page
           c == Contract(release)
           b == c.bindings[Asked(r).binding]
           s == c.resource.schema
           n == Len(page)
           answer == reader'[r].told
<1>1. AnswerRead(r) /\ ReadInv(r, x) /\ Resolved(r, v)
  BY OnlyAnswers DEF QueryInv, ReadInv, Viewed
<1>2. reader = [p \in Readers |-> reader[p]]
      /\ x = [stage |-> x.stage, knows |-> x.knows, view |-> x.view, token |-> x.token, offset |-> x.offset, page |-> x.page,
              next |-> x.next, told |-> x.told, seen |-> x.seen, quiet |-> x.quiet]
  BY <1>1 DEF QueryInv, ReadInv, ReadTypes
<1>3. release = v.release /\ Presentable(v, page) /\ answer = Told(v, page)
  <2>1. ~ReadFails(r)
    BY <1>2 DEF ReadFails, Becomes
  <2>2. /\ CheckCurrentView(v) /\ Presentable(v, page)
        /\ Becomes(r, [x EXCEPT !.stage = IF x.next = 0 THEN "done" ELSE "paged", !.told = Told(v, page), !.page = <<>>,
                                !.seen = x.seen \o PageIds(page)])
    BY <1>1, <2>1 DEF AnswerRead
  <2>3. answer = Told(v, page)
    BY <1>2, <2>2 DEF Becomes
  <2> QED BY <2>2, <2>3 DEF CheckCurrentView
<1>4. n \in Nat /\ DOMAIN page = 1 .. n /\ n <= v.query.limit
      /\ \A k \in 1 .. n : /\ Stored(page[k].data)
                           /\ \A clause \in v.query.where : \E l \in clause : PostgresLeaf(l, page[k].data)
  BY <1>1 DEF ReadInv, PageIsFine, InPage
<1>5. /\ v.query.limit \in Nat /\ v.query.limit <= MostOf(c.resource) /\ MostOf(c.resource) \in Nat
      /\ b.query.where \subseteq v.query.where /\ v.select = b.select
  <2>1. Plain(v.query) /\ v.query.limit <= MostOf(c.resource) /\ b.query.where \subseteq v.query.where /\ v.select = b.select
    BY <1>1, <1>3, ViewFacts DEF QueryInv
  <2>2. c.resource.max \in Nat
    BY DEF QueryInv, IsScene, Contract
  <2> QED BY <2>1, <2>2, QueryAssumption DEF Plain, MostOf
<1>6. ValidateSchema(s) /\ Projects(s, b.select)
  BY <1>1, <1>3 DEF Resolved, Granted, Compiles, ResourceCompiles, BindingCompiles
<1>7. /\ Len(answer) = n /\ DOMAIN answer = 1 .. n
      /\ \A k \in 1 .. n : answer[k].id = page[k].id /\ answer[k].data = ProjectData(page[k].data, b.select)
  <2>1. /\ Len(Told(v, page)) = n /\ DOMAIN Told(v, page) = 1 .. n
        /\ \A k \in 1 .. n : Told(v, page)[k].id = page[k].id /\ Told(v, page)[k].data = ProjectData(page[k].data, v.select)
    BY <1>4, Telling
  <2>2. answer = Told(v, page) /\ v.select = b.select
    BY <1>3, <1>5
  <2> HIDE DEF answer, n, page, v, b
  <2> QED BY <2>1, <2>2
<1> HIDE DEF answer, n, page, v, b, s, c
<1>8. Len(answer) <= MostOf(c.resource)
  BY <1>4, <1>5, <1>7
<1>9. ASSUME NEW k \in 1 .. n
      PROVE  /\ \A clause \in b.query.where : \E leaf \in clause : PostgresLeaf(leaf, page[k].data)
             /\ \A p \in DOMAIN answer[k].data : b.select # {} => Kept(b.select, p)
             /\ ValidateData(ProjectSchema(s, b.select), answer[k].data)
  <2>1. answer[k].data = ProjectData(page[k].data, b.select)
    BY <1>7
  <2>2. \A p \in DOMAIN answer[k].data : b.select # {} => Kept(b.select, p)
    BY <2>1 DEF ProjectData
  <2>3. ValidateData(s, page[k].data) /\ ~ProjectionFails(page[k].data, b.select)
    BY <1>3, <1>4, <1>5 DEF Presentable, s, c
  <2>4. IsData(page[k].data)
    BY <1>4 DEF Stored
  <2>5. ProjectionConforms(s, b.select, page[k].data)
    BY ProjectionsConform
  <2>6. ValidateData(ProjectSchema(s, b.select), ProjectData(page[k].data, b.select))
    BY <1>6, <2>3, <2>4, <2>5 DEF ProjectionConforms
  <2> QED BY <1>4, <1>5, <2>1, <2>2, <2>6
<1> QED BY <1>7, <1>8, <1>9 DEF answer, n, page, b, s, c

LEMMA QueryAlways == QuerySpec => []QueryInv
BY QueryInitInv, QueryNextInv, PTL DEF QuerySpec

(* The state of a shard that is read has its types, and PostgreSQL keeps the
   quota of cursors, for every contract, record and reader. *)
THEOREM QueryTypeCorrect == QuerySpec => []QueryTypeOK
<1>1. QueryInv => QueryTypeOK
  BY DEF QueryInv, QueryTypeOK, RecordsFine, Stored, CursorsFine, ReadInv, ReadTypes
<1> QED BY <1>1, QueryAlways, PTL

(* In every step of every shard: the pages of a read that nothing disturbs are
   all the records that match, once and in order, in either store; and no
   answer leaves the scope of its binding or the schema its reader was told. *)
THEOREM ReadsAreWholeAndScoped == QuerySpec => QueriesHold
<1>1. QueryInv' => PagesAreWhole'
  BY WholePages, PTL
<1>2. QueryInv /\ [QueryNext]_queryVars => [PagesAreWhole' /\ AnswersAreScoped]_queryVars
  BY <1>1, QueryNextInv, ScopedAnswers
<1> QED BY <1>2, QueryAlways, PTL DEF QuerySpec, QueriesHold
=============================================================================

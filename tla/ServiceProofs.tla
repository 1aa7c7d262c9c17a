--------------------------- MODULE ServiceProofs ---------------------------
(* Proofs about the background services and the files and releases of pages. *)
EXTENDS Services, FiniteSetTheorems, NaturalsInduction, SequenceTheorems, TLAPS

LEMMA LeastOf ==
  ASSUME NEW S \in SUBSET Nat, S # {}
  PROVE  \E x \in S : \A y \in S : x <= y
<1>1. PICK x \in S : \A y \in S : ~(<<y, x>> \in OpToRel(<, Nat))
  BY NatLessThanWellFounded, WFMin
<1>2. ASSUME NEW y \in S PROVE x <= y
  <2>1. ~(y < x)
    BY <1>1 DEF OpToRel
  <2> QED BY <2>1
<1> QED BY <1>2

LEMMA MinOf == ASSUME NEW S \in SUBSET Nat, S # {} PROVE Min(S) \in S
<1>1. PICK x \in S : \A y \in S : x <= y
  BY LeastOf
<1> QED BY <1>1 DEF Min

\* A finite set of numbers has a greatest one: a smallest set without would still be one
\* without after losing an element.
LEMMA GreatestOf ==
  ASSUME NEW S \in SUBSET Nat, S # {}, IsFiniteSet(S)
  PROVE  \E x \in S : \A y \in S : x >= y
<1> DEFINE Has(T) == \E x \in T : \A y \in T : x >= y
           Bad == {k \in Nat : \E T \in SUBSET S : T # {} /\ ~Has(T) /\ Cardinality(T) = k}
<1> SUFFICES ASSUME ~Has(S) PROVE FALSE
  OBVIOUS
<1>1. Cardinality(S) \in Bad
  BY FS_CardinalityType
<1>2. PICK k \in Bad : \A j \in Bad : k <= j
  BY <1>1, LeastOf
<1>3. PICK T \in SUBSET S : T # {} /\ ~Has(T) /\ Cardinality(T) = k
  BY <1>2
<1>4. PICK x : x \in T
  BY <1>3
<1> DEFINE U == T \ {x}
<1>5. IsFiniteSet(T) /\ IsFiniteSet(U) /\ Cardinality(U) = k - 1 /\ k - 1 \in Nat
  <2>1. IsFiniteSet(T)
    BY <1>3, FS_Subset
  <2>2. IsFiniteSet(U) /\ Cardinality(U) = k - 1
    BY <2>1, <1>3, <1>4, FS_RemoveElement
  <2> QED BY <2>1, <2>2, FS_CardinalityType
<1>6. U # {} /\ ~Has(U)
  <2>1. U # {}
    <3>1. CASE T = {x}
      BY <3>1, <1>3, <1>4
    <3> QED BY <3>1, <1>4
  <2>2. ASSUME NEW m \in U, \A y \in U : m >= y PROVE FALSE
    <3>1. CASE m >= x
      BY <3>1, <2>2, <1>3
    <3>2. CASE ~(m >= x)
      <4>1. \A y \in T : x >= y
        BY <3>2, <2>2, <1>3, <1>4
      <4> QED BY <4>1, <1>3, <1>4
    <3> QED BY <3>1, <3>2
  <2> QED BY <2>1, <2>2
<1>7. k - 1 \in Bad
  BY <1>5, <1>6, <1>3
<1> QED BY <1>2, <1>5, <1>7

---------------------------------------------------------------------------
(* The files of a page and their history. *)

Copy == [stamp : Nat, contents : Contents]
Newer(s) == {d \in copies : d.stamp > s}

FileTypes ==
  /\ source \in Contents /\ (source.there \/ source.text = {})
  /\ step \in [FileCommands -> Reads] /\ libs \subseteq FileCommands
  /\ order \in [FileCommands -> Orders] /\ kept \in [FileCommands -> Contents]
  /\ fileFaults \in [crashes : Nat, errors : Nat]
  /\ fileFaults.crashes <= FileFaults.crashes /\ fileFaults.errors <= FileFaults.errors

\* A stamp is taken once, and makes at most one copy.
Stamped ==
  /\ copies \subseteq Copy /\ IsFiniteSet(copies) /\ clock \in Nat
  /\ \A d \in copies : d.stamp \in 1 .. clock
  /\ \A d, e \in copies : d.stamp = e.stamp => d = e
  /\ \A c \in FileCommands : step[c].at = "stamped" =>
       /\ step[c].stamp \in 1 .. clock /\ \A d \in copies : d.stamp # step[c].stamp
       /\ \A e \in FileCommands : step[e].at = "stamped" /\ step[e].stamp = step[c].stamp => e = c

\* What a command is to delete has as many newer copies as are to be kept, and while no
\* fault has come, whatever has that many is to be deleted or about to be listed.
Chosen ==
  \A c \in FileCommands : step[c].at = "prune" =>
    step[c].names # {} /\ \A s \in step[c].names : Cardinality(Newer(s)) >= HistoryKeep
Listed ==
  fileFaults = FileFaults =>
    \/ \E c \in FileCommands : step[c].at = "list"
    \/ \A d \in copies : Cardinality(Newer(d.stamp)) >= HistoryKeep =>
         \E c \in FileCommands : step[c].at = "prune" /\ d.stamp \in step[c].names

FilesInv == FileTypes /\ Stamped /\ Chosen /\ Listed

LEMMA FilesInitInv == SurfaceFilesInit => FilesInv
<1> SUFFICES ASSUME SurfaceFilesInit PROVE FilesInv
  OBVIOUS
<1>1. FileTypes
  <2> DEFINE unsent == [at |-> "unsent", saw |-> NoFile, stamp |-> 0, names |-> {}, then |-> "done"]
  <2>1. unsent \in Reads /\ NoFile \in Contents
    BY DEF Contents, NoFile, Reads
  <2>2. step = [c \in FileCommands |-> unsent]
    BY DEF SurfaceFilesInit
  <2> HIDE DEF unsent
  <2>3. step \in [FileCommands -> Reads] /\ kept \in [FileCommands -> Contents] /\ libs \subseteq FileCommands
    BY <2>1, <2>2 DEF SurfaceFilesInit
  <2>4. source \in Contents /\ (source.there \/ source.text = {})
    <3>1. CASE source = NoFile
      BY <2>1, <3>1 DEF NoFile
    <3>2. CASE source = [there |-> TRUE, text |-> {}]
      <4>1. source.there = TRUE
        BY <3>2
      <4>2. source \in Contents
        BY <3>2 DEF Contents
      <4> QED BY <4>1, <4>2
    <3> QED BY <3>1, <3>2 DEF SurfaceFilesInit
  <2>5. /\ fileFaults \in [crashes : Nat, errors : Nat] /\ order \in [FileCommands -> Orders]
        /\ fileFaults.crashes <= FileFaults.crashes /\ fileFaults.errors <= FileFaults.errors
    BY SurfaceFilesAssumption DEF SurfaceFilesInit
  <2> QED BY <2>3, <2>4, <2>5 DEF FileTypes
<1>2. Stamped
  BY FS_EmptySet DEF SurfaceFilesInit, Stamped
<1> QED BY <1>1, <1>2 DEF FilesInv, SurfaceFilesInit, Chosen, Listed

LEMMA NewerCount ==
  ASSUME Stamped, NEW s \in Nat
  PROVE  /\ IsFiniteSet(Newer(s)) /\ Cardinality(Newer(s)) \in Nat
         /\ Cardinality({t \in {d.stamp : d \in copies} : t > s}) = Cardinality(Newer(s))
<1> DEFINE T == {t \in {d.stamp : d \in copies} : t > s}
           f == [d \in Newer(s) |-> d.stamp]
<1>1. IsFiniteSet(Newer(s)) /\ Cardinality(Newer(s)) \in Nat
  <2>1. Newer(s) \subseteq copies /\ IsFiniteSet(copies)
    BY DEF Newer, Stamped
  <2>2. IsFiniteSet(Newer(s))
    BY <2>1, FS_Subset
  <2> QED BY <2>2, FS_CardinalityType
<1>2. f \in Bijection(Newer(s), T)
  <2>1. f \in [Newer(s) -> T]
    BY DEF Newer
  <2>2. \A d, e \in Newer(s) : f[d] = f[e] => d = e
    BY DEF Newer, Stamped
  <2>3. \A t \in T : \E d \in Newer(s) : f[d] = t
    BY DEF Newer
  <2> QED BY <2>1, <2>2, <2>3 DEF Bijection, Injection, Surjection, IsInjective
<1>3. Cardinality(T) = Cardinality(Newer(s))
  <2>1. ExistsBijection(Newer(s), T)
    BY <1>2 DEF ExistsBijection
  <2> HIDE DEF T, f
  <2> QED BY <1>1, <2>1, FS_Bijection
<1> QED BY <1>1, <1>3

(* A command goes on, the copies stay. *)
LEMMA CommandKeeps ==
  ASSUME FilesInv, NEW c \in FileCommands, NEW d \in Reads, step' = [step EXCEPT ![c] = d], UNCHANGED <<copies, clock>>,
         FileTypes', d.at \notin {"stamped", "prune"},
         \/ fileFaults' # FileFaults
         \/ UNCHANGED fileFaults /\ step[c].at \notin {"list", "prune"}
  PROVE  FilesInv'
<1>1. step'[c] = d /\ \A e \in FileCommands \ {c} : step'[e] = step[e]
  BY DEF FilesInv, FileTypes
<1>2. Stamped' /\ Chosen'
  <2>1. Stamped'
    BY <1>1 DEF FilesInv, Stamped
  <2>2. ASSUME NEW s PROVE Newer(s)' = Newer(s)
    BY DEF Newer
  <2>3. Chosen'
    BY <1>1, <2>2 DEF FilesInv, Chosen
  <2> QED BY <2>1, <2>3
<1>3. Listed'
  BY <1>1 DEF FilesInv, Listed, Newer
<1> QED BY <1>2, <1>3 DEF FilesInv

LEMMA FaultSpent ==
  ASSUME FileTypes, NEW what \in {"crashes", "errors"}, Fault(what)
  PROVE  /\ fileFaults' \in [crashes : Nat, errors : Nat] /\ fileFaults' # FileFaults
         /\ fileFaults'.crashes <= FileFaults.crashes /\ fileFaults'.errors <= FileFaults.errors
BY SurfaceFilesAssumption DEF Fault, FileTypes
(* Reading and writing the file, refusals, crashes and copies given up. *)
LEMMA PlainInv ==
  ASSUME FilesInv, NEW c \in FileCommands,
         \/ ReadRange(c) \/ WriteReads(c) \/ DeleteReads(c) \/ EditReads(c) \/ EditWrites(c) \/ FileWrites(c)
         \/ InstallReads(c) \/ InstallWrites(c) \/ CommandDies(c)
  PROVE  FilesInv'
<1>1. /\ FileTypes /\ step[c] \in Reads /\ source \in Contents /\ libs \subseteq FileCommands
      /\ step \in [FileCommands -> Reads] /\ kept \in [FileCommands -> Contents]
  BY DEF FilesInv, FileTypes
<1>2. ASSUME NEW d \in Reads, step' = [step EXCEPT ![c] = d], UNCHANGED <<copies, clock>>, d.at \notin {"stamped", "prune"},
             \/ Fault("crashes")
             \/ UNCHANGED fileFaults /\ step[c].at \notin {"list", "prune"},
             source' \in Contents /\ (source'.there \/ source'.text = {}), libs' \subseteq FileCommands,
             kept' \in [FileCommands -> Contents], UNCHANGED order
      PROVE  FilesInv'
  <2>1. step' \in [FileCommands -> Reads]
    BY <1>1, <1>2
  <2>2. /\ fileFaults' \in [crashes : Nat, errors : Nat]
        /\ fileFaults'.crashes <= FileFaults.crashes /\ fileFaults'.errors <= FileFaults.errors
        /\ fileFaults' # FileFaults \/ (UNCHANGED fileFaults /\ step[c].at \notin {"list", "prune"})
    BY <1>1, <1>2, FaultSpent DEF FileTypes
  <2>3. FileTypes'
    BY <1>1, <1>2, <2>1, <2>2 DEF FileTypes
  <2> QED BY <1>2, <2>2, <2>3, CommandKeeps
<1>3. source.there \/ source.text = {}
  BY <1>1 DEF FileTypes
<1>4. ASSUME NEW saw \in Contents, NEW at \in {"read", "copy", "write", "done", "refused"}, NEW then \in {"write", "done"},
             step' = [step EXCEPT ![c].saw = saw, ![c].then = then, ![c].at = at], step[c].at \notin {"list", "prune"},
             UNCHANGED <<source, copies, clock, libs, order, kept, fileFaults>>
      PROVE  FilesInv'
  <2> DEFINE d == [step[c] EXCEPT !.saw = saw, !.then = then, !.at = at]
  <2>1. d \in Reads /\ d.at = at
    BY <1>1 DEF Reads
  <2>2. step' = [step EXCEPT ![c] = d]
    BY <1>1, <1>4
  <2> HIDE DEF d
  <2> QED BY <1>1, <1>2, <1>3, <1>4, <2>1, <2>2
<1>5. ASSUME NEW at \in {"copy", "done", "refused"}, At(c, at), UNCHANGED <<copies, clock, order>>,
             \/ Fault("crashes")
             \/ UNCHANGED fileFaults /\ step[c].at \notin {"list", "prune"},
             source' \in Contents /\ (source'.there \/ source'.text = {}), libs' \subseteq FileCommands,
             kept' \in [FileCommands -> Contents]
      PROVE  FilesInv'
  <2> DEFINE d == [step[c] EXCEPT !.at = at]
  <2>1. d \in Reads /\ d.at = at
    BY <1>1 DEF Reads
  <2>2. step' = [step EXCEPT ![c] = d]
    BY <1>1, <1>5 DEF At
  <2> HIDE DEF d
  <2> QED BY <1>2, <1>5, <2>1, <2>2
<1>6. CASE ReadRange(c)
  <2>1. step' = [step EXCEPT ![c].saw = source, ![c].then = step[c].then, ![c].at = "read"]
    BY <1>1, <1>6 DEF ReadRange, Reads
  <2>2. step[c].then \in {"write", "done"} /\ step[c].at = "unsent"
        /\ UNCHANGED <<source, copies, clock, libs, order, kept, fileFaults>>
    BY <1>1, <1>6 DEF Reads, ReadRange
  <2> QED BY <1>1, <1>4, <2>1, <2>2
<1>7. CASE WriteReads(c) \/ DeleteReads(c)
  <2>1. step[c].at = "unsent" /\ UNCHANGED <<source, copies, clock, libs, order, kept, fileFaults>>
    BY <1>7 DEF WriteReads, DeleteReads
  <2>2. PICK at \in {"write", "refused", "copy"} : step' = [step EXCEPT ![c].saw = source, ![c].then = "write", ![c].at = at]
    BY <1>7 DEF WriteReads, DeleteReads
  <2> QED BY <1>1, <1>4, <2>1, <2>2
<1>8. CASE EditReads(c)
  <2>1. step[c].at \in {"unsent", "read"} /\ UNCHANGED <<source, copies, clock, libs, order, kept, fileFaults>>
    BY <1>8 DEF EditReads
  <2>2. CASE At(c, "refused")
    BY <1>1, <1>3, <1>5, <2>1, <2>2
  <2>3. CASE step' = [step EXCEPT ![c].saw = source, ![c].at = "write"]
    <3>1. step' = [step EXCEPT ![c].saw = source, ![c].then = step[c].then, ![c].at = "write"]
          /\ step[c].then \in {"write", "done"}
      BY <1>1, <2>3 DEF Reads
    <3> QED BY <1>1, <1>4, <2>1, <3>1
  <2> QED BY <1>8, <2>2, <2>3 DEF EditReads
<1>9. CASE EditWrites(c)
  <2>1. step[c].at = "write" /\ UNCHANGED <<copies, clock, libs, order, fileFaults>>
    BY <1>9 DEF EditWrites
  <2>2. CASE At(c, "refused") /\ UNCHANGED <<source, kept>>
    BY <1>1, <1>3, <1>5, <2>1, <2>2
  <2>3. CASE /\ source' = [there |-> TRUE, text |-> step[c].saw.text \cup {c}]
             /\ kept' = [kept EXCEPT ![c] = step[c].saw] /\ At(c, "copy")
    <3>1. step[c].saw \in Contents /\ step[c].saw.text \subseteq FileCommands
      BY <1>1 DEF Reads, Contents
    <3>2. source' \in Contents /\ source'.there = TRUE /\ kept' \in [FileCommands -> Contents]
      BY <1>1, <2>3, <3>1 DEF Contents
    <3> QED BY <1>1, <1>5, <2>1, <2>3, <3>2
  <2> QED BY <1>9, <2>2, <2>3 DEF EditWrites
<1>10. CASE FileWrites(c)
  <2>1. /\ step[c].at = "write" /\ UNCHANGED <<copies, clock, libs, order, fileFaults>>
        /\ kept' = [kept EXCEPT ![c] = source] /\ At(c, "done")
    BY <1>10 DEF FileWrites
  <2>2. kept' \in [FileCommands -> Contents]
    BY <1>1, <2>1
  <2>3. CASE source' = NoFile
    <3>1. source' \in Contents /\ source'.text = {}
      BY <2>3 DEF NoFile, Contents
    <3> QED BY <1>1, <1>5, <2>1, <2>2, <3>1
  <2>4. CASE source' = [there |-> TRUE, text |-> {c}]
    <3>1. source' \in Contents /\ source'.there = TRUE
      BY <2>4 DEF Contents
    <3> QED BY <1>1, <1>5, <2>1, <2>2, <3>1
  <2> QED BY <1>10, <2>3, <2>4 DEF FileWrites
<1>11. CASE InstallReads(c)
  <2> DEFINE saw == [step[c].saw EXCEPT !.text = libs]
  <2>1. step[c].saw \in Contents /\ step[c].then \in {"write", "done"}
    BY <1>1 DEF Reads
  <2>2. saw \in Contents
    BY <1>1, <2>1 DEF Contents
  <2>3. step' = [step EXCEPT ![c].saw = saw, ![c].then = step[c].then, ![c].at = "write"]
    BY <1>1, <1>11, <2>1 DEF InstallReads, Reads
  <2>4. step[c].at = "unsent" /\ UNCHANGED <<source, copies, clock, libs, order, kept, fileFaults>>
    BY <1>11 DEF InstallReads
  <2> HIDE DEF saw
  <2> QED BY <1>1, <1>4, <2>1, <2>2, <2>3, <2>4
<1>12. CASE InstallWrites(c)
  <2>1. /\ step[c].at = "write" /\ UNCHANGED <<source, copies, clock, order, kept, fileFaults>>
        /\ libs' = step[c].saw.text \cup {c} /\ At(c, "done")
    BY <1>12 DEF InstallWrites
  <2>2. libs' \subseteq FileCommands
    BY <1>1, <2>1 DEF Reads, Contents
  <2> QED BY <1>1, <1>3, <1>5, <2>1, <2>2
<1>13. CASE CommandDies(c)
  <2>1. UNCHANGED <<source, copies, clock, libs, order, kept>> /\ Fault("crashes") /\ At(c, "refused")
    BY <1>13 DEF CommandDies
  <2> QED BY <1>1, <1>3, <1>5, <2>1
<1> QED BY <1>6, <1>7, <1>8, <1>9, <1>10, <1>11, <1>12, <1>13
LEMMA TakeStampInv == ASSUME FilesInv, NEW c \in FileCommands, TakeStamp(c) PROVE FilesInv'
<1> DEFINE d == [step[c] EXCEPT !.at = "stamped", !.stamp = clock + 1]
<1>1. /\ FileTypes /\ Stamped /\ step \in [FileCommands -> Reads] /\ step[c] \in Reads /\ clock \in Nat /\ step[c].at = "copy"
      /\ clock' = clock + 1 /\ UNCHANGED <<source, copies, libs, order, kept, fileFaults>>
  BY DEF FilesInv, FileTypes, Stamped, TakeStamp, Stamp
<1>2. clock + 1 \in Nat
  BY <1>1
<1>3. d \in Reads /\ d.at = "stamped" /\ d.stamp = clock + 1
  BY <1>1, <1>2 DEF Reads
<1>4. step' = [step EXCEPT ![c] = d]
  BY <1>1 DEF TakeStamp, Stamp
<1> HIDE DEF d
<1>5. step' \in [FileCommands -> Reads] /\ step'[c] = d /\ \A e \in FileCommands \ {c} : step'[e] = step[e]
  BY <1>1, <1>3, <1>4
<1>6. FileTypes'
  BY <1>1, <1>5 DEF FileTypes
<1>7. Stamped'
  <2>1. \A k \in copies : k.stamp \in 1 .. clock' /\ k.stamp # clock + 1
    BY <1>1 DEF Stamped
  <2>2. ASSUME NEW e \in FileCommands, step'[e].at = "stamped"
        PROVE  /\ step'[e].stamp \in 1 .. clock' /\ \A k \in copies : k.stamp # step'[e].stamp
               /\ (e # c => step[e].stamp # clock + 1)
    BY <1>1, <1>3, <1>5, <2>1, <2>2 DEF Stamped
  <2>3. ASSUME NEW e \in FileCommands, NEW f \in FileCommands, step'[e].at = "stamped", step'[f].at = "stamped",
               step'[f].stamp = step'[e].stamp
        PROVE  f = e
    BY <1>1, <1>3, <1>5, <2>2, <2>3 DEF Stamped
  <2> QED BY <1>1, <2>1, <2>2, <2>3 DEF Stamped
<1>8. ASSUME NEW s PROVE Newer(s)' = Newer(s)
  BY <1>1 DEF Newer
<1>9. Chosen' /\ Listed'
  <2>1. Chosen'
    BY <1>3, <1>5, <1>8 DEF FilesInv, Chosen
  <2>2. Listed'
    BY <1>1, <1>3, <1>5, <1>8 DEF FilesInv, Listed
  <2> QED BY <2>1, <2>2
<1> QED BY <1>6, <1>7, <1>9 DEF FilesInv

(* A copy more leaves whatever was newer than a stamp newer. *)
LEMMA NewerGrows ==
  ASSUME Stamped, NEW k \in Copy, copies' = copies \cup {k}, NEW s \in Nat
  PROVE  Cardinality(Newer(s)) <= Cardinality(Newer(s)') /\ Cardinality(Newer(s)) \in Nat /\ Cardinality(Newer(s)') \in Nat
<1>1. IsFiniteSet(copies')
  BY FS_AddElement DEF Stamped
<1>2. Newer(s)' \subseteq copies' /\ Newer(s) \subseteq Newer(s)'
  BY DEF Newer
<1>3. IsFiniteSet(Newer(s)')
  BY <1>1, <1>2, FS_Subset
<1>4. IsFiniteSet(Newer(s)) /\ Cardinality(Newer(s)) <= Cardinality(Newer(s)')
  BY <1>2, <1>3, FS_Subset
<1> QED BY <1>3, <1>4, FS_CardinalityType

LEMMA KeepCopyInv == ASSUME FilesInv, NEW c \in FileCommands, KeepCopy(c) PROVE FilesInv'
<1>1. /\ FileTypes /\ Stamped /\ Chosen /\ step \in [FileCommands -> Reads] /\ step[c] \in Reads /\ step[c].at = "stamped"
      /\ UNCHANGED <<source, clock, libs, order, kept>> /\ step[c].then \in {"write", "done"}
      /\ step[c].saw \in Contents /\ step[c].stamp \in Nat
  BY DEF FilesInv, FileTypes, KeepCopy, Reads
<1>2. ASSUME Fault("errors"), At(c, step[c].then), UNCHANGED copies PROVE FilesInv'
  <2> DEFINE d == [step[c] EXCEPT !.at = step[c].then]
  <2>1. d \in Reads /\ d.at \in {"write", "done"}
    BY <1>1 DEF Reads
  <2>2. step' = [step EXCEPT ![c] = d]
    BY <1>1, <1>2 DEF At
  <2> HIDE DEF d
  <2>3. step' \in [FileCommands -> Reads]
    BY <1>1, <2>1, <2>2
  <2>4. /\ fileFaults' \in [crashes : Nat, errors : Nat] /\ fileFaults' # FileFaults
        /\ fileFaults'.crashes <= FileFaults.crashes /\ fileFaults'.errors <= FileFaults.errors
    BY <1>1, <1>2, FaultSpent
  <2>5. FileTypes'
    BY <1>1, <2>3, <2>4 DEF FileTypes
  <2> QED BY <1>1, <1>2, <2>1, <2>2, <2>4, <2>5, CommandKeeps
<1>3. ASSUME copies' = copies \cup {[stamp |-> step[c].stamp, contents |-> step[c].saw]}, At(c, "list"), UNCHANGED fileFaults
      PROVE  FilesInv'
  <2> DEFINE k == [stamp |-> step[c].stamp, contents |-> step[c].saw]
             d == [step[c] EXCEPT !.at = "list"]
  <2>1. d \in Reads /\ d.at = "list" /\ k \in Copy /\ k.stamp = step[c].stamp
    BY <1>1 DEF Reads, Copy
  <2>2. step' = [step EXCEPT ![c] = d] /\ copies' = copies \cup {k}
    BY <1>1, <1>3 DEF At
  <2> HIDE DEF d, k
  <2>3. step' \in [FileCommands -> Reads] /\ step'[c] = d /\ \A e \in FileCommands \ {c} : step'[e] = step[e]
    BY <1>1, <2>1, <2>2
  <2>4. FileTypes'
    BY <1>1, <1>3, <2>3 DEF FileTypes
  <2>5. Stamped'
    <3>1. IsFiniteSet(copies') /\ copies' \subseteq Copy
      BY <1>1, <2>1, <2>2, FS_AddElement DEF Stamped
    <3>2. /\ k.stamp \in 1 .. clock /\ \A e \in copies : e.stamp # k.stamp
          /\ \A e \in FileCommands \ {c} : step[e].at = "stamped" => step[e].stamp # k.stamp
      BY <1>1, <2>1 DEF Stamped
    <3> QED BY <1>1, <2>1, <2>2, <2>3, <3>1, <3>2 DEF Stamped
  <2>6. Chosen'
    <3>1. SUFFICES ASSUME NEW e \in FileCommands, step'[e].at = "prune"
                   PROVE  step'[e].names # {} /\ \A s \in step'[e].names : Cardinality(Newer(s)') >= HistoryKeep
      BY DEF Chosen
    <3>2. e # c /\ step'[e] = step[e] /\ step[e].names \subseteq Nat
      BY <1>1, <2>1, <2>3, <3>1 DEF Reads
    <3>3. ASSUME NEW s \in step[e].names PROVE Cardinality(Newer(s)') >= HistoryKeep
      <4>1. Cardinality(Newer(s)) >= HistoryKeep /\ s \in Nat
        BY <1>1, <3>1, <3>2, <3>3 DEF Chosen
      <4> QED BY <1>1, <2>1, <2>2, <4>1, NewerGrows, SurfaceFilesAssumption
    <3> QED BY <1>1, <3>1, <3>2, <3>3 DEF Chosen
  <2>7. Listed'
    BY <2>1, <2>3 DEF Listed
  <2> QED BY <2>4, <2>5, <2>6, <2>7 DEF FilesInv
<1> QED BY <1>2, <1>3 DEF KeepCopy

LEMMA ListCopiesInv == ASSUME FilesInv, NEW c \in FileCommands, ListCopies(c) PROVE FilesInv'
<1> DEFINE stamps == {d.stamp : d \in copies}
           names == Oldest(stamps)
           at == IF names = {} THEN step[c].then ELSE "prune"
           d == [step[c] EXCEPT !.names = names, !.at = at]
<1>1. /\ FileTypes /\ Stamped /\ Chosen /\ step \in [FileCommands -> Reads] /\ step[c] \in Reads /\ step[c].at = "list"
      /\ UNCHANGED <<source, copies, clock, libs, order, kept, fileFaults>> /\ step[c].then \in {"write", "done"}
      /\ step' = [step EXCEPT ![c] = d] /\ stamps \subseteq Nat
  BY DEF FilesInv, FileTypes, ListCopies, Reads, Stamped
<1>2. \A s : s \in names <=> s \in stamps /\ Cardinality({t \in stamps : t > s}) >= HistoryKeep
  BY DEF Oldest
<1> HIDE DEF names
<1>3. \A s : s \in names <=> s \in stamps /\ Cardinality(Newer(s)) >= HistoryKeep
  BY <1>1, <1>2, NewerCount
<1>4. /\ at \in {"write", "done", "prune"} /\ (at = "prune" => names # {}) /\ (names # {} => at = "prune")
      /\ names \subseteq Nat
  BY <1>1, <1>3
<1> HIDE DEF at, stamps
<1>5. d \in Reads /\ d.at = at /\ d.names = names
  BY <1>1, <1>4 DEF Reads
<1> HIDE DEF d
<1>6. step' \in [FileCommands -> Reads] /\ step'[c] = d /\ \A e \in FileCommands \ {c} : step'[e] = step[e]
  BY <1>1, <1>5
<1>7. FileTypes' /\ Stamped'
  BY <1>1, <1>4, <1>5, <1>6 DEF FileTypes, Stamped
<1>8. ASSUME NEW s PROVE Newer(s)' = Newer(s)
  BY <1>1 DEF Newer
<1>9. Chosen'
  BY <1>1, <1>3, <1>4, <1>5, <1>6, <1>8 DEF Chosen
<1>10. Listed'
  <2>1. ASSUME NEW k \in copies, Cardinality(Newer(k.stamp)) >= HistoryKeep
        PROVE  step'[c].at = "prune" /\ k.stamp \in step'[c].names
    <3>1. k.stamp \in names
      BY <1>3, <2>1 DEF stamps
    <3> QED BY <1>4, <1>5, <1>6, <3>1
  <2> QED BY <1>1, <1>8, <2>1 DEF Listed
<1> QED BY <1>7, <1>9, <1>10 DEF FilesInv

(* The deletion of a copy with many newer ones leaves those that are older as many, and
   gives nobody more. *)
LEMMA NewerShrinks ==
  ASSUME Stamped, NEW n \in Nat, copies' = {d \in copies : d.stamp # n}, NEW s \in Nat
  PROVE  /\ Cardinality(Newer(s)') \in Nat /\ Cardinality(Newer(s)) \in Nat /\ Cardinality(Newer(s)') <= Cardinality(Newer(s))
         /\ n <= s => Newer(s)' = Newer(s)
         /\ n > s => Cardinality(Newer(s)') >= Cardinality(Newer(n))
<1>1. IsFiniteSet(Newer(s)) /\ Cardinality(Newer(s)) \in Nat /\ IsFiniteSet(Newer(n)) /\ Cardinality(Newer(n)) \in Nat
  BY NewerCount
<1>2. \A d \in copies : d.stamp \in Nat
  BY DEF Stamped, Copy
<1>3. Newer(s)' \subseteq Newer(s)
  BY DEF Newer
<1>4. IsFiniteSet(Newer(s)') /\ Cardinality(Newer(s)') <= Cardinality(Newer(s))
  BY <1>1, <1>3, FS_Subset
<1>5. Cardinality(Newer(s)') \in Nat
  BY <1>4, FS_CardinalityType
<1>6. ASSUME n <= s PROVE Newer(s)' = Newer(s)
  BY <1>2, <1>6 DEF Newer
<1>7. ASSUME n > s PROVE Cardinality(Newer(s)') >= Cardinality(Newer(n))
  <2>1. Newer(n) \subseteq Newer(s)'
    BY <1>2, <1>7 DEF Newer
  <2>2. Cardinality(Newer(n)) <= Cardinality(Newer(s)')
    BY <1>4, <2>1, FS_Subset
  <2> QED BY <1>1, <1>5, <2>2
<1> QED BY <1>1, <1>4, <1>5, <1>6, <1>7

LEMMA PruneOneInv ==
  ASSUME FilesInv, NEW c \in FileCommands, PruneOne(c)
  PROVE  FilesInv' /\ \A d \in copies \ copies' : Cardinality(Newer(d.stamp)) >= HistoryKeep
<1> DEFINE name == Min(step[c].names)
           left == step[c].names \ {name}
           at == IF left = {} THEN step[c].then ELSE "prune"
           d == [step[c] EXCEPT !.names = left, !.at = at]
<1>1. /\ FileTypes /\ Stamped /\ Chosen /\ step \in [FileCommands -> Reads] /\ step[c] \in Reads /\ step[c].at = "prune"
      /\ UNCHANGED <<source, clock, libs, order, kept, fileFaults>> /\ step[c].then \in {"write", "done"}
      /\ step' = [step EXCEPT ![c] = d] /\ copies' = {k \in copies : k.stamp # name} /\ step[c].names \in SUBSET Nat
  BY DEF FilesInv, FileTypes, PruneOne, Reads
<1>2. name \in step[c].names
  BY <1>1, MinOf DEF Chosen
<1> HIDE DEF name
<1>3. /\ at \in {"write", "done", "prune"} /\ (at = "prune" => left # {}) /\ (left # {} => at = "prune")
      /\ left \subseteq Nat /\ name \in Nat /\ HistoryKeep \in Nat
  BY <1>1, <1>2, SurfaceFilesAssumption
<1>4. Cardinality(Newer(name)) >= HistoryKeep /\ Cardinality(Newer(name)) \in Nat
  BY <1>1, <1>2, <1>3, NewerCount DEF Chosen
<1> HIDE DEF at
<1>5. d \in Reads /\ d.at = at /\ d.names = left
  BY <1>1, <1>3 DEF Reads
<1> HIDE DEF d
<1>6. step' \in [FileCommands -> Reads] /\ step'[c] = d /\ \A e \in FileCommands \ {c} : step'[e] = step[e]
  BY <1>1, <1>5
<1>7. FileTypes'
  BY <1>1, <1>6 DEF FileTypes
<1>8. Stamped'
  <2>1. IsFiniteSet(copies') /\ copies' \subseteq copies
    BY <1>1, FS_Subset DEF Stamped
  <2> QED BY <1>1, <1>3, <1>5, <1>6, <2>1 DEF Stamped
<1>9. ASSUME NEW s \in Nat, Cardinality(Newer(s)) >= HistoryKeep PROVE Cardinality(Newer(s)') >= HistoryKeep
  <2>1. CASE name <= s
    <3>1. Newer(s)' = Newer(s)
      BY <1>1, <1>3, <2>1, NewerShrinks
    <3> QED BY <1>9, <3>1
  <2>2. CASE name > s
    <3>1. Cardinality(Newer(s)') >= Cardinality(Newer(name)) /\ Cardinality(Newer(s)') \in Nat
      BY <1>1, <1>3, <2>2, NewerShrinks
    <3> QED BY <1>3, <1>4, <3>1
  <2> QED BY <1>3, <2>1, <2>2
<1>10. Chosen'
  <2>1. SUFFICES ASSUME NEW e \in FileCommands, step'[e].at = "prune"
                 PROVE  step'[e].names # {} /\ \A s \in step'[e].names : Cardinality(Newer(s)') >= HistoryKeep
    BY DEF Chosen
  <2>2. step[e].at = "prune" /\ step'[e].names \subseteq step[e].names /\ step'[e].names # {} /\ step[e].names \subseteq Nat
    BY <1>1, <1>3, <1>5, <1>6, <2>1 DEF Chosen, Reads
  <2>3. \A s \in step[e].names : s \in Nat /\ Cardinality(Newer(s)) >= HistoryKeep
    BY <1>1, <2>2 DEF Chosen
  <2> QED BY <1>9, <2>2, <2>3
<1>11. Listed'
  <2>1. SUFFICES ASSUME fileFaults = FileFaults, \A e \in FileCommands : step'[e].at # "list",
                        NEW k \in copies', Cardinality(Newer(k.stamp)') >= HistoryKeep
                 PROVE  \E e \in FileCommands : step'[e].at = "prune" /\ k.stamp \in step'[e].names
    BY <1>1 DEF Listed
  <2>2. k \in copies /\ k.stamp # name /\ k.stamp \in Nat
    BY <1>1, <2>1 DEF Stamped, Copy
  <2>3. Cardinality(Newer(k.stamp)) >= HistoryKeep
    BY <1>1, <1>3, <2>1, <2>2, NewerShrinks
  <2>4. \A e \in FileCommands : step[e].at # "list"
    BY <1>1, <1>6, <2>1
  <2>5. PICK e \in FileCommands : step[e].at = "prune" /\ k.stamp \in step[e].names
    BY <2>1, <2>2, <2>3, <2>4 DEF FilesInv, Listed
  <2>6. CASE e = c
    <3>1. k.stamp \in left
      BY <2>2, <2>5, <2>6
    <3> QED BY <1>3, <1>5, <1>6, <3>1
  <2> QED BY <1>6, <2>5, <2>6
<1>12. ASSUME NEW k \in copies \ copies' PROVE Cardinality(Newer(k.stamp)) >= HistoryKeep
  BY <1>1, <1>4, <1>12
<1> QED BY <1>7, <1>8, <1>10, <1>11, <1>12 DEF FilesInv
LEMMA FilesNextInv == FilesInv /\ [SurfaceFilesNext]_fileVars => FilesInv'
<1> SUFFICES ASSUME FilesInv, [SurfaceFilesNext]_fileVars PROVE FilesInv'
  OBVIOUS
<1>1. CASE UNCHANGED fileVars
  BY <1>1 DEF fileVars, fileState, FilesInv, FileTypes, Stamped, Chosen, Listed, Newer
<1>2. CASE \E c \in FileCommands : Step(c) \/ CommandDies(c)
  BY <1>2, PlainInv, TakeStampInv, KeepCopyInv, ListCopiesInv, PruneOneInv DEF Step
<1> QED BY <1>1, <1>2 DEF SurfaceFilesNext

LEMMA EditKeepsText ==
  FilesInv /\ [SurfaceFilesNext]_fileVars =>
    [\A c \in FileCommands : order[c] \in {"edit", "hashed"} /\ kept'[c] # kept[c] => source.text \subseteq source'.text]_fileVars
<1> SUFFICES ASSUME FilesInv, SurfaceFilesNext, NEW c \in FileCommands, order[c] \in {"edit", "hashed"}, kept'[c] # kept[c]
             PROVE  source.text \subseteq source'.text
  OBVIOUS
<1>1. PICK e \in FileCommands : EditWrites(e) \/ FileWrites(e)
  BY DEF SurfaceFilesNext, Step, ReadRange, WriteReads, DeleteReads, EditReads, InstallReads, InstallWrites, TakeStamp,
         KeepCopy, ListCopies, PruneOne, CommandDies
<1>2. kept \in [FileCommands -> Contents]
  BY DEF FilesInv, FileTypes
<1>3. CASE EditWrites(e)
  BY <1>3 DEF EditWrites, Swap
<1>4. CASE FileWrites(e)
  <2>1. e = c
    BY <1>2, <1>4 DEF FileWrites
  <2> QED BY <1>4, <2>1 DEF FileWrites
<1> QED BY <1>1, <1>3, <1>4

LEMMA PrunedIsOld ==
  FilesInv /\ [SurfaceFilesNext]_fileVars =>
    [\A c \in copies \ copies' : Cardinality({d \in copies : d.stamp > c.stamp}) >= HistoryKeep]_fileVars
<1> SUFFICES ASSUME FilesInv, SurfaceFilesNext, NEW k \in copies \ copies'
             PROVE  Cardinality({d \in copies : d.stamp > k.stamp}) >= HistoryKeep
  OBVIOUS
<1>1. PICK e \in FileCommands : PruneOne(e)
  BY DEF SurfaceFilesNext, Step, ReadRange, WriteReads, DeleteReads, EditReads, EditWrites, FileWrites, InstallReads,
         InstallWrites, TakeStamp, KeepCopy, ListCopies, CommandDies
<1>2. Cardinality(Newer(k.stamp)) >= HistoryKeep
  BY <1>1, PruneOneInv
<1> QED BY <1>2 DEF Newer

LEMMA AnsweredIsPruned == FilesInv => HistoryIsPruned
<1> SUFFICES ASSUME FilesInv, \A c \in FileCommands : step[c].at \in {"unsent", "read", "done", "refused"},
                    fileFaults = FileFaults, copies # {}
             PROVE  Cardinality(copies) <= HistoryKeep
  BY FS_EmptySet, SurfaceFilesAssumption DEF HistoryIsPruned
<1>1. Stamped /\ IsFiniteSet(copies) /\ \A d \in copies : ~(Cardinality(Newer(d.stamp)) >= HistoryKeep)
  BY DEF FilesInv, Stamped, Listed
<1> DEFINE stamps == {d.stamp : d \in copies}
<1>2. stamps \in SUBSET Nat /\ stamps # {}
  BY <1>1 DEF Stamped, Copy
<1>3. PICK least \in stamps : \A s \in stamps : least <= s
  BY <1>2, LeastOf
<1>4. PICK d \in copies : d.stamp = least
  BY <1>3
<1>5. \A e \in copies \ {d} : e.stamp \in Nat /\ e.stamp # least /\ least <= e.stamp /\ least \in Nat
  BY <1>1, <1>2, <1>3, <1>4 DEF Stamped
<1>6. copies = Newer(least) \cup {d} /\ d \notin Newer(least)
  <2>1. \A e \in copies \ {d} : e.stamp > least
    BY <1>5
  <2>2. ~(d.stamp > least)
    BY <1>2, <1>4
  <2> HIDE DEF stamps
  <2> QED BY <1>4, <2>1, <2>2 DEF Newer
<1>7. IsFiniteSet(Newer(least)) /\ Cardinality(Newer(least)) \in Nat /\ ~(Cardinality(Newer(least)) >= HistoryKeep)
  <2>1. least \in Nat
    BY <1>2
  <2> HIDE DEF stamps
  <2> QED BY <1>1, <1>4, <2>1, NewerCount
<1>8. Cardinality(copies) = Cardinality(Newer(least)) + 1
  <2>1. Cardinality(Newer(least) \cup {d}) = Cardinality(Newer(least)) + 1
    BY <1>6, <1>7, FS_AddElement
  <2> QED BY <1>6, <2>1
<1> HIDE DEF stamps
<1> QED BY <1>7, <1>8, SurfaceFilesAssumption

(* The files of a page and the commands on them keep their types, and no two copies of the
   history bear one stamp. *)
THEOREM SurfaceFilesTypeCorrect == SurfaceFilesSpec => []SurfaceFilesTypeOK
<1>1. FilesInv => SurfaceFilesTypeOK
  BY DEF FilesInv, FileTypes, Stamped, Copy, SurfaceFilesTypeOK
<1> QED BY <1>1, FilesInitInv, FilesNextInv, PTL DEF SurfaceFilesSpec

(* No edit loses text that another command wrote, a copy is only deleted while as many
   newer ones are there as are to be kept, and once the commands have answered no more
   than those are left: for any number of agents, any history length, any interleaving. *)
THEOREM WorkIsKept == SurfaceFilesSpec => FilesKeepWork
<1> QED BY FilesInitInv, FilesNextInv, EditKeepsText, PrunedIsOld, AnsweredIsPruned, PTL
        DEF SurfaceFilesSpec, FilesKeepWork, EditsLoseNothing, NewestCopiesStay---------------------------------------------------------------------------
(* The stages of a record. *)

Row == [rev : Revs, status : Statuses, enriched : Revs, vector : Revs, firm : SUBSET Revs, unsure : SUBSET Revs]
TaskType == [at : TaskStates, rev : Revs, tries : 0 .. StageRetries, next : 0 .. 3]
TaskFun == [Records -> [Stages -> TaskType]]

\* What a row says was done was done for a revision it had.
RowOk(row) ==
  /\ row.enriched <= row.rev /\ row.vector <= row.rev /\ (row.status # "none" => row.rev > 0)
  /\ row.vector > 0 => row.vector \in row.firm /\ ("low_confidence" \in branches => row.vector \in row.unsure)

\* A task is for a revision the row has had; unless the row has moved on, the stages
\* before it are done.
TaskOk(row, s, t) ==
  t.at # "none" =>
    /\ 0 < t.rev /\ t.rev <= row.rev
    /\ t.rev = row.rev =>
         /\ s \in {"low_confidence", "embed"} \/ (s = "resolve" /\ t.at = "forwarding") => t.rev \in row.firm
         /\ (s = "low_confidence" /\ t.at = "forwarding") \/ (s = "embed" /\ "low_confidence" \in branches)
              => t.rev \in row.unsure

PipeInv ==
  /\ PipeTypeOK
  /\ \A r \in Records : RowOk(record[r]) /\ \A s \in Stages : TaskOk(record[r], s, task[r][s])
  /\ \A h \in handoff : 0 < h.rev /\ h.rev <= record[h.rec].rev

LEMMA PipeInitInv == PipeInit => PipeInv
<1> SUFFICES ASSUME PipeInit PROVE PipeInv
  OBVIOUS
<1> DEFINE row == [rev |-> 0, status |-> "none", enriched |-> 0, vector |-> 0, firm |-> {}, unsure |-> {}]
<1>1. record = [r \in Records |-> row] /\ task = [r \in Records |-> [s \in Stages |-> NoTask]] /\ handoff = {}
  BY DEF PipeInit
<1>2. row \in Row /\ RowOk(row) /\ NoTask \in TaskType
  BY PipeAssumption DEF Row, RowOk, NoTask, TaskType, TaskStates, Statuses, Revs
<1> HIDE DEF row
<1>3. PipeTypeOK
  BY <1>1, <1>2 DEF PipeTypeOK, Row, TaskType
<1>4. \A r \in Records, s \in Stages : task[r][s].at = "none"
  BY <1>1 DEF NoTask
<1> QED BY <1>1, <1>2, <1>3, <1>4 DEF PipeInv, TaskOk

LEMMA PipeFacts ==
  ASSUME PipeInv, NEW r \in Records, NEW s \in Stages
  PROVE  /\ record \in [Records -> Row] /\ task \in TaskFun /\ record[r] \in Row /\ task[r][s] \in TaskType
         /\ RowOk(record[r]) /\ TaskOk(record[r], s, task[r][s])
BY DEF PipeInv, PipeTypeOK, Row, TaskType, TaskFun

(* One record and its tasks move. *)
LEMMA PipeKeeps ==
  ASSUME PipeInv, UNCHANGED branches, NEW r \in Records, NEW row \in Row, record' = [record EXCEPT ![r] = row], RowOk(row),
         record[r].rev <= row.rev, task' \in TaskFun, \A q \in Records \ {r} : task'[q] = task[q],
         \A s \in Stages : TaskOk(row, s, task'[r][s]),
         handoff' \subseteq handoff \cup {[rec |-> r, rev |-> row.rev]}, row.rev > 0 \/ handoff' \subseteq handoff
  PROVE  PipeInv'
<1>1. /\ record \in [Records -> Row] /\ record' \in [Records -> Row] /\ record'[r] = row
      /\ \A q \in Records \ {r} : record'[q] = record[q]
  BY DEF PipeInv, PipeTypeOK, Row
<1>2. /\ row.rev \in Nat /\ row.rev \in Revs /\ \A q \in Records : record[q].rev \in Nat
  BY <1>1, PipeAssumption DEF Row, Revs
<1>3. handoff' \subseteq [rec : Records, rev : Revs]
  BY <1>2 DEF PipeInv, PipeTypeOK
<1>4. \A h \in handoff' : 0 < h.rev /\ h.rev <= record'[h.rec].rev
  <2>1. SUFFICES ASSUME NEW h \in handoff' PROVE 0 < h.rev /\ h.rev <= record'[h.rec].rev
    OBVIOUS
  <2>2. CASE h \in handoff
    <3>1. 0 < h.rev /\ h.rev <= record[h.rec].rev /\ h.rec \in Records /\ h.rev \in Nat
      BY <2>2, PipeAssumption DEF PipeInv, PipeTypeOK, Revs
    <3>2. record[h.rec].rev <= record'[h.rec].rev
      BY <1>1, <1>2, <3>1
    <3> QED BY <1>1, <1>2, <3>1, <3>2
  <2>3. CASE h \notin handoff
    <3>1. h = [rec |-> r, rev |-> row.rev] /\ row.rev > 0
      BY <2>1, <2>3
    <3> QED BY <1>1, <1>2, <3>1
  <2> QED BY <2>2, <2>3
<1>5. PipeTypeOK'
  BY <1>1, <1>3 DEF PipeTypeOK, Row, TaskType, TaskFun
<1>6. ASSUME NEW q \in Records PROVE RowOk(record[q])' /\ \A s \in Stages : TaskOk(record[q], s, task[q][s])'
  <2>1. CASE q = r
    BY <1>1, <2>1 DEF RowOk, TaskOk
  <2>2. CASE q # r
    BY <1>1, <2>2 DEF PipeInv, RowOk, TaskOk
  <2> QED BY <2>1, <2>2
<1> QED BY <1>4, <1>5, <1>6 DEF PipeInv

Fresh(rev) == [at |-> "pending", rev |-> rev, tries |-> 0, next |-> 0]

LEMMA Enqueued ==
  ASSUME NEW tasks \in TaskFun, NEW r \in Records, NEW s \in Stages, NEW rev \in Revs
  PROVE  /\ EnqueueStage(tasks, r, s, rev) \in TaskFun
         /\ \A q \in Records \ {r} : EnqueueStage(tasks, r, s, rev)[q] = tasks[q]
         /\ \A x \in Stages \ {s} : EnqueueStage(tasks, r, s, rev)[r][x] = tasks[r][x]
         /\ EnqueueStage(tasks, r, s, rev)[r][s] = tasks[r][s] \/ EnqueueStage(tasks, r, s, rev)[r][s] = Fresh(rev)
<1>1. Fresh(rev) \in TaskType
  BY PipeAssumption DEF Fresh, TaskType, TaskStates, Revs
<1>2. CASE EnqueueStage(tasks, r, s, rev) = tasks
  BY <1>2
<1>3. CASE EnqueueStage(tasks, r, s, rev) = [tasks EXCEPT ![r][s] = Fresh(rev)]
  <2> DEFINE e == EnqueueStage(tasks, r, s, rev)
             d == Fresh(rev)
  <2>1. e = [tasks EXCEPT ![r][s] = d] /\ d \in TaskType
    BY <1>1, <1>3
  <2> HIDE DEF e, d
  <2>2. e \in TaskFun /\ (\A q \in Records \ {r} : e[q] = tasks[q]) /\ (\A x \in Stages \ {s} : e[r][x] = tasks[r][x])
        /\ e[r][s] = d
    BY <2>1 DEF TaskFun
  <2> QED BY <2>2 DEF e, d
<1> QED BY <1>2, <1>3 DEF EnqueueStage, Fresh
(* A row that moves on, or of which more is done, leaves its tasks as good as they were. *)
LEMMA RowGrows ==
  ASSUME NEW row \in Row, NEW more \in Row, row.rev <= more.rev, row.firm \subseteq more.firm, row.unsure \subseteq more.unsure,
         NEW s \in Stages, NEW t \in TaskType, TaskOk(row, s, t)
  PROVE  TaskOk(more, s, t)
<1>1. row.rev \in Nat /\ more.rev \in Nat /\ t.rev \in Nat
  BY PipeAssumption DEF Row, TaskType, Revs
<1>2. SUFFICES ASSUME t.at # "none" PROVE TaskOk(more, s, t)
  BY DEF TaskOk
<1>3. 0 < t.rev /\ t.rev <= more.rev
  BY <1>1, <1>2 DEF TaskOk
<1>4. t.rev = more.rev => t.rev = row.rev
  BY <1>1, <1>2 DEF TaskOk
<1> QED BY <1>2, <1>3, <1>4 DEF TaskOk

(* One task moves, and its row may. *)
LEMMA TaskKeeps ==
  ASSUME PipeInv, UNCHANGED branches, NEW r \in Records, NEW s \in Stages, NEW d \in TaskType, NEW row \in Row,
         task' = [task EXCEPT ![r][s] = d], record' = [record EXCEPT ![r] = row], RowOk(row), TaskOk(row, s, d),
         record[r].rev <= row.rev, record[r].firm \subseteq row.firm, record[r].unsure \subseteq row.unsure,
         handoff' \subseteq handoff
  PROVE  PipeInv'
<1>1. task \in TaskFun /\ record[r] \in Row
  BY PipeFacts
<1>2. /\ task' \in TaskFun /\ (\A q \in Records \ {r} : task'[q] = task[q]) /\ task'[r][s] = d
      /\ \A x \in Stages \ {s} : task'[r][x] = task[r][x]
  BY <1>1 DEF TaskFun
<1>3. \A x \in Stages : TaskOk(row, x, task'[r][x])
  <2>1. ASSUME NEW x \in Stages \ {s} PROVE TaskOk(row, x, task[r][x])
    BY <1>1, PipeFacts, RowGrows
  <2> QED BY <1>2, <2>1
<1> QED BY <1>2, <1>3, PipeKeeps

(* A step that only moves a task. *)
LEMMA TaskOnly ==
  ASSUME PipeInv, UNCHANGED <<branches, record>>, NEW r \in Records, NEW s \in Stages, NEW d \in TaskType,
         task' = [task EXCEPT ![r][s] = d], TaskOk(record[r], s, d), handoff' \subseteq handoff
  PROVE  PipeInv'
<1> DEFINE row == record[r]
<1>1. row \in Row /\ RowOk(row) /\ record \in [Records -> Row]
  BY PipeFacts
<1>2. record' = [record EXCEPT ![r] = row] /\ row.rev <= row.rev
  BY <1>1, PipeAssumption DEF Row, Revs
<1> HIDE DEF row
<1>3. row = record[r]
  BY DEF row
<1> QED BY <1>1, <1>2, <1>3, TaskKeeps

LEMMA EnqueueKeeps ==
  ASSUME PipeInv, UNCHANGED <<branches, record>>, NEW r \in Records, NEW s \in Stages, NEW rev \in Revs,
         task' = EnqueueStage(task, r, s, rev), 0 < rev, rev <= record[r].rev, s \in {"first_pass", "resolve"},
         handoff' \subseteq handoff
  PROVE  PipeInv'
<1> DEFINE e == EnqueueStage(task, r, s, rev)
<1>1. task \in TaskFun /\ record[r] \in Row /\ RowOk(record[r]) /\ record \in [Records -> Row] /\ record[r].rev \in Nat
  BY PipeFacts, PipeAssumption DEF Row, Revs
<1>2. /\ e \in TaskFun /\ (\A q \in Records \ {r} : e[q] = task[q]) /\ (\A x \in Stages \ {s} : e[r][x] = task[r][x])
      /\ e[r][s] = task[r][s] \/ e[r][s] = Fresh(rev)
  BY <1>1, Enqueued
<1> HIDE DEF e
<1>3. TaskOk(record[r], s, Fresh(rev))
  BY DEF TaskOk, Fresh
<1>4. \A x \in Stages : TaskOk(record[r], x, e[r][x])
  BY <1>2, <1>3, PipeFacts
<1>5. task' = e
  BY DEF e
<1>6. record' = [record EXCEPT ![r] = record[r]] /\ record[r].rev <= record[r].rev
  BY <1>1
<1> QED BY ZenonT(40), <1>1, <1>2, <1>4, <1>5, <1>6, PipeKeeps

LEMMA FirstPassIsStage == "first_pass" \in Stages /\ "resolve" \in Stages /\ "embed" \in Stages /\ "low_confidence" \in Stages
BY DEF Stages

LEMMA CaptureInv == ASSUME PipeInv, UNCHANGED branches, NEW r \in Records, Capture(r) PROVE PipeInv'
<1> DEFINE old == record[r]
           row == [old EXCEPT !.rev = old.rev + 1, !.status = IF @ = "none" THEN "captured" ELSE @]
<1>1. record \in [Records -> Row] /\ task \in TaskFun /\ old \in Row /\ RowOk(old)
  BY PipeFacts, FirstPassIsStage
<1>2. old.rev \in Nat /\ old.rev < MaxRev /\ MaxRev \in Nat /\ old.enriched \in Nat /\ old.vector \in Nat
  BY <1>1, PipeAssumption DEF Row, Revs, Capture
<1>3. record' = [record EXCEPT ![r] = row] /\ handoff' = handoff \cup {[rec |-> r, rev |-> old.rev + 1]} /\ UNCHANGED task
  BY <1>1 DEF Capture, UpsertCanonical
<1>4. old.rev + 1 \in Revs
  BY <1>2 DEF Revs
<1>5. (IF old.status = "none" THEN "captured" ELSE old.status) \in Statuses
  BY <1>1 DEF Row, Statuses
<1>6. /\ row \in Row /\ row.rev = old.rev + 1 /\ row.firm = old.firm /\ row.unsure = old.unsure
      /\ row.enriched = old.enriched /\ row.vector = old.vector
  BY <1>1, <1>4, <1>5 DEF Row
<1> HIDE DEF row
<1>7. RowOk(row) /\ old.rev <= row.rev /\ row.rev > 0
  BY <1>1, <1>2, <1>6 DEF RowOk
<1>8. \A s \in Stages : TaskOk(row, s, task[r][s])
  BY <1>1, <1>6, <1>7, PipeFacts, RowGrows
<1> QED BY <1>1, <1>3, <1>6, <1>7, <1>8, PipeKeeps

LEMMA HandoffInv ==
  ASSUME PipeInv, UNCHANGED branches, NEW h \in handoff, EnqueueGlobalFirstPass(h) \/ LoseHandoff(h)
  PROVE  PipeInv'
<1>1. h.rec \in Records /\ h.rev \in Revs /\ 0 < h.rev /\ h.rev <= record[h.rec].rev /\ handoff' \subseteq handoff
  BY DEF PipeInv, PipeTypeOK, EnqueueGlobalFirstPass, LoseHandoff
<1>2. CASE EnqueueGlobalFirstPass(h)
  BY <1>1, <1>2, EnqueueKeeps, FirstPassIsStage DEF EnqueueGlobalFirstPass
<1>3. CASE LoseHandoff(h)
  BY <1>1, <1>3 DEF LoseHandoff, PipeInv, PipeTypeOK, RowOk, TaskOk
<1> QED BY <1>2, <1>3

LEMMA RedriveInv == ASSUME PipeInv, UNCHANGED branches, NEW r \in Records, Redrive(r) PROVE PipeInv'
<1>1. record[r] \in Row /\ RowOk(record[r]) /\ record[r].status \in {"captured", "enriched"}
      /\ UNCHANGED <<record, handoff>>
  BY PipeFacts, FirstPassIsStage DEF Redrive, ListStuck
<1> DEFINE s == StageFor(record[r].status)
           rev == record[r].rev
<1>2. s \in Stages /\ s \in {"first_pass", "resolve"} /\ rev \in Revs /\ 0 < rev /\ rev <= record[r].rev
  BY <1>1, PipeAssumption DEF StageFor, Stages, Row, RowOk, Revs
<1>3. task' = EnqueueStage(task, r, s, rev)
  BY DEF Redrive
<1> HIDE DEF s, rev
<1> QED BY <1>1, <1>2, <1>3, EnqueueKeeps
(* A worker takes a task for the revision the row has, or passes a superseded one on. *)
LEMMA TaskTakenInv ==
  ASSUME PipeInv, UNCHANGED branches, NEW r \in Records, NEW s \in Stages, NEW rev \in Revs,
         TakeTask(r, s, rev), task[r][s].at = "pending",
         rev = record[r].rev \/ rev = task[r][s].rev,
         s \in {"low_confidence", "embed"} => rev = task[r][s].rev
  PROVE  PipeInv'
<1> DEFINE t == task[r][s]
           d == [t EXCEPT !.at = "loaded", !.rev = rev]
<1>1. /\ task \in TaskFun /\ record[r] \in Row /\ t \in TaskType /\ TaskOk(record[r], s, t)
      /\ UNCHANGED <<record, handoff>>
  BY PipeFacts DEF TakeTask
<1>2. d \in TaskType /\ d.at = "loaded" /\ d.rev = rev
  BY <1>1 DEF TaskType, TaskStates
<1>3. task' = [task EXCEPT ![r][s] = d]
  BY <1>1 DEF TakeTask, TaskFun
<1> HIDE DEF d
<1>4. t.at # "none" /\ record[r].rev \in Nat /\ t.rev \in Nat
  BY <1>1, PipeAssumption DEF Row, TaskType, Revs
<1>5. 0 < t.rev /\ t.rev <= record[r].rev
  BY <1>1, <1>4 DEF TaskOk
<1>6. 0 < d.rev /\ d.rev <= record[r].rev
  BY <1>2, <1>4, <1>5
<1>7. ASSUME d.rev = record[r].rev, s \in {"low_confidence", "embed"}
      PROVE  /\ d.rev \in record[r].firm
             /\ s = "embed" /\ "low_confidence" \in branches => d.rev \in record[r].unsure
  BY <1>1, <1>2, <1>4, <1>7 DEF TaskOk
<1>8. TaskOk(record[r], s, d)
  BY <1>2, <1>6, <1>7 DEF TaskOk
<1> QED BY <1>1, <1>2, <1>3, <1>8, TaskOnly

LEMMA RunStageInv == ASSUME PipeInv, UNCHANGED branches, NEW r \in Records, NEW s \in Stages, RunStage(r, s) PROVE PipeInv'
<1> DEFINE t == task[r][s]
<1>1. /\ task \in TaskFun /\ record[r] \in Row /\ t \in TaskType /\ TaskOk(record[r], s, t) /\ t.at = "pending"
      /\ record[r].rev \in Revs /\ t.rev \in Revs
  BY PipeFacts DEF RunStage, Row, TaskType
<1>2. record[r].rev \in Nat /\ t.rev \in Nat /\ 0 < t.rev /\ t.rev <= record[r].rev
  BY <1>1, PipeAssumption DEF Revs, TaskOk
<1>3. CASE s \in {"first_pass", "graph"} /\ TakeTask(r, s, t.rev)
  BY <1>1, <1>3, TaskTakenInv
<1>4. CASE s = "tenant_match" /\ TakeTask(r, s, record[r].rev)
  BY <1>1, <1>4, TaskTakenInv
<1>5. CASE s \in {"resolve", "low_confidence", "embed"} /\ TakeOrDrop(r, s)
  <2>1. CASE Superseded(r, s) /\ DropTask(r, s)
    <3> DEFINE d == [t EXCEPT !.at = "forwarding"]
    <3>1. d \in TaskType /\ d.at = "forwarding" /\ d.rev = t.rev
      BY <1>1 DEF TaskType, TaskStates
    <3>2. task' = [task EXCEPT ![r][s] = d] /\ UNCHANGED <<record, handoff>>
      BY <1>1, <2>1 DEF DropTask, Move, TaskFun
    <3> HIDE DEF d
    <3>3. record[r].rev > t.rev
      BY <2>1 DEF Superseded
    <3>4. TaskOk(record[r], s, d)
      BY <1>2, <3>1, <3>3 DEF TaskOk
    <3> QED BY <3>1, <3>2, <3>4, TaskOnly
  <2>2. CASE ~Superseded(r, s) /\ TakeTask(r, s, record[r].rev)
    <3>1. record[r].rev = t.rev
      BY <1>2, <2>2 DEF Superseded
    <3> QED BY <1>1, <2>2, <3>1, TaskTakenInv
  <2> QED BY <1>5, <2>1, <2>2 DEF TakeOrDrop
<1> QED BY <1>3, <1>4, <1>5 DEF RunStage, RunGlobalFirstPass, RunTenantMatch, RunResolveEntities, RunResolveLowConfidence,
                             RunGraphProject, RunEmbed

(* What a stage writes is of the revision it worked on, and only while the row has it. *)
LEMMA WrittenRow ==
  ASSUME NEW row \in Row, RowOk(row), NEW s \in Stages, NEW t \in TaskType, t.at = "loaded", TaskOk(row, s, t)
  PROVE  LET w == Written(row, s, t.rev) IN
         /\ w \in Row /\ RowOk(w) /\ w.rev = row.rev /\ row.firm \subseteq w.firm /\ row.unsure \subseteq w.unsure
         /\ w.enriched = row.enriched \/ w.enriched = row.rev
         /\ w.vector = row.vector \/ w.vector = row.rev
         /\ s = "resolve" => t.rev \in w.firm
         /\ s = "low_confidence" => t.rev \in w.unsure
<1> DEFINE w == Written(row, s, t.rev)
<1>1. row.rev \in Nat /\ t.rev \in Nat /\ t.rev \in Revs /\ 0 < t.rev /\ t.rev <= row.rev
  BY PipeAssumption DEF Row, TaskType, Revs, TaskOk
<1>2. CASE s = "first_pass"
  <2>1. w = SaveEnrichment(row, t.rev)
    BY <1>2 DEF Written
  <2>2. CASE row.rev = t.rev
    <3>1. w = [row EXCEPT !.enriched = t.rev, !.status = "enriched"]
      BY <2>1, <2>2 DEF SaveEnrichment
    <3>2. /\ w \in Row /\ w.rev = row.rev /\ w.firm = row.firm /\ w.unsure = row.unsure /\ w.enriched = t.rev
          /\ w.vector = row.vector
      BY <1>1, <3>1 DEF Row, Statuses
    <3> HIDE DEF w
    <3> QED BY <1>1, <1>2, <2>2, <3>2 DEF RowOk, w
  <2>3. CASE row.rev # t.rev
    <3>1. w = row
      BY <2>1, <2>3 DEF SaveEnrichment
    <3> QED BY <1>2, <3>1
  <2> QED BY <2>2, <2>3
<1>3. CASE s = "resolve"
  <2>1. w = [row EXCEPT !.firm = row.firm \cup {t.rev}]
    BY <1>3 DEF Written, Row
  <2>2. /\ w \in Row /\ w.rev = row.rev /\ w.firm = row.firm \cup {t.rev} /\ w.unsure = row.unsure
        /\ w.enriched = row.enriched /\ w.vector = row.vector /\ w.status = row.status
    BY <1>1, <2>1 DEF Row
  <2> HIDE DEF w
  <2> QED BY <1>1, <1>3, <2>2 DEF RowOk, w
<1>4. CASE s = "low_confidence"
  <2>1. w = [row EXCEPT !.unsure = row.unsure \cup {t.rev}]
    BY <1>4 DEF Written, Row
  <2>2. /\ w \in Row /\ w.rev = row.rev /\ w.unsure = row.unsure \cup {t.rev} /\ w.firm = row.firm
        /\ w.enriched = row.enriched /\ w.vector = row.vector /\ w.status = row.status
    BY <1>1, <2>1 DEF Row
  <2> HIDE DEF w
  <2> QED BY <1>1, <1>4, <2>2 DEF RowOk, w
<1>5. CASE s = "embed"
  <2>1. w = SaveEmbedding(row, t.rev)
    BY <1>5 DEF Written
  <2>2. CASE row.rev = t.rev
    <3>1. w = [row EXCEPT !.vector = t.rev, !.status = "complete"]
      BY <2>1, <2>2 DEF SaveEmbedding
    <3>2. /\ w \in Row /\ w.rev = row.rev /\ w.firm = row.firm /\ w.unsure = row.unsure /\ w.enriched = row.enriched
          /\ w.vector = t.rev
      BY <1>1, <3>1 DEF Row, Statuses
    <3>3. t.rev \in row.firm /\ ("low_confidence" \in branches => t.rev \in row.unsure)
      BY <1>5, <2>2 DEF TaskOk
    <3> HIDE DEF w
    <3> QED BY <1>1, <1>5, <2>2, <3>2, <3>3 DEF RowOk, w
  <2>3. CASE row.rev # t.rev
    <3>1. w = row
      BY <2>1, <2>3 DEF SaveEmbedding
    <3> QED BY <1>5, <3>1
  <2> QED BY <2>2, <2>3
<1>6. CASE s \in {"tenant_match", "graph"}
  <2>1. w = row
    BY <1>6 DEF Written
  <2> QED BY <1>6, <2>1
<1> QED BY <1>2, <1>3, <1>4, <1>5, <1>6 DEF Stages
LEMMA FollowersShape ==
  ASSUME NEW s \in Stages
  PROVE  /\ Len(Followers(s)) \in 0 .. 2
         /\ \A n \in 0 .. 1 : n < Len(Followers(s)) =>
              LET f == Followers(s)[n + 1] IN
              /\ f \in Stages /\ f # s
              /\ f = "low_confidence" => s = "resolve"
              /\ f = "embed" => s = "low_confidence" \/ (s = "resolve" /\ "low_confidence" \notin branches)
<1> DEFINE Next(q) == \A n \in 0 .. 1 : n < Len(q) =>
              /\ q[n + 1] \in Stages /\ q[n + 1] # s
              /\ q[n + 1] = "low_confidence" => s = "resolve"
              /\ q[n + 1] = "embed" => s = "low_confidence" \/ (s = "resolve" /\ "low_confidence" \notin branches)
<1> SUFFICES Len(Followers(s)) \in 0 .. 2 /\ Next(Followers(s))
  OBVIOUS
<1>1. ASSUME NEW x \in Stages, x # s, x = "low_confidence" => s = "resolve",
             x = "embed" => s = "low_confidence" \/ (s = "resolve" /\ "low_confidence" \notin branches),
             Followers(s) = <<x>>
      PROVE  Len(Followers(s)) \in 0 .. 2 /\ Next(Followers(s))
  <2>1. Len(<<x>>) = 1 /\ <<x>>[1] = x
    OBVIOUS
  <2>2. Next(<<x>>)
    <3>1. \A n \in 0 .. 1 : n < 1 => n = 0
      OBVIOUS
    <3> QED BY <1>1, <2>1, <3>1
  <2> HIDE DEF Next
  <2> QED BY <1>1, <2>1, <2>2
<1>2. ASSUME NEW x \in Stages, x # s, x \notin {"low_confidence", "embed"},
             NEW y \in Stages, y # s, y # "low_confidence",
             y = "embed" => s = "low_confidence" \/ (s = "resolve" /\ "low_confidence" \notin branches),
             Followers(s) = <<x, y>>
      PROVE  Len(Followers(s)) \in 0 .. 2 /\ Next(Followers(s))
  <2>1. Len(<<x, y>>) = 2 /\ <<x, y>>[1] = x /\ <<x, y>>[2] = y
    OBVIOUS
  <2>2. Next(<<x, y>>)
    <3>1. \A n \in 0 .. 1 : n + 1 = 1 \/ n + 1 = 2
      OBVIOUS
    <3> QED BY <1>2, <2>1, <3>1
  <2> HIDE DEF Next
  <2> QED BY <1>2, <2>1, <2>2
<1>3. CASE s = "first_pass"
  <2>1. Followers(s) = <<"tenant_match", "resolve">> \/ Followers(s) = <<"resolve">>
    BY <1>3 DEF Followers
  <2> HIDE DEF Next
  <2> QED BY <1>1, <1>2, <1>3, <2>1 DEF Stages
<1>4. CASE s = "resolve" \/ s = "low_confidence"
  <2>1. \/ s = "resolve" /\ "low_confidence" \in branches /\ Followers(s) = <<"low_confidence">>
        \/ ((s = "resolve" /\ "low_confidence" \notin branches) \/ s = "low_confidence") /\ Followers(s) = AfterEntities
    BY <1>4 DEF Followers
  <2>2. AfterEntities = <<"graph", "embed">> \/ AfterEntities = <<"embed">>
    BY DEF AfterEntities
  <2> HIDE DEF Next
  <2>3. CASE Followers(s) = <<"low_confidence">> /\ s = "resolve"
    BY <1>1, <2>3 DEF Stages
  <2>4. CASE ((s = "resolve" /\ "low_confidence" \notin branches) \/ s = "low_confidence") /\ Followers(s) = <<"embed">>
    BY <1>1, <2>4 DEF Stages
  <2>5. CASE ((s = "resolve" /\ "low_confidence" \notin branches) \/ s = "low_confidence") /\ Followers(s) = <<"graph", "embed">>
    BY <1>2, <2>5 DEF Stages
  <2> QED BY <2>1, <2>2, <2>3, <2>4, <2>5
<1>5. CASE s \notin {"first_pass", "resolve", "low_confidence"}
  <2>1. Followers(s) = <<>>
    BY <1>5 DEF Followers
  <2>2. Len(<<>>) = 0
    OBVIOUS
  <2>3. \A n \in 0 .. 1 : ~(n < Len(Followers(s)))
    BY <2>1, <2>2
  <2>4. Len(Followers(s)) \in 0 .. 2
    BY <2>1, <2>2
  <2> QED BY <2>3, <2>4
<1> HIDE DEF Next
<1> QED BY <1>3, <1>4, <1>5

LEMMA StoreResultInv ==
  ASSUME PipeInv, UNCHANGED branches, NEW r \in Records, NEW s \in Stages, StoreResult(r, s)
  PROVE  PipeInv'
<1> DEFINE t == task[r][s]
           w == Written(record[r], s, t.rev)
           next == IF s = "first_pass" /\ record[r].rev # t.rev THEN Len(Followers(s)) ELSE 0
           d == [t EXCEPT !.at = "forwarding", !.next = next]
<1>1. /\ task \in TaskFun /\ record[r] \in Row /\ t \in TaskType /\ TaskOk(record[r], s, t) /\ RowOk(record[r])
      /\ record \in [Records -> Row] /\ t.at = "loaded" /\ UNCHANGED handoff
  BY PipeFacts DEF StoreResult
<1>2. /\ w \in Row /\ RowOk(w) /\ w.rev = record[r].rev /\ record[r].firm \subseteq w.firm /\ record[r].unsure \subseteq w.unsure
      /\ s = "resolve" => t.rev \in w.firm
      /\ s = "low_confidence" => t.rev \in w.unsure
  BY <1>1, WrittenRow
<1>3. next \in 0 .. 3
  BY FollowersShape
<1> HIDE DEF next
<1>4. d \in TaskType /\ d.at = "forwarding" /\ d.rev = t.rev
  BY <1>1, <1>3 DEF TaskType, TaskStates
<1>5. record' = [record EXCEPT ![r] = w] /\ task' = [task EXCEPT ![r][s] = d]
  BY <1>1 DEF StoreResult, TaskFun, next
<1> HIDE DEF w, d
<1>6. TaskOk(w, s, t)
  <2>1. record[r].rev <= w.rev
    BY <1>1, <1>2, PipeAssumption DEF Row, Revs
  <2> QED BY <1>1, <1>2, <2>1, RowGrows
<1>7. TaskOk(w, s, d)
  BY <1>1, <1>2, <1>4, <1>6 DEF TaskOk
<1>8. record[r].rev <= w.rev
  BY <1>1, <1>2, PipeAssumption DEF Row, Revs
<1> QED BY <1>1, <1>2, <1>4, <1>5, <1>7, <1>8, TaskKeeps

LEMMA ForwardNextInv ==
  ASSUME PipeInv, UNCHANGED branches, NEW r \in Records, NEW s \in Stages, ForwardNext(r, s)
  PROVE  PipeInv'
<1> DEFINE t == task[r][s]
           n == t.next
           d == [t EXCEPT !.next = n + 1]
           f == Followers(s)[n + 1]
           tasks == [task EXCEPT ![r][s] = d]
           e == EnqueueStage(tasks, r, f, t.rev)
<1>1. /\ task \in TaskFun /\ record[r] \in Row /\ t \in TaskType /\ TaskOk(record[r], s, t) /\ RowOk(record[r])
      /\ record \in [Records -> Row] /\ t.at = "forwarding" /\ n < Len(Followers(s)) /\ UNCHANGED <<record, handoff>>
      /\ t.rev \in Revs
  BY PipeFacts DEF ForwardNext, TaskType
<1>2. n \in 0 .. 1
  <2>1. n \in 0 .. 3
    BY <1>1 DEF TaskType
  <2>2. Len(Followers(s)) \in 0 .. 2
    BY FollowersShape
  <2> DEFINE l == Len(Followers(s))
  <2>3. n < l /\ l \in 0 .. 2
    BY <1>1, <2>2
  <2> HIDE DEF n, l
  <2> QED BY <2>1, <2>3
<1>3. /\ f \in Stages /\ f # s
      /\ f = "low_confidence" => s = "resolve"
      /\ f = "embed" => s = "low_confidence" \/ (s = "resolve" /\ "low_confidence" \notin branches)
  BY <1>1, <1>2, FollowersShape
<1>4. task' = e
  BY <1>1 DEF ForwardNext, TaskFun
<1>5. n + 1 \in 0 .. 3
  BY <1>2
<1> HIDE DEF f, n
<1>6. d \in TaskType /\ d.at = t.at /\ d.rev = t.rev
  BY <1>1, <1>5 DEF TaskType
<1> HIDE DEF d
<1>7. /\ tasks \in TaskFun /\ (\A q \in Records \ {r} : tasks[q] = task[q]) /\ tasks[r][s] = d
      /\ \A x \in Stages \ {s} : tasks[r][x] = task[r][x]
  BY <1>1, <1>6 DEF TaskFun
<1> HIDE DEF tasks
<1>8. /\ e \in TaskFun /\ (\A q \in Records \ {r} : e[q] = tasks[q]) /\ (\A x \in Stages \ {f} : e[r][x] = tasks[r][x])
      /\ e[r][f] = tasks[r][f] \/ e[r][f] = Fresh(t.rev)
  BY <1>1, <1>3, <1>7, Enqueued
<1> HIDE DEF e
<1>9. TaskOk(record[r], s, d)
  BY <1>1, <1>6 DEF TaskOk
<1>10. TaskOk(record[r], f, Fresh(t.rev))
  BY <1>1, <1>3 DEF TaskOk, Fresh
<1>11. \A x \in Stages : TaskOk(record[r], x, e[r][x])
  BY <1>3, <1>7, <1>8, <1>9, <1>10, PipeFacts
<1> DEFINE row == record[r]
<1>12. /\ record' = [record EXCEPT ![r] = row] /\ record[r].rev <= row.rev /\ handoff' \subseteq handoff
       /\ row \in Row /\ RowOk(row) /\ \A x \in Stages : TaskOk(row, x, task'[r][x])
  BY <1>1, <1>4, <1>11, PipeAssumption DEF Row, Revs
<1>13. task' \in TaskFun /\ \A q \in Records \ {r} : task'[q] = task[q]
  BY <1>4, <1>7, <1>8
<1> HIDE DEF row
<1> QED BY <1>12, <1>13, PipeKeeps

LEMMA AgainTask ==
  ASSUME NEW row, NEW s \in Stages, NEW t \in TaskType, TaskOk(row, s, t), t.at # "none"
  PROVE  Again(t, StageRetries) \in TaskType /\ TaskOk(row, s, Again(t, StageRetries))
<1>1. t.tries \in 0 .. StageRetries /\ StageRetries \in Nat
  BY PipeAssumption DEF TaskType
<1>2. CASE t.tries >= StageRetries
  <2> DEFINE none == 0
             d == [t EXCEPT !.at = "archived", !.next = none]
  <2>0. none \in 0 .. 3
    OBVIOUS
  <2> HIDE DEF none
  <2>1. d \in TaskType /\ d.at = "archived" /\ d.rev = t.rev
    BY <2>0 DEF TaskType, TaskStates
  <2>2. Again(t, StageRetries) = d
    BY <1>2 DEF Again, none
  <2> HIDE DEF d
  <2> QED BY <2>1, <2>2 DEF TaskOk
<1>3. CASE ~(t.tries >= StageRetries)
  <2> DEFINE tries == t.tries + 1
             none == 0
             d == [t EXCEPT !.at = "pending", !.tries = tries, !.next = none]
  <2>1. tries \in 0 .. StageRetries
    BY <1>1, <1>3
  <2>2. Again(t, StageRetries) = d
    BY <1>3 DEF Again, TaskType
  <2>0. none \in 0 .. 3
    OBVIOUS
  <2> HIDE DEF tries, none
  <2>3. d \in TaskType /\ d.at = "pending" /\ d.rev = t.rev
    BY <2>0, <2>1 DEF TaskType, TaskStates
  <2> HIDE DEF d
  <2> QED BY <2>2, <2>3 DEF TaskOk
<1> QED BY <1>2, <1>3

LEMMA FailedRow ==
  ASSUME NEW row \in Row, RowOk(row), row.rev > 0
  PROVE  MarkFailed(row) \in Row /\ RowOk(MarkFailed(row)) /\ MarkFailed(row).rev = row.rev
         /\ MarkFailed(row).firm = row.firm /\ MarkFailed(row).unsure = row.unsure
         /\ MarkFailed(row).enriched = row.enriched /\ MarkFailed(row).vector = row.vector
<1>1. CASE Terminal(row.status)
  BY <1>1 DEF MarkFailed
<1>2. CASE ~Terminal(row.status)
  <2> DEFINE w == [row EXCEPT !.status = "failed"]
  <2>1. /\ w \in Row /\ w.rev = row.rev /\ w.firm = row.firm /\ w.unsure = row.unsure /\ w.enriched = row.enriched
        /\ w.vector = row.vector
    BY DEF Row, Statuses
  <2>2. MarkFailed(row) = w
    BY <1>2 DEF MarkFailed
  <2> HIDE DEF w
  <2> QED BY <2>1, <2>2 DEF RowOk
<1> QED BY <1>1, <1>2

(* Failures and crashes. *)
LEMMA FailureInv ==
  ASSUME PipeInv, UNCHANGED branches, NEW r \in Records, NEW s \in Stages, FailTransient(r, s) \/ CrashWorker(r, s)
  PROVE  PipeInv'
<1> DEFINE t == task[r][s]
           d == Again(t, StageRetries)
<1>1. /\ task \in TaskFun /\ record[r] \in Row /\ t \in TaskType /\ TaskOk(record[r], s, t) /\ RowOk(record[r])
      /\ record \in [Records -> Row] /\ t.at # "none" /\ UNCHANGED handoff /\ record[r].rev \in Nat
      /\ record' = [record EXCEPT ![r] = record[r]] \/ record' = [record EXCEPT ![r] = MarkFailed(record[r])]
  BY PipeFacts, PipeAssumption DEF FailTransient, CrashWorker, Working, Row, Revs
<1>2. record[r].rev > 0
  BY <1>1, PipeAssumption DEF TaskOk, TaskType, Revs
<1>3. task' = [task EXCEPT ![r][s] = d]
  BY <1>1 DEF FailTransient, CrashWorker, TaskFun
<1>4. d \in TaskType /\ TaskOk(record[r], s, d)
  BY <1>1, AgainTask
<1> HIDE DEF d
<1>5. CASE record' = [record EXCEPT ![r] = record[r]]
  <2>1. record' = record
    BY <1>1, <1>5
  <2> QED BY <1>1, <1>3, <1>4, <2>1, TaskOnly
<1>6. CASE record' = [record EXCEPT ![r] = MarkFailed(record[r])]
  <2> DEFINE w == MarkFailed(record[r])
  <2>1. w \in Row /\ RowOk(w) /\ w.rev = record[r].rev /\ w.firm = record[r].firm /\ w.unsure = record[r].unsure
    BY <1>1, <1>2, FailedRow
  <2> HIDE DEF w
  <2>2. record' = [record EXCEPT ![r] = w] /\ record[r].rev <= w.rev
    BY <1>1, <1>6, <2>1 DEF w
  <2>3. TaskOk(w, s, d)
    BY <1>1, <1>4, <2>1, <2>2, RowGrows
  <2> QED BY <1>1, <1>3, <1>4, <2>1, <2>2, <2>3, TaskKeeps
<1> QED BY <1>1, <1>5, <1>6

LEMMA DoneInv ==
  ASSUME PipeInv, UNCHANGED branches, NEW r \in Records
  PROVE  /\ \A s \in Stages : AcknowledgeTask(r, s) => PipeInv'
         /\ RejectPermanent(r) => PipeInv'
         /\ ResetForRetry(r) => PipeInv'
<1>1. NoTask \in TaskType /\ NoTask.at = "none"
  BY PipeAssumption DEF NoTask, TaskType, TaskStates, Revs
<1>2. ASSUME NEW s \in Stages, AcknowledgeTask(r, s) PROVE PipeInv'
  <2>1. UNCHANGED <<record, handoff>> /\ task' = [task EXCEPT ![r][s] = NoTask]
    BY <1>2 DEF AcknowledgeTask
  <2>2. TaskOk(record[r], s, NoTask)
    BY <1>1 DEF TaskOk
  <2> QED BY <1>1, <2>1, <2>2, TaskOnly
<1>3. ASSUME RejectPermanent(r) PROVE PipeInv'
  <2> DEFINE s == "first_pass"
             w == MarkFailed(record[r])
  <2>1. /\ record[r] \in Row /\ RowOk(record[r]) /\ record[r].rev \in Nat /\ task[r][s] \in TaskType
        /\ TaskOk(record[r], s, task[r][s]) /\ task[r][s].at = "loaded" /\ UNCHANGED handoff
        /\ record' = [record EXCEPT ![r] = w] /\ task' = [task EXCEPT ![r][s] = NoTask] /\ s \in Stages
    BY <1>3, PipeFacts, FirstPassIsStage, PipeAssumption DEF RejectPermanent, Row, Revs
  <2>2. record[r].rev > 0
    BY <2>1, PipeAssumption DEF TaskOk, TaskType, Revs
  <2>3. w \in Row /\ RowOk(w) /\ w.rev = record[r].rev /\ w.firm = record[r].firm /\ w.unsure = record[r].unsure
    BY <2>1, <2>2, FailedRow
  <2> HIDE DEF w, s
  <2>4. TaskOk(w, s, NoTask) /\ record[r].rev <= w.rev
    BY <1>1, <2>1, <2>3 DEF TaskOk
  <2> QED BY <1>1, <2>1, <2>3, <2>4, TaskKeeps
<1>4. ASSUME ResetForRetry(r) PROVE PipeInv'
  <2> DEFINE w == [record[r] EXCEPT !.status = "captured"]
  <2>1. /\ record \in [Records -> Row] /\ record[r] \in Row /\ RowOk(record[r]) /\ task \in TaskFun /\ UNCHANGED <<task, handoff>>
        /\ record[r].status = "failed"
    BY <1>4, PipeFacts, FirstPassIsStage DEF ResetForRetry
  <2>2. /\ w \in Row /\ w.rev = record[r].rev /\ w.firm = record[r].firm /\ w.unsure = record[r].unsure
        /\ w.enriched = record[r].enriched /\ w.vector = record[r].vector
    BY <2>1 DEF Row, Statuses
  <2>3. record' = [record EXCEPT ![r] = w]
    BY <1>4, <2>1 DEF ResetForRetry
  <2> HIDE DEF w
  <2>4. RowOk(w) /\ record[r].rev <= w.rev
    BY <2>1, <2>2, PipeAssumption DEF RowOk, Row, Revs
  <2>5. \A s \in Stages : TaskOk(w, s, task'[r][s])
    BY <2>1, <2>2, <2>4, PipeFacts, RowGrows
  <2> QED BY <2>1, <2>2, <2>3, <2>4, <2>5, PipeKeeps
<1> QED BY <1>2, <1>3, <1>4
LEMMA PipeNextInv == PipeInv /\ [PipeNext]_pipeVars => PipeInv'
<1> SUFFICES ASSUME PipeInv, [PipeNext]_pipeVars PROVE PipeInv'
  OBVIOUS
<1>1. CASE UNCHANGED pipeVars
  BY <1>1 DEF pipeVars, pipeState, PipeInv, PipeTypeOK, RowOk, TaskOk
<1>2. CASE UNCHANGED branches /\ \E r \in Records : Capture(r) \/ Redrive(r) \/ RejectPermanent(r) \/ ResetForRetry(r)
  BY <1>2, CaptureInv, RedriveInv, DoneInv
<1>3. CASE UNCHANGED branches /\ \E h \in handoff : EnqueueGlobalFirstPass(h) \/ LoseHandoff(h)
  BY <1>3, HandoffInv
<1>4. CASE UNCHANGED branches /\ \E r \in Records, s \in Stages : PipeWorker(r, s) \/ FailTransient(r, s) \/ CrashWorker(r, s)
  BY <1>4, RunStageInv, StoreResultInv, ForwardNextInv, DoneInv, FailureInv DEF PipeWorker
<1> QED BY <1>1, <1>2, <1>3, <1>4 DEF PipeNext, PipeStep

LEMMA WritesAreCurrent ==
  PipeInv /\ [PipeNext]_pipeVars =>
    [\A r \in Records :
       /\ record'[r].enriched >= record[r].enriched
       /\ record'[r].enriched # record[r].enriched => record'[r].enriched = record[r].rev
       /\ record'[r].vector >= record[r].vector
       /\ record'[r].vector # record[r].vector => record'[r].vector = record[r].rev]_pipeVars
<1> SUFFICES ASSUME PipeInv, PipeNext, NEW r \in Records
             PROVE  /\ record'[r].enriched >= record[r].enriched
                    /\ record'[r].enriched # record[r].enriched => record'[r].enriched = record[r].rev
                    /\ record'[r].vector >= record[r].vector
                    /\ record'[r].vector # record[r].vector => record'[r].vector = record[r].rev
  OBVIOUS
<1> DEFINE row == record[r]
           Current(x) == (x.enriched = row.enriched \/ x.enriched = row.rev) /\ (x.vector = row.vector \/ x.vector = row.rev)
<1>1. record \in [Records -> Row] /\ row \in Row /\ RowOk(row) /\ task \in TaskFun
  BY PipeFacts, FirstPassIsStage
<1>2. /\ row.enriched \in Nat /\ row.vector \in Nat /\ row.rev \in Nat /\ row.enriched <= row.rev /\ row.vector <= row.rev
  BY <1>1, PipeAssumption DEF Row, Revs, RowOk
<1>3. SUFFICES Current(record'[r])
  <2> DEFINE e == record'[r].enriched
             v == record'[r].vector
  <2> SUFFICES ASSUME e = row.enriched \/ e = row.rev, v = row.vector \/ v = row.rev
               PROVE  e >= row.enriched /\ (e # row.enriched => e = row.rev) /\ v >= row.vector /\ (v # row.vector => v = row.rev)
    BY <1>3
  <2> HIDE DEF e, v
  <2> QED BY <1>2
<1>4. ASSUME NEW q \in Records, NEW w, record' = [record EXCEPT ![q] = w], q = r => Current(w) PROVE Current(record'[r])
  BY <1>1, <1>4
<1>5. CASE UNCHANGED record
  BY <1>5
<1>6. ASSUME NEW q \in Records, Capture(q) \/ ResetForRetry(q) PROVE Current(record'[r])
  <2>1. CASE Capture(q)
    <3>1. record[q] \in Row
      BY <1>1
    <3>2. record' = [record EXCEPT ![q] = UpsertCanonical(record[q], record[q].rev + 1)]
      BY <2>1 DEF Capture
    <3>3. Current(UpsertCanonical(record[r], record[r].rev + 1))
      BY <1>1 DEF UpsertCanonical, Row
    <3> QED BY <1>4, <3>2, <3>3
  <2>2. CASE ResetForRetry(q)
    <3>1. record' = [record EXCEPT ![q] = [record[q] EXCEPT !.status = "captured"]]
      BY <1>1, <2>2 DEF ResetForRetry
    <3>2. Current([record[r] EXCEPT !.status = "captured"])
      BY <1>1 DEF Row
    <3> QED BY <1>4, <3>1, <3>2
  <2> QED BY <1>6, <2>1, <2>2
<1>7. ASSUME NEW q \in Records, record' = [record EXCEPT ![q] = MarkFailed(record[q])] PROVE Current(record'[r])
  <2>1. Current(MarkFailed(record[r]))
    BY <1>1 DEF MarkFailed, Row
  <2> QED BY <1>4, <1>7, <2>1
<1>8. ASSUME NEW q \in Records, NEW s \in Stages, StoreResult(q, s) PROVE Current(record'[r])
  <2>1. record' = [record EXCEPT ![q] = Written(record[q], s, task[q][s].rev)] /\ task[q][s].at = "loaded"
    BY <1>8 DEF StoreResult
  <2>2. q = r => Current(Written(record[q], s, task[q][s].rev))
    BY <1>1, <2>1, WrittenRow, PipeFacts
  <2> QED BY <1>4, <2>1, <2>2
<1>9. \/ UNCHANGED record
      \/ \E q \in Records : Capture(q) \/ ResetForRetry(q) \/ record' = [record EXCEPT ![q] = MarkFailed(record[q])]
      \/ \E q \in Records, s \in Stages : StoreResult(q, s)
  <2>1. ASSUME NEW q \in Records, NEW s \in Stages, RunStage(q, s) PROVE UNCHANGED record
    BY <2>1 DEF RunStage, RunGlobalFirstPass, RunTenantMatch, RunResolveEntities, RunResolveLowConfidence, RunGraphProject,
                RunEmbed, TakeOrDrop, TakeTask, DropTask
  <2>2. ASSUME NEW q \in Records, NEW s \in Stages, PipeWorker(q, s) PROVE UNCHANGED record \/ StoreResult(q, s)
    BY <2>1, <2>2 DEF PipeWorker, ForwardNext, AcknowledgeTask
  <2>3. ASSUME NEW q \in Records, NEW s \in Stages, FailTransient(q, s) \/ CrashWorker(q, s) \/ RejectPermanent(q)
        PROVE  UNCHANGED record \/ record' = [record EXCEPT ![q] = MarkFailed(record[q])]
    BY <2>3 DEF FailTransient, CrashWorker, RejectPermanent
  <2>4. ASSUME NEW h \in handoff, EnqueueGlobalFirstPass(h) \/ LoseHandoff(h) PROVE UNCHANGED record
    BY <2>4 DEF EnqueueGlobalFirstPass, LoseHandoff
  <2>5. ASSUME NEW q \in Records, Redrive(q) PROVE UNCHANGED record
    BY <2>5 DEF Redrive
  <2> QED BY <2>2, <2>3, <2>4, <2>5, FirstPassIsStage DEF PipeNext, PipeStep
<1> HIDE DEF Current
<1> QED BY <1>5, <1>6, <1>7, <1>8, <1>9

(* Records, tasks and handoffs keep their types: revisions and attempts stay in bounds. *)
THEOREM PipeTypeCorrect == PipeSpec => []PipeTypeOK
<1>1. PipeInv => PipeTypeOK
  BY DEF PipeInv
<1> QED BY <1>1, PipeInitInv, PipeNextInv, PTL DEF PipeSpec

(* A record is embedded only after the entities of the same revision are resolved, and what
   arrives late never replaces the results of a newer revision: for any number of records,
   revisions and attempts, and whatever branches are configured. *)
THEOREM StagesKeepOrder == PipeSpec => StagesInOrder
<1>1. PipeInv => EmbeddedAfterEntities
  BY DEF PipeInv, RowOk, EmbeddedAfterEntities
<1> QED BY <1>1, PipeInitInv, PipeNextInv, WritesAreCurrent, PTL DEF PipeSpec, StagesInOrder, RevisionsOnlyAdvance
---------------------------------------------------------------------------
(* The entity registry. *)

Pairs == EntityIds \X EntityIds
Tiers == {"placeholder", "believed"}
SweepType(n) ==
  [at : {"idle", "propose", "judge", "finish", "promote"}, batch : SUBSET (1 .. n),
   left : SUBSET (1 .. n), entity : {0} \cup (1 .. n), rows : SUBSET Pairs]

\* A resolution proposes two entities, and the sweep promotes one that was created.
EntityInv ==
  /\ EntityTypeOK
  /\ \A p \in resolves : p[1] # p[2]
  /\ sweep.at = "promote" => sweep.entity # 0
  /\ FoldedByDecisions

\* What a step does to the rows: whatever was decided stays, a row is of two entities there are.
RowsStand ==
  /\ merges' \in [Pairs -> {"none", "rejected", "applied"} \cup Undecided]
  /\ \A p \in Pairs : merges[p] \in {"rejected", "applied"} => merges'[p] = merges[p]
  /\ \A p \in Pairs : merges'[p] # "none" => merges[p] # "none" \/ (p[1] # p[2] /\ {p[1], p[2]} \subseteq KnownEntities)

LEMMA EntityFacts ==
  ASSUME EntityInv
  PROVE  /\ tier \in Seq(Tiers) /\ Len(tier) \in 0 .. MaxEntities /\ MaxEntities \in Nat
         /\ KnownEntities = 1 .. Len(tier) /\ KnownEntities \subseteq EntityIds
         /\ overlay \in [EntityIds -> {0} \cup KnownEntities]
         /\ merges \in [Pairs -> {"none", "rejected", "applied"} \cup Undecided]
         /\ \A p \in Pairs : merges[p] # "none" => p[1] # p[2] /\ {p[1], p[2]} \subseteq KnownEntities
         /\ resolves \subseteq KnownEntities \X ({0} \cup KnownEntities)
         /\ sweep \in SweepType(Len(tier))
<1>1. tier \in Seq(Tiers) /\ Len(tier) <= MaxEntities /\ MaxEntities \in Nat
  BY EntityAssumption DEF EntityInv, EntityTypeOK, Tiers
<1>2. Len(tier) \in Nat
  BY <1>1, LenProperties
<1>3. KnownEntities = 1 .. Len(tier) /\ KnownEntities \subseteq EntityIds
  BY <1>1, <1>2 DEF KnownEntities, EntityIds
<1>4. overlay \in [EntityIds -> {0} \cup KnownEntities] /\ resolves \subseteq KnownEntities \X ({0} \cup KnownEntities)
  BY DEF EntityInv, EntityTypeOK
<1>5. merges \in [Pairs -> {"none", "rejected", "applied"} \cup Undecided]
  BY DEF EntityInv, EntityTypeOK, Pairs
<1>6. ASSUME NEW p \in Pairs, merges[p] # "none" PROVE p[1] # p[2] /\ {p[1], p[2]} \subseteq KnownEntities
  <2>1. p = <<p[1], p[2]>> /\ p[1] \in EntityIds /\ p[2] \in EntityIds
    BY DEF Pairs
  <2>2. \A e, f \in EntityIds : merges[<<e, f>>] # "none" => e # f /\ {e, f} \subseteq KnownEntities
    BY DEF EntityInv, EntityTypeOK
  <2> QED BY <1>6, <2>1, <2>2
<1>7. sweep \in SweepType(Len(tier))
  BY <1>3 DEF EntityInv, EntityTypeOK, SweepType, Pairs
<1> QED BY <1>1, <1>2, <1>3, <1>4, <1>5, <1>6, <1>7

\* A step that leaves the overlay alone and lets the decisions stand.
LEMMA FoldsKeep ==
  ASSUME EntityInv, RowsStand, overlay' = overlay
  PROVE  FoldedByDecisions'
<1>1. ASSUME NEW e \in EntityIds, overlay[e] # 0, NEW S \in ClosedUnder(Joined'), e \in S PROVE overlay[e] \in S
  <2>1. Joined \subseteq Joined'
    BY DEF Joined, RowsStand, Pairs
  <2>2. S \in ClosedUnder(Joined)
    BY <2>1 DEF ClosedUnder
  <2> QED BY <1>1, <2>2 DEF EntityInv, FoldedByDecisions, LeadsTo
<1> QED BY <1>1 DEF FoldedByDecisions, LeadsTo, ClosedUnder

\* A step that also gives the other variables values of their types.
LEMMA EntityKeeps ==
  ASSUME EntityInv, RowsStand,
         tier' \in Seq(Tiers), Len(tier) <= Len(tier'), Len(tier') <= MaxEntities,
         FoldedByDecisions', overlay' \in [EntityIds -> {0} \cup KnownEntities'],
         resolves' \subseteq KnownEntities' \X ({0} \cup KnownEntities'), \A p \in resolves' : p[1] # p[2],
         sweep' \in SweepType(Len(tier')), sweep'.at = "promote" => sweep'.entity # 0
  PROVE  EntityInv'
<1>1. Len(tier') \in Nat /\ KnownEntities' = 1 .. Len(tier') /\ KnownEntities \subseteq KnownEntities'
  BY LenProperties, EntityFacts DEF KnownEntities
<1>2. ASSUME NEW e \in EntityIds, NEW f \in EntityIds, merges'[<<e, f>>] # "none" PROVE e # f /\ {e, f} \subseteq KnownEntities'
  <2> DEFINE p == <<e, f>>
  <2>1. p \in Pairs /\ p[1] = e /\ p[2] = f
    BY DEF Pairs
  <2> HIDE DEF p
  <2>2. p[1] # p[2] /\ {p[1], p[2]} \subseteq KnownEntities
    BY <1>2, <2>1, EntityFacts DEF RowsStand, p
  <2> QED BY <1>1, <2>1, <2>2
<1>3. EntityTypeOK'
  BY <1>1, <1>2 DEF EntityTypeOK, RowsStand, SweepType, Pairs, Tiers, Undecided
<1> QED BY <1>3 DEF EntityInv
LEMMA MintKeeps ==
  ASSUME EntityInv, NEW trust \in Tiers, Mint(trust)
  PROVE  tier' \in Seq(Tiers) /\ Len(tier') = Len(tier) + 1 /\ Len(tier') <= MaxEntities /\ Len(tier) + 1 \in KnownEntities'
<1>1. tier \in Seq(Tiers) /\ Len(tier) \in Nat /\ tier' = Append(tier, trust) /\ Len(tier) < MaxEntities /\ MaxEntities \in Nat
  BY EntityFacts DEF Mint
<1>2. tier' \in Seq(Tiers) /\ Len(tier') = Len(tier) + 1
  BY <1>1, AppendProperties
<1> QED BY <1>1, <1>2 DEF KnownEntities

LEMMA PromoteKeeps ==
  ASSUME EntityInv, NEW e \in KnownEntities, Promote(e)
  PROVE  tier' \in Seq(Tiers) /\ Len(tier') = Len(tier)
<1>1. tier \in Seq(Tiers) /\ e \in 1 .. Len(tier) /\ "believed" \in Tiers
  BY EntityFacts DEF Tiers
<1>2. tier' = [tier EXCEPT ![e] = "believed"]
  BY DEF Promote
<1> QED BY <1>1, <1>2, ExceptSeq

\* A step of the resolver or the editor: an entity more, or resolutions moved on.
LEMMA ResolverInv ==
  ASSUME EntityInv, NEW e \in EntityIds,
         CreateSharedEntity \/ CreatePlaceholder \/ ProposeFuzzyMerge(e)
  PROVE  EntityInv'
<1> DEFINE n == Len(tier) + 1
<1>0. UNCHANGED <<overlay, merges, sweep>> /\ sweep \in SweepType(Len(tier))
  BY EntityFacts DEF CreateSharedEntity, CreatePlaceholder, ProposeFuzzyMerge
<1>1. tier' \in Seq(Tiers) /\ Len(tier) <= Len(tier') /\ Len(tier') <= MaxEntities
  <2>1. CASE CreateSharedEntity \/ CreatePlaceholder
    BY <2>1, MintKeeps, EntityFacts DEF CreateSharedEntity, CreatePlaceholder, Tiers
  <2>2. CASE ProposeFuzzyMerge(e)
    BY <2>2, EntityFacts DEF ProposeFuzzyMerge
  <2> QED BY <2>1, <2>2
<1>2. Len(tier') \in Nat /\ KnownEntities' = 1 .. Len(tier') /\ KnownEntities \subseteq KnownEntities'
  BY <1>1, LenProperties, EntityFacts DEF KnownEntities
<1>3. RowsStand
  BY <1>0, EntityFacts DEF RowsStand
<1>4. overlay' \in [EntityIds -> {0} \cup KnownEntities'] /\ FoldedByDecisions'
  BY <1>0, <1>2, <1>3, FoldsKeep, EntityFacts
<1>5. sweep' \in SweepType(Len(tier')) /\ (sweep'.at = "promote" => sweep'.entity # 0)
  <2>1. 1 .. Len(tier) \subseteq 1 .. Len(tier')
    BY <1>1, <1>2, EntityFacts
  <2>2. sweep \in SweepType(Len(tier'))
    BY <1>0, <2>1 DEF SweepType
  <2> QED BY <1>0, <2>2 DEF EntityInv
<1>6. resolves' \subseteq KnownEntities' \X ({0} \cup KnownEntities') /\ \A p \in resolves' : p[1] # p[2]
  <2>0. resolves \subseteq KnownEntities' \X ({0} \cup KnownEntities') /\ \A p \in resolves : p[1] # p[2]
    BY <1>2, EntityFacts DEF EntityInv
  <2>1. CASE CreateSharedEntity
    <3> DEFINE new == <<n, 0>>
    <3>1. n \in KnownEntities' /\ n # 0
      BY <2>1, <1>2, MintKeeps, EntityFacts DEF CreateSharedEntity, Tiers
    <3>2. new \in KnownEntities' \X ({0} \cup KnownEntities') /\ new[1] # new[2]
      BY <3>1
    <3>3. resolves' = resolves \cup {new}
      BY <2>1 DEF CreateSharedEntity
    <3> HIDE DEF new
    <3> QED BY <2>0, <3>2, <3>3
  <2>2. CASE CreatePlaceholder
    BY <2>0, <2>2 DEF CreatePlaceholder
  <2>3. CASE ProposeFuzzyMerge(e)
    <3>1. e \in KnownEntities
      BY <2>3, EntityFacts DEF ProposeFuzzyMerge
    <3>2. CASE Near(e) = {} /\ resolves' = resolves \ {<<e, 0>>}
      BY <2>0, <3>2
    <3>3. ASSUME NEW f \in Near(e), resolves' = (resolves \ {<<e, 0>>}) \cup IF Unheard(<<e, f>>) THEN {<<e, f>>} ELSE {}
          PROVE  resolves' \subseteq KnownEntities' \X ({0} \cup KnownEntities') /\ \A p \in resolves' : p[1] # p[2]
      <4> DEFINE p == <<e, f>>
      <4>1. p \in KnownEntities' \X ({0} \cup KnownEntities') /\ p[1] # p[2]
        BY <1>2, <3>1, <3>3 DEF Near
      <4>2. resolves' \subseteq resolves \cup {p}
        BY <3>3
      <4> HIDE DEF p
      <4> QED BY <2>0, <4>1, <4>2
    <3> QED BY <2>3, <3>2, <3>3 DEF ProposeFuzzyMerge
  <2> QED BY <2>1, <2>2, <2>3
<1> HIDE DEF n
<1> QED BY <1>1, <1>3, <1>4, <1>5, <1>6, EntityKeeps

\* A step that changes one row nobody has decided.
LEMMA RowStands ==
  ASSUME EntityInv, NEW p \in Pairs, NEW answer \in {"rejected", "applied"} \cup Undecided,
         merges[p] \notin {"rejected", "applied"}, p[1] # p[2] /\ {p[1], p[2]} \subseteq KnownEntities,
         merges' = [merges EXCEPT ![p] = answer]
  PROVE  RowsStand
<1>1. merges \in [Pairs -> {"none", "rejected", "applied"} \cup Undecided]
  BY EntityFacts
<1> QED BY <1>1 DEF RowsStand

LEMMA InsertMergeInv == ASSUME EntityInv, NEW p \in Pairs, InsertMerge(p) PROVE RowsStand /\ EntityInv'
<1>1. /\ p \in resolves /\ p[2] # 0 /\ resolves' = resolves \ {p} /\ UNCHANGED <<tier, overlay, sweep>>
      /\ p[1] # p[2] /\ {p[1], p[2]} \subseteq KnownEntities
  BY EntityFacts DEF InsertMerge, EntityInv
<1>2. RowsStand
  <2>1. PICK answer \in {WrittenFor(p)} \cup IF registry.judge THEN {"rejected", "sure"} ELSE {} :
          merges' = IF merges[p] = "none" THEN [merges EXCEPT ![p] = answer] ELSE merges
    BY DEF InsertMerge
  <2>2. answer \in {"rejected", "applied"} \cup Undecided
    BY <2>1 DEF WrittenFor, Undecided
  <2>3. CASE merges[p] = "none"
    BY <1>1, <2>1, <2>2, <2>3, RowStands
  <2>4. CASE merges[p] # "none"
    BY <2>1, <2>4, EntityFacts DEF RowsStand
  <2> QED BY <2>3, <2>4
<1>3. FoldedByDecisions'
  BY <1>1, <1>2, FoldsKeep
<1>4. KnownEntities' = KnownEntities
  BY <1>1 DEF KnownEntities
<1> QED BY <1>1, <1>2, <1>3, <1>4, EntityKeeps, EntityFacts DEF EntityInv
\* The from-entity, and perhaps what was merged into it, is pointed at the other's root.
LEMMA FoldApplies ==
  ASSUME EntityInv, RowsStand, NEW p \in Pairs, merges'[p] = "applied",
         \A e \in EntityIds : overlay'[e] = overlay[e]
            \/ ((e = p[1] \/ overlay[e] = p[1]) /\ overlay'[e] = RootOf(p[2]))
  PROVE  FoldedByDecisions'
<1>1. ASSUME NEW e \in EntityIds, overlay'[e] # 0, NEW S \in ClosedUnder(Joined'), e \in S PROVE overlay'[e] \in S
  <2>1. Joined \subseteq Joined' /\ p \in Joined' /\ p[1] \in EntityIds /\ p[2] \in EntityIds
    BY DEF Joined, RowsStand, Pairs
  <2>2. S \in ClosedUnder(Joined) /\ (p[1] \in S => p[2] \in S)
    BY <2>1 DEF ClosedUnder
  <2>3. \A f \in EntityIds : overlay[f] # 0 /\ f \in S => overlay[f] \in S
    BY <2>2 DEF EntityInv, FoldedByDecisions, LeadsTo
  <2>4. CASE overlay'[e] = overlay[e]
    BY <1>1, <2>3, <2>4
  <2>5. CASE (e = p[1] \/ overlay[e] = p[1]) /\ overlay'[e] = RootOf(p[2])
    <3>1. 0 \notin EntityIds
      BY EntityFacts DEF EntityIds
    <3>2. p[1] \in S
      BY <1>1, <2>1, <2>3, <2>5, <3>1
    <3>3. p[2] \in S
      BY <2>2, <3>2
    <3>4. RootOf(p[2]) \in S
      BY <2>1, <2>3, <3>3 DEF RootOf
    <3> QED BY <2>5, <3>4
  <2> QED BY <2>4, <2>5
<1> QED BY <1>1 DEF FoldedByDecisions, LeadsTo, ClosedUnder

LEMMA RootIsKnown ==
  ASSUME EntityInv, NEW p \in Pairs, merges[p] # "none"
  PROVE  RootOf(p[2]) \in KnownEntities /\ p[1] # p[2] /\ {p[1], p[2]} \subseteq KnownEntities
<1>1. p[1] # p[2] /\ {p[1], p[2]} \subseteq KnownEntities /\ overlay[p[2]] \in {0} \cup KnownEntities
  BY EntityFacts DEF Pairs
<1> QED BY <1>1 DEF RootOf

\* The rows and the overlay after an answer.
LEMMA AnswerKeeps ==
  ASSUME EntityInv, NEW p \in Pairs, NEW answer \in {"rejected", "applied"} \cup Undecided, merges[p] \in Undecided,
         merges' = [merges EXCEPT ![p] = answer],
         overlay' = overlay \/ (answer = "applied" /\ (overlay' = Folded(p) \/ overlay' = [overlay EXCEPT ![p[1]] = RootOf(p[2])]))
  PROVE  RowsStand /\ FoldedByDecisions' /\ overlay' \in [EntityIds -> {0} \cup KnownEntities]
<1>0. merges[p] \notin {"none", "rejected", "applied"}
  BY DEF Undecided
<1>1. RootOf(p[2]) \in KnownEntities /\ p[1] # p[2] /\ {p[1], p[2]} \subseteq KnownEntities
  BY <1>0, RootIsKnown
<1>2. RowsStand
  BY <1>0, <1>1, RowStands
<1>3. CASE overlay' = overlay
  BY <1>2, <1>3, FoldsKeep, EntityFacts
<1>4. CASE answer = "applied" /\ (overlay' = Folded(p) \/ overlay' = [overlay EXCEPT ![p[1]] = RootOf(p[2])])
  <2> DEFINE root == RootOf(p[2])
  <2>1. overlay \in [EntityIds -> {0} \cup KnownEntities] /\ merges'[p] = "applied"
    BY <1>4, EntityFacts
  <2>2. overlay' = [e \in EntityIds |-> IF e = p[1] \/ overlay[e] = p[1] THEN root ELSE overlay[e]]
        \/ overlay' = [overlay EXCEPT ![p[1]] = root]
    BY <1>4 DEF Folded
  <2>3. root \in KnownEntities
    BY <1>1
  <2> HIDE DEF root
  <2>4. overlay' \in [EntityIds -> {0} \cup KnownEntities]
    BY <2>1, <2>2, <2>3
  <2>5. \A e \in EntityIds : overlay'[e] = overlay[e] \/ ((e = p[1] \/ overlay[e] = p[1]) /\ overlay'[e] = root)
    BY <2>1, <2>2
  <2>6. FoldedByDecisions'
    BY <1>2, <2>1, <2>5, FoldApplies DEF root
  <2> QED BY <1>2, <2>4, <2>6
<1> QED BY <1>3, <1>4

LEMMA UserAnswersInv == ASSUME EntityInv, NEW p \in Pairs, AcceptMerge(p) \/ RejectMerge(p) PROVE RowsStand /\ EntityInv'
<1>1. UNCHANGED <<tier, resolves, sweep>> /\ merges[p] \in Undecided
  BY DEF AcceptMerge, RejectMerge
<1>2. RowsStand /\ FoldedByDecisions' /\ overlay' \in [EntityIds -> {0} \cup KnownEntities]
  <2>1. CASE AcceptMerge(p)
    BY <1>1, <2>1, AnswerKeeps DEF AcceptMerge
  <2>2. CASE RejectMerge(p)
    BY <1>1, <2>2, AnswerKeeps DEF RejectMerge
  <2> QED BY <2>1, <2>2
<1>3. KnownEntities' = KnownEntities
  BY <1>1 DEF KnownEntities
<1> QED BY <1>1, <1>2, <1>3, EntityKeeps, EntityFacts DEF EntityInv
---------------------------------------------------------------------------

\* A step of the sweep that moves only its own state.
LEMMA SweepKeeps ==
  ASSUME EntityInv, UNCHANGED <<tier, overlay, merges, resolves>>,
         sweep' \in SweepType(Len(tier)), sweep'.at = "promote" => sweep'.entity # 0
  PROVE  RowsStand /\ EntityInv'
<1>1. RowsStand
  BY EntityFacts DEF RowsStand
<1>2. FoldedByDecisions'
  BY <1>1, FoldsKeep
<1>3. KnownEntities' = KnownEntities
  BY DEF KnownEntities
<1> QED BY <1>1, <1>2, <1>3, EntityKeeps, EntityFacts DEF EntityInv

LEMMA SweepBeginsInv == ASSUME EntityInv, SweepBegins PROVE RowsStand /\ EntityInv'
<1> DEFINE chosen == First(Placeholders)
<1>1. chosen \subseteq 1 .. Len(tier)
  BY EntityFacts DEF First, Placeholders
<1>2. sweep' = [Idle EXCEPT !.at = "propose", !.batch = chosen, !.left = chosen]
  BY DEF SweepBegins
<1> HIDE DEF chosen
<1>3. sweep' = [at |-> "propose", batch |-> chosen, left |-> chosen, entity |-> 0, rows |-> {}]
  BY <1>2 DEF Idle
<1>4. sweep' \in SweepType(Len(tier)) /\ sweep'.at = "propose"
  BY <1>1, <1>3 DEF SweepType
<1> QED BY <1>4, SweepKeeps DEF SweepBegins

LEMMA SweepListsInv == ASSUME EntityInv, SweepLists PROVE RowsStand /\ EntityInv'
<1>1. PICK pairs \in SUBSET Unjudged : sweep' = [sweep EXCEPT !.at = "judge", !.rows = pairs]
  BY DEF SweepLists
<1>2. pairs \in SUBSET Pairs
  BY DEF Unjudged, Pairs
<1>3. sweep' \in SweepType(Len(tier)) /\ sweep'.at = "judge"
  BY <1>1, <1>2, EntityFacts DEF SweepType
<1> QED BY <1>3, SweepKeeps DEF SweepLists

LEMMA SweepFinishesInv == ASSUME EntityInv, SweepFinishes PROVE RowsStand /\ EntityInv'
<1> DEFINE b == sweep.batch
<1>1. sweep \in SweepType(Len(tier)) /\ sweep' = [sweep EXCEPT !.at = "finish", !.left = b] /\ b \in SUBSET (1 .. Len(tier))
  BY EntityFacts DEF SweepFinishes, SweepType
<1> HIDE DEF b
<1>2. sweep' \in SweepType(Len(tier)) /\ sweep'.at = "finish"
  BY <1>1 DEF SweepType
<1> QED BY <1>2, SweepKeeps DEF SweepFinishes

LEMMA SweepChecksInv == ASSUME EntityInv, SweepChecks PROVE RowsStand /\ EntityInv'
<1>1. CASE sweep.left = {} /\ sweep' = Idle
  <2>1. sweep' \in SweepType(Len(tier)) /\ sweep'.at = "idle"
    BY <1>1 DEF SweepType, Idle
  <2> QED BY <2>1, SweepKeeps DEF SweepChecks
<1>2. CASE sweep.left # {}
  <2> DEFINE e == Min(sweep.left)
             at == IF RootOf(e) = e /\ ~Asked(e) THEN "promote" ELSE "finish"
             left == sweep.left \ {e}
  <2>1. sweep \in SweepType(Len(tier)) /\ sweep.left \in SUBSET (1 .. Len(tier)) /\ Len(tier) \in Nat
    BY EntityFacts DEF SweepType
  <2>2. sweep.left \in SUBSET Nat
    BY <2>1
  <2>3. e \in sweep.left
    BY <1>2, <2>2, MinOf
  <2>4. e \in 1 .. Len(tier) /\ e # 0 /\ left \in SUBSET (1 .. Len(tier)) /\ at \in {"promote", "finish"}
    BY <2>1, <2>3
  <2>5. sweep' = [sweep EXCEPT !.left = left, !.entity = e, !.at = at]
    BY <1>2 DEF SweepChecks
  <2> HIDE DEF e, at, left
  <2>6. sweep' \in SweepType(Len(tier)) /\ sweep'.entity # 0
    BY <2>1, <2>4, <2>5 DEF SweepType
  <2> QED BY <2>6, SweepKeeps DEF SweepChecks
<1> QED BY <1>1, <1>2 DEF SweepChecks

LEMMA SweepDecidesInv == ASSUME EntityInv, SweepDecides PROVE RowsStand /\ EntityInv'
<1>1. PICK p \in sweep.rows :
        /\ sweep' = [sweep EXCEPT !.rows = @ \ {p}]
        /\ \E verdict \in Verdicts(p) :
             IF verdict = "none" THEN UNCHANGED <<merges, overlay>> ELSE DecideMerge(p, verdict)
  BY DEF SweepDecides
<1>2. p \in Pairs /\ sweep \in SweepType(Len(tier)) /\ UNCHANGED <<tier, resolves>> /\ sweep.at = "judge"
  BY EntityFacts DEF SweepType, SweepDecides
<1> DEFINE pairs == sweep.rows \ {p}
<1>3. pairs \in SUBSET Pairs /\ sweep' = [sweep EXCEPT !.rows = pairs]
  BY <1>1, <1>2 DEF SweepType
<1> HIDE DEF pairs
<1>4. sweep' \in SweepType(Len(tier)) /\ sweep'.at = "judge"
  BY <1>2, <1>3 DEF SweepType
<1>5. CASE UNCHANGED <<merges, overlay>>
  BY <1>2, <1>4, <1>5, SweepKeeps
<1>6. ASSUME merges[p] \in Undecided, NEW verdict \in {"applied", "rejected", "unsure"},
             merges' = [merges EXCEPT ![p] = verdict], overlay' = IF verdict = "applied" THEN Folded(p) ELSE overlay
      PROVE  RowsStand /\ EntityInv'
  <2>1. verdict \in {"rejected", "applied"} \cup Undecided
    BY DEF Undecided
  <2>2. overlay' = overlay \/ (verdict = "applied" /\ overlay' = Folded(p))
    BY <1>6
  <2>3. RowsStand /\ FoldedByDecisions' /\ overlay' \in [EntityIds -> {0} \cup KnownEntities]
    BY <1>2, <1>6, <2>1, <2>2, AnswerKeeps
  <2>4. KnownEntities' = KnownEntities
    BY <1>2 DEF KnownEntities
  <2> QED BY <1>2, <1>4, <2>3, <2>4, EntityKeeps, EntityFacts DEF EntityInv
<1>7. Verdicts(p) \subseteq {"none", "applied", "rejected", "unsure"}
  BY DEF Verdicts
<1>8. \/ UNCHANGED <<merges, overlay>>
      \/ \E verdict \in {"applied", "rejected", "unsure"} : DecideMerge(p, verdict)
  BY <1>1, <1>7
<1>9. ASSUME NEW verdict \in {"applied", "rejected", "unsure"}, DecideMerge(p, verdict) PROVE RowsStand /\ EntityInv'
  BY <1>5, <1>6, <1>9 DEF DecideMerge
<1> QED BY <1>5, <1>8, <1>9

LEMMA SweepProposesInv == ASSUME EntityInv, SweepProposes PROVE RowsStand /\ EntityInv'
<1> DEFINE e == Min(sweep.left)
           left == sweep.left \ {e}
<1>1. sweep \in SweepType(Len(tier)) /\ sweep.left \in SUBSET (1 .. Len(tier)) /\ Len(tier) \in Nat /\ sweep.left # {}
  BY EntityFacts DEF SweepType, SweepProposes
<1>2. sweep.left \in SUBSET Nat
  BY <1>1
<1>3. e \in sweep.left
  BY <1>1, <1>2, MinOf
<1>4. e \in KnownEntities /\ left \in SUBSET (1 .. Len(tier)) /\ sweep' = [sweep EXCEPT !.left = left]
  BY <1>1, <1>3, EntityFacts DEF SweepProposes
<1>5. \/ Candidates(e) = {} /\ Promote(e) /\ UNCHANGED merges
      \/ UNCHANGED tier /\ merges' = [p \in Pairs |->
            IF p[1] = e /\ p[2] \in Candidates(e) /\ Unheard(p) THEN WrittenFor(p) ELSE merges[p]]
  BY DEF SweepProposes, Pairs
<1>6. UNCHANGED <<overlay, resolves>> /\ sweep.at = "propose"
  BY DEF SweepProposes
<1> HIDE DEF e, left
<1>7. sweep' \in SweepType(Len(tier)) /\ sweep'.at = "propose"
  BY <1>1, <1>4, <1>6 DEF SweepType
<1>8. tier' \in Seq(Tiers) /\ Len(tier') = Len(tier)
  BY <1>4, <1>5, PromoteKeeps, EntityFacts
<1>9. KnownEntities' = KnownEntities
  BY <1>8 DEF KnownEntities
<1>10. RowsStand
  <2>1. CASE UNCHANGED merges
    BY <2>1, EntityFacts DEF RowsStand
  <2>2. CASE merges' = [p \in Pairs |-> IF p[1] = e /\ p[2] \in Candidates(e) /\ Unheard(p) THEN WrittenFor(p) ELSE merges[p]]
    <3>1. \A p \in Pairs : WrittenFor(p) \in Undecided
      BY DEF WrittenFor, Undecided
    <3>2. Candidates(e) \subseteq KnownEntities \ {e}
      BY DEF Candidates, Near
    <3>3. \A p \in Pairs : Unheard(p) => merges[p] = "none"
      BY DEF Unheard
    <3>4. merges' \in [Pairs -> {"none", "rejected", "applied"} \cup Undecided]
      BY <2>2, <3>1, EntityFacts
    <3> QED BY <1>4, <2>2, <3>1, <3>2, <3>3, <3>4, EntityFacts DEF RowsStand
  <2> QED BY <1>5, <2>1, <2>2
<1>11. FoldedByDecisions'
  BY <1>6, <1>10, FoldsKeep
<1> QED BY <1>6, <1>7, <1>8, <1>9, <1>10, <1>11, EntityKeeps, EntityFacts DEF EntityInv

LEMMA SweepPromotesInv == ASSUME EntityInv, SweepPromotes PROVE RowsStand /\ EntityInv'
<1>1. sweep.entity \in KnownEntities /\ sweep \in SweepType(Len(tier)) /\ UNCHANGED <<overlay, merges, resolves>>
  BY EntityFacts DEF SweepType, SweepPromotes, EntityInv
<1>2. tier' \in Seq(Tiers) /\ Len(tier') = Len(tier)
  BY <1>1, PromoteKeeps DEF SweepPromotes
<1>3. sweep' \in SweepType(Len(tier)) /\ sweep'.at = "finish"
  BY <1>1 DEF SweepType, SweepPromotes
<1>4. RowsStand
  BY <1>1, EntityFacts DEF RowsStand
<1>5. FoldedByDecisions' /\ KnownEntities' = KnownEntities
  BY <1>1, <1>2, <1>4, FoldsKeep DEF KnownEntities
<1> QED BY <1>1, <1>2, <1>3, <1>4, <1>5, EntityKeeps, EntityFacts DEF EntityInv

LEMMA EntityNextInv == EntityInv /\ [EntityNext]_entityVars => RowsStand /\ EntityInv'
<1> SUFFICES ASSUME EntityInv, [EntityNext]_entityVars PROVE RowsStand /\ EntityInv'
  OBVIOUS
<1>1. ASSUME UNCHANGED <<tier, overlay, merges>>, resolves' = resolves \/ resolves' = {}, sweep' = sweep \/ sweep' = Idle
      PROVE  RowsStand /\ EntityInv'
  <2>1. RowsStand /\ KnownEntities' = KnownEntities
    BY <1>1, EntityFacts DEF RowsStand, KnownEntities
  <2>2. sweep' \in SweepType(Len(tier)) /\ (sweep'.at = "promote" => sweep'.entity # 0)
    BY <1>1, EntityFacts DEF SweepType, Idle, EntityInv
  <2> QED BY <1>1, <2>1, <2>2, FoldsKeep, EntityKeeps, EntityFacts DEF EntityInv
<1>2. ASSUME NEW e \in EntityIds, CreateSharedEntity \/ CreatePlaceholder \/ ProposeFuzzyMerge(e) PROVE RowsStand /\ EntityInv'
  <2>1. RowsStand
    BY <1>2, EntityFacts DEF RowsStand, CreateSharedEntity, CreatePlaceholder, ProposeFuzzyMerge
  <2> QED BY <1>2, <2>1, ResolverInv
<1>3. ASSUME CreateSharedEntity \/ CreatePlaceholder PROVE RowsStand /\ EntityInv'
  <2>1. Len(tier) < MaxEntities /\ Len(tier) \in Nat /\ MaxEntities \in Nat
    BY <1>3, EntityFacts DEF CreateSharedEntity, CreatePlaceholder, Mint
  <2>2. 1 \in EntityIds
    BY <2>1 DEF EntityIds
  <2> QED BY <1>2, <1>3, <2>2
<1>4. ASSUME NEW p \in Pairs, InsertMerge(p) \/ AcceptMerge(p) \/ RejectMerge(p) PROVE RowsStand /\ EntityInv'
  <2>1. CASE AcceptMerge(p) \/ RejectMerge(p)
    BY <2>1, UserAnswersInv
  <2>2. CASE InsertMerge(p)
    BY <2>2, InsertMergeInv
  <2> QED BY <1>4, <2>1, <2>2
<1>5. ASSUME SweepStep PROVE RowsStand /\ EntityInv'
  BY <1>5, SweepBeginsInv, SweepProposesInv, SweepListsInv, SweepDecidesInv, SweepFinishesInv, SweepChecksInv, SweepPromotesInv
     DEF SweepStep
<1>6. CASE UNCHANGED entityVars
  BY <1>1, <1>6 DEF entityVars, entityState
<1>7. CASE EntityCrash
  BY <1>1, <1>7 DEF EntityCrash
<1> QED BY <1>2, <1>3, <1>4, <1>5, <1>6, <1>7 DEF EntityNext, Pairs

LEMMA EntityInitInv == EntityInit => EntityInv
<1> SUFFICES ASSUME EntityInit PROVE EntityInv
  OBVIOUS
<1>1. tier \in Seq({"placeholder", "believed"}) /\ Len(tier) = 0 /\ MaxEntities \in Nat
  BY EmptySeq, EntityAssumption DEF EntityInit
<1>2. \A e \in EntityIds : overlay[e] = 0
  BY DEF EntityInit
<1>3. \A e, f \in EntityIds : merges[<<e, f>>] = "none"
  BY DEF EntityInit
<1>4. EntityTypeOK
  BY <1>1, <1>3 DEF EntityTypeOK, EntityInit, Idle
<1> QED BY <1>2, <1>4 DEF EntityInv, FoldedByDecisions, EntityInit, Idle

\* The overlay and the rows of merges name entities that were created (entity_repo.go).
THEOREM EntityTypeCorrect == EntitySpec => []EntityTypeOK
<1>1. EntityInv => EntityTypeOK
  BY DEF EntityInv
<1> QED BY <1>1, EntityInitInv, EntityNextInv, PTL DEF EntitySpec

\* An entity is read as another only because decisions lead there, and no decision is
\* overwritten, however user, judge and resolver answer on one row (entity_repo.go,
\* judge_sweeper.go).
THEOREM DecisionsAreKept == EntitySpec => DecisionsHold
<1>1. EntityInv => FoldedByDecisions
  BY DEF EntityInv
<1>2. RowsStand => \A p \in EntityIds \X EntityIds : merges[p] \in {"rejected", "applied"} => merges'[p] = merges[p]
  BY DEF RowsStand, Pairs
<1> QED BY <1>1, <1>2, EntityInitInv, EntityNextInv, PTL DEF EntitySpec, DecisionsHold, DecisionsStand
---------------------------------------------------------------------------
(* The streams of providers. *)

Numbers == 0 .. MaxPosts
TaskAts == {"none", "waiting", "executing", "accepting", "remembering", "advancing", "settling"}
CycleType == [kind : {"refresh", "hydration"}, status : {"none", "active", "running", "over"},
              cursor : Numbers, head : Numbers, fresh : BOOLEAN, due : BOOLEAN]
SyncType == [at : TaskAts, cycle : Cycles \cup {0}, kind : {"refresh", "hydration"}, cursor : Numbers,
             tries : 0 .. SyncRetries, page : SUBSET Posts, more : BOOLEAN, next : Numbers]
TurnType == [at : {"none", "claimed", "built"}, cycle : Cycles \cup {0},
             kind : {"refresh", "hydration"}, cursor : Numbers]

\* A cursor that names a post names one that is published.
Named(n) == setup.paging = "after" => n <= published

\* A hydration is about a post, and what is queued for it refers to its row.
CycleOk(k) == Named(k.cursor) /\ (k.kind = "hydration" => k.head \in Posts)
Refers(j) == j.kind = "hydration" => j.cycle # 0 /\ cycle[j.cycle].kind = "hydration"

\* A page with a next one spans the posts from where it was read to there, and is stored
\* before it is remembered.
TaskWell(s) ==
  /\ Named(s.cursor) /\ Named(s.next) /\ Refers(s)
  /\ s.at \in {"remembering", "advancing", "settling"} => s.page \subseteq stored
  /\ s.at \in {"accepting", "remembering", "advancing"} /\ s.kind = "refresh" /\ s.more /\ setup.paging = "after"
     => Spanned(s) \subseteq s.page

SyncInv ==
  /\ SyncTypeOK /\ SeenIsStored /\ setup \in SyncConfigs
  /\ \A c \in Cycles : CycleOk(cycle[c])
  /\ Named(turn.cursor) /\ Refers(turn)
  /\ \A t \in Tasks : TaskWell(sync[t])

LEMMA SyncFacts ==
  ASSUME SyncInv
  PROVE  /\ MaxPosts \in Nat /\ PageSize \in Nat /\ PageSize >= 1 /\ SyncRetries \in Nat /\ 0 \notin Cycles
         /\ published \in Numbers /\ seen \subseteq stored /\ stored \subseteq Posts
         /\ stream \in [status : {"idle", "queued", "syncing"}, stale : BOOLEAN, due : BOOLEAN, never : BOOLEAN]
         /\ cycle \in [Cycles -> CycleType] /\ turn \in TurnType /\ sync \in [Tasks -> SyncType]
         /\ setup.paging \in {"after", "offset"}
BY SyncAssumption DEF SyncInv, SyncTypeOK, SeenIsStored, CycleType, TurnType, SyncType, TaskAts, Numbers

\* A step that keeps what rows and jobs are about.
LEMMA SyncKeeps ==
  ASSUME SyncInv, setup' = setup,
         published' \in Numbers, published <= published',
         seen' \subseteq stored', stored \subseteq stored', stored' \subseteq Posts,
         stream' \in [status : {"idle", "queued", "syncing"}, stale : BOOLEAN, due : BOOLEAN, never : BOOLEAN],
         cycle' \in [Cycles -> CycleType], turn' \in TurnType, sync' \in [Tasks -> SyncType],
         \A c \in Cycles : CycleOk(cycle'[c]),
         \A c \in Cycles : c \in Referred /\ cycle[c].kind = "hydration" => cycle'[c].kind = "hydration",
         turn' = turn \/ (Named(turn'.cursor) /\ Refers(turn)'),
         \A t \in Tasks : sync'[t] = sync[t] \/ TaskWell(sync[t])'
  PROVE  SyncInv'
<1>1. published \in Nat /\ published' \in Nat /\ 0 \notin Cycles
  BY SyncFacts DEF Numbers
<1>2. ASSUME NEW n \in Numbers, Named(n) PROVE Named(n)'
  BY <1>1, <1>2 DEF Named, Numbers
<1>3. SyncTypeOK' /\ SeenIsStored' /\ (setup \in SyncConfigs)'
  <2>1. seen' \subseteq Posts
    OBVIOUS
  <2> QED BY <2>1 DEF SyncTypeOK, SeenIsStored, CycleType, TurnType, SyncType, TaskAts, Numbers, SyncInv, Posts
<1>4. ASSUME NEW c \in Cycles PROVE CycleOk(cycle[c])'
  <2>1. cycle'[c].cursor \in Numbers /\ CycleOk(cycle'[c])
    BY DEF CycleType
  <2> QED BY <1>2, <2>1 DEF CycleOk, Posts, Named
<1>5. ASSUME NEW j, j.cycle \in Referred, j.cycle \in Cycles \cup {0}, Refers(j) PROVE Refers(j)'
  BY <1>5 DEF Refers
<1>6. Named(turn.cursor)' /\ Refers(turn)'
  <2>1. CASE turn' = turn
    <3>1. turn.cursor \in Numbers /\ turn.cycle \in Referred /\ turn.cycle \in Cycles \cup {0}
      BY SyncFacts DEF TurnType, Referred
    <3>2. Named(turn.cursor) /\ Refers(turn)
      BY DEF SyncInv
    <3> QED BY <1>2, <2>1, <3>1, <3>2 DEF Named, Refers
  <2>2. CASE Named(turn'.cursor) /\ Refers(turn)'
    <3>1. turn'.cursor \in Numbers
      BY DEF TurnType
    <3> QED BY <1>2, <2>2, <3>1 DEF Named
  <2> QED BY <2>1, <2>2
<1>7. ASSUME NEW t \in Tasks PROVE TaskWell(sync[t])'
  <2>1. CASE sync'[t] = sync[t]
    <3>0. PICK s \in SyncType : s = sync[t]
      BY SyncFacts
    <3>1. /\ s.cursor \in Numbers /\ s.next \in Numbers /\ s.cycle \in Referred /\ s.cycle \in Cycles \cup {0}
          /\ TaskWell(s)
      BY <3>0 DEF SyncType, Referred, SyncInv
    <3>2. sync'[t] = s
      BY <2>1, <3>0
    <3>3. TaskWell(s)'
      <4>1. Named(s.cursor)' /\ Named(s.next)'
        BY <1>2, <3>1 DEF TaskWell
      <4>2. Refers(s)'
        BY <1>5, <3>1 DEF TaskWell
      <4>3. Spanned(s)' = Spanned(s)
        BY DEF Spanned, Posts
      <4> QED BY <3>1, <4>1, <4>2, <4>3 DEF TaskWell
    <3> QED BY <3>2, <3>3 DEF TaskWell, Named, Refers, Spanned
  <2>2. CASE TaskWell(sync[t])'
    BY <2>2
  <2> QED BY <2>1, <2>2
<1> QED BY <1>3, <1>4, <1>6, <1>7 DEF SyncInv---------------------------------------------------------------------------
(* Pages. *)

LEMMA MinLeast == ASSUME NEW S \in SUBSET Nat, S # {} PROVE Min(S) \in S /\ \A y \in S : Min(S) <= y
<1>1. PICK x \in S : \A y \in S : x <= y
  BY LeastOf
<1> QED BY <1>1 DEF Min

LEMMA MaxMost == ASSUME SyncInv, NEW S \in SUBSET Posts, S # {} PROVE Max(S) \in S /\ \A y \in S : y <= Max(S)
<1>1. MaxPosts \in Nat
  BY SyncFacts
<1> DEFINE down == {MaxPosts - y : y \in S}
<1>2. down \in SUBSET Nat /\ down # {}
  <2>1. ASSUME NEW y \in S PROVE MaxPosts - y \in Nat
    <3>1. y \in 1 .. MaxPosts
      BY DEF Posts
    <3> QED BY <1>1, <3>1
  <2> QED BY <2>1
<1>3. PICK d \in down : \A y \in down : d <= y
  BY <1>2, LeastOf
<1>4. PICK x \in S : d = MaxPosts - x
  BY <1>3
<1>5. \A y \in S : y <= x
  <2>1. ASSUME NEW y \in S PROVE y <= x
    <3>1. MaxPosts - x <= MaxPosts - y
      BY <1>3, <1>4
    <3> QED BY <1>1, <3>1 DEF Posts
  <2> QED BY <2>1
<1> QED BY <1>5 DEF Max

LEMMA NewestIsNumber == ASSUME SyncInv, NEW S \in SUBSET Posts PROVE NewestOf(S) \in Numbers
<1>1. CASE S = {}
  BY <1>1, SyncFacts DEF NewestOf, Numbers
<1>2. CASE S # {}
  <2>1. Max(S) \in Posts
    BY <1>2, MaxMost
  <2>2. NewestOf(S) = Max(S)
    BY <1>2 DEF NewestOf
  <2> QED BY <2>1, <2>2, SyncFacts DEF Numbers, Posts
<1> QED BY <1>1, <1>2

LEMMA PageFacts ==
  ASSUME SyncInv, NEW cursor \in Numbers
  PROVE  /\ Listing(cursor) \subseteq 1 .. published /\ PageOf(cursor) \subseteq Listing(cursor)
         /\ PageOf(cursor) \subseteq Posts
         /\ setup.paging = "offset" => cursor + Cardinality(PageOf(cursor)) \in Numbers
<1>1. published \in Nat /\ published <= MaxPosts /\ MaxPosts \in Nat /\ cursor \in Nat /\ cursor <= MaxPosts
  BY SyncFacts DEF Numbers
<1>2. Listing(cursor) \subseteq 1 .. published /\ PageOf(cursor) \subseteq Listing(cursor)
  BY DEF Listing, ListingAfter, ListingFrom, PageOf
<1>3. PageOf(cursor) \subseteq Posts
  BY <1>1, <1>2 DEF Posts
<1>4. ASSUME setup.paging = "offset" PROVE cursor + Cardinality(PageOf(cursor)) \in Numbers
  <2> DEFINE room == IF cursor <= published THEN published - cursor ELSE 0
  <2>1. room \in Nat /\ cursor + room <= MaxPosts
    BY <1>1
  <2>2. PageOf(cursor) \subseteq 1 .. room
    <3>1. ASSUME NEW p \in PageOf(cursor) PROVE p \in 1 .. room
      <4>1. p \in 1 .. published /\ published - p >= cursor
        BY <1>2, <1>4 DEF Listing, ListingFrom
      <4> QED BY <1>1, <4>1
    <3> QED BY <3>1
  <2> HIDE DEF room
  <2>3. IsFiniteSet(1 .. room) /\ Cardinality(1 .. room) = room
    BY <2>1, FS_Interval
  <2>4. IsFiniteSet(PageOf(cursor)) /\ Cardinality(PageOf(cursor)) <= room
    BY <2>2, <2>3, FS_Subset
  <2>5. Cardinality(PageOf(cursor)) \in Nat
    BY <2>4, FS_CardinalityType
  <2> DEFINE n == Cardinality(PageOf(cursor))
  <2>6. n \in Nat /\ n <= room
    BY <2>4, <2>5
  <2> HIDE DEF n
  <2>7. cursor + n \in Numbers
    BY <1>1, <2>1, <2>6 DEF Numbers
  <2> QED BY <2>7 DEF n
<1> QED BY <1>2, <1>3, <1>4

\* A page that is not the last of its listing holds every post from where it was read
\* from to where the next one is read from.
LEMMA WholePage ==
  ASSUME SyncInv, setup.paging = "after", NEW cursor \in Numbers, Named(cursor), Listing(cursor) # PageOf(cursor)
  PROVE  LET batch == PageOf(cursor) next == Min(batch) IN
         /\ next \in Numbers /\ Named(next) /\ batch # {}
         /\ \A p \in Posts : next <= p /\ (IF cursor = 0 THEN p <= Max(batch) ELSE p < cursor) => p \in batch
<1> DEFINE list == {p \in 1 .. published : cursor > 0 => p < cursor}
           above(p) == {q \in list : q > p}
           batch == PageOf(cursor)
<1>1. published \in Nat /\ published <= MaxPosts /\ MaxPosts \in Nat /\ cursor \in Nat /\ cursor <= published /\ PageSize \in Nat /\ PageSize >= 1
  BY SyncFacts DEF Numbers, Named
<1>2. list = Listing(cursor) /\ batch = {p \in list : Cardinality(above(p)) < PageSize} /\ list \subseteq Posts
  BY <1>1 DEF Listing, ListingAfter, PageOf, Posts
<1>3. batch # {}
  <2>1. list # {}
    BY <1>2
  <2>2. Max(list) \in list /\ \A y \in list : y <= Max(list)
    BY <1>2, <2>1, MaxMost
  <2> DEFINE m == Max(list)
  <2>3. m \in list /\ \A y \in list : y <= m
    BY <2>2
  <2> HIDE DEF m
  <2>4. above(m) = {}
    BY <1>1, <2>3
  <2>5. Cardinality(above(m)) = 0
    BY <2>4, FS_EmptySet
  <2> DEFINE n == Cardinality(above(m))
  <2>6. n = 0
    BY <2>5
  <2>7. n < PageSize
    <3> HIDE DEF n
    <3> QED BY <1>1, <2>6
  <2> QED BY <1>2, <2>3, <2>7
<1>4. batch \subseteq list /\ batch \in SUBSET Posts /\ batch \in SUBSET Nat
  BY <1>2 DEF Posts
<1> DEFINE next == Min(batch)
<1>5. next \in batch /\ \A y \in batch : next <= y
  BY <1>3, <1>4, MinLeast
<1>6. Cardinality(above(next)) < PageSize
  BY <1>2, <1>5
<1>7. Max(batch) \in batch
  BY <1>3, <1>4, MaxMost
<1> HIDE DEF next
<1>8. next \in 1 .. published
  BY <1>4, <1>5
<1>9. next \in Numbers /\ Named(next)
  BY <1>1, <1>8 DEF Numbers, Named
<1>10. ASSUME NEW p \in Posts, next <= p, IF cursor = 0 THEN p <= Max(batch) ELSE p < cursor PROVE p \in batch
  <2>1. p \in list
    <3>1. CASE cursor = 0
      <4>1. Max(batch) \in 1 .. published
        BY <1>4, <1>7
      <4> QED BY <1>1, <1>10, <3>1, <4>1 DEF Posts
    <3>2. CASE cursor # 0
      BY <1>1, <1>10, <3>2 DEF Posts
    <3> QED BY <3>1, <3>2
  <2>2. above(p) \subseteq above(next) /\ above(next) \subseteq 1 .. published
    BY <1>1, <1>8, <1>10 DEF Posts
  <2>3. IsFiniteSet(1 .. published)
    BY <1>1, FS_Interval
  <2>4. IsFiniteSet(above(next))
    BY <2>2, <2>3, FS_Subset
  <2>5. IsFiniteSet(above(p)) /\ Cardinality(above(p)) <= Cardinality(above(next))
    BY <2>2, <2>4, FS_Subset
  <2>6. Cardinality(above(p)) \in Nat /\ Cardinality(above(next)) \in Nat
    BY <2>4, <2>5, FS_CardinalityType
  <2> DEFINE m == Cardinality(above(p)) n == Cardinality(above(next))
  <2>7. m \in Nat /\ n \in Nat /\ m <= n /\ n < PageSize
    BY <1>6, <2>5, <2>6
  <2>8. m < PageSize
    <3> HIDE DEF m, n
    <3> QED BY <1>1, <2>7
  <2> QED BY <1>2, <2>1, <2>8
<1> HIDE DEF batch
<1> QED BY <1>3, <1>9, <1>10 DEF next, batch

---------------------------------------------------------------------------
(* Cycles and jobs. *)

StreamType == [status : {"idle", "queued", "syncing"}, stale : BOOLEAN, due : BOOLEAN, never : BOOLEAN]

\* A statement on one row, which keeps its kind, and its head when it is about a post.
LEMMA TouchKeeps ==
  ASSUME SyncInv, NEW c \in Cycles \cup {0}, NEW row,
         c # 0 => row \in CycleType /\ row.kind = cycle[c].kind /\ CycleOk(row)
  PROVE  /\ TouchCycle(cycle, c, row) \in [Cycles -> CycleType]
         /\ \A k \in Cycles : CycleOk(TouchCycle(cycle, c, row)[k]) /\ TouchCycle(cycle, c, row)[k].kind = cycle[k].kind
<1>1. cycle \in [Cycles -> CycleType] /\ \A k \in Cycles : CycleOk(cycle[k])
  BY SyncFacts DEF SyncInv
<1>2. CASE c = 0
  BY <1>1, <1>2 DEF TouchCycle
<1>3. CASE c # 0
  <2> DEFINE x == [cycle EXCEPT ![c] = row]
  <2>1. x \in [Cycles -> CycleType] /\ \A k \in Cycles : x[k] = IF k = c THEN row ELSE cycle[k]
    BY <1>1, <1>3
  <2>2. TouchCycle(cycle, c, row) = x
    BY <1>3 DEF TouchCycle
  <2> HIDE DEF x
  <2> QED BY <1>1, <1>3, <2>1, <2>2
<1> QED BY <1>2, <1>3

LEMMA CycleRowFacts ==
  ASSUME SyncInv, NEW c \in Cycles \cup {0}
  PROVE  CycleRow(c) \in CycleType /\ CycleOk(CycleRow(c)) /\ (c # 0 => CycleRow(c) = cycle[c])
<1>1. CASE c = 0
  BY <1>1, SyncFacts DEF CycleRow, NoCycle, CycleType, CycleOk, Numbers, Named
<1>2. CASE c # 0
  BY <1>2, SyncFacts DEF CycleRow, SyncInv
<1> QED BY <1>1, <1>2

LEMMA MarkRunningKeeps ==
  ASSUME SyncInv, NEW c \in Cycles \cup {0}, cycle' = MarkRunning(c) \/ cycle' = MarkCycleFailed(c)
  PROVE  cycle' \in [Cycles -> CycleType] /\ \A k \in Cycles : CycleOk(cycle'[k]) /\ cycle'[k].kind = cycle[k].kind
<1> DEFINE row == CycleRow(c)
           running == [row EXCEPT !.status = "running"]
           over == [row EXCEPT !.status = "over"]
<1>1. row \in CycleType /\ CycleOk(row) /\ (c # 0 => row = cycle[c])
  BY CycleRowFacts
<1>2. cycle' = TouchCycle(cycle, c, running) \/ cycle' = TouchCycle(cycle, c, over)
  BY DEF MarkRunning, MarkCycleFailed
<1> HIDE DEF row
<1>3. running \in CycleType /\ running.kind = row.kind /\ CycleOk(running) /\ over \in CycleType /\ over.kind = row.kind /\ CycleOk(over)
  BY <1>1 DEF CycleType, CycleOk
<1> HIDE DEF running, over
<1>4. CASE cycle' = TouchCycle(cycle, c, running)
  BY <1>1, <1>3, <1>4, TouchKeeps
<1>5. CASE cycle' = TouchCycle(cycle, c, over)
  BY <1>1, <1>3, <1>5, TouchKeeps
<1> QED BY <1>2, <1>4, <1>5

LEMMA ProgressKeeps ==
  ASSUME SyncInv, NEW c \in Cycles \cup {0}, NEW cursor \in Numbers, Named(cursor), NEW head \in Numbers,
         cycle' = UpdateProgress(c, cursor, head) \/ cycle' = CompleteCycle(c, head)
  PROVE  cycle' \in [Cycles -> CycleType] /\ \A k \in Cycles : CycleOk(cycle'[k]) /\ cycle'[k].kind = cycle[k].kind
<1> DEFINE row == CycleRow(c)
           first == HeadOnce(row.head, head)
           on == [row EXCEPT !.status = "active", !.cursor = cursor, !.due = FALSE, !.head = first]
           over == [row EXCEPT !.status = "over", !.head = first]
<1>1. row \in CycleType /\ CycleOk(row) /\ (c # 0 => row = cycle[c])
  BY CycleRowFacts
<1>2. cycle' = TouchCycle(cycle, c, on) \/ cycle' = TouchCycle(cycle, c, over)
  BY DEF UpdateProgress, CompleteCycle
<1> HIDE DEF row
<1>3. first \in Numbers /\ (row.head \in Posts => first = row.head)
  BY <1>1, SyncFacts DEF CycleType, HeadOnce, Posts
<1> HIDE DEF first
<1>5. on \in CycleType /\ on.kind = row.kind /\ CycleOk(on)
  <2>1. on \in CycleType /\ on.kind = row.kind
    BY <1>1, <1>3 DEF CycleType
  <2>2. on.cursor = cursor /\ on.head = first
    BY <1>1, <1>3 DEF CycleType
  <2> HIDE DEF on
  <2> QED BY <1>1, <1>3, <2>1, <2>2 DEF CycleOk
<1>6. over \in CycleType /\ over.kind = row.kind /\ CycleOk(over)
  <2>1. over \in CycleType /\ over.kind = row.kind /\ over.cursor = row.cursor /\ over.head = first
    BY <1>1, <1>3 DEF CycleType
  <2> HIDE DEF over
  <2> QED BY <1>1, <1>3, <2>1 DEF CycleOk
<1> HIDE DEF on, over
<1>7. CASE cycle' = TouchCycle(cycle, c, on)
  BY <1>1, <1>5, <1>7, TouchKeeps
<1>8. CASE cycle' = TouchCycle(cycle, c, over)
  BY <1>1, <1>6, <1>8, TouchKeeps
<1> QED BY <1>2, <1>7, <1>8

\* A step of one task, which stays about the same cycle or is gone.
LEMMA WorkerKeeps ==
  ASSUME SyncInv, UNCHANGED <<setup, published, turn>>, NEW t \in Tasks, NEW d \in SyncType, sync' = [sync EXCEPT ![t] = d],
         seen' \subseteq stored', stored \subseteq stored', stored' \subseteq Posts, stream' \in StreamType,
         cycle' \in [Cycles -> CycleType], \A c \in Cycles : CycleOk(cycle'[c]),
         \A c \in Cycles : c \in Referred /\ cycle[c].kind = "hydration" => cycle'[c].kind = "hydration",
         \/ d.at = "none" /\ d.kind = "refresh" /\ d.cursor = 0 /\ d.next = 0
         \/ /\ d.cycle = sync[t].cycle /\ d.kind = sync[t].kind /\ d.cursor = sync[t].cursor /\ Named(d.next)
            /\ d.at \in {"remembering", "advancing", "settling"} => d.page \subseteq stored'
            /\ d.at \in {"accepting", "remembering", "advancing"} /\ d.kind = "refresh" /\ d.more /\ setup.paging = "after"
               => Spanned(d) \subseteq d.page
  PROVE  SyncInv'
<1>1. sync \in [Tasks -> SyncType] /\ published \in Nat
  BY SyncFacts DEF Numbers
<1>2. sync' \in [Tasks -> SyncType] /\ sync'[t] = d /\ \A u \in Tasks \ {t} : sync'[u] = sync[u]
  BY <1>1
<1>3. TaskWell(sync[t])'
  <2> DEFINE s == sync[t]
  <2>1. TaskWell(s) /\ s.cycle \in Referred /\ s.cycle \in Cycles \cup {0}
    BY <1>1 DEF SyncInv, SyncType, Referred
  <2>2. Spanned(sync[t])' = Spanned(d)
    BY <1>2 DEF Spanned, Posts
  <2>3. CASE d.at = "none" /\ d.kind = "refresh" /\ d.cursor = 0 /\ d.next = 0
    BY <1>1, <1>2, <2>3 DEF TaskWell, Named, Refers
  <2>4. CASE d.at # "none" \/ d.kind # "refresh" \/ d.cursor # 0 \/ d.next # 0
    <3>1. Named(s.cursor) /\ Refers(s)
      BY <2>1 DEF TaskWell
    <3> HIDE DEF s
    <3>2. d.cycle = s.cycle /\ d.kind = s.kind /\ d.cursor = s.cursor /\ Named(d.next)
      BY <2>4 DEF s
    <3>3. Named(d.cursor) /\ (d.kind = "hydration" => d.cycle # 0 /\ cycle'[d.cycle].kind = "hydration")
      BY <2>1, <3>1, <3>2 DEF Refers, Named
    <3> QED BY <1>2, <2>2, <2>4, <3>2, <3>3 DEF TaskWell, Named, Refers
  <2> QED BY <2>3, <2>4
<1>4. \A u \in Tasks : sync'[u] = sync[u] \/ TaskWell(sync[u])'
  BY <1>2, <1>3
<1> QED BY <1>1, <1>2, <1>4, SyncKeeps, SyncFacts DEF StreamType
\* A task that only moves on to its next step.
LEMMA MoveKeeps ==
  ASSUME SyncInv, UNCHANGED <<setup, published, turn>>, NEW t \in Tasks, NEW at \in TaskAts, sync' = SyncTo(t, at),
         at \in {"remembering", "advancing", "settling"} => sync[t].page \subseteq stored',
         at \in {"accepting", "remembering", "advancing"} => sync[t].at \in {"accepting", "remembering", "advancing"},
         seen' \subseteq stored', stored \subseteq stored', stored' \subseteq Posts, stream' \in StreamType,
         cycle' \in [Cycles -> CycleType], \A c \in Cycles : CycleOk(cycle'[c]),
         \A c \in Cycles : c \in Referred /\ cycle[c].kind = "hydration" => cycle'[c].kind = "hydration"
  PROVE  SyncInv'
<1> DEFINE s == sync[t]
           d == [s EXCEPT !.at = at]
<1>1. s \in SyncType /\ TaskWell(s) /\ sync' = [sync EXCEPT ![t] = d]
  BY SyncFacts DEF SyncInv, SyncTo
<1>2. /\ d \in SyncType /\ d.at = at /\ d.cycle = s.cycle /\ d.kind = s.kind /\ d.cursor = s.cursor
      /\ d.next = s.next /\ d.page = s.page /\ d.more = s.more
  BY <1>1 DEF SyncType
<1> HIDE DEF d
<1>3. Spanned(d) = Spanned(s)
  BY <1>2 DEF Spanned
<1>4. /\ d.cycle = sync[t].cycle /\ d.kind = sync[t].kind /\ d.cursor = sync[t].cursor /\ Named(d.next)
      /\ d.at \in {"remembering", "advancing", "settling"} => d.page \subseteq stored'
      /\ d.at \in {"accepting", "remembering", "advancing"} /\ d.kind = "refresh" /\ d.more /\ setup.paging = "after"
         => Spanned(d) \subseteq d.page
  BY <1>1, <1>2, <1>3 DEF TaskWell
<1> QED BY <1>1, <1>2, <1>4, WorkerKeeps

LEMMA StartSyncInv == ASSUME SyncInv, UNCHANGED setup, NEW t \in Tasks, StartSync(t) PROVE SyncInv'
<1> DEFINE no == FALSE
<1>1. no \in BOOLEAN /\ stream' = [stream EXCEPT !.status = "syncing", !.stale = no]
  BY DEF StartSync
<1> HIDE DEF no
<1>2. stream' \in StreamType
  BY <1>1, SyncFacts DEF StreamType
<1>3. sync[t].cycle \in Cycles \cup {0}
  BY SyncFacts DEF SyncType
<1>4. cycle' \in [Cycles -> CycleType] /\ \A k \in Cycles : CycleOk(cycle'[k]) /\ cycle'[k].kind = cycle[k].kind
  BY <1>3, MarkRunningKeeps DEF StartSync
<1>5. "executing" \in TaskAts /\ UNCHANGED <<published, turn, seen, stored>> /\ sync' = SyncTo(t, "executing")
  BY DEF TaskAts, StartSync
<1> QED BY <1>2, <1>4, <1>5, MoveKeeps, SyncFacts

LEMMA AcceptRecordsInv == ASSUME SyncInv, UNCHANGED setup, NEW t \in Tasks, AcceptRecords(t) PROVE SyncInv'
<1>1. /\ "remembering" \in TaskAts /\ UNCHANGED <<published, stream, cycle, turn, seen>> /\ sync' = SyncTo(t, "remembering")
      /\ stored' = stored \cup sync[t].page /\ sync[t].at = "accepting" /\ sync[t].page \subseteq Posts
  BY SyncFacts DEF TaskAts, AcceptRecords, SyncType
<1>2. seen' \subseteq stored' /\ stored' \subseteq Posts /\ sync[t].page \subseteq stored'
  BY <1>1, SyncFacts
<1>3. stream' \in StreamType /\ cycle' \in [Cycles -> CycleType] /\ \A c \in Cycles : CycleOk(cycle'[c])
  BY <1>1, SyncFacts DEF SyncInv, StreamType
<1> QED BY <1>1, <1>2, <1>3, MoveKeeps

\* A row that is taken into use is nobody's, so that nothing refers to what it was.
LEMMA NewCycle ==
  ASSUME SyncInv, FreeCycles # {}, NEW row \in CycleType, CycleOk(row),
         cycle' = [cycle EXCEPT ![CHOOSE c \in FreeCycles : TRUE] = row]
  PROVE  /\ cycle' \in [Cycles -> CycleType] /\ \A c \in Cycles : CycleOk(cycle'[c])
         /\ \A c \in Cycles : c \in Referred => cycle'[c] = cycle[c]
<1> DEFINE f == CHOOSE c \in FreeCycles : TRUE
<1>1. f \in FreeCycles
  OBVIOUS
<1>2. f \in Cycles /\ f \notin Referred /\ cycle' = [cycle EXCEPT ![f] = row]
  BY <1>1 DEF FreeCycles
<1> HIDE DEF f
<1>3. cycle \in [Cycles -> CycleType] /\ \A c \in Cycles : CycleOk(cycle[c])
  BY SyncFacts DEF SyncInv
<1> QED BY <1>2, <1>3

LEMMA MarkSeenInv == ASSUME SyncInv, UNCHANGED setup, NEW t \in Tasks, MarkSeen(t) PROVE SyncInv'
<1>1. /\ "advancing" \in TaskAts /\ UNCHANGED <<published, stream, turn, stored>> /\ sync' = SyncTo(t, "advancing")
      /\ seen' = seen \cup sync[t].page /\ sync[t].at = "remembering" /\ sync[t].page \subseteq Posts
  BY SyncFacts DEF TaskAts, MarkSeen, SyncType
<1>2. sync[t].page \subseteq stored
  BY <1>1 DEF SyncInv, TaskWell
<1>3. seen' \subseteq stored' /\ stored' \subseteq Posts /\ stream' \in StreamType
  BY <1>1, <1>2, SyncFacts DEF StreamType
<1>4. /\ cycle' \in [Cycles -> CycleType] /\ \A c \in Cycles : CycleOk(cycle'[c])
      /\ \A c \in Cycles : c \in Referred => cycle'[c] = cycle[c]
  <2>1. CASE UNCHANGED cycle
    BY <2>1, SyncFacts DEF SyncInv
  <2>2. ASSUME NEW p \in sync[t].page, FreeCycles # {},
               cycle' = [cycle EXCEPT ![CHOOSE c \in FreeCycles : TRUE] =
                           [NoCycle EXCEPT !.kind = "hydration", !.status = "active", !.head = p]]
        PROVE  /\ cycle' \in [Cycles -> CycleType] /\ \A c \in Cycles : CycleOk(cycle'[c])
               /\ \A c \in Cycles : c \in Referred => cycle'[c] = cycle[c]
    <3> DEFINE row == [NoCycle EXCEPT !.kind = "hydration", !.status = "active", !.head = p]
    <3>2. p \in Posts /\ p \in Numbers /\ 0 \in Numbers /\ published \in Nat
      BY <1>1, SyncFacts DEF Posts, Numbers
    <3>1. NoCycle \in CycleType /\ NoCycle.cursor = 0
      BY <3>2 DEF NoCycle, CycleType
    <3> HIDE DEF NoCycle
    <3>3. row \in CycleType
      BY <3>1, <3>2 DEF CycleType
    <3>4. row.cursor = 0 /\ row.head = p
      BY <3>1, <3>2 DEF CycleType
    <3> HIDE DEF row
    <3>5. CycleOk(row)
      BY <3>2, <3>4 DEF CycleOk, Named
    <3>6. cycle' = [cycle EXCEPT ![CHOOSE c \in FreeCycles : TRUE] = row]
      BY <2>2 DEF row
    <3> QED BY <2>2, <3>3, <3>5, <3>6, NewCycle
  <2> QED BY <2>1, <2>2 DEF MarkSeen
<1>5. \A c \in Cycles : c \in Referred /\ cycle[c].kind = "hydration" => cycle'[c].kind = "hydration"
  BY <1>4
<1> QED BY <1>1, <1>2, <1>3, <1>4, <1>5, MoveKeeps

LEMMA AdvanceCycleInv == ASSUME SyncInv, UNCHANGED setup, NEW t \in Tasks, AdvanceCycle(t) PROVE SyncInv'
<1> DEFINE s == sync[t]
           head == NewestOf(s.page)
<1>1. /\ "settling" \in TaskAts /\ UNCHANGED <<published, stream, turn, seen, stored>> /\ sync' = SyncTo(t, "settling")
      /\ s.at = "advancing" /\ s \in SyncType /\ TaskWell(s)
      /\ cycle' = IF s.more THEN UpdateProgress(s.cycle, s.next, head) ELSE CompleteCycle(s.cycle, head)
  BY SyncFacts DEF TaskAts, AdvanceCycle, SyncInv
<1>2. s.page \subseteq stored /\ head \in Numbers /\ s.next \in Numbers /\ Named(s.next) /\ s.cycle \in Cycles \cup {0}
  BY <1>1, NewestIsNumber DEF TaskWell, SyncType
<1> HIDE DEF head
<1>3. cycle' \in [Cycles -> CycleType] /\ \A k \in Cycles : CycleOk(cycle'[k]) /\ cycle'[k].kind = cycle[k].kind
  <2>1. cycle' = UpdateProgress(s.cycle, s.next, head) \/ cycle' = CompleteCycle(s.cycle, head)
    BY <1>1
  <2> HIDE DEF s
  <2> QED BY <1>2, <2>1, ProgressKeeps
<1>4. seen' \subseteq stored' /\ stored' \subseteq Posts /\ stream' \in StreamType
  BY <1>1, SyncFacts DEF StreamType
<1> QED BY <1>1, <1>2, <1>3, <1>4, MoveKeeps

LEMMA NoSyncFacts == NoSync \in SyncType /\ NoSync.at = "none" /\ NoSync.kind = "refresh" /\ NoSync.cursor = 0 /\ NoSync.next = 0
<1>1. 0 \in Numbers /\ 0 \in 0 .. SyncRetries
  BY SyncAssumption DEF Numbers
<1> QED BY <1>1 DEF NoSync, SyncType, TaskAts

LEMMA SettleStreamInv == ASSUME SyncInv, UNCHANGED setup, NEW t \in Tasks, SettleStream(t) PROVE SyncInv'
<1> DEFINE no == FALSE
<1>1. /\ sync' = [sync EXCEPT ![t] = NoSync] /\ UNCHANGED <<published, cycle, turn, seen, stored>>
      /\ no \in BOOLEAN
      /\ \/ stream' = [stream EXCEPT !.status = "idle", !.due = no, !.never = no]
         \/ stream' = [stream EXCEPT !.status = "idle"]
  BY DEF SettleStream
<1> HIDE DEF no
<1>2. stream' \in StreamType
  BY <1>1, SyncFacts DEF StreamType
<1>3. cycle' \in [Cycles -> CycleType] /\ \A c \in Cycles : CycleOk(cycle'[c])
  BY <1>1, SyncFacts DEF SyncInv
<1> HIDE DEF NoSync
<1> QED BY <1>1, <1>2, <1>3, NoSyncFacts, WorkerKeeps, SyncFacts
\* A page read, of which the posts up to the first seen one are taken.
LEMMA FetchedInv ==
  ASSUME SyncInv, UNCHANGED setup, NEW t \in Tasks, NEW next, Fetched(t, next), sync[t].kind = "refresh",
         \/ setup.paging = "after" /\ next = NextOf(sync[t].cursor)
         \/ setup.paging = "offset" /\ next = NextOf(sync[t].cursor)
  PROVE  SyncInv'
<1> DEFINE s == sync[t]
           batch == PageOf(s.cursor)
           upto == UpToSeen(batch)
           more == batch \cap seen = {} /\ Listing(s.cursor) # batch
           from == IF more THEN next ELSE 0
           d == [s EXCEPT !.at = "accepting", !.page = upto, !.more = more, !.next = from]
<1>1. s \in SyncType /\ TaskWell(s) /\ s.cursor \in Numbers /\ Named(s.cursor) /\ more \in BOOLEAN
  BY SyncFacts DEF SyncInv, TaskWell, SyncType
<1>2. batch \in SUBSET Posts /\ upto \in SUBSET Posts /\ (more => upto = batch)
  BY <1>1, PageFacts DEF UpToSeen
<1>3. /\ from \in Numbers /\ Named(from)
      /\ setup.paging = "after" /\ more =>
           \A p \in Posts : from <= p /\ (IF s.cursor = 0 THEN p <= NewestOf(upto) ELSE p < s.cursor) => p \in upto
  <2>1. CASE ~more
    BY <2>1, SyncFacts DEF Named, Numbers
  <2>2. CASE more /\ setup.paging = "after"
    <3>1. next = Min(batch)
      BY <2>2 DEF NextOf
    <3>2. /\ next \in Numbers /\ Named(next) /\ batch # {}
          /\ \A p \in Posts : next <= p /\ (IF s.cursor = 0 THEN p <= Max(batch) ELSE p < s.cursor) => p \in batch
      BY <1>1, <2>2, <3>1, WholePage
    <3>3. upto = batch /\ from = next /\ NewestOf(batch) = Max(batch)
      BY <1>2, <2>2, <3>2 DEF NewestOf
    <3> HIDE DEF batch, upto, from
    <3> QED BY <3>2, <3>3
  <2>3. CASE more /\ setup.paging = "offset"
    <3>1. next = s.cursor + Cardinality(batch) /\ from = next
      BY <2>3 DEF NextOf
    <3>2. next \in Numbers
      BY <1>1, <2>3, <3>1, PageFacts
    <3> QED BY <2>3, <3>1, <3>2 DEF Named
  <2> QED BY <2>1, <2>2, <2>3
<1>4. sync' = [sync EXCEPT ![t] = d] /\ UNCHANGED <<published, stream, cycle, turn, seen, stored>>
  BY SyncFacts DEF Fetched, SyncType
<1> HIDE DEF more, from, upto, batch
<1>5. /\ d \in SyncType /\ d.at = "accepting" /\ d.cycle = s.cycle /\ d.kind = s.kind /\ d.cursor = s.cursor
      /\ d.next = from /\ d.page = upto /\ d.more = more
  BY <1>1, <1>2, <1>3 DEF SyncType, TaskAts
<1> HIDE DEF d
<1>6. d.more /\ setup.paging = "after" => Spanned(d) \subseteq d.page
  BY <1>3, <1>5 DEF Spanned
<1>7. /\ d.cycle = sync[t].cycle /\ d.kind = sync[t].kind /\ d.cursor = sync[t].cursor /\ Named(d.next)
      /\ d.at \in {"remembering", "advancing", "settling"} => d.page \subseteq stored'
      /\ d.at \in {"accepting", "remembering", "advancing"} /\ d.kind = "refresh" /\ d.more /\ setup.paging = "after"
         => Spanned(d) \subseteq d.page
  BY <1>3, <1>5, <1>6
<1>8. cycle' \in [Cycles -> CycleType] /\ (\A c \in Cycles : CycleOk(cycle'[c])) /\ stream' \in StreamType
  BY <1>4, SyncFacts DEF SyncInv, StreamType
<1> QED BY <1>4, <1>5, <1>7, <1>8, WorkerKeeps, SyncFacts

LEMMA ExecuteHydrationInv == ASSUME SyncInv, UNCHANGED setup, NEW t \in Tasks, ExecuteHydration(t) PROVE SyncInv'
<1> DEFINE s == sync[t]
           batch == {CycleRow(s.cycle).head}
<1>1. PICK warm \in BOOLEAN :
        sync' = [sync EXCEPT ![t].at = "accepting", ![t].page = batch, ![t].more = warm, ![t].next = 0]
  BY DEF ExecuteHydration
<1>2. s \in SyncType /\ TaskWell(s) /\ s.kind = "hydration" /\ UNCHANGED <<published, stream, cycle, turn, seen, stored>>
  BY SyncFacts DEF ExecuteHydration, SyncInv
<1>3. batch \in SUBSET Posts
  <2>1. s.cycle \in Cycles /\ cycle[s.cycle].kind = "hydration"
    BY <1>2 DEF TaskWell, Refers, SyncType
  <2>2. CycleRow(s.cycle) = cycle[s.cycle] /\ cycle[s.cycle].head \in Posts
    BY <2>1, CycleRowFacts, SyncFacts DEF SyncInv, CycleOk
  <2> QED BY <2>2
<1> DEFINE none == 0
           d == [s EXCEPT !.at = "accepting", !.page = batch, !.more = warm, !.next = none]
<1>4. sync' = [sync EXCEPT ![t] = d] /\ none \in Numbers /\ Named(none)
  <2>1. none \in Numbers /\ Named(none)
    BY SyncFacts DEF Numbers, Named
  <2>2. sync' = [sync EXCEPT ![t].at = "accepting", ![t].page = batch, ![t].more = warm, ![t].next = none]
    BY <1>1
  <2> HIDE DEF batch, none
  <2>3. sync' = [sync EXCEPT ![t] = d]
    BY <2>2, SyncFacts DEF SyncType
  <2> QED BY <2>1, <2>3
<1> HIDE DEF batch, none
<1>5. d \in SyncType /\ d.at = "accepting" /\ d.cycle = s.cycle /\ d.kind = s.kind /\ d.cursor = s.cursor /\ d.next = none
  BY <1>2, <1>3, <1>4 DEF SyncType, TaskAts
<1> HIDE DEF d
<1>6. /\ d.cycle = sync[t].cycle /\ d.kind = sync[t].kind /\ d.cursor = sync[t].cursor /\ Named(d.next)
      /\ d.at \in {"remembering", "advancing", "settling"} => d.page \subseteq stored'
      /\ d.at \in {"accepting", "remembering", "advancing"} /\ d.kind = "refresh" /\ d.more /\ setup.paging = "after"
         => Spanned(d) \subseteq d.page
  BY <1>2, <1>4, <1>5
<1>7. cycle' \in [Cycles -> CycleType] /\ (\A c \in Cycles : CycleOk(cycle'[c])) /\ stream' \in StreamType
  BY <1>2, SyncFacts DEF SyncInv, StreamType
<1> QED BY <1>2, <1>4, <1>5, <1>6, <1>7, WorkerKeeps, SyncFacts

\* A task that stops may have stored the first posts of its page.
LEMMA StoredSoFarKeeps ==
  ASSUME SyncInv, NEW t \in Tasks, StoredSoFar(t)
  PROVE  stored \subseteq stored' /\ stored' \subseteq Posts
<1>1. stored \subseteq Posts /\ sync[t].page \subseteq Posts
  BY SyncFacts DEF SyncType
<1>2. CASE sync[t].at = "accepting"
  BY <1>1, <1>2 DEF StoredSoFar, PagePrefixes
<1>3. CASE sync[t].at # "accepting"
  BY <1>1, <1>3 DEF StoredSoFar
<1> QED BY <1>2, <1>3

LEMMA RetriedInv ==
  ASSUME SyncInv, UNCHANGED <<setup, published, turn, seen>>, NEW t \in Tasks, sync' = RetriedSync(t), StoredSoFar(t),
         stream' \in StreamType, cycle' \in [Cycles -> CycleType],
         \A c \in Cycles : CycleOk(cycle'[c]) /\ cycle'[c].kind = cycle[c].kind
  PROVE  SyncInv'
<1> DEFINE s == sync[t]
<1>1. s \in SyncType /\ TaskWell(s) /\ stored \subseteq stored' /\ stored' \subseteq Posts /\ seen' \subseteq stored'
  BY StoredSoFarKeeps, SyncFacts DEF SyncInv
<1>2. CASE s.tries >= SyncRetries
  <2>1. sync' = [sync EXCEPT ![t] = NoSync]
    BY <1>2 DEF RetriedSync
  <2> HIDE DEF NoSync
  <2> QED BY <1>1, <2>1, NoSyncFacts, WorkerKeeps, SyncFacts
<1>3. CASE ~(s.tries >= SyncRetries)
  <2> DEFINE none == 0
             no == FALSE
             next == s.tries + 1
             empty == {}
             d == [s EXCEPT !.at = "waiting", !.tries = next, !.page = empty, !.more = no, !.next = none]
  <2>1. sync' = [sync EXCEPT ![t] = d]
    BY <1>3, SyncFacts DEF RetriedSync, SyncType
  <2>2. s.tries \in 0 .. SyncRetries /\ SyncRetries \in Nat
    BY <1>1, SyncFacts DEF SyncType
  <2>3. next \in 0 .. SyncRetries
    BY <1>3, <2>2
  <2>4. none \in Numbers /\ Named(none) /\ no \in BOOLEAN /\ empty \in SUBSET Posts
    BY SyncFacts DEF Numbers, Named
  <2> HIDE DEF none, no, next, empty
  <2>5. d \in SyncType /\ d.at = "waiting" /\ d.cycle = s.cycle /\ d.kind = s.kind /\ d.cursor = s.cursor /\ d.next = none
    BY <1>1, <2>3, <2>4 DEF SyncType, TaskAts
  <2> HIDE DEF d
  <2>6. d.cycle = sync[t].cycle /\ d.kind = sync[t].kind /\ d.cursor = sync[t].cursor /\ Named(d.next)
    BY <2>4, <2>5
  <2> QED BY <1>1, <2>1, <2>5, <2>6, WorkerKeeps, SyncFacts
<1> QED BY <1>2, <1>3

LEMMA StopsInv == ASSUME SyncInv, UNCHANGED setup, NEW t \in Tasks, SyncFails(t) \/ SyncCrashes(t) PROVE SyncInv'
<1>1. UNCHANGED <<published, turn, seen>> /\ sync' = RetriedSync(t) /\ StoredSoFar(t)
  BY DEF SyncFails, SyncCrashes
<1>2. stream' \in StreamType
  <2>1. stream' = stream \/ stream' = [stream EXCEPT !.status = "idle"]
    BY DEF SyncFails, SyncCrashes
  <2> QED BY <2>1, SyncFacts DEF StreamType
<1>3. cycle' \in [Cycles -> CycleType] /\ \A c \in Cycles : CycleOk(cycle'[c]) /\ cycle'[c].kind = cycle[c].kind
  <2>1. cycle' = cycle \/ cycle' = MarkCycleFailed(sync[t].cycle)
    BY DEF SyncFails, SyncCrashes
  <2>2. sync[t].cycle \in Cycles \cup {0}
    BY SyncFacts DEF SyncType
  <2>3. CASE cycle' = cycle
    BY <2>3, SyncFacts DEF SyncInv
  <2>4. CASE cycle' = MarkCycleFailed(sync[t].cycle)
    BY <2>2, <2>4, MarkRunningKeeps
  <2> QED BY <2>1, <2>3, <2>4
<1> QED BY <1>1, <1>2, <1>3, RetriedInv---------------------------------------------------------------------------
(* The provider, the clock and the scheduler. *)

\* A step of the provider or the clock, which leaves jobs and marks alone.
LEMMA ClockInv ==
  ASSUME SyncInv, UNCHANGED setup,
         PublishPost \/ RefreshFallsDue \/ GoesStale \/ Beat \/ \E c \in Cycles : HydrationFallsDue(c)
  PROVE  SyncInv'
<1> DEFINE yes == TRUE
           no == FALSE
<1>0. yes \in BOOLEAN /\ no \in BOOLEAN
  OBVIOUS
<1>1. UNCHANGED <<turn, sync, seen, stored>>
  BY DEF PublishPost, RefreshFallsDue, GoesStale, Beat, HydrationFallsDue
<1>2. published' \in Numbers /\ published <= published'
  <2>1. published' = published \/ (published < MaxPosts /\ published' = published + 1)
    BY DEF PublishPost, RefreshFallsDue, GoesStale, Beat, HydrationFallsDue
  <2> QED BY <2>1, SyncFacts DEF Numbers
<1>3. stream' \in StreamType
  <2>1. \/ stream' = stream \/ stream' = [stream EXCEPT !.due = yes]
        \/ stream' = [stream EXCEPT !.stale = yes] \/ stream' = [stream EXCEPT !.stale = no]
    BY DEF PublishPost, RefreshFallsDue, GoesStale, Beat, HydrationFallsDue
  <2> HIDE DEF yes, no
  <2> QED BY <1>0, <2>1, SyncFacts DEF StreamType
<1>4. cycle' \in [Cycles -> CycleType] /\ \A c \in Cycles : CycleOk(cycle'[c]) /\ cycle'[c].kind = cycle[c].kind
  <2>0. cycle \in [Cycles -> CycleType] /\ \A c \in Cycles : CycleOk(cycle[c])
    BY SyncFacts DEF SyncInv
  <2>1. CASE UNCHANGED cycle
    BY <2>0, <2>1
  <2>2. CASE cycle' = [c \in Cycles |-> [cycle[c] EXCEPT !.fresh = no]]
    <3> HIDE DEF no
    <3>1. \A c \in Cycles : [cycle[c] EXCEPT !.fresh = no] \in CycleType /\ cycle'[c] = [cycle[c] EXCEPT !.fresh = no]
      BY <1>0, <2>0, <2>2 DEF CycleType
    <3>2. \A c \in Cycles : cycle'[c].kind = cycle[c].kind /\ cycle'[c].cursor = cycle[c].cursor /\ cycle'[c].head = cycle[c].head
      BY <2>0, <3>1 DEF CycleType
    <3>3. \A c \in Cycles : CycleOk(cycle'[c])
      BY <2>0, <3>2 DEF CycleOk
    <3> QED BY <2>2, <3>1, <3>2, <3>3
  <2>3. ASSUME NEW c \in Cycles, cycle' = [cycle EXCEPT ![c].due = yes]
        PROVE  cycle' \in [Cycles -> CycleType] /\ \A k \in Cycles : CycleOk(cycle'[k]) /\ cycle'[k].kind = cycle[k].kind
    <3> DEFINE d == [cycle[c] EXCEPT !.due = yes]
    <3> HIDE DEF yes
    <3>1. d \in CycleType /\ d.kind = cycle[c].kind /\ d.cursor = cycle[c].cursor /\ d.head = cycle[c].head
      BY <1>0, <2>0 DEF CycleType
    <3>2. cycle' = [cycle EXCEPT ![c] = d]
      BY <2>0, <2>3
    <3> HIDE DEF d
    <3>3. CycleOk(d)
      BY <2>0, <3>1 DEF CycleOk
    <3> QED BY <2>0, <3>1, <3>2, <3>3
  <2> QED BY <2>1, <2>2, <2>3 DEF PublishPost, RefreshFallsDue, GoesStale, Beat, HydrationFallsDue
<1> HIDE DEF yes, no
<1> QED BY <1>1, <1>2, <1>3, <1>4, SyncKeeps, SyncFacts DEF StreamType

\* A step of the scheduler that gives it another job.
LEMMA TurnKeeps ==
  ASSUME SyncInv, UNCHANGED <<setup, published, cycle, sync, seen, stored>>, stream' \in StreamType,
         turn' \in TurnType, turn' = turn \/ (Named(turn'.cursor) /\ Refers(turn)')
  PROVE  SyncInv'
<1>1. \A c \in Cycles : CycleOk(cycle'[c])
  BY DEF SyncInv
<1>2. /\ published' \in Numbers /\ published <= published' /\ seen' \subseteq stored' /\ stored \subseteq stored' /\ stored' \subseteq Posts
      /\ cycle' \in [Cycles -> CycleType] /\ sync' \in [Tasks -> SyncType]
  BY SyncFacts DEF Numbers
<1>3. /\ \A c \in Cycles : c \in Referred /\ cycle[c].kind = "hydration" => cycle'[c].kind = "hydration"
      /\ \A t \in Tasks : sync'[t] = sync[t] \/ TaskWell(sync[t])'
  OBVIOUS
<1> QED BY <1>1, <1>2, <1>3, SyncKeeps DEF StreamType

LEMMA NoTurnFacts == NoTurn \in TurnType /\ NoTurn.cursor = 0 /\ NoTurn.kind = "refresh" /\ NoTurn.cycle = 0
<1>1. 0 \in Numbers
  BY SyncAssumption DEF Numbers
<1> QED BY <1>1 DEF NoTurn, TurnType

LEMMA ZeroIsNamed == SyncInv => Named(0)
BY SyncFacts DEF Named, Numbers

LEMMA ClaimStreamsInv == ASSUME SyncInv, UNCHANGED setup, ClaimStreams \/ SkipTurn \/ LoseTurn PROVE SyncInv'
<1> DEFINE no == FALSE
           d == [NoTurn EXCEPT !.at = "claimed"]
<1>0. no \in BOOLEAN
  OBVIOUS
<1>1. UNCHANGED <<published, cycle, sync, seen, stored>>
  BY DEF ClaimStreams, SkipTurn, LoseTurn
<1>2. stream' \in StreamType
  <2>1. \/ stream' = stream \/ stream' = [stream EXCEPT !.status = "queued", !.stale = no]
        \/ stream' = [stream EXCEPT !.status = "idle"]
    BY DEF ClaimStreams, SkipTurn, LoseTurn
  <2> HIDE DEF no
  <2> QED BY <1>0, <2>1, SyncFacts DEF StreamType
<1>3. turn' = d \/ turn' = NoTurn
  BY DEF ClaimStreams, SkipTurn, LoseTurn
<1> HIDE DEF NoTurn
<1>4. d \in TurnType /\ d.cursor = 0 /\ d.kind = "refresh"
  BY NoTurnFacts DEF TurnType
<1> HIDE DEF d
<1>5. turn' \in TurnType /\ turn'.cursor = 0 /\ turn'.kind = "refresh"
  BY <1>3, <1>4, NoTurnFacts
<1>6. Named(turn'.cursor) /\ Refers(turn)'
  BY <1>5, ZeroIsNamed DEF Refers
<1> QED BY <1>1, <1>2, <1>5, <1>6, TurnKeeps

LEMMA BuildJobKeeps ==
  ASSUME SyncInv, NEW c \in Cycles \cup {0}, BuildJob(c), UNCHANGED cycle
  PROVE  turn' \in TurnType /\ Named(turn'.cursor) /\ Refers(turn)'
<1> DEFINE row == CycleRow(c)
<1>1. row \in CycleType /\ CycleOk(row) /\ (c # 0 => row = cycle[c]) /\ (c = 0 => row.kind = "refresh")
  <2>1. c = 0 => row.kind = "refresh"
    BY DEF CycleRow, NoCycle
  <2> QED BY <2>1, CycleRowFacts
<1>2. turn' = [at |-> "built", cycle |-> c, kind |-> row.kind, cursor |-> row.cursor]
  BY DEF BuildJob
<1> HIDE DEF row
<1>3. turn' \in TurnType /\ turn'.cycle = c /\ turn'.kind = row.kind /\ turn'.cursor = row.cursor
  BY <1>1, <1>2 DEF TurnType, CycleType
<1> QED BY <1>1, <1>3 DEF Refers, CycleOk

LEMMA CreateRefreshInv == ASSUME SyncInv, UNCHANGED setup, CreateRefresh PROVE SyncInv'
<1>1. UNCHANGED <<published, stream, sync, seen, stored>> /\ stream' \in StreamType
  BY SyncFacts DEF CreateRefresh, StreamType
<1>2. CASE BuildJob(0) /\ UNCHANGED cycle
  BY <1>1, <1>2, BuildJobKeeps, TurnKeeps
<1>3. CASE ~TargetTaken("refresh", 0)
  <2> DEFINE f == CHOOSE c \in FreeCycles : TRUE
             yes == TRUE
             row == [NoCycle EXCEPT !.status = "active", !.fresh = yes]
             d == [NoTurn EXCEPT !.at = "built", !.cycle = f]
  <2>1. /\ FreeCycles # {} /\ cycle' = [cycle EXCEPT ![CHOOSE c \in FreeCycles : TRUE] = row] /\ turn' = d /\ yes \in BOOLEAN
    BY <1>3 DEF CreateRefresh
  <2>2. NoCycle \in CycleType /\ NoCycle.cursor = 0 /\ NoCycle.kind = "refresh"
    BY SyncFacts DEF NoCycle, CycleType, Numbers
  <2>3. f \in Cycles
    BY <2>1 DEF FreeCycles
  <2> HIDE DEF NoCycle, NoTurn, f, yes
  <2>4. row \in CycleType /\ row.cursor = 0 /\ row.kind = "refresh"
    BY <2>1, <2>2 DEF CycleType
  <2> HIDE DEF row
  <2>5. CycleOk(row)
    BY <2>4, ZeroIsNamed DEF CycleOk
  <2>6. /\ cycle' \in [Cycles -> CycleType] /\ \A c \in Cycles : CycleOk(cycle'[c])
        /\ \A c \in Cycles : c \in Referred => cycle'[c] = cycle[c]
    BY <2>1, <2>4, <2>5, NewCycle
  <2>7. d \in TurnType /\ d.cursor = 0 /\ d.kind = "refresh"
    BY <2>3, NoTurnFacts DEF TurnType
  <2> HIDE DEF d
  <2>8. turn' \in TurnType /\ Named(turn'.cursor) /\ Refers(turn)'
    BY <2>1, <2>7, ZeroIsNamed DEF Refers
  <2>9. /\ published' \in Numbers /\ published <= published' /\ seen' \subseteq stored' /\ stored \subseteq stored' /\ stored' \subseteq Posts
        /\ sync' \in [Tasks -> SyncType]
    BY <1>1, SyncFacts DEF Numbers
  <2>10. /\ \A c \in Cycles : c \in Referred /\ cycle[c].kind = "hydration" => cycle'[c].kind = "hydration"
         /\ \A t \in Tasks : sync'[t] = sync[t] \/ TaskWell(sync[t])'
    BY <1>1, <2>6
  <2> QED BY <1>1, <2>6, <2>8, <2>9, <2>10, SyncKeeps DEF StreamType
<1> QED BY <1>2, <1>3 DEF CreateRefresh

LEMMA RunCycleInv == ASSUME SyncInv, UNCHANGED setup, RunCycle PROVE SyncInv'
<1>1. UNCHANGED <<published, stream, cycle, sync, seen, stored>> /\ stream' \in StreamType
  BY SyncFacts DEF RunCycle, StreamType
<1>2. PICK c \in DueCycles : BuildJob(c)
  BY DEF RunCycle
<1>3. c \in Cycles \cup {0}
  BY DEF DueCycles
<1> QED BY <1>1, <1>2, <1>3, BuildJobKeeps, TurnKeeps

LEMMA DispatchInv == ASSUME SyncInv, UNCHANGED setup, Dispatch PROVE SyncInv'
<1> DEFINE d == [NoSync EXCEPT !.at = "waiting", !.cycle = turn.cycle, !.kind = turn.kind, !.cursor = turn.cursor]
<1>1. PICK t \in Tasks : sync' = [sync EXCEPT ![t] = d]
  BY DEF Dispatch
<1>2. UNCHANGED <<published, stream, cycle, seen, stored>> /\ turn' = NoTurn
  BY DEF Dispatch
<1>3. turn \in TurnType /\ Named(turn.cursor) /\ Refers(turn)
  BY SyncFacts DEF SyncInv
<1> HIDE DEF NoSync, NoTurn
<1>4. /\ d \in SyncType /\ d.at = "waiting" /\ d.cycle = turn.cycle /\ d.kind = turn.kind /\ d.cursor = turn.cursor /\ d.next = 0
  BY <1>3, NoSyncFacts DEF SyncType, TurnType, TaskAts
<1> HIDE DEF d
<1>5. sync \in [Tasks -> SyncType]
  BY SyncFacts
<1>6. sync' \in [Tasks -> SyncType] /\ sync'[t] = d /\ \A u \in Tasks \ {t} : sync'[u] = sync[u]
  BY <1>1, <1>4, <1>5
<1>7. TaskWell(sync[t])'
  <2>1. Named(d.cursor) /\ Named(d.next) /\ Refers(d)
    BY <1>3, <1>4, ZeroIsNamed DEF Refers
  <2> QED BY <1>2, <1>4, <1>6, <2>1 DEF TaskWell, Named, Refers
<1>8. turn' \in TurnType /\ Named(turn'.cursor) /\ Refers(turn)'
  BY <1>2, NoTurnFacts, ZeroIsNamed DEF Refers
<1>9. \A u \in Tasks : sync'[u] = sync[u] \/ TaskWell(sync[u])'
  BY <1>6, <1>7
<1>10. \A c \in Cycles : CycleOk(cycle'[c])
  BY <1>2 DEF SyncInv
<1>11. /\ published' \in Numbers /\ published <= published' /\ seen' \subseteq stored' /\ stored \subseteq stored' /\ stored' \subseteq Posts
       /\ cycle' \in [Cycles -> CycleType] /\ stream' \in StreamType
  BY <1>2, SyncFacts DEF Numbers, StreamType
<1>12. \A c \in Cycles : c \in Referred /\ cycle[c].kind = "hydration" => cycle'[c].kind = "hydration"
  BY <1>2
<1> QED BY <1>6, <1>8, <1>9, <1>10, <1>11, <1>12, SyncKeeps DEF StreamType

LEMMA SyncNextInv == SyncInv /\ [SyncNext]_syncVars => SyncInv'
<1> SUFFICES ASSUME SyncInv, [SyncNext]_syncVars PROVE SyncInv'
  OBVIOUS
<1>1. CASE UNCHANGED syncVars
  <2>1. UNCHANGED <<setup, published, cycle, sync, seen, stored, turn>> /\ stream' \in StreamType
    BY <1>1, SyncFacts DEF syncVars, syncState, StreamType
  <2> QED BY <2>1, SyncFacts, TurnKeeps
<1>2. CASE SyncNext
  <2>1. SyncStep /\ UNCHANGED setup
    BY <1>2 DEF SyncNext
  <2>2. ASSUME NEW t \in Tasks, SyncWorker(t) PROVE SyncInv'
    <3>1. ASSUME Execute(t) PROVE SyncInv'
      BY <2>1, <3>1, FetchedInv DEF Execute, ExecuteReddit, ExecuteHackerNews
    <3> QED BY <2>1, <2>2, <3>1, StartSyncInv, ExecuteHydrationInv, AcceptRecordsInv, MarkSeenInv, AdvanceCycleInv, SettleStreamInv
            DEF SyncWorker
  <2>3. ASSUME Scheduler PROVE SyncInv'
    BY <2>1, <2>3, ClaimStreamsInv, CreateRefreshInv, RunCycleInv, DispatchInv DEF Scheduler, ChooseCycle
  <2>4. ASSUME NEW t \in Tasks, SyncFails(t) \/ SyncCrashes(t) PROVE SyncInv'
    BY <2>1, <2>4, StopsInv
  <2>5. ASSUME PublishPost \/ RefreshFallsDue \/ GoesStale \/ Beat \/ \E c \in Cycles : HydrationFallsDue(c) PROVE SyncInv'
    BY <2>1, <2>5, ClockInv
  <2> QED BY <2>1, <2>2, <2>3, <2>4, <2>5, ClaimStreamsInv DEF SyncStep
<1> QED BY <1>1, <1>2

LEMMA SyncInitInv == SyncInit => SyncInv
<1> SUFFICES ASSUME SyncInit PROVE SyncInv
  OBVIOUS
<1>1. MaxPosts \in Nat /\ setup \in SyncConfigs /\ published = setup.listed /\ published \in 0 .. MaxPosts
  BY SyncAssumption DEF SyncInit
<1>2. NoCycle \in CycleType /\ NoCycle.cursor = 0 /\ NoCycle.kind = "refresh"
  BY <1>1 DEF NoCycle, CycleType, Numbers
<1>3. \A n \in {0} : Named(n)
  BY <1>1 DEF Named
<1>4. /\ cycle = [c \in Cycles |-> NoCycle] /\ turn = NoTurn /\ sync = [t \in Tasks |-> NoSync] /\ seen = {} /\ stored = {}
      /\ stream = [status |-> "idle", stale |-> FALSE, due |-> TRUE, never |-> TRUE]
  BY DEF SyncInit
<1>5. stream \in StreamType
  BY <1>4 DEF StreamType
<1> HIDE DEF NoCycle, NoTurn, NoSync
<1>6. SyncTypeOK
  <2>1. cycle \in [Cycles -> CycleType] /\ turn \in TurnType /\ sync \in [Tasks -> SyncType]
    BY <1>2, <1>4, NoTurnFacts, NoSyncFacts
  <2> QED BY <1>1, <1>4, <1>5, <2>1 DEF SyncTypeOK, CycleType, TurnType, SyncType, TaskAts, Numbers, StreamType
<1>7. \A c \in Cycles : CycleOk(cycle[c])
  BY <1>2, <1>3, <1>4 DEF CycleOk
<1>8. Named(turn.cursor) /\ Refers(turn)
  BY <1>3, <1>4, NoTurnFacts DEF Refers
<1>9. \A t \in Tasks : TaskWell(sync[t])
  BY <1>3, <1>4, NoSyncFacts DEF TaskWell, Refers
<1> QED BY <1>1, <1>4, <1>6, <1>7, <1>8, <1>9 DEF SyncInv, SeenIsStored

\* The rows, the queue and the workers hold what they should (provider_stream_repo.go,
\* sync_cycle_repo.go).
THEOREM SyncTypeCorrect == SyncSpec => []SyncTypeOK
<1>1. SyncInv => SyncTypeOK
  BY DEF SyncInv
<1> QED BY <1>1, SyncInitInv, SyncNextInv, PTL DEF SyncSpec

LEMMA HandedOver == SyncInv => PassedIsStored
<1> SUFFICES ASSUME SyncInv PROVE PassedIsStored
  OBVIOUS
<1>1. ASSUME NEW t \in Tasks, sync[t].at \in {"remembering", "advancing"}, sync[t].kind = "refresh", sync[t].more,
             setup.paging = "after"
      PROVE  Spanned(sync[t]) \subseteq stored
  BY <1>1 DEF SyncInv, TaskWell
<1> QED BY <1>1 DEF PassedIsStored, PagesAreHandedOver, SyncInv

\* What a later page would stop at or start behind is stored, whatever fails, is retried,
\* is taken twice or is published meanwhile (result_handler.go).
THEOREM NothingIsSkipped == SyncSpec => []PassedIsStored
BY HandedOver, SyncInitInv, SyncNextInv, PTL DEF SyncSpec
---------------------------------------------------------------------------
(* Builds, previews and releases of a page. *)

Build == [version : SourceVersions \cup {0}, channel : Channels]
AgentType == [at : AgentPhases, channel : Channels, result : Build, last : BOOLEAN]
ReleaseMishaps == [crashes : Nat, vendor : Nat, tabs : Nat, activations : Nat, records : Nat]

ReleaseTypes ==
  /\ page \in Pages /\ version \in SourceVersions
  /\ dist \in [Channels -> [bundle : SourceVersions \cup {0}, rest : SourceVersions \cup {0}]]
  /\ builder \in Agents \cup {NoAgent} /\ live \in [Channels -> Build] /\ tab \in Build
  /\ status \in [Channels -> {"none", "building", "ok", "failed"}]
  /\ agent \in [Agents -> AgentType]
  /\ releaseFaults \in ReleaseMishaps
  /\ \A w \in {"crashes", "vendor"} : releaseFaults[w] <= ReleaseFaults[w]

\* What is stored fits, and what is live of a channel is stored for it.
StoredBuilds ==
  /\ IsFiniteSet(stagedBuilds)
  /\ \A c \in Channels : Cardinality({s \in stagedBuilds : s[1] = c}) <= BuildLimit
Served ==
  /\ \A c \in Channels : live[c] # NoBuild => <<c, live[c]>> \in stagedBuilds
  /\ Quality(live["published"]) \notin {"broken", "blank"}

\* What is built did compile, what is activated is stored, and of a page with a contract
\* what is checked and published was seen to mount.
AgentOk(a) ==
  /\ Quality(agent[a].result) # "broken"
  /\ agent[a].at = "linking" => builder = a
  /\ page.commands[a] = "publish" /\ agent[a].at # "unsent" /\ ~agent[a].last => agent[a].channel = "published"
  /\ agent[a].at \in {"opening", "sandboxing", "loading", "checking", "publishing"} =>
       page.commands[a] # "save" /\ ~agent[a].last
  /\ agent[a].at \in {"checking", "publishing"} => page.commands[a] = "publish"
  /\ agent[a].at = "activating" => agent[a].channel = "draft" /\ <<"draft", agent[a].result>> \in stagedBuilds
  /\ agent[a].at = "sandboxing" => <<"draft", agent[a].result>> \in stagedBuilds
  /\ page.contract =>
       /\ agent[a].at # "linking"
       /\ agent[a].at \in {"settling", "opening", "sandboxing", "loading", "checking", "publishing"}
            /\ agent[a].channel = "published" => <<"published", agent[a].result>> \in stagedBuilds
       /\ agent[a].at \in {"checking", "publishing"} => Quality(agent[a].result) # "blank"

\* The files of a channel are of one build but for the channel whose build is being linked.
Linked ==
  Spared("crashes") /\ Spared("vendor") =>
    /\ builder # NoAgent => agent[builder].at = "linking" /\ dist[agent[builder].channel].bundle = agent[builder].result.version
    /\ \A c \in Channels : dist[c].bundle = dist[c].rest \/ (builder # NoAgent /\ agent[builder].channel = c)

ReleaseInv == ReleaseTypes /\ StoredBuilds /\ Served /\ (\A a \in Agents : AgentOk(a)) /\ Linked

\* A step of one agent.
LEMMA ReleaseKeeps ==
  ASSUME ReleaseInv, NEW a \in Agents, UNCHANGED page, ReleaseTypes', StoredBuilds', Served', Linked',
         agent' = [agent EXCEPT ![a] = agent'[a]], AgentOk(a)', stagedBuilds \subseteq stagedBuilds',
         builder' = builder \/ (builder = NoAgent /\ builder' = a) \/ (builder = a /\ builder' = NoAgent)
  PROVE  ReleaseInv'
<1>1. ASSUME NEW b \in Agents, b # a PROVE AgentOk(b)'
  <2>1. agent'[b] = agent[b] /\ AgentOk(b)
    BY <1>1 DEF ReleaseInv, ReleaseTypes
  <2>2. builder = b => builder' = b
    BY <1>1, ReleaseAssumption DEF NoAgent
  <2>3. Quality(agent[b].result)' = Quality(agent[b].result)
    BY <2>1 DEF Quality
  <2> QED BY <2>1, <2>2, <2>3 DEF AgentOk
<1> QED BY <1>1 DEF ReleaseInv

\* One that is not of linking.
LEMMA LinkedKeeps ==
  ASSUME ReleaseInv, NEW a \in Agents, UNCHANGED <<dist, builder>>, agent' = [agent EXCEPT ![a] = agent'[a]],
         agent[a].at # "linking", \A w \in {"crashes", "vendor"} : releaseFaults'[w] = releaseFaults[w]
  PROVE  Linked'
<1>1. SUFFICES ASSUME Spared("crashes")', Spared("vendor")'
               PROVE  /\ builder # NoAgent => agent'[builder].at = "linking" /\ dist[agent'[builder].channel].bundle = agent'[builder].result.version
                      /\ \A c \in Channels : dist[c].bundle = dist[c].rest \/ (builder # NoAgent /\ agent'[builder].channel = c)
  BY DEF Linked
<1>2. Spared("crashes") /\ Spared("vendor")
  BY <1>1 DEF Spared
<1>3. builder # NoAgent => builder # a /\ agent'[builder] = agent[builder]
  BY <1>2 DEF ReleaseInv, Linked, ReleaseTypes
<1> QED BY <1>2, <1>3 DEF ReleaseInv, Linked

ReleaseCalm == releaseFaults' \in ReleaseMishaps /\ \A w \in {"crashes", "vendor"} : releaseFaults'[w] = releaseFaults[w]

LEMMA SufferFacts ==
  ASSUME ReleaseInv, NEW w \in {"crashes", "vendor", "tabs", "activations", "records"}, Suffers(w)
  PROVE  /\ releaseFaults' \in ReleaseMishaps
         /\ \A v \in {"crashes", "vendor"} : releaseFaults'[v] <= ReleaseFaults[v] /\ (v # w => releaseFaults'[v] = releaseFaults[v])
         /\ w \in {"crashes", "vendor"} => ~Spared(w)'
<1>1. /\ releaseFaults \in ReleaseMishaps /\ releaseFaults[w] > 0 /\ releaseFaults[w] \in Nat
      /\ releaseFaults' = [releaseFaults EXCEPT ![w] = releaseFaults[w] - 1]
      /\ \A v \in {"crashes", "vendor"} : releaseFaults[v] <= ReleaseFaults[v] /\ releaseFaults[v] \in Nat /\ ReleaseFaults[v] \in Nat
  BY ReleaseAssumption DEF ReleaseInv, ReleaseTypes, Suffers, ReleaseMishaps
<1>2. releaseFaults' \in ReleaseMishaps
  BY <1>1 DEF ReleaseMishaps
<1>3. ASSUME NEW v \in {"crashes", "vendor"}
      PROVE  releaseFaults'[v] <= ReleaseFaults[v] /\ (v # w => releaseFaults'[v] = releaseFaults[v]) /\ (v = w => releaseFaults'[v] # ReleaseFaults[v])
  <2>1. releaseFaults'[v] = IF v = w THEN releaseFaults[w] - 1 ELSE releaseFaults[v]
    BY <1>1 DEF ReleaseMishaps
  <2> QED BY <1>1, <2>1
<1> QED BY <1>2, <1>3 DEF Spared

\* A step of an agent that is not linking and does not begin to.
LEMMA QuietStep ==
  ASSUME ReleaseInv, NEW a \in Agents, UNCHANGED <<page, dist, builder>>, ReleaseCalm,
         agent' = [agent EXCEPT ![a] = agent'[a]], agent'[a] \in AgentType, agent[a].at # "linking",
         version' \in SourceVersions, live' \in [Channels -> Build], tab' \in Build,
         status' \in [Channels -> {"none", "building", "ok", "failed"}],
         stagedBuilds \subseteq stagedBuilds', StoredBuilds', Served', AgentOk(a)'
  PROVE  ReleaseInv'
<1>1. Linked'
  BY LinkedKeeps DEF ReleaseCalm
<1>2. SourceVersions' = SourceVersions
  BY DEF SourceVersions
<1>3. agent' \in [Agents -> AgentType] /\ AgentType' = AgentType /\ Build' = Build
  BY <1>2 DEF ReleaseInv, ReleaseTypes, AgentType, Build
<1>4. ReleaseTypes'
  BY <1>2, <1>3 DEF ReleaseInv, ReleaseTypes, ReleaseCalm
<1> QED BY <1>1, <1>4, ReleaseKeeps

LEMMA AgentFacts ==
  ASSUME ReleaseInv, NEW a \in Agents
  PROVE  /\ agent[a] \in AgentType /\ agent[a].at \in AgentPhases /\ agent[a].channel \in Channels
         /\ agent[a].result \in Build /\ agent[a].last \in BOOLEAN /\ AgentOk(a)
         /\ page.commands[a] \in {"save", "preview", "publish"} /\ page.contract \in BOOLEAN
BY ReleaseAssumption DEF ReleaseInv, ReleaseTypes, AgentType

\* One that only goes somewhere else.
LEMMA GoesTo ==
  ASSUME ReleaseInv, NEW a \in Agents, NEW place \in AgentPhases, Goes(a, place)
  PROVE  /\ agent' = [agent EXCEPT ![a] = agent'[a]] /\ agent'[a] \in AgentType
         /\ agent'[a] = [agent[a] EXCEPT !.at = place]
         /\ agent'[a].at = place /\ agent'[a].channel = agent[a].channel
         /\ agent'[a].result = agent[a].result /\ agent'[a].last = agent[a].last
<1>1. agent'[a] = [agent[a] EXCEPT !.at = place] /\ agent' = [agent EXCEPT ![a] = [agent[a] EXCEPT !.at = place]]
  BY DEF Goes, ReleaseInv, ReleaseTypes
<1> QED BY <1>1, AgentFacts DEF AgentType

LEMMA RowRecorded ==
  ASSUME ReleaseInv, NEW c \in Channels, NEW what \in {"building", "ok", "failed"}, RecordRow(c, what)
  PROVE  ReleaseCalm /\ status' \in [Channels -> {"none", "building", "ok", "failed"}]
<1>1. CASE status' = [status EXCEPT ![c] = what] /\ UNCHANGED releaseFaults
  BY <1>1 DEF ReleaseInv, ReleaseTypes, ReleaseCalm
<1>2. CASE Suffers("records") /\ UNCHANGED status
  BY <1>2, SufferFacts DEF ReleaseInv, ReleaseTypes, ReleaseCalm
<1> QED BY <1>1, <1>2 DEF RecordRow

LEMMA ServedStays ==
  ASSUME ReleaseInv, UNCHANGED <<page, live>>, stagedBuilds \subseteq stagedBuilds'
  PROVE  Served'
BY DEF ReleaseInv, Served, Quality

LEMMA RecordBuildingInv == ASSUME ReleaseInv, NEW a \in Agents, RecordBuilding(a) PROVE ReleaseInv'
<1>1. /\ agent[a].at = "recording" /\ Goes(a, "compiling") /\ RecordRow(agent[a].channel, "building")
      /\ UNCHANGED <<page, version, dist, builder, stagedBuilds, live, tab>>
  BY DEF RecordBuilding
<1>2. "compiling" \in AgentPhases
  BY DEF AgentPhases
<1>3. AgentOk(a)'
  <2>1. /\ agent'[a].at = "compiling" /\ agent'[a].channel = agent[a].channel
        /\ agent'[a].result = agent[a].result /\ agent'[a].last = agent[a].last
    BY <1>1, <1>2, GoesTo
  <2>2. AgentOk(a)
    BY AgentFacts
  <2> QED BY <1>1, <2>1, <2>2 DEF AgentOk, Quality
<1>4. ReleaseCalm /\ status' \in [Channels -> {"none", "building", "ok", "failed"}]
  BY <1>1, RowRecorded, AgentFacts
<1>5. Served' /\ StoredBuilds'
  BY <1>1, ServedStays DEF ReleaseInv, StoredBuilds
<1>6. version' \in SourceVersions /\ live' \in [Channels -> Build] /\ tab' \in Build
  BY <1>1 DEF ReleaseInv, ReleaseTypes
<1> QED BY <1>1, <1>2, <1>3, <1>4, <1>5, <1>6, GoesTo, QuietStep

LEMMA VersionFacts ==
  ASSUME ReleaseInv
  PROVE  /\ version \in SourceVersions /\ version # 0 /\ SourceVersions \subseteq Nat \ {0}
         /\ page.quality[version] \in {"good", "broken", "blank", "lame"}
BY ReleaseAssumption DEF ReleaseInv, ReleaseTypes, SourceVersions

LEMMA CompileInv == ASSUME ReleaseInv, NEW a \in Agents, Compile(a) PROVE ReleaseInv'
<1> DEFINE c == agent[a].channel
           b == [version |-> version, channel |-> c]
           r == [agent[a] EXCEPT !.result = b, !.at = IF page.contract THEN "staging" ELSE "linking"]
<1>1. agent[a].at = "compiling" /\ builder = NoAgent /\ UNCHANGED <<page, version, stagedBuilds, live, status, tab, releaseFaults>>
  BY DEF Compile, Locked
<1>2. /\ version' \in SourceVersions /\ live' \in [Channels -> Build] /\ tab' \in Build /\ Served' /\ StoredBuilds'
      /\ status' \in [Channels -> {"none", "building", "ok", "failed"}] /\ ReleaseCalm
  BY <1>1, ServedStays DEF ReleaseInv, ReleaseTypes, StoredBuilds, ReleaseCalm
<1>3. CASE page.quality[version] = "broken"
  <2>1. Goes(a, "failing") /\ UNCHANGED <<dist, builder>>
    BY <1>3 DEF Compile
  <2>2. "failing" \in AgentPhases
    BY DEF AgentPhases
  <2>3. AgentOk(a)'
    <3>1. /\ agent'[a].at = "failing" /\ agent'[a].channel = agent[a].channel
          /\ agent'[a].result = agent[a].result /\ agent'[a].last = agent[a].last
      BY <1>1, <2>1, <2>2, GoesTo
    <3>2. AgentOk(a) /\ agent[a].channel \in Channels /\ page.commands[a] \in {"save", "preview", "publish"}
      BY AgentFacts
    <3> QED BY <1>1, <2>1, <2>2, <3>1, <3>2 DEF AgentOk, Quality
  <2> QED BY <1>1, <1>2, <2>1, <2>2, <2>3, GoesTo, QuietStep
<1>4. CASE page.quality[version] # "broken"
  <2>1. agent' = [agent EXCEPT ![a] = r] /\ b \in Build /\ b.version = version /\ b.channel = c
    BY <1>4, AgentFacts, VersionFacts DEF Compile, Build
  <2>2. /\ agent'[a].result = b /\ agent'[a].at = IF page.contract THEN "staging" ELSE "linking"
        /\ agent'[a].channel = c /\ agent'[a].last = agent[a].last /\ agent'[a] \in AgentType /\ agent'[a] = r
    BY ZenonT(40), <2>1, AgentFacts DEF AgentType, AgentPhases, ReleaseInv, ReleaseTypes
  <2>3. agent' = [agent EXCEPT ![a] = agent'[a]]
    BY <2>1, <2>2
  <2>4. version # 0 /\ page.quality[version] # "broken"
    BY <1>4, VersionFacts
  <2>5. CASE page.contract
    <3>1. UNCHANGED <<dist, builder>>
      BY <1>4, <2>5 DEF Compile
    <3>2. AgentOk(a)'
      <4>1. AgentOk(a)
        BY AgentFacts
      <4>2. agent'[a].at = "staging" /\ agent'[a].result.version = version
        BY <2>1, <2>2, <2>5
      <4> QED BY <1>1, <2>2, <2>4, <4>1, <4>2 DEF AgentOk, Quality
    <3> QED BY <1>1, <1>2, <2>2, <2>3, <3>1, <3>2, QuietStep
  <2>6. CASE ~page.contract
    <3>1. dist' = [dist EXCEPT ![c].bundle = version] /\ builder' = a
      BY <1>4, <2>6 DEF Compile
    <3>2. AgentOk(a)'
      <4>1. AgentOk(a)
        BY AgentFacts
      <4>2. agent'[a].at = "linking" /\ agent'[a].result.version = version
        BY <2>1, <2>2, <2>6
      <4> QED BY <1>1, <2>2, <2>4, <2>6, <3>1, <4>1, <4>2 DEF AgentOk, Quality
    <3>3. a # NoAgent
      BY ReleaseAssumption DEF NoAgent
    <3>4. Linked'
      <4>1. SUFFICES ASSUME Spared("crashes"), Spared("vendor")
                     PROVE  \A d \in Channels : dist'[d].bundle = dist'[d].rest \/ d = c
        <5>1. agent'[a].at = "linking" /\ agent'[a].result.version = version /\ agent'[a].channel = c
          BY <2>1, <2>2, <2>6
        <5>2. dist'[c].bundle = version
          BY <3>1, AgentFacts DEF ReleaseInv, ReleaseTypes
        <5> QED BY <1>1, <3>1, <3>3, <5>1, <5>2 DEF Linked, Spared
      <4>2. \A d \in Channels : dist[d].bundle = dist[d].rest
        BY <1>1, <4>1 DEF ReleaseInv, Linked
      <4> QED BY <3>1, <4>2 DEF ReleaseInv, ReleaseTypes
    <3>5. SourceVersions' = SourceVersions /\ AgentType' = AgentType /\ Build' = Build
      BY <1>1 DEF SourceVersions, AgentType, Build
    <3>6. dist' \in [Channels -> [bundle : SourceVersions \cup {0}, rest : SourceVersions \cup {0}]]
      BY <3>1, VersionFacts, AgentFacts DEF ReleaseInv, ReleaseTypes
    <3>7. ReleaseTypes'
      BY SMTT(30), <1>1, <1>2, <2>2, <2>3, <3>1, <3>5, <3>6 DEF ReleaseInv, ReleaseTypes
    <3>8. stagedBuilds \subseteq stagedBuilds' /\ UNCHANGED page
      BY <1>1
    <3> QED BY <1>1, <1>2, <2>3, <3>1, <3>2, <3>4, <3>7, <3>8, ReleaseKeeps
  <2> QED BY <2>5, <2>6
<1> QED BY <1>3, <1>4

LEMMA LinkInv == ASSUME ReleaseInv, NEW a \in Agents, Link(a) PROVE ReleaseInv'
<1> DEFINE c == agent[a].channel
<1>1. /\ agent[a].at = "linking" /\ builder' = NoAgent /\ builder = a /\ a # NoAgent /\ ~page.contract
      /\ UNCHANGED <<page, version, stagedBuilds, live, status, tab>>
  BY AgentFacts, ReleaseAssumption DEF Link, AgentOk, NoAgent
<1>2. stagedBuilds \subseteq stagedBuilds' /\ Served' /\ StoredBuilds'
  BY <1>1, ServedStays DEF ReleaseInv, StoredBuilds
<1>3. SourceVersions' = SourceVersions /\ AgentType' = AgentType /\ Build' = Build
  BY <1>1 DEF SourceVersions, AgentType, Build
<1>4. ASSUME NEW place \in {"settling", "failing"}, Goes(a, place) PROVE AgentOk(a)'
  <2>1. place \in AgentPhases
    BY DEF AgentPhases
  <2>2. /\ agent'[a].at = place /\ agent'[a].channel = agent[a].channel
        /\ agent'[a].result = agent[a].result /\ agent'[a].last = agent[a].last
    BY <1>4, <2>1, GoesTo
  <2>3. AgentOk(a)
    BY AgentFacts
  <2> QED BY <1>1, <2>2, <2>3 DEF AgentOk, Quality
<1>5. ASSUME NEW place \in {"settling", "failing"}, Goes(a, place) PROVE agent' = [agent EXCEPT ![a] = agent'[a]] /\ agent' \in [Agents -> AgentType]
  <2>1. place \in AgentPhases
    BY DEF AgentPhases
  <2>2. agent' = [agent EXCEPT ![a] = agent'[a]] /\ agent'[a] \in AgentType
    BY <1>5, <2>1, GoesTo
  <2> QED BY <2>2 DEF ReleaseInv, ReleaseTypes
<1>6. CASE dist' = [dist EXCEPT ![c].rest = agent[a].result.version] /\ Goes(a, "settling") /\ UNCHANGED releaseFaults
  <2>1. dist' \in [Channels -> [bundle : SourceVersions \cup {0}, rest : SourceVersions \cup {0}]]
    BY SMTT(30), <1>6, AgentFacts DEF ReleaseInv, ReleaseTypes, Build
  <2>2. ReleaseTypes'
    BY <1>1, <1>3, <1>5, <1>6, <2>1 DEF ReleaseInv, ReleaseTypes
  <2>3. Linked'
    <3>1. SUFFICES ASSUME Spared("crashes"), Spared("vendor") PROVE \A d \in Channels : dist'[d].bundle = dist'[d].rest
      BY <1>1, <1>6 DEF Linked, Spared
    <3>2. dist[c].bundle = agent[a].result.version /\ \A d \in Channels : dist[d].bundle = dist[d].rest \/ d = c
      BY <1>1, <3>1 DEF ReleaseInv, Linked
    <3> QED BY <1>6, <3>2, AgentFacts DEF ReleaseInv, ReleaseTypes
  <2> QED BY <1>1, <1>2, <1>4, <1>5, <1>6, <2>2, <2>3, ReleaseKeeps
<1>7. CASE Suffers("vendor") /\ Goes(a, "failing") /\ UNCHANGED dist
  <2>1. ~Spared("vendor")' /\ releaseFaults' \in ReleaseMishaps /\ \A v \in {"crashes", "vendor"} : releaseFaults'[v] <= ReleaseFaults[v]
    BY <1>7, SufferFacts
  <2>2. ReleaseTypes'
    BY <1>1, <1>3, <1>5, <1>7, <2>1 DEF ReleaseInv, ReleaseTypes
  <2>3. Linked'
    BY <2>1 DEF Linked
  <2> QED BY <1>1, <1>2, <1>4, <1>5, <1>7, <2>2, <2>3, ReleaseKeeps
<1> QED BY <1>6, <1>7 DEF Link

LEMMA StoresIt ==
  ASSUME ReleaseInv, NEW c \in Channels, NEW b, Fits(c, b), stagedBuilds' = stagedBuilds \cup {<<c, b>>}
  PROVE  StoredBuilds'
<1>1. IsFiniteSet(stagedBuilds')
  BY FS_AddElement DEF ReleaseInv, StoredBuilds
<1>2. ASSUME NEW d \in Channels PROVE Cardinality({s \in stagedBuilds' : s[1] = d}) <= BuildLimit
  <2> DEFINE before == {s \in stagedBuilds : s[1] = d}
  <2>1. IsFiniteSet(before) /\ Cardinality(before) <= BuildLimit /\ Cardinality(before) \in Nat /\ BuildLimit \in Nat
    BY FS_Subset, FS_CardinalityType, ReleaseAssumption DEF ReleaseInv, StoredBuilds
  <2>2. {s \in stagedBuilds' : s[1] = d} = IF d = c THEN before \cup {<<c, b>>} ELSE before
    OBVIOUS
  <2>3. CASE <<c, b>> \in stagedBuilds \/ d # c
    <3>1. {s \in stagedBuilds' : s[1] = d} = before
      BY <2>2, <2>3
    <3> QED BY <2>1, <3>1
  <2>4. CASE <<c, b>> \notin stagedBuilds /\ d = c
    <3>1. Cardinality(before) < BuildLimit
      BY <2>4 DEF Fits
    <3>2. Cardinality(before \cup {<<c, b>>}) = Cardinality(before) + 1
      BY <2>1, <2>4, FS_AddElement
    <3> DEFINE after == {s \in stagedBuilds' : s[1] = d}
    <3>3. after = before \cup {<<c, b>>}
      BY <2>2, <2>4
    <3> HIDE DEF before, after
    <3>4. Cardinality(after) <= BuildLimit
      BY <2>1, <3>1, <3>2, <3>3
    <3> QED BY <3>4 DEF after
  <2> QED BY <2>3, <2>4
<1> QED BY <1>1, <1>2 DEF StoredBuilds

LEMMA StageInv == ASSUME ReleaseInv, NEW a \in Agents, Stage(a) PROVE ReleaseInv'
<1> DEFINE c == agent[a].channel
<1>1. agent[a].at = "staging" /\ UNCHANGED <<page, version, dist, builder, live, status, tab, releaseFaults>>
  BY DEF Stage
<1>2. /\ version' \in SourceVersions /\ live' \in [Channels -> Build] /\ tab' \in Build
      /\ status' \in [Channels -> {"none", "building", "ok", "failed"}] /\ ReleaseCalm
  BY <1>1 DEF ReleaseInv, ReleaseTypes, ReleaseCalm
<1>3. CASE Fits(c, agent[a].result)
  <2> DEFINE place == IF c = "draft" THEN "activating" ELSE "settling"
  <2>1. stagedBuilds' = stagedBuilds \cup {<<c, agent[a].result>>} /\ Goes(a, place) /\ place \in AgentPhases
    BY <1>3 DEF Stage, AgentPhases
  <2>2. StoredBuilds' /\ Served'
    BY <1>1, <1>3, <2>1, StoresIt, ServedStays, AgentFacts
  <2>3. AgentOk(a)'
    <3>1. /\ agent'[a].at = place /\ agent'[a].channel = agent[a].channel
          /\ agent'[a].result = agent[a].result /\ agent'[a].last = agent[a].last
      BY <1>1, <2>1, GoesTo
    <3>2. AgentOk(a) /\ agent[a].channel \in Channels /\ page.commands[a] \in {"save", "preview", "publish"}
      BY AgentFacts
    <3> QED BY <1>1, <2>1, <3>1, <3>2 DEF AgentOk, Quality, Channels
  <2> QED BY <1>1, <1>2, <2>1, <2>2, <2>3, GoesTo, QuietStep
<1>4. CASE ~Fits(c, agent[a].result)
  <2>1. Goes(a, "failing") /\ UNCHANGED stagedBuilds /\ "failing" \in AgentPhases
    BY <1>4 DEF Stage, AgentPhases
  <2>2. StoredBuilds' /\ Served'
    BY <1>1, <2>1, ServedStays DEF ReleaseInv, StoredBuilds
  <2>3. AgentOk(a)'
    <3>1. /\ agent'[a].at = "failing" /\ agent'[a].channel = agent[a].channel
          /\ agent'[a].result = agent[a].result /\ agent'[a].last = agent[a].last
      BY <1>1, <2>1, GoesTo
    <3>2. AgentOk(a) /\ agent[a].channel \in Channels /\ page.commands[a] \in {"save", "preview", "publish"}
      BY AgentFacts
    <3> QED BY <1>1, <2>1, <3>1, <3>2 DEF AgentOk, Quality
  <2> QED BY <1>1, <1>2, <2>1, <2>2, <2>3, GoesTo, QuietStep
<1> QED BY <1>3, <1>4

\* An activation of the draft, or one that is refused.
LEMMA ActivatesInv ==
  ASSUME ReleaseInv, NEW a \in Agents, NEW next \in {"settling", "loading"}, NEW otherwise \in {"failing", "refused"},
         (agent[a].at = "activating" /\ next = "settling") \/ (agent[a].at = "sandboxing" /\ next = "loading"),
         Activates(a, "draft", next, otherwise), UNCHANGED <<page, version, dist, builder, stagedBuilds, status, tab>>
  PROVE  ReleaseInv'
<1>1. /\ <<"draft", agent[a].result>> \in stagedBuilds /\ agent[a].result \in Build /\ "draft" \in Channels /\ "published" \in Channels
      /\ next \in AgentPhases /\ otherwise \in AgentPhases
  BY AgentFacts DEF AgentOk, AgentPhases, Channels
<1>2. ReleaseCalm /\ live' \in [Channels -> Build] /\ Served'
  <2>1. CASE live' = [live EXCEPT !["draft"] = agent[a].result] /\ UNCHANGED releaseFaults
    <3>1. live' \in [Channels -> Build] /\ live'["draft"] = agent[a].result /\ live'["published"] = live["published"]
      BY <1>1, <2>1 DEF ReleaseInv, ReleaseTypes
    <3>2. Served'
      BY <1>1, <3>1 DEF ReleaseInv, Served, Quality, Channels
    <3> QED BY <2>1, <3>1, <3>2 DEF ReleaseInv, ReleaseTypes, ReleaseCalm
  <2>2. CASE Suffers("activations") /\ UNCHANGED live
    BY <2>2, SufferFacts, ServedStays DEF ReleaseInv, ReleaseTypes, ReleaseCalm
  <2> QED BY <2>1, <2>2 DEF Activates
<1>3. PICK place \in {next, otherwise} : Goes(a, place)
  BY DEF Activates
<1>4. AgentOk(a)'
  <2>1. /\ agent'[a].at = place /\ agent'[a].channel = agent[a].channel
        /\ agent'[a].result = agent[a].result /\ agent'[a].last = agent[a].last
    BY <1>1, <1>3, GoesTo
  <2>2. AgentOk(a) /\ agent[a].channel \in Channels /\ page.commands[a] \in {"save", "preview", "publish"}
    BY AgentFacts
  <2> QED BY <1>1, <1>3, <2>1, <2>2 DEF AgentOk, Quality
<1>5. /\ version' \in SourceVersions /\ tab' \in Build /\ status' \in [Channels -> {"none", "building", "ok", "failed"}]
      /\ StoredBuilds' /\ stagedBuilds \subseteq stagedBuilds' /\ agent[a].at # "linking"
  BY DEF ReleaseInv, ReleaseTypes, StoredBuilds
<1> QED BY <1>1, <1>2, <1>3, <1>4, <1>5, GoesTo, QuietStep

LEMMA RecordOutcomeInv == ASSUME ReleaseInv, NEW a \in Agents, RecordOutcome(a) PROVE ReleaseInv'
<1> DEFINE place == IF agent[a].at = "settling" THEN AfterBuild(a) ELSE IF agent[a].last THEN "done" ELSE "refused"
<1>1. /\ agent[a].at \in {"settling", "failing"} /\ Goes(a, place) /\ RecordRow(agent[a].channel, Ended(a))
      /\ UNCHANGED <<page, version, dist, builder, stagedBuilds, live, tab>>
  BY DEF RecordOutcome
<1>2. place \in AgentPhases /\ Ended(a) \in {"building", "ok", "failed"}
  BY DEF AgentPhases, AfterBuild, Ended
<1>3. AgentOk(a)'
  <2>1. /\ agent'[a].at = place /\ agent'[a].channel = agent[a].channel
        /\ agent'[a].result = agent[a].result /\ agent'[a].last = agent[a].last
    BY <1>1, <1>2, GoesTo
  <2>2. AgentOk(a) /\ agent[a].channel \in Channels /\ page.commands[a] \in {"save", "preview", "publish"}
    BY AgentFacts
  <2> QED BY <1>1, <1>2, <2>1, <2>2 DEF AgentOk, Quality, AfterBuild
<1>4. ReleaseCalm /\ status' \in [Channels -> {"none", "building", "ok", "failed"}]
  BY <1>1, <1>2, RowRecorded, AgentFacts
<1>5. Served' /\ StoredBuilds' /\ version' \in SourceVersions /\ live' \in [Channels -> Build] /\ tab' \in Build
  BY <1>1, ServedStays DEF ReleaseInv, ReleaseTypes, StoredBuilds
<1> HIDE DEF place
<1> QED BY <1>1, <1>2, <1>3, <1>4, <1>5, GoesTo, QuietStep

LEMMA OpenPreviewInv == ASSUME ReleaseInv, NEW a \in Agents, OpenPreview(a) PROVE ReleaseInv'
<1>1. /\ agent[a].at = "opening" /\ UNCHANGED <<page, version, dist, builder, live, status, tab, releaseFaults>>
      /\ "draft" \in Channels /\ \A p \in {"loading", "sandboxing", "refused"} : p \in AgentPhases
  BY DEF OpenPreview, Channels, AgentPhases
<1>2. /\ version' \in SourceVersions /\ live' \in [Channels -> Build] /\ tab' \in Build
      /\ status' \in [Channels -> {"none", "building", "ok", "failed"}] /\ ReleaseCalm
  BY <1>1 DEF ReleaseInv, ReleaseTypes, ReleaseCalm
<1>3. ASSUME NEW place \in {"loading", "refused"}, Goes(a, place), UNCHANGED stagedBuilds PROVE ReleaseInv'
  <2>1. StoredBuilds' /\ Served'
    BY <1>1, <1>3, ServedStays DEF ReleaseInv, StoredBuilds
  <2>2. AgentOk(a)'
    <3>1. /\ agent'[a].at = place /\ agent'[a].channel = agent[a].channel
          /\ agent'[a].result = agent[a].result /\ agent'[a].last = agent[a].last
      BY <1>1, <1>3, GoesTo
    <3>2. AgentOk(a) /\ agent[a].channel \in Channels /\ page.commands[a] \in {"save", "preview", "publish"}
      BY AgentFacts
    <3> QED BY <1>1, <1>3, <3>1, <3>2 DEF AgentOk, Quality
  <2> QED BY <1>1, <1>2, <1>3, <2>1, <2>2, GoesTo, QuietStep
<1>4. ASSUME Fits("draft", agent[a].result), stagedBuilds' = stagedBuilds \cup {<<"draft", agent[a].result>>}, Goes(a, "sandboxing")
      PROVE  ReleaseInv'
  <2>1. StoredBuilds' /\ Served'
    BY <1>1, <1>4, StoresIt, ServedStays
  <2>2. AgentOk(a)'
    <3>1. /\ agent'[a].at = "sandboxing" /\ agent'[a].channel = agent[a].channel
          /\ agent'[a].result = agent[a].result /\ agent'[a].last = agent[a].last
      BY <1>1, <1>4, GoesTo
    <3>2. AgentOk(a) /\ agent[a].channel \in Channels /\ page.commands[a] \in {"save", "preview", "publish"}
      BY AgentFacts
    <3> QED BY <1>1, <1>4, <3>1, <3>2 DEF AgentOk, Quality
  <2> QED BY <1>1, <1>2, <1>4, <2>1, <2>2, GoesTo, QuietStep
<1> QED BY <1>3, <1>4 DEF OpenPreview

LEMMA LoadTabInv == ASSUME ReleaseInv, NEW a \in Agents, LoadTab(a) PROVE ReleaseInv'
<1>1. agent[a].at = "loading" /\ UNCHANGED <<page, version, dist, builder, stagedBuilds, live, status, releaseFaults>>
  BY DEF LoadTab
<1>2. Document(a) \in Build /\ (page.contract => Document(a) = agent[a].result)
  BY AgentFacts DEF Document, Build, ReleaseInv, ReleaseTypes
<1>3. PICK place \in AgentPhases :
        /\ Goes(a, place) /\ tab' \in {tab, Document(a)} /\ place \in {"refused", "publishing", "done", "checking"}
        /\ place \in {"publishing", "checking"} =>
             /\ page.commands[a] = "publish"
             /\ page.contract => Quality(agent[a].result) # "blank"
  <2>1. page.commands[a] \in {"save", "preview", "publish"} /\ page.commands[a] # "save"
    BY <1>1, AgentFacts DEF AgentOk
  <2>2. CASE ~page.renderer
    BY <2>1, <2>2 DEF LoadTab, Unrendered, AgentPhases
  <2>3. CASE page.renderer
    BY <1>2, <2>1, <2>3 DEF LoadTab, AgentPhases
  <2> QED BY <2>2, <2>3
<1>4. tab' \in Build
  BY <1>2, <1>3 DEF ReleaseInv, ReleaseTypes
<1>5. AgentOk(a)'
  <2>1. /\ agent'[a].at = place /\ agent'[a].channel = agent[a].channel
        /\ agent'[a].result = agent[a].result /\ agent'[a].last = agent[a].last
    BY <1>1, <1>3, GoesTo
  <2>2. AgentOk(a) /\ agent[a].channel \in Channels /\ page.commands[a] \in {"save", "preview", "publish"}
    BY AgentFacts
  <2> QED BY <1>1, <1>3, <2>1, <2>2 DEF AgentOk, Quality
<1>6. /\ Served' /\ StoredBuilds' /\ version' \in SourceVersions /\ live' \in [Channels -> Build] /\ ReleaseCalm
      /\ status' \in [Channels -> {"none", "building", "ok", "failed"}]
  BY <1>1, ServedStays DEF ReleaseInv, ReleaseTypes, StoredBuilds, ReleaseCalm
<1> QED BY <1>1, <1>3, <1>4, <1>5, <1>6, GoesTo, QuietStep

LEMMA CheckRoutesInv == ASSUME ReleaseInv, NEW a \in Agents, CheckRoutes(a) PROVE ReleaseInv'
<1>1. agent[a].at = "checking" /\ UNCHANGED <<page, version, dist, builder, stagedBuilds, live, status, tab, releaseFaults>>
  BY DEF CheckRoutes
<1>2. PICK place \in {"publishing", "refused"} : Goes(a, place)
  BY DEF CheckRoutes
<1>3. place \in AgentPhases
  BY DEF AgentPhases
<1>4. AgentOk(a)'
  <2>1. /\ agent'[a].at = place /\ agent'[a].channel = agent[a].channel
        /\ agent'[a].result = agent[a].result /\ agent'[a].last = agent[a].last
    BY <1>1, <1>2, <1>3, GoesTo
  <2>2. AgentOk(a) /\ agent[a].channel \in Channels /\ page.commands[a] \in {"save", "preview", "publish"}
    BY AgentFacts
  <2> QED BY <1>1, <1>2, <1>3, <2>1, <2>2 DEF AgentOk, Quality
<1>5. /\ Served' /\ StoredBuilds' /\ version' \in SourceVersions /\ live' \in [Channels -> Build] /\ ReleaseCalm
      /\ tab' \in Build /\ status' \in [Channels -> {"none", "building", "ok", "failed"}]
  BY <1>1, ServedStays DEF ReleaseInv, ReleaseTypes, StoredBuilds, ReleaseCalm
<1> QED BY <1>1, <1>2, <1>3, <1>4, <1>5, GoesTo, QuietStep

\* A command is sent.
LEMMA CommandBeginsInv ==
  ASSUME ReleaseInv, NEW a \in Agents, SaveFile(a) \/ PreviewOpen(a) \/ PublishBegins(a) PROVE ReleaseInv'
<1>1. agent[a].at = "unsent" /\ UNCHANGED <<page, dist, builder, stagedBuilds, live, status, tab, releaseFaults>>
  BY DEF SaveFile, PreviewOpen, PublishBegins
<1>2. version' \in SourceVersions
  BY VersionFacts DEF SaveFile, PreviewOpen, PublishBegins
<1>3. /\ Served' /\ StoredBuilds' /\ live' \in [Channels -> Build] /\ ReleaseCalm
      /\ tab' \in Build /\ status' \in [Channels -> {"none", "building", "ok", "failed"}]
  BY <1>1, ServedStays DEF ReleaseInv, ReleaseTypes, StoredBuilds, ReleaseCalm
<1>4. "recording" \in AgentPhases /\ "published" \in Channels
  BY DEF AgentPhases, Channels
<1>5. CASE SaveFile(a) \/ PreviewOpen(a)
  <2>1. Goes(a, "recording") /\ page.commands[a] # "publish"
    BY <1>5 DEF SaveFile, PreviewOpen
  <2>2. AgentOk(a)'
    <3>1. /\ agent'[a].at = "recording" /\ agent'[a].channel = agent[a].channel
          /\ agent'[a].result = agent[a].result /\ agent'[a].last = agent[a].last
      BY <1>1, <2>1, <1>4, GoesTo
    <3>2. AgentOk(a) /\ agent[a].channel \in Channels /\ page.commands[a] \in {"save", "preview", "publish"}
      BY AgentFacts
    <3> QED BY <1>1, <2>1, <1>4, <3>1, <3>2 DEF AgentOk, Quality
  <2> QED BY <1>1, <1>2, <1>3, <1>4, <2>1, <2>2, GoesTo, QuietStep
<1>6. CASE PublishBegins(a)
  <2> DEFINE r == [agent[a] EXCEPT !.channel = "published", !.at = "recording"]
  <2>1. agent' = [agent EXCEPT ![a] = r] /\ agent'[a] = r /\ r \in AgentType
    BY <1>4, <1>6, AgentFacts DEF PublishBegins, ReleaseInv, ReleaseTypes, AgentType
  <2>2. agent' = [agent EXCEPT ![a] = agent'[a]] /\ agent'[a] \in AgentType
    BY <2>1
  <2>3. agent'[a].at = "recording" /\ agent'[a].channel = "published" /\ agent'[a].result = agent[a].result
    BY <2>1, AgentFacts DEF AgentType
  <2>4. AgentOk(a)'
    BY <1>1, <2>3, AgentFacts DEF AgentOk, Quality
  <2> QED BY <1>1, <1>2, <1>3, <2>2, <2>4, QuietStep
<1> QED BY <1>5, <1>6

LEMMA PublishEndsInv == ASSUME ReleaseInv, NEW a \in Agents, PublishEnds(a) PROVE ReleaseInv'
<1>1. /\ agent[a].at = "publishing" /\ UNCHANGED <<page, version, dist, builder, stagedBuilds, status, tab>>
      /\ "published" \in Channels /\ "draft" \in Channels /\ "refused" \in AgentPhases /\ "recording" \in AgentPhases
  BY DEF PublishEnds, Channels, AgentPhases
<1>2. /\ StoredBuilds' /\ version' \in SourceVersions /\ tab' \in Build /\ status' \in [Channels -> {"none", "building", "ok", "failed"}]
  BY <1>1 DEF ReleaseInv, ReleaseTypes, StoredBuilds
<1>3. CASE /\ agent' = [agent EXCEPT ![a].at = "recording", ![a].channel = "draft", ![a].last = TRUE]
           /\ live' = [live EXCEPT !["published"] = IF page.contract THEN agent[a].result ELSE @]
           /\ UNCHANGED releaseFaults
  <2> DEFINE r == [agent[a] EXCEPT !.at = "recording", !.channel = "draft", !.last = TRUE]
  <2>1. agent' = [agent EXCEPT ![a] = r] /\ agent'[a] = r /\ r \in AgentType
    BY <1>1, <1>3, AgentFacts DEF ReleaseInv, ReleaseTypes, AgentType
  <2>2. agent' = [agent EXCEPT ![a] = agent'[a]] /\ agent'[a] \in AgentType
    BY <2>1
  <2>3. agent'[a].at = "recording" /\ agent'[a].channel = "draft" /\ agent'[a].result = agent[a].result /\ agent'[a].last = TRUE
    <3>1. agent[a] \in AgentType
      BY AgentFacts
    <3> QED BY <2>1, <3>1 DEF AgentType
  <2>4. AgentOk(a)'
    <3>1. AgentOk(a)
      BY AgentFacts
    <3> QED BY <1>1, <2>3, <3>1 DEF AgentOk, Quality
  <2>5. /\ live' \in [Channels -> Build] /\ live'["draft"] = live["draft"]
        /\ live'["published"] = IF page.contract THEN agent[a].result ELSE live["published"]
    BY <1>1, <1>3, AgentFacts DEF ReleaseInv, ReleaseTypes
  <2>6. page.contract => /\ <<"published", agent[a].result>> \in stagedBuilds
                         /\ Quality(agent[a].result) \notin {"broken", "blank"}
    BY <1>1, AgentFacts DEF AgentOk
  <2>7. Served'
    BY <1>1, <2>5, <2>6 DEF ReleaseInv, Served, Quality, Channels
  <2>8. ReleaseCalm
    BY <1>3 DEF ReleaseInv, ReleaseTypes, ReleaseCalm
  <2> QED BY <1>1, <1>2, <2>2, <2>4, <2>5, <2>7, <2>8, QuietStep
<1>4. CASE Goes(a, "refused") /\ UNCHANGED live /\ (Suffers("activations") \/ UNCHANGED releaseFaults)
  <2>1. ReleaseCalm
    BY <1>4, SufferFacts DEF ReleaseInv, ReleaseTypes, ReleaseCalm
  <2>2. AgentOk(a)'
    <3>1. /\ agent'[a].at = "refused" /\ agent'[a].channel = agent[a].channel
          /\ agent'[a].result = agent[a].result /\ agent'[a].last = agent[a].last
      BY <1>1, <1>4, GoesTo
    <3>2. AgentOk(a) /\ agent[a].channel \in Channels /\ page.commands[a] \in {"save", "preview", "publish"}
      BY AgentFacts
    <3> QED BY <1>1, <1>4, <3>1, <3>2 DEF AgentOk, Quality
  <2>3. Served' /\ live' \in [Channels -> Build]
    BY <1>1, <1>4, ServedStays DEF ReleaseInv, ReleaseTypes
  <2> QED BY <1>1, <1>2, <1>4, <2>1, <2>2, <2>3, GoesTo, QuietStep
<1> QED BY <1>3, <1>4 DEF PublishEnds

LEMMA TabGoesInv == ASSUME ReleaseInv, TabGoes PROVE ReleaseInv'
<1>1. /\ tab' = NoBuild /\ UNCHANGED <<page, version, dist, builder, stagedBuilds, live, status, agent>> /\ Suffers("tabs")
  BY DEF TabGoes
<1>2. NoBuild \in Build
  BY DEF NoBuild, Build, Channels
<1>3. ReleaseCalm
  BY <1>1, SufferFacts DEF ReleaseCalm
<1>4. SourceVersions' = SourceVersions /\ AgentType' = AgentType /\ Build' = Build
  BY <1>1 DEF SourceVersions, AgentType, Build
<1>5. ReleaseTypes'
  BY <1>1, <1>2, <1>3, <1>4 DEF ReleaseInv, ReleaseTypes, ReleaseCalm
<1>6. Linked'
  BY <1>1, <1>3 DEF ReleaseInv, Linked, Spared, ReleaseCalm
<1>7. Served' /\ StoredBuilds' /\ \A a \in Agents : AgentOk(a)'
  BY <1>1, ServedStays DEF ReleaseInv, StoredBuilds, AgentOk, Quality
<1> QED BY <1>5, <1>6, <1>7 DEF ReleaseInv

LEMMA ServerDiesInv == ASSUME ReleaseInv, ServerDies PROVE ReleaseInv'
<1>1. /\ Suffers("crashes") /\ builder' = NoAgent /\ tab' = NoBuild /\ UNCHANGED <<page, version, dist, stagedBuilds, live, status>>
      /\ agent' = [a \in Agents |-> IF agent[a].at \in {"unsent", "done"} THEN agent[a] ELSE [agent[a] EXCEPT !.at = "refused"]]
  BY DEF ServerDies
<1>2. NoBuild \in Build /\ "refused" \in AgentPhases
  BY DEF NoBuild, Build, Channels, AgentPhases
<1>3. releaseFaults' \in ReleaseMishaps /\ (\A v \in {"crashes", "vendor"} : releaseFaults'[v] <= ReleaseFaults[v]) /\ ~Spared("crashes")'
  BY <1>1, SufferFacts
<1>4. SourceVersions' = SourceVersions /\ AgentType' = AgentType /\ Build' = Build
  BY <1>1 DEF SourceVersions, AgentType, Build
<1>5. ASSUME NEW a \in Agents
      PROVE  /\ agent'[a] \in AgentType /\ AgentOk(a)'
  <2>1. CASE agent[a].at \in {"unsent", "done"}
    <3>1. agent'[a] = agent[a]
      BY <1>1, <2>1
    <3> QED BY <1>1, <2>1, <3>1, AgentFacts DEF AgentOk, Quality
  <2>2. CASE agent[a].at \notin {"unsent", "done"}
    <3>1. agent'[a] = [agent[a] EXCEPT !.at = "refused"]
      BY <1>1, <2>2
    <3>2. /\ agent'[a] \in AgentType /\ agent'[a].at = "refused" /\ agent'[a].channel = agent[a].channel
          /\ agent'[a].result = agent[a].result /\ agent'[a].last = agent[a].last
      BY <1>2, <3>1, AgentFacts DEF AgentType
    <3> QED BY <1>1, <2>2, <3>2, AgentFacts DEF AgentOk, Quality
  <2> QED BY <2>1, <2>2
<1>6. agent' \in [Agents -> AgentType]
  BY <1>1, <1>5
<1>7. ReleaseTypes'
  BY <1>1, <1>2, <1>3, <1>4, <1>6 DEF ReleaseInv, ReleaseTypes
<1>8. Linked' /\ Served' /\ StoredBuilds'
  BY <1>1, <1>3, ServedStays DEF ReleaseInv, Linked, StoredBuilds
<1> QED BY <1>5, <1>7, <1>8 DEF ReleaseInv

LEMMA ReleaseNextInv == ReleaseInv /\ [ReleaseNext]_releaseVars => ReleaseInv'
<1> SUFFICES ASSUME ReleaseInv, [ReleaseNext]_releaseVars PROVE ReleaseInv'
  OBVIOUS
<1>1. ASSUME NEW a \in Agents, ActivateDraft(a) \/ ActivateSandbox(a) PROVE ReleaseInv'
  BY <1>1, ActivatesInv DEF ActivateDraft, ActivateSandbox
<1>2. CASE UNCHANGED releaseVars
  <2>1. UNCHANGED <<page, version, dist, builder, stagedBuilds, live, status, tab, agent, releaseFaults>>
    BY <1>2 DEF releaseVars, releaseState
  <2>2. SourceVersions' = SourceVersions /\ AgentType' = AgentType /\ Build' = Build
    BY <2>1 DEF SourceVersions, AgentType, Build
  <2>3. ReleaseTypes' /\ Linked' /\ Served' /\ StoredBuilds'
    BY <2>1, <2>2, ServedStays DEF ReleaseInv, ReleaseTypes, Linked, StoredBuilds, Spared
  <2>4. \A a \in Agents : AgentOk(a)'
    BY <2>1 DEF ReleaseInv, AgentOk, Quality
  <2> QED BY <2>3, <2>4 DEF ReleaseInv
<1> QED BY <1>1, <1>2, RecordBuildingInv, CompileInv, LinkInv, StageInv, RecordOutcomeInv, OpenPreviewInv, LoadTabInv,
          CheckRoutesInv, CommandBeginsInv, PublishEndsInv, TabGoesInv, ServerDiesInv
       DEF ReleaseNext, BuildStep, PreviewStep

LEMMA ReleaseInitInv == ReleaseInit => ReleaseInv
<1> SUFFICES ASSUME ReleaseInit PROVE ReleaseInv
  OBVIOUS
<1> DEFINE r == [at |-> "unsent", channel |-> "draft", result |-> NoBuild, last |-> FALSE]
<1>1. NoBuild \in Build /\ NoBuild.version = 0 /\ r \in AgentType /\ "published" \in Channels
  BY DEF NoBuild, Build, Channels, AgentPhases, AgentType
<1>2. ReleaseTypes
  BY <1>1, ReleaseAssumption DEF ReleaseInit, ReleaseTypes, SourceVersions, ReleaseMishaps
<1>3. Served
  BY <1>1 DEF ReleaseInit, Served, Quality
<1>4. StoredBuilds
  <2>1. \A c \in Channels : {s \in stagedBuilds : s[1] = c} = {}
    BY DEF ReleaseInit
  <2> QED BY <2>1, FS_EmptySet, ReleaseAssumption DEF StoredBuilds, ReleaseInit
<1>5. \A a \in Agents : AgentOk(a)
  BY <1>1 DEF ReleaseInit, AgentOk, Quality
<1>6. Linked
  BY DEF ReleaseInit, Linked
<1> QED BY <1>2, <1>3, <1>4, <1>5, <1>6 DEF ReleaseInv

LEMMA InvReleases == ReleaseInv => ReleaseTypeOK /\ ReleasesAreWhole
<1> SUFFICES ASSUME ReleaseInv PROVE ReleaseTypeOK /\ ReleasesAreWhole
  OBVIOUS
<1>1. \A a \in Agents : agent[a].at \in AgentPhases /\ agent[a].channel \in Channels
  BY AgentFacts
<1>2. ReleaseTypeOK
  BY <1>1 DEF ReleaseInv, ReleaseTypes, StoredBuilds, Served, ReleaseTypeOK
<1>3. ReleasesAreWhole
  BY DEF ReleaseInv, Served, Linked, ReleasesAreWhole, PublishedMounted, DistIsOneBuild
<1> QED BY <1>2, <1>3

\* A page's builds, releases and previews keep their types: what is live is stored, and no
\* channel retains more builds than it may (shard_build_postgres.go).
THEOREM ReleaseTypeCorrect == ReleaseSpec => []ReleaseTypeOK
BY ReleaseInitInv, ReleaseNextInv, InvReleases, PTL DEF ReleaseSpec

\* What is published was built and mounted as that very build, and the files a channel is
\* served from are of one build, whoever builds, previews and publishes at once
\* (publication.go, builder.builds in build.go).
THEOREM ReleasesStayWhole == ReleaseSpec => []ReleasesAreWhole
BY ReleaseInitInv, ReleaseNextInv, InvReleases, PTL DEF ReleaseSpec

----------------------------------------------------------------------------
(* The worker process. *)

LEMMA WorkerInitTypes == ASSUME WorkerInit PROVE WorkerTypeOK /\ odds \in WorkerCases
<1>1. Len(Needs) = 4
  BY DEF Needs
<1>2. NewWorker \in [at : {"composing", "serving", "closing", "over"}, live : BOOLEAN, open : 0 .. 4, died : BOOLEAN]
  BY DEF NewWorker
<1> QED BY <1>1, <1>2 DEF WorkerInit, WorkerTypeOK

LEMMA WorkerNextTypes == ASSUME WorkerTypeOK, [WorkerNext]_workerVars PROVE WorkerTypeOK'
<1> DEFINE Workers == [at : {"composing", "serving", "closing", "over"}, live : BOOLEAN, open : 0 .. Len(Needs), died : BOOLEAN]
          Placings == [Loops -> {"planned", "waiting", "sweeping", "backoff", "returned"}]
          Queues == [Jobs -> {"queued", "taken", "done"}]
<1>0. worker \in Workers /\ looping \in Placings /\ job \in Queues /\ handling \subseteq Jobs /\ beat \in BOOLEAN
  BY DEF WorkerTypeOK
<1>1. Len(Needs) = 4
  BY DEF Needs
<1>2. \A x \in {"composing", "serving", "closing", "over"} : [worker EXCEPT !.at = x] \in Workers
  BY <1>0
<1>3. \A x \in {"closing", "over"}, b \in BOOLEAN, n \in 0 .. 4 :
        /\ [worker EXCEPT !.at = x, !.live = FALSE] \in Workers /\ [worker EXCEPT !.live = FALSE] \in Workers
        /\ [worker EXCEPT !.at = x, !.died = b, !.open = 0] \in Workers /\ [worker EXCEPT !.open = n] \in Workers
  <2> SUFFICES ASSUME NEW x \in {"closing", "over"}, NEW b \in BOOLEAN, NEW n \in 0 .. 4
               PROVE  /\ [worker EXCEPT !.at = x, !.live = FALSE] \in Workers /\ [worker EXCEPT !.live = FALSE] \in Workers
                      /\ [worker EXCEPT !.at = x, !.died = b, !.open = 0] \in Workers /\ [worker EXCEPT !.open = n] \in Workers
    OBVIOUS
  <2>1. [worker EXCEPT !.at = x, !.live = FALSE] \in Workers
    BY <1>0
  <2>2. [worker EXCEPT !.live = FALSE] \in Workers
    BY <1>0
  <2>3. [worker EXCEPT !.at = x, !.died = b, !.open = 0] \in Workers
    <3>1. [worker EXCEPT !.at = x] \in Workers
      BY <1>0
    <3>2. [[worker EXCEPT !.at = x] EXCEPT !.died = b] \in Workers
      BY <3>1
    <3>3. 0 \in 0 .. Len(Needs)
      BY <1>1
    <3>4. [[[worker EXCEPT !.at = x] EXCEPT !.died = b] EXCEPT !.open = 0] \in Workers
      BY <3>2, <3>3
    <3> QED BY <3>4
  <2>4. [worker EXCEPT !.open = n] \in Workers
    BY <1>0, <1>1
  <2> QED BY <2>1, <2>2, <2>3, <2>4
<1>4. NewWorker \in Workers
  BY <1>1 DEF NewWorker
<1>5. \A l \in Loops, x \in {"planned", "waiting", "sweeping", "backoff", "returned"} : [looping EXCEPT ![l] = x] \in Placings
  BY <1>0
<1>6. \A j \in Jobs, x \in {"queued", "taken", "done"} : [job EXCEPT ![j] = x] \in Queues
  BY <1>0
<1>7. [j \in Jobs |-> IF job[j] = "taken" THEN "queued" ELSE job[j]] \in Queues
  BY <1>0
<1>8. ASSUME NEW b \in BOOLEAN, Gone(b) PROVE worker' \in Workers /\ looping' \in Placings /\ handling' \subseteq Jobs
  <2>1. worker' = [worker EXCEPT !.at = "over", !.died = b, !.open = 0] /\ looping' = [l \in Loops |-> "planned"] /\ handling' = {}
    BY <1>8 DEF Gone
  <2>2. 0 \in 0 .. 4
    OBVIOUS
  <2>3. worker' \in Workers
    BY <1>3, <2>1, <2>2
  <2> QED BY <2>1, <2>3
<1>9. \A l \in Loops : Started(l) \in {"sweeping", "waiting"}
  BY DEF Started
<1> SUFFICES worker' \in Workers /\ looping' \in Placings /\ job' \in Queues /\ handling' \subseteq Jobs /\ beat' \in BOOLEAN
  BY DEF WorkerTypeOK
<1> HIDE DEF Workers, Placings, Queues
<1>10. CASE Compose
  <2>1. worker.open + 1 \in 0 .. 4 \/ Connected
    BY <1>0, <1>1 DEF Connected, Workers
  <2> QED BY <1>0, <1>3, <1>8, <1>10, <2>1 DEF Compose
<1>11. CASE StartAll
  <2>1. [l \in Loops |-> Started(l)] \in Placings
    BY <1>9 DEF Placings
  <2>2. UNCHANGED <<job, handling, beat>> /\ looping' = [l \in Loops |-> Started(l)]
    BY <1>11 DEF StartAll
  <2>3. worker' = [worker EXCEPT !.at = "serving"] \/ worker' = [worker EXCEPT !.at = "closing", !.live = FALSE]
    BY <1>11 DEF StartAll
  <2>4. 0 \in 0 .. 4
    OBVIOUS
  <2>5. worker' \in Workers
    BY <1>2, <1>3, <2>3, <2>4
  <2> QED BY <1>0, <2>1, <2>2, <2>5
<1>12. CASE Shutdown \/ Close
  <2>1. worker.open # 0 => worker.open - 1 \in 0 .. 4
    BY <1>0, <1>1 DEF Workers
  <2> QED BY <1>0, <1>2, <1>3, <1>7, <1>8, <1>12, <2>1 DEF Shutdown, Close
<1>13. CASE Signal \/ Die \/ StartAgain \/ Age
  <2>1. 0 \in 0 .. 4
    OBVIOUS
  <2>2. CASE Signal
    <3>1. worker' = [worker EXCEPT !.live = FALSE] /\ UNCHANGED <<looping, job, handling, beat>>
      BY <2>2 DEF Signal
    <3>2. worker' \in Workers
      BY <1>3, <2>1, <3>1
    <3> QED BY <1>0, <3>1, <3>2
  <2>3. CASE Die
    BY <1>0, <1>8, <2>3 DEF Die
  <2>4. CASE StartAgain
    BY <1>0, <1>4, <1>7, <2>4 DEF StartAgain
  <2>5. CASE Age
    BY <1>0, <2>5 DEF Age
  <2> QED BY <1>13, <2>2, <2>3, <2>4, <2>5
<1>14. CASE \E l \in Loops : LoopTurn(l) \/ Panic(l)
  BY <1>0, <1>5, <1>9, <1>14 DEF LoopTurn, Tick, EndTurn, Supervise, LeaveLoop, Panic, Turn
<1>15. CASE \E j \in Jobs : Take(j) \/ Handled(j)
  BY <1>0, <1>6, <1>15 DEF Take, Handled
<1>16. CASE UNCHANGED workerVars
  BY <1>0, <1>16 DEF workerVars
<1> QED BY <1>10, <1>11, <1>12, <1>13, <1>14, <1>15, <1>16 DEF WorkerNext, RunStep

(* The process, its loops and the queue have the form the model gives them,
   however often the worker is killed and started again. *)
THEOREM WorkerTypeCorrect == WorkerSpec => []WorkerTypeOK
<1> QED BY WorkerInitTypes, WorkerNextTypes, PTL DEF WorkerSpec

(* Where the process is says what its connections and the queue are: handlers run only in a
   process that serves or closes, which has its connections until the queue's server ended. *)
WorkerInv ==
  /\ worker.at = "serving" => Connected
  /\ worker.at \in {"composing", "closing"} \/ (worker.at = "over" /\ ~worker.died) => \A j \in Jobs : job[j] # "taken"
  /\ worker.at = "over" => handling = {}

LEMMA WorkerNextInv == ASSUME WorkerTypeOK, WorkerInv, [WorkerNext]_workerVars PROVE WorkerInv'
<1>1. /\ worker.at \in {"composing", "serving", "closing", "over"}
      /\ worker = [at |-> worker.at, live |-> worker.live, open |-> worker.open, died |-> worker.died]
  BY DEF WorkerTypeOK
<1>2. CASE Compose
  BY <1>1, <1>2 DEF Compose, Gone, WorkerInv, Connected
<1>3. CASE StartAll
  BY <1>1, <1>3 DEF StartAll, WorkerInv, Connected
<1>4. CASE Shutdown
  BY <1>1, <1>4 DEF Shutdown, WorkerInv, WorkerTypeOK, Connected
<1>5. CASE Close
  BY <1>1, <1>5 DEF Close, Gone, WorkerInv, Connected
<1>6. CASE Die
  BY <1>1, <1>6 DEF Die, Gone, WorkerInv, Connected
<1>7. CASE StartAgain
  BY <1>1, <1>7 DEF StartAgain, NewWorker, WorkerInv, WorkerTypeOK, Connected
<1>8. CASE Signal \/ Age
  BY <1>1, <1>8 DEF Signal, Age, WorkerInv, Connected
<1>9. CASE \E l \in Loops : LoopTurn(l) \/ Panic(l)
  BY <1>9 DEF LoopTurn, Tick, EndTurn, Supervise, LeaveLoop, Panic, WorkerInv, Connected
<1>10. CASE \E j \in Jobs : Take(j) \/ Handled(j)
  BY <1>10 DEF Take, Handled, WorkerInv, WorkerTypeOK, Connected
<1>11. CASE UNCHANGED workerVars
  BY <1>11 DEF workerVars, WorkerInv, Connected
<1> QED BY <1>2, <1>3, <1>4, <1>5, <1>6, <1>7, <1>8, <1>9, <1>10, <1>11 DEF WorkerNext, RunStep

(* However the worker stops, a task it still answers for has the connections its handler
   needs, and a process that was not killed leaves no task taken. *)
THEOREM TasksKeepConnections == WorkerSpec => []TasksAreKept
<1>1. WorkerInit => WorkerInv
  BY DEF WorkerInit, NewWorker, WorkerInv
<1>2. WorkerTypeOK /\ WorkerInv => TasksAreKept
  BY DEF WorkerTypeOK, WorkerInv, TasksAreKept
<1> QED BY <1>1, <1>2, WorkerInitTypes, WorkerNextTypes, WorkerNextInv, PTL DEF WorkerSpec

---------------------------------------------------------------------------
(* Sources, matching and insights. *)

PatronAsks == [at : {"new", "waiting", "looked", "ensured", "created", "done"}, graph : Nat,
               answer : {"none", "refused", "added", "error", "removed", "not-found"}]
Subscribed == [id : Asks, user : Patrons, graph : Nat, stream : {StreamOf(world.asks[q]) : q \in Asks},
               words : {world.asks[q].words : q \in Asks} \cup {{}}]
TrendOf == [topic : STRING, posts : SUBSET DOMAIN world.posts]
MatchTask == [at : {"none", "pending", "deciding"}, rev : Nat, text : Nat, todo : SUBSET Subscribed, hits : SUBSET Nat]
InsightTask == [graph : Nat, post : DOMAIN world.posts, rev : Nat, at : {"pending", "storing", "telling"},
                todo : SUBSET TrendOf, now : STRING \cup {"none"}]
InsightRow == [graph : Nat, topic : STRING, posts : SUBSET DOMAIN world.posts, by : (DOMAIN world.posts) \X Nat,
               dismissed : BOOLEAN]

\* The case stays what it is; only its bounds are used up and its notes are set.
CaseKept ==
  \E c \in SourceCases :
    world \in [asks : {c.asks}, posts : {c.posts}, reads : Nat, crashes : Nat, faults : Nat,
               blind : BOOLEAN, removed : BOOLEAN]

\* A graph for each user who has one; a request that found none is the only one to look.
AskFacts ==
  /\ graphOf \in Seq(Patrons) /\ ask \in [Asks -> PatronAsks]
  /\ \A i, j \in DOMAIN graphOf : graphOf[i] = graphOf[j] => i = j
  /\ \A q \in Asks : ask[q].at = "looked" =>
       /\ ask[q].graph = 0 => \A i \in DOMAIN graphOf : graphOf[i] # Patron(q)
       /\ \A p \in Asks : ask[p].at = "looked" /\ Patron(p) = Patron(q) => p = q
  /\ \A q \in Asks :
       \/ ask[q].at \in {"ensured", "created"} \/ (ask[q].at = "looked" /\ ask[q].graph # 0)
       => ask[q].graph \in DOMAIN graphOf /\ graphOf[ask[q].graph] = Patron(q)

\* An id is given to one subscription, in its user's graph.
SubscriptionFacts ==
  /\ subscription \subseteq Subscribed
  /\ DOMAIN providerStream \subseteq {StreamOf(world.asks[q]) : q \in Asks}
  /\ \A s \in subscription : /\ ask[s.id].at \in {"created", "done"}
                            /\ s.graph \in DOMAIN graphOf /\ graphOf[s.graph] = s.user
  /\ \A s, t \in subscription : s.id = t.id \/ (s.user = t.user /\ s.stream = t.stream) => s = t

\* A row is of a subscription that is there and of a revision that was captured.
PostFacts ==
  /\ post \in [DOMAIN world.posts -> [rev : Nat, enriched : Nat, dismissed : BOOLEAN]]
  /\ \A p \in DOMAIN post : post[p].enriched <= post[p].rev /\ post[p].rev <= Len(world.posts[p].texts)
  /\ match \subseteq [sub : Asks, post : DOMAIN world.posts, rev : Nat]
  /\ \A m \in match :
       /\ m.rev <= post[m.post].rev
       /\ \E s \in subscription : s.id = m.sub /\ s.stream = world.posts[m.post].stream

\* A matching at work has before it, or has decided, each subscription that has a row of the
\* post; and no row of the post is of a later revision than its own.
MatchingFacts ==
  /\ matching \in [DOMAIN world.posts -> MatchTask]
  /\ \A p \in DOMAIN matching : matching[p].at = "deciding" =>
       /\ matching[p].rev <= post[p].rev
       /\ \A s \in matching[p].todo :
            /\ s.stream = world.posts[p].stream /\ ask[s.id].at \in {"created", "done"}
            /\ \A u \in subscription : u.id = s.id => u = s
       /\ \A m \in match : m.post = p => m.rev <= matching[p].rev
       /\ \A m \in match, s \in subscription : m.post = p /\ s.id = m.sub =>
            s \in matching[p].todo \/ ~Decide(s, p, matching[p]) \/ s.graph \in matching[p].hits

\* Posts that make a trend are enough, and had rows while no source is removed.
Grounded(posts) ==
  /\ Cardinality(posts) >= Trending
  /\ world.removed \/ \A p \in posts : \E m \in match : m.post = p
InsightFacts ==
  /\ generating \subseteq InsightTask /\ insight \subseteq InsightRow
  /\ \A t \in generating : \A x \in t.todo : Grounded(x.posts)
  /\ \A i \in insight : Grounded(i.posts)

\* The posts that count for a topic as they are now; of these, the ones whose matching or
\* insight task may still come to the topic; and the ones that are done with it.
Standing(g, topic) ==
  {p \in DOMAIN post :
     /\ post[p].enriched = post[p].rev /\ topic \in TopicsOf(p) /\ world.posts[p].type = "post"
     /\ \E s \in subscription : /\ s.graph = g /\ [sub |-> s.id, post |-> p, rev |-> post[p].rev] \in match
                               /\ Decide(s, p, [rev |-> post[p].rev, text |-> post[p].enriched])}
Deciding(p, g) ==
  /\ matching[p].at = "deciding" /\ matching[p].rev = post[p].rev
  /\ g \in matching[p].hits \/ \E s \in matching[p].todo : s.graph = g /\ Decide(s, p, matching[p])
Telling(p, g, topic) ==
  \E t \in generating : /\ t.graph = g /\ t.post = p /\ t.rev = post[p].rev
                        /\ t.at = "pending" \/ \E x \in t.todo : x.topic = topic
Looked(g, topic) ==
  {p \in Standing(g, topic) : matching[p].at # "pending" /\ ~Deciding(p, g) /\ ~Telling(p, g, topic)}

\* As long as a topic has not been told, the posts that are done with it are too few: the
\* last of enough posts would have seen the others.
TrendFacts ==
  world.blind \/ \A g \in Nat, topic \in STRING :
    ExistsRecent(g, topic) \/ Cardinality(Looked(g, topic)) < Trending

SourceInv == CaseKept /\ AskFacts /\ SubscriptionFacts /\ PostFacts /\ MatchingFacts /\ InsightFacts /\ TrendFacts

CaseStep ==
  /\ CaseKept' /\ world'.asks = world.asks /\ world'.posts = world.posts
  /\ world.blind => world'.blind
  /\ world.removed => world'.removed

LEMMA CaseUnchanged == ASSUME CaseKept, UNCHANGED world PROVE CaseStep
BY DEF CaseKept, CaseStep

LEMMA CaseConsumes ==
  ASSUME CaseKept, Consumes("reads") \/ Consumes("crashes")
  PROVE  CaseStep /\ world'.blind = world.blind /\ world'.removed = world.removed
<1>1. PICK c \in SourceCases :
        world \in [asks : {c.asks}, posts : {c.posts}, reads : Nat, crashes : Nat, faults : Nat,
                   blind : BOOLEAN, removed : BOOLEAN]
  BY DEF CaseKept
<1>2. CASE Consumes("reads")
  <2>1. world.reads > 0 /\ world' = [world EXCEPT !.reads = @ - 1]
    BY <1>2 DEF Consumes
  <2> QED BY <1>1, <2>1 DEF CaseKept, CaseStep
<1>3. CASE Consumes("crashes")
  <2>1. world.crashes > 0 /\ world' = [world EXCEPT !.crashes = @ - 1]
    BY <1>3 DEF Consumes
  <2> QED BY <1>1, <2>1 DEF CaseKept, CaseStep
<1> QED BY <1>2, <1>3

LEMMA CaseBlinded ==
  ASSUME CaseKept, NEW b \in BOOLEAN, world.blind => b, world' = [world EXCEPT !.blind = b]
  PROVE  CaseStep /\ world'.blind = b /\ world'.removed = world.removed
BY DEF CaseKept, CaseStep

LEMMA CaseRemoves ==
  ASSUME CaseKept, NEW b \in BOOLEAN, world.removed => b, world' = [world EXCEPT !.removed = b]
  PROVE  CaseStep /\ world'.removed = b /\ world'.blind = world.blind
BY DEF CaseKept, CaseStep

LEMMA CaseFails ==
  ASSUME CaseKept, world.faults > 0, world' = [world EXCEPT !.faults = @ - 1, !.blind = TRUE]
  PROVE  CaseStep /\ world'.blind /\ world'.removed = world.removed
<1>1. PICK c \in SourceCases :
        world \in [asks : {c.asks}, posts : {c.posts}, reads : Nat, crashes : Nat, faults : Nat,
                   blind : BOOLEAN, removed : BOOLEAN]
  BY DEF CaseKept
<1> DEFINE C == [asks : {c.asks}, posts : {c.posts}, reads : Nat, crashes : Nat, faults : Nat,
                 blind : BOOLEAN, removed : BOOLEAN]
           w == [world EXCEPT !.faults = world.faults - 1]
<1>2. w \in C /\ w.removed = world.removed
  BY <1>1
<1>3. world' = [w EXCEPT !.blind = TRUE]
  BY <1>1
<1> HIDE DEF w
<1>4. world' \in C /\ world'.blind = TRUE /\ world'.removed = world.removed
  BY <1>2, <1>3
<1>5. world'.asks = world.asks /\ world'.posts = world.posts
  BY <1>1, <1>4
<1> QED BY <1>4, <1>5 DEF CaseKept, CaseStep

LEMMA CaseTypes ==
  ASSUME CaseStep
  PROVE  /\ Asks' = Asks /\ Subscribed' = Subscribed /\ TrendOf' = TrendOf /\ MatchTask' = MatchTask
         /\ InsightTask' = InsightTask /\ InsightRow' = InsightRow
         /\ \A q : Patron(q)' = Patron(q)
BY DEF CaseStep, Asks, Subscribed, TrendOf, MatchTask, InsightTask, InsightRow, Patron

LEMMA CaseIs ==
  ASSUME CaseKept
  PROVE  /\ IsFiniteSet(DOMAIN world.posts) /\ \A q \in Asks : Patron(q) \in Patrons
         /\ \A p \in DOMAIN world.posts : world.posts[p].texts \in Seq([words : SUBSET STRING, topics : SUBSET STRING])
         /\ world.blind \in BOOLEAN /\ world.removed \in BOOLEAN /\ Trending \in Nat /\ Trending > 0
<1>1. PICK c \in SourceCases :
        world \in [asks : {c.asks}, posts : {c.posts}, reads : Nat, crashes : Nat, faults : Nat,
                   blind : BOOLEAN, removed : BOOLEAN]
  BY DEF CaseKept
<1>2. world.asks = c.asks /\ world.posts = c.posts /\ world.blind \in BOOLEAN /\ world.removed \in BOOLEAN
  BY <1>1
<1> QED BY <1>2, SourceAssumption DEF Asks, Patron

\* What the steps of the sources leave alone.
LEMMA SourcesLeave ==
  ASSUME SourceInv, CaseStep, UNCHANGED <<subscription, post, match, matching, generating, insight>>
  PROVE  PostFacts' /\ InsightFacts' /\ TrendFacts'
<1>1. PostFacts'
  BY CaseTypes DEF SourceInv, PostFacts, CaseStep
<1>2. InsightFacts'
  BY CaseTypes DEF SourceInv, InsightFacts, CaseStep, Grounded
<1>3. ASSUME NEW g, NEW topic PROVE Looked(g, topic)' = Looked(g, topic) /\ ExistsRecent(g, topic)' = ExistsRecent(g, topic)
  BY DEF Looked, Standing, Deciding, Telling, ExistsRecent, TopicsOf, TextOf, Decide, SearchText, PolicyTerms, CaseStep
<1>4. TrendFacts'
  BY <1>3 DEF SourceInv, TrendFacts, CaseStep
<1> QED BY <1>1, <1>2, <1>4

LEMMA SourcesStay ==
  ASSUME SourceInv, CaseStep, UNCHANGED <<subscription, providerStream, post, match, matching>>, AskFacts',
         \A q \in Asks : ask[q].at \in {"created", "done"} => ask'[q].at \in {"created", "done"},
         \A i \in DOMAIN graphOf : i \in DOMAIN graphOf' /\ graphOf'[i] = graphOf[i]
  PROVE  SubscriptionFacts' /\ MatchingFacts'
<1>1. SubscriptionFacts'
  <2>1. subscription \subseteq Subscribed /\ \A s \in subscription : s.id \in Asks
    BY DEF SourceInv, SubscriptionFacts, Subscribed
  <2> QED BY <2>1, CaseTypes DEF SourceInv, SubscriptionFacts, CaseStep, StreamOf, Asks
<1>2. \A p \in DOMAIN matching : matching[p].todo \subseteq Subscribed
  BY DEF SourceInv, MatchingFacts, MatchTask
<1>3. \A p \in DOMAIN matching : \A s \in matching[p].todo : s.id \in Asks
  BY <1>2 DEF Subscribed
<1>4. \A s, p, m : Decide(s, p, m)' = Decide(s, p, m)
  BY DEF CaseStep, Decide, PolicyTerms, SearchText, TextOf
<1>5. MatchingFacts'
  BY <1>3, <1>4, CaseTypes DEF SourceInv, MatchingFacts, CaseStep
<1> QED BY <1>1, <1>5

\* A request that has nothing more to do with graphs, or not yet.
LEMMA AskMoves ==
  ASSUME SourceInv, CaseStep, UNCHANGED graphOf, NEW q \in Asks,
         NEW at \in {"waiting", "created", "done"}, NEW answer \in {"none", "refused", "added", "error", "removed", "not-found"},
         ask' = [ask EXCEPT ![q].at = at, ![q].answer = answer], at = "created" => ask[q].at = "ensured",
         ask[q].at # "looked"
  PROVE  AskFacts'
<1> DEFINE r == [[ask[q] EXCEPT !.at = at] EXCEPT !.answer = answer]
<1>1. ask \in [Asks -> PatronAsks]
  BY DEF SourceInv, AskFacts
<1>2. ask' = [ask EXCEPT ![q] = r]
  BY <1>1
<1>3. r \in PatronAsks /\ r.at = at /\ r.graph = ask[q].graph
  BY <1>1 DEF PatronAsks
<1> HIDE DEF r
<1>4. ask' \in [Asks -> PatronAsks] /\ ask'[q] = r /\ \A p \in Asks : p # q => ask'[p] = ask[p]
  BY <1>1, <1>2, <1>3
<1> QED BY <1>3, <1>4, CaseTypes DEF SourceInv, AskFacts

LEMMA AskEnds ==
  ASSUME SourceInv, UNCHANGED <<world, graphOf, providerStream, subscription, post, match, matching, generating, insight>>,
         NEW q \in Asks,
         NEW at \in {"waiting", "done"}, NEW answer \in {"none", "refused", "added", "error", "removed", "not-found"},
         ask' = [ask EXCEPT ![q].at = at, ![q].answer = answer],
         ask[q].at = "new" \/ (ask[q].at = "created" /\ at = "done")
  PROVE  SourceInv'
<1>1. CaseStep
  BY CaseUnchanged DEF SourceInv
<1>2. ask[q].at # "looked" /\ at # "created" /\ ask \in [Asks -> PatronAsks]
  BY DEF SourceInv, AskFacts
<1>3. AskFacts'
  BY <1>1, <1>2, AskMoves
<1>4. ASSUME NEW p \in Asks, ask[p].at \in {"created", "done"} PROVE ask'[p].at \in {"created", "done"}
  <2>1. p # q => ask'[p] = ask[p]
    BY <1>2
  <2>2. ask'[q].at = at
    BY <1>2 DEF PatronAsks
  <2> QED BY <1>4, <2>1, <2>2
<1>5. SubscriptionFacts' /\ MatchingFacts'
  BY <1>1, <1>3, <1>4, SourcesStay
<1> QED BY <1>1, <1>3, <1>5, SourcesLeave DEF SourceInv, CaseStep

LEMMA BeginAskKeeps == ASSUME SourceInv, NEW q \in Asks, BeginAsk(q) PROVE SourceInv'
<1>1. ask[q].at = "new" /\ ask \in [Asks -> PatronAsks]
  BY DEF BeginAsk, SourceInv, AskFacts
<1>2. PICK at \in {"waiting", "done"}, answer \in {"none", "refused"} \cup {ask[q].answer} :
        ask' = [ask EXCEPT ![q].at = at, ![q].answer = answer]
  <2>1. CASE Answers(q, "refused")
    BY <2>1 DEF Answers
  <2>2. CASE Reaches(q, "waiting")
    <3>1. [ask[q] EXCEPT !.at = "waiting"] = [[ask[q] EXCEPT !.at = "waiting"] EXCEPT !.answer = ask[q].answer]
      BY <1>1 DEF PatronAsks
    <3>2. ask' = [ask EXCEPT ![q].at = "waiting", ![q].answer = ask[q].answer]
      BY <1>1, <2>2, <3>1 DEF Reaches
    <3> QED BY <3>2
  <2> QED BY <2>1, <2>2 DEF BeginAsk
<1>3. answer \in {"none", "refused", "added", "error", "removed", "not-found"}
  BY <1>1 DEF PatronAsks
<1> QED BY <1>1, <1>2, <1>3, AskEnds DEF BeginAsk

LEMMA ReadSourceKeeps == ASSUME SourceInv, NEW q \in Asks, ReadSource(q) PROVE SourceInv'
<1>1. PICK answer \in {"added", "error"} : ask' = [ask EXCEPT ![q].at = "done", ![q].answer = answer]
  BY DEF ReadSource, Answers
<1> QED BY <1>1, AskEnds DEF ReadSource

LEMMA EnsureLooksKeeps == ASSUME SourceInv, NEW q \in Asks, EnsureLooks(q) PROVE SourceInv'
<1> DEFINE mine == {i \in DOMAIN graphOf : graphOf[i] = Patron(q)}
           first == CHOOSE i \in mine : \A j \in mine : i <= j
           g == IF mine = {} THEN 0 ELSE first
           r == [[ask[q] EXCEPT !.at = "looked"] EXCEPT !.graph = g]
<1>1. ask \in [Asks -> PatronAsks] /\ graphOf \in Seq(Patrons) /\ ask[q].at = "waiting" /\ CaseStep
  BY CaseUnchanged DEF SourceInv, AskFacts, EnsureLooks
<1>2. ask' = [ask EXCEPT ![q] = r]
  <2>1. ask' = [ask EXCEPT ![q].at = "looked", ![q].graph = g]
    BY Zenon DEF EnsureLooks
  <2> HIDE DEF g
  <2> QED BY <1>1, <2>1
<1>3. mine = {} \/ g \in mine
  <2>1. mine \in SUBSET Nat
    BY <1>1
  <2>2. CASE mine # {}
    <3>1. PICK x \in mine : \A y \in mine : x <= y
      BY <2>1, <2>2, LeastOf
    <3>2. first \in mine
      BY <3>1, Zenon
    <3> QED BY <2>2, <3>2
  <2> QED BY <2>2
<1>4. /\ g \in Nat
      /\ g = 0 => \A i \in DOMAIN graphOf : graphOf[i] # Patron(q)
      /\ g # 0 => g \in DOMAIN graphOf /\ graphOf[g] = Patron(q)
  <2>1. CASE mine = {}
    BY <2>1
  <2>2. CASE mine # {}
    <3>1. g \in DOMAIN graphOf /\ graphOf[g] = Patron(q)
      BY <1>3, <2>2
    <3> HIDE DEF g
    <3>2. DOMAIN graphOf = 1 .. Len(graphOf) /\ Len(graphOf) \in Nat
      BY <1>1
    <3>3. g \in Nat \ {0}
      BY <3>1, <3>2
    <3> QED BY <3>1, <3>3
  <2> QED BY <2>1, <2>2
<1> HIDE DEF mine, g
<1>5. r \in PatronAsks /\ r.at = "looked" /\ r.graph = g
  BY <1>1, <1>4 DEF PatronAsks
<1> HIDE DEF r
<1>6. ask' \in [Asks -> PatronAsks] /\ ask'[q] = r /\ \A p \in Asks : p # q => ask'[p] = ask[p]
  BY <1>1, <1>2, <1>5
<1>7. \A p \in Asks : p # q /\ Patron(p) = Patron(q) => ask[p].at # "looked"
  BY DEF EnsureLooks, UserLocked
<1>8. graphOf' = graphOf
  BY DEF EnsureLooks
<1>9. AskFacts'
  BY <1>1, <1>4, <1>5, <1>6, <1>7, <1>8, CaseTypes DEF SourceInv, AskFacts
<1>10. SubscriptionFacts' /\ MatchingFacts'
  BY <1>1, <1>6, <1>8, <1>9, SourcesStay DEF EnsureLooks
<1> QED BY <1>1, <1>9, <1>10, SourcesLeave DEF SourceInv, CaseStep, EnsureLooks

LEMMA EnsureCommitsKeeps == ASSUME SourceInv, NEW q \in Asks, EnsureCommits(q) PROVE SourceInv'
<1> DEFINE g == IF ask[q].graph = 0 THEN Len(graphOf) + 1 ELSE ask[q].graph
           at == IF world.asks[q].op = "add" THEN "ensured" ELSE "done"
           r == [[ask[q] EXCEPT !.graph = g] EXCEPT !.at = at]
<1>1. ask \in [Asks -> PatronAsks] /\ graphOf \in Seq(Patrons) /\ ask[q].at = "looked" /\ CaseStep /\ Patron(q) \in Patrons
  BY CaseUnchanged, CaseIs DEF SourceInv, AskFacts, EnsureCommits
<1>2. ask' = [ask EXCEPT ![q] = r]
  BY <1>1 DEF EnsureCommits
<1>3. graphOf' \in Seq(Patrons) /\ \A i \in DOMAIN graphOf : i \in DOMAIN graphOf' /\ graphOf'[i] = graphOf[i]
  BY <1>1 DEF EnsureCommits
<1>4. /\ g \in DOMAIN graphOf' /\ graphOf'[g] = Patron(q)
      /\ \A i \in DOMAIN graphOf' : i \in DOMAIN graphOf \/ i = g
  <2>1. CASE ask[q].graph = 0
    BY <1>1, <2>1 DEF EnsureCommits
  <2>2. CASE ask[q].graph # 0
    <3>1. g \in DOMAIN graphOf /\ graphOf[g] = Patron(q) /\ graphOf' = graphOf
      BY <1>1, <2>2 DEF EnsureCommits, SourceInv, AskFacts
    <3> QED BY <3>1
  <2> QED BY <2>1, <2>2
<1>5. g \in DOMAIN graphOf \/ \A i \in DOMAIN graphOf : graphOf[i] # Patron(q)
  BY <1>1 DEF SourceInv, AskFacts
<1>6. g \in Nat /\ at \in {"ensured", "done"}
  BY <1>1, <1>3, <1>4
<1> HIDE DEF g, at
<1>7. r \in PatronAsks /\ r.at = at /\ r.graph = g
  BY <1>1, <1>6 DEF PatronAsks
<1> HIDE DEF r
<1>8. ask' \in [Asks -> PatronAsks] /\ ask'[q] = r /\ \A p \in Asks : p # q => ask'[p] = ask[p]
  BY <1>1, <1>2, <1>7
<1>9. \A i, j \in DOMAIN graphOf' : graphOf'[i] = graphOf'[j] => i = j
  BY <1>3, <1>4, <1>5 DEF SourceInv, AskFacts
<1>10. ASSUME NEW p \in Asks, ask'[p].at = "looked"
       PROVE  /\ ask'[p].graph = 0 => \A i \in DOMAIN graphOf' : graphOf'[i] # Patron(p)
              /\ \A o \in Asks : ask'[o].at = "looked" /\ Patron(o) = Patron(p) => o = p
  <2>1. p # q /\ ask[p].at = "looked" /\ ask'[p] = ask[p]
    BY <1>6, <1>7, <1>8, <1>10
  <2>2. Patron(p) # Patron(q)
    BY <1>1, <2>1 DEF SourceInv, AskFacts
  <2> QED BY <1>3, <1>4, <1>6, <1>7, <1>8, <2>1, <2>2 DEF SourceInv, AskFacts
<1>11. ASSUME NEW p \in Asks, ask'[p].at \in {"ensured", "created"} \/ (ask'[p].at = "looked" /\ ask'[p].graph # 0)
       PROVE  ask'[p].graph \in DOMAIN graphOf' /\ graphOf'[ask'[p].graph] = Patron(p)
  BY <1>3, <1>4, <1>7, <1>8, <1>11 DEF SourceInv, AskFacts
<1>12. AskFacts'
  BY <1>1, <1>3, <1>8, <1>9, <1>10, <1>11, CaseTypes DEF AskFacts
<1>13. SubscriptionFacts' /\ MatchingFacts'
  BY <1>1, <1>3, <1>6, <1>7, <1>8, <1>12, SourcesStay DEF EnsureCommits
<1> QED BY <1>1, <1>12, <1>13, SourcesLeave DEF SourceInv, CaseStep, EnsureCommits

\* A topic stays told of, or no further post is done with it.
TrendStep(g, topic) ==
  /\ ExistsRecent(g, topic) => ExistsRecent(g, topic)'
  /\ \/ world'.blind \/ ExistsRecent(g, topic)'
     \/ Looked(g, topic)' \subseteq Looked(g, topic)
     \/ Cardinality(Looked(g, topic)') < Trending

LEMMA StandingIsFinite ==
  ASSUME SourceInv, NEW g, NEW topic
  PROVE  /\ IsFiniteSet(DOMAIN post) /\ IsFiniteSet(Standing(g, topic)) /\ IsFiniteSet(Looked(g, topic))
         /\ Cardinality(Standing(g, topic)) \in Nat /\ Cardinality(Looked(g, topic)) \in Nat
<1>1. IsFiniteSet(DOMAIN post)
  BY CaseIs DEF SourceInv, PostFacts
<1>2. Standing(g, topic) \subseteq DOMAIN post /\ Looked(g, topic) \subseteq Standing(g, topic)
  BY DEF Standing, Looked
<1>3. IsFiniteSet(Standing(g, topic))
  BY <1>1, <1>2, FS_Subset
<1>4. IsFiniteSet(Looked(g, topic))
  BY <1>2, <1>3, FS_Subset
<1> QED BY <1>1, <1>3, <1>4, FS_CardinalityType

LEMMA TrendsGoOn ==
  ASSUME SourceInv, CaseStep, \A g \in Nat, topic \in STRING : TrendStep(g, topic)
  PROVE  TrendFacts'
<1> SUFFICES ASSUME ~world'.blind, NEW g \in Nat, NEW topic \in STRING, ~ExistsRecent(g, topic)'
             PROVE  Cardinality(Looked(g, topic)') < Trending
  BY DEF TrendFacts
<1>1. TrendStep(g, topic)
  OBVIOUS
<1>2. Cardinality(Looked(g, topic)) < Trending
  BY <1>1 DEF TrendStep, SourceInv, TrendFacts, CaseStep
<1>3. CASE Looked(g, topic)' \subseteq Looked(g, topic)
  <2>1. IsFiniteSet(Looked(g, topic)) /\ Cardinality(Looked(g, topic)) \in Nat
    BY StandingIsFinite
  <2>2. Cardinality(Looked(g, topic)') <= Cardinality(Looked(g, topic)) /\ IsFiniteSet(Looked(g, topic)')
    BY <1>3, <2>1, FS_Subset
  <2>3. Cardinality(Looked(g, topic)') \in Nat
    BY <2>2, FS_CardinalityType
  <2>4. Trending \in Nat
    BY SourceAssumption
  <2> QED BY <1>2, <2>1, <2>2, <2>3, <2>4
<1> QED BY <1>1, <1>3 DEF TrendStep

LEMMA SameWords == ASSUME CaseStep, NEW s, NEW p, NEW m PROVE Decide(s, p, m)' = Decide(s, p, m)
BY DEF CaseStep, Decide, PolicyTerms, SearchText, TextOf

\* What changes of the subscriptions leaves the posts as they are.
LEMMA SubscriptionsMove ==
  ASSUME SourceInv, CaseStep, UNCHANGED <<post, matching, generating, insight>>, match' \subseteq match,
         \A s \in subscription', m \in match' : s.id = m.sub => s \in subscription
  PROVE  TrendFacts'
<1> SUFFICES ASSUME NEW g \in Nat, NEW topic \in STRING PROVE TrendStep(g, topic)
  BY TrendsGoOn
<1>1. ExistsRecent(g, topic)' = ExistsRecent(g, topic)
  BY DEF ExistsRecent
<1>2. \A p : Deciding(p, g)' = Deciding(p, g) /\ Telling(p, g, topic)' = Telling(p, g, topic)
  BY SameWords DEF Deciding, Telling
<1>3. ASSUME NEW p \in Standing(g, topic)' PROVE p \in Standing(g, topic)
  <2>1. PICK s \in subscription' : /\ s.graph = g /\ [sub |-> s.id, post |-> p, rev |-> post[p].rev] \in match'
                                  /\ Decide(s, p, [rev |-> post[p].rev, text |-> post[p].enriched])'
    BY <1>3 DEF Standing
  <2>2. s \in subscription /\ [sub |-> s.id, post |-> p, rev |-> post[p].rev] \in match
    BY <2>1
  <2>3. Decide(s, p, [rev |-> post[p].rev, text |-> post[p].enriched])
    BY <2>1, SameWords DEF CaseStep, Decide, PolicyTerms, SearchText, TextOf
  <2> QED BY <1>3, <2>1, <2>2, <2>3 DEF Standing, TopicsOf, TextOf, CaseStep
<1>4. Looked(g, topic)' \subseteq Looked(g, topic)
  BY <1>2, <1>3 DEF Looked
<1> QED BY <1>1, <1>4 DEF TrendStep

LEMMA CreateSourceKeeps == ASSUME SourceInv, NEW q \in Asks, CreateSource(q) PROVE SourceInv'
<1> DEFINE b == BuildSourcePayload(world.asks[q])
           had == {s \in subscription : s.user = Patron(q) /\ s.graph = ask[q].graph /\ s.stream = b.stream}
           s0 == [id |-> q, user |-> Patron(q), graph |-> ask[q].graph, stream |-> b.stream, words |-> b.words]
<1>1. ask \in [Asks -> PatronAsks] /\ ask[q].at = "ensured" /\ CaseStep /\ graphOf \in Seq(Patrons)
  BY CaseUnchanged DEF SourceInv, AskFacts, CreateSource
<1>2. ask' \in [Asks -> PatronAsks] /\ ask'[q].at = "created" /\ (\A p \in Asks : p # q => ask'[p] = ask[p])
      /\ ask' = [ask EXCEPT ![q].at = "created", ![q].answer = ask[q].answer]
  <2>1. [ask[q] EXCEPT !.at = "created"] = [[ask[q] EXCEPT !.at = "created"] EXCEPT !.answer = ask[q].answer]
    BY <1>1 DEF PatronAsks
  <2>2. ask' = [ask EXCEPT ![q].at = "created"]
    BY DEF CreateSource, Reaches
  <2>3. ask' \in [Asks -> PatronAsks] /\ ask'[q].at = "created" /\ (\A p \in Asks : p # q => ask'[p] = ask[p])
    BY <1>1, <2>2 DEF PatronAsks
  <2>4. ask' = [ask EXCEPT ![q].at = "created", ![q].answer = ask[q].answer]
    BY <1>1, <2>1, <2>2
  <2> QED BY <2>3, <2>4
<1>3. AskFacts'
  <2>1. ask[q].answer \in {"none", "refused", "added", "error", "removed", "not-found"}
    BY <1>1 DEF PatronAsks
  <2> QED BY <1>1, <1>2, <2>1, AskMoves DEF CreateSource
<1>4. ask[q].graph \in DOMAIN graphOf /\ graphOf[ask[q].graph] = Patron(q) /\ ask[q].graph \in Nat
  BY <1>1 DEF SourceInv, AskFacts, PatronAsks
<1>5. b.stream = StreamOf(world.asks[q]) /\ b.words \in {world.asks[q].words, {}}
  BY DEF BuildSourcePayload
<1>6. s0 \in Subscribed /\ s0.id = q /\ s0.user = Patron(q) /\ s0.graph = ask[q].graph /\ s0.stream = b.stream
  BY <1>4, <1>5, CaseIs DEF Subscribed, SourceInv
<1>7. subscription' = IF had = {} THEN subscription \cup {s0} ELSE subscription
  BY DEF CreateSource
<1>8. DOMAIN providerStream' \subseteq DOMAIN providerStream \cup {b.stream}
  BY DEF CreateSource, UpsertStream
<1>9. \A s \in subscription : s.id # q
  BY <1>1 DEF SourceInv, SubscriptionFacts
<1>10. had = {} => \A s \in subscription : ~(s.user = Patron(q) /\ s.stream = b.stream)
  <2>1. SUFFICES ASSUME NEW s \in subscription, s.user = Patron(q), s.stream = b.stream PROVE s \in had
    OBVIOUS
  <2>2. s.graph \in DOMAIN graphOf /\ graphOf[s.graph] = Patron(q)
    BY <2>1 DEF SourceInv, SubscriptionFacts
  <2>3. s.graph = ask[q].graph
    BY <1>4, <2>2 DEF SourceInv, AskFacts
  <2> QED BY <2>1, <2>3
<1> HIDE DEF b, had, s0
<1>11. UNCHANGED <<world, graphOf, post, match, matching, generating, insight>>
  BY DEF CreateSource
<1>12. \A s \in subscription' : s \in subscription \/ (s = s0 /\ had = {})
  BY <1>7
<1>13. SubscriptionFacts'
  <2>1. subscription' \subseteq Subscribed'
    BY <1>1, <1>6, <1>12, CaseTypes DEF SourceInv, SubscriptionFacts
  <2>2. DOMAIN providerStream' \subseteq {StreamOf(world'.asks[p]) : p \in Asks'}
    BY <1>1, <1>5, <1>8, <1>11, CaseTypes DEF SourceInv, SubscriptionFacts
  <2>3. \A s \in subscription' : /\ ask'[s.id].at \in {"created", "done"}
                                /\ s.graph \in DOMAIN graphOf' /\ graphOf'[s.graph] = s.user
    <3>1. \A s \in subscription : s.id \in Asks
      BY DEF SourceInv, SubscriptionFacts, Subscribed
    <3> QED BY <1>2, <1>4, <1>6, <1>9, <1>11, <1>12, <3>1 DEF SourceInv, SubscriptionFacts
  <2>4. \A s, t \in subscription' : s.id = t.id \/ (s.user = t.user /\ s.stream = t.stream) => s = t
    BY <1>6, <1>9, <1>10, <1>12 DEF SourceInv, SubscriptionFacts
  <2> QED BY <2>1, <2>2, <2>3, <2>4 DEF SubscriptionFacts, StreamOf
<1>14. \A m \in match : m.sub # q
  BY <1>9 DEF SourceInv, PostFacts
<1>15. PostFacts'
  BY <1>1, <1>7, <1>11, CaseTypes DEF SourceInv, PostFacts, CaseStep
<1>16. MatchingFacts'
  <2>1. matching' \in [DOMAIN world'.posts -> MatchTask']
    BY <1>1, <1>11, CaseTypes DEF SourceInv, MatchingFacts, CaseStep
  <2>2. SUFFICES ASSUME NEW p \in DOMAIN matching, matching[p].at = "deciding"
                 PROVE  /\ matching[p].rev <= post[p].rev
                        /\ \A s \in matching[p].todo :
                             /\ s.stream = world.posts[p].stream /\ ask'[s.id].at \in {"created", "done"}
                             /\ \A u \in subscription' : u.id = s.id => u = s
                        /\ \A m \in match : m.post = p => m.rev <= matching[p].rev
                        /\ \A m \in match, s \in subscription' : m.post = p /\ s.id = m.sub =>
                             s \in matching[p].todo \/ ~Decide(s, p, matching[p]) \/ s.graph \in matching[p].hits
    BY <1>1, <1>11, <2>1, SameWords DEF MatchingFacts, CaseStep
  <2>3. matching[p].todo \subseteq Subscribed
    BY <2>2 DEF SourceInv, MatchingFacts, MatchTask
  <2>4. ASSUME NEW s \in matching[p].todo
        PROVE  /\ s.stream = world.posts[p].stream /\ ask'[s.id].at \in {"created", "done"}
               /\ \A u \in subscription' : u.id = s.id => u = s
    <3>1. s.id \in Asks /\ s.id # q
      BY <1>1, <2>2, <2>3, <2>4 DEF SourceInv, MatchingFacts, Subscribed
    <3> QED BY <1>2, <1>6, <1>12, <2>2, <3>1 DEF SourceInv, MatchingFacts
  <2>5. \A m \in match, s \in subscription' : m.post = p /\ s.id = m.sub =>
          s \in matching[p].todo \/ ~Decide(s, p, matching[p]) \/ s.graph \in matching[p].hits
    BY <1>6, <1>12, <1>14, <2>2 DEF SourceInv, MatchingFacts
  <2> QED BY <2>2, <2>4, <2>5 DEF SourceInv, MatchingFacts
<1>17. InsightFacts'
  BY <1>1, <1>11, CaseTypes DEF SourceInv, InsightFacts, CaseStep, Grounded
<1>18. TrendFacts'
  BY <1>1, <1>6, <1>11, <1>12, <1>14, SubscriptionsMove
<1> QED BY <1>1, <1>3, <1>13, <1>15, <1>16, <1>17, <1>18 DEF SourceInv, CaseStep

LEMMA DeleteSourceKeeps == ASSUME SourceInv, NEW q \in Asks, DeleteSource(q) PROVE SourceInv'
<1> DEFINE gone == {s \in subscription : s.id = world.asks[q].nth /\ s.user = Patron(q)}
           b == world.removed \/ gone # {}
<1>1. CaseStep /\ (world'.removed <=> b)
  <2>1. world' = [world EXCEPT !.removed = b]
    BY DEF DeleteSource
  <2>2. b \in BOOLEAN /\ (world.removed => b)
    OBVIOUS
  <2> QED BY <2>1, <2>2, CaseRemoves DEF SourceInv
<1>2. PICK answer \in {"removed", "not-found"} : ask' = [ask EXCEPT ![q].at = "done", ![q].answer = answer]
  BY DEF DeleteSource, Answers
<1>3. ask \in [Asks -> PatronAsks] /\ ask[q].at = "new"
  BY DEF SourceInv, AskFacts, DeleteSource
<1>4. AskFacts'
  BY <1>1, <1>2, <1>3, AskMoves DEF DeleteSource
<1>5. \A p \in Asks : ask[p].at \in {"created", "done"} => ask'[p].at \in {"created", "done"}
  <2>1. \A p \in Asks : p # q => ask'[p] = ask[p]
    BY <1>2, <1>3
  <2> QED BY <1>3, <2>1
<1>6. /\ subscription' = subscription \ gone
      /\ match' = {m \in match : \A s \in gone : m.sub # s.id}
      /\ UNCHANGED <<graphOf, providerStream, post, matching, generating, insight>>
  BY DEF DeleteSource
<1> HIDE DEF gone
<1>7. subscription' \subseteq subscription /\ match' \subseteq match
  BY <1>6
<1>8. SubscriptionFacts'
  <2>1. \A s \in subscription : s.id \in Asks
    BY DEF SourceInv, SubscriptionFacts, Subscribed
  <2> QED BY <1>1, <1>5, <1>6, <1>7, <2>1, CaseTypes DEF SourceInv, SubscriptionFacts, CaseStep, StreamOf
<1>9. PostFacts'
  <2>1. ASSUME NEW m \in match' PROVE \E s \in subscription' : s.id = m.sub /\ s.stream = world.posts[m.post].stream
    BY <1>6, <2>1 DEF SourceInv, PostFacts
  <2> QED BY <1>1, <1>6, <1>7, <2>1, CaseTypes DEF SourceInv, PostFacts, CaseStep
<1>10. MatchingFacts'
  <2>1. \A p \in DOMAIN matching : \A s \in matching[p].todo : s.id \in Asks
    BY DEF SourceInv, MatchingFacts, MatchTask, Subscribed
  <2> QED BY <1>1, <1>5, <1>6, <1>7, <2>1, SameWords, CaseTypes DEF SourceInv, MatchingFacts, CaseStep
<1>11. InsightFacts'
  <2>1. world'.removed \/ (match' = match /\ ~world.removed)
    BY <1>1, <1>6
  <2>2. \A posts : Grounded(posts) => Grounded(posts)'
    BY <2>1 DEF Grounded
  <2> QED BY <1>1, <1>6, <2>2, CaseTypes DEF SourceInv, InsightFacts, CaseStep
<1>12. TrendFacts'
  BY <1>1, <1>6, <1>7, SubscriptionsMove
<1> QED BY <1>1, <1>4, <1>8, <1>9, <1>10, <1>11, <1>12 DEF SourceInv, CaseStep

LEMMA ReadStreamKeeps ==
  ASSUME SourceInv, NEW k \in DOMAIN providerStream, ReadStream(k) PROVE SourceInv'
<1>1. CaseStep
  BY CaseConsumes DEF SourceInv, ReadStream
<1>2. DOMAIN providerStream' = DOMAIN providerStream
  BY DEF ReadStream
<1>3. UNCHANGED <<ask, graphOf, subscription, post, match, matching, generating, insight>>
  BY DEF ReadStream
<1>4. AskFacts'
  BY <1>1, <1>3, CaseTypes DEF SourceInv, AskFacts
<1>5. SubscriptionFacts'
  BY <1>1, <1>2, <1>3, CaseTypes DEF SourceInv, SubscriptionFacts, CaseStep, StreamOf
<1>6. MatchingFacts'
  BY <1>1, <1>3, SameWords, CaseTypes DEF SourceInv, MatchingFacts, CaseStep
<1> QED BY <1>1, <1>3, <1>4, <1>5, <1>6, SourcesLeave DEF SourceInv, CaseStep

LEMMA PostsLeave ==
  ASSUME SourceInv, CaseStep, UNCHANGED <<ask, graphOf, providerStream, subscription>>
  PROVE  AskFacts' /\ SubscriptionFacts'
<1>1. AskFacts'
  BY CaseTypes DEF SourceInv, AskFacts
<1>2. SubscriptionFacts'
  BY CaseTypes DEF SourceInv, SubscriptionFacts, CaseStep, StreamOf
<1> QED BY <1>1, <1>2

\* A post nothing happens to is done with a topic only if it was.
LEMMA LookedIsLocal ==
  ASSUME CaseStep, NEW p, NEW g, NEW topic, subscription' = subscription, DOMAIN post' = DOMAIN post,
         post'[p].rev = post[p].rev, post'[p].enriched = post[p].enriched,
         \A id, rev : [sub |-> id, post |-> p, rev |-> rev] \in match' => [sub |-> id, post |-> p, rev |-> rev] \in match,
         matching'[p] = matching[p], Telling(p, g, topic) => Telling(p, g, topic)',
         p \in Looked(g, topic)'
  PROVE  p \in Looked(g, topic)
<1>1. p \in Standing(g, topic)
  <2>1. PICK s \in subscription : /\ s.graph = g /\ [sub |-> s.id, post |-> p, rev |-> post[p].rev] \in match'
                                 /\ Decide(s, p, [rev |-> post[p].rev, text |-> post[p].enriched])'
    BY DEF Looked, Standing
  <2>2. [sub |-> s.id, post |-> p, rev |-> post[p].rev] \in match
    BY <2>1
  <2>3. Decide(s, p, [rev |-> post[p].rev, text |-> post[p].enriched])
    BY <2>1 DEF CaseStep, Decide, PolicyTerms, SearchText, TextOf
  <2> QED BY <2>1, <2>2, <2>3 DEF Looked, Standing, TopicsOf, TextOf, CaseStep
<1>2. Deciding(p, g) => Deciding(p, g)'
  BY SameWords DEF Deciding
<1> QED BY <1>1, <1>2 DEF Looked

LEMMA PostIs ==
  ASSUME SourceInv, NEW p \in DOMAIN post
  PROVE  /\ p \in DOMAIN world.posts /\ post \in [DOMAIN world.posts -> [rev : Nat, enriched : Nat, dismissed : BOOLEAN]]
         /\ post[p] \in [rev : Nat, enriched : Nat, dismissed : BOOLEAN]
         /\ post[p].rev \in Nat /\ post[p].enriched \in Nat /\ post[p].enriched <= post[p].rev
         /\ matching \in [DOMAIN world.posts -> MatchTask] /\ matching[p] \in MatchTask
BY DEF SourceInv, PostFacts, MatchingFacts

\* The post or the matching of one record changes, of which nothing else is known.
LEMMA OthersLooked ==
  ASSUME SourceInv, CaseStep, UNCHANGED <<subscription, insight>>, generating \subseteq generating',
         NEW p \in DOMAIN post, DOMAIN post' = DOMAIN post,
         \A o \in DOMAIN post : o # p => post'[o] = post[o] /\ matching'[o] = matching[o],
         \A m \in match' : m \in match \/ m.post = p,
         NEW g \in Nat, NEW topic \in STRING, world'.blind \/ (p \in Looked(g, topic)' => p \in Looked(g, topic))
  PROVE  TrendStep(g, topic)
<1>1. ExistsRecent(g, topic)' = ExistsRecent(g, topic)
  BY DEF ExistsRecent
<1>2. ASSUME NEW o \in Looked(g, topic)', o # p PROVE o \in Looked(g, topic)
  <2>1. o \in DOMAIN post /\ post'[o] = post[o] /\ matching'[o] = matching[o]
    BY <1>2 DEF Looked, Standing
  <2>2. \A id, rev : [sub |-> id, post |-> o, rev |-> rev] \in match' => [sub |-> id, post |-> o, rev |-> rev] \in match
    <3>1. \A id, rev : [sub |-> id, post |-> o, rev |-> rev].post = o
      OBVIOUS
    <3> QED BY <1>2, <3>1
  <2>3. Telling(o, g, topic) => Telling(o, g, topic)'
    BY <2>1 DEF Telling
  <2> QED BY <1>2, <2>1, <2>2, <2>3, LookedIsLocal
<1> QED BY <1>1, <1>2 DEF TrendStep

LEMMA CapturePostKeeps == ASSUME SourceInv, NEW p \in DOMAIN post, CapturePost(p) PROVE SourceInv'
<1> DEFINE r == [post[p] EXCEPT !.rev = post[p].rev + 1]
<1>1. CaseStep /\ AskFacts' /\ SubscriptionFacts'
  BY CaseUnchanged, PostsLeave DEF SourceInv, CapturePost
<1>2. post' = [post EXCEPT ![p] = r] /\ UNCHANGED <<subscription, match, matching, generating, insight>>
      /\ post[p].rev < Len(world.posts[p].texts)
  BY DEF CapturePost
<1>3. /\ r \in [rev : Nat, enriched : Nat, dismissed : BOOLEAN] /\ r.rev = post[p].rev + 1 /\ r.enriched = post[p].enriched
      /\ Len(world.posts[p].texts) \in Nat
  <2>1. Len(world.posts[p].texts) \in Nat
    BY PostIs, CaseIs DEF SourceInv
  <2> QED BY <2>1, PostIs
<1> HIDE DEF r
<1>4. /\ post' \in [DOMAIN world.posts -> [rev : Nat, enriched : Nat, dismissed : BOOLEAN]]
      /\ post'[p] = r /\ \A o \in DOMAIN post : o # p => post'[o] = post[o]
      /\ DOMAIN post' = DOMAIN post
  BY <1>2, <1>3, PostIs
<1>5. \A o \in DOMAIN post : post[o].rev \in Nat /\ post'[o].rev >= post[o].rev /\ post'[o].rev \in Nat
  <2>1. \A o \in DOMAIN post : post[o].rev \in Nat
    BY PostIs
  <2>2. post'[p].rev = post[p].rev + 1
    BY <1>3, <1>4
  <2> QED BY <1>4, <2>1, <2>2
<1>6. PostFacts'
  <2>1. \A o \in DOMAIN post' : post'[o].enriched <= post'[o].rev /\ post'[o].rev <= Len(world.posts[o].texts)
    BY <1>2, <1>3, <1>4, PostIs DEF SourceInv, PostFacts
  <2>2. ASSUME NEW m \in match PROVE m.rev <= post'[m.post].rev
    <3>1. m.post \in DOMAIN post /\ m.rev \in Nat /\ m.rev <= post[m.post].rev
      BY <2>2 DEF SourceInv, PostFacts
    <3> QED BY <1>5, <3>1
  <2> QED BY <1>1, <1>2, <1>4, <2>1, <2>2 DEF SourceInv, PostFacts, CaseStep, Asks
<1>7. MatchingFacts'
  <2>1. ASSUME NEW o \in DOMAIN matching, matching[o].at = "deciding" PROVE matching[o].rev <= post'[o].rev
    <3>1. o \in DOMAIN post /\ matching[o].rev \in Nat /\ matching[o].rev <= post[o].rev
      BY <2>1, PostIs DEF SourceInv, MatchingFacts, MatchTask, PostFacts
    <3> QED BY <1>5, <3>1
  <2> QED BY <1>1, <1>2, <2>1, SameWords, CaseTypes DEF SourceInv, MatchingFacts, CaseStep, CapturePost
<1>8. InsightFacts'
  BY <1>1, <1>2, CaseTypes DEF SourceInv, InsightFacts, CaseStep, Grounded, CapturePost
<1>9. ASSUME NEW g \in Nat, NEW topic \in STRING PROVE TrendStep(g, topic)
  <2>1. p \notin Looked(g, topic)'
    BY <1>3, <1>4, PostIs DEF Looked, Standing
  <2> QED BY <1>1, <1>2, <1>4, <2>1, OthersLooked
<1> QED BY <1>1, <1>6, <1>7, <1>8, <1>9, TrendsGoOn DEF SourceInv, CaseStep

\* Only what is not compared changes of a post.
LEMMA DismissPostKeeps == ASSUME SourceInv, NEW p \in DOMAIN post, DismissPost(p) PROVE SourceInv'
<1> DEFINE r == [post[p] EXCEPT !.dismissed = TRUE]
<1>1. CaseStep /\ AskFacts' /\ SubscriptionFacts'
  BY CaseUnchanged, PostsLeave DEF SourceInv, DismissPost
<1>2. post' = [post EXCEPT ![p] = r] /\ UNCHANGED <<world, subscription, match, matching, generating, insight>>
  BY DEF DismissPost
<1>3. r \in [rev : Nat, enriched : Nat, dismissed : BOOLEAN] /\ r.rev = post[p].rev /\ r.enriched = post[p].enriched
  BY PostIs
<1> HIDE DEF r
<1>4. /\ post' \in [DOMAIN world.posts -> [rev : Nat, enriched : Nat, dismissed : BOOLEAN]]
      /\ \A o \in DOMAIN post : post'[o].rev = post[o].rev /\ post'[o].enriched = post[o].enriched
      /\ \A o \in DOMAIN post : o # p => post'[o] = post[o]
      /\ DOMAIN post' = DOMAIN post /\ DOMAIN post = DOMAIN world.posts
  BY <1>2, <1>3, PostIs
<1>5. PostFacts'
  BY <1>1, <1>2, <1>4 DEF SourceInv, PostFacts, CaseStep, Asks
<1>6. MatchingFacts'
  BY <1>1, <1>2, <1>4, SameWords, CaseTypes DEF SourceInv, MatchingFacts, CaseStep, DismissPost
<1>7. InsightFacts'
  BY <1>1, <1>2, CaseTypes DEF SourceInv, InsightFacts, CaseStep, Grounded
<1>8. ASSUME NEW g \in Nat, NEW topic \in STRING PROVE TrendStep(g, topic)
  <2>1. Telling(p, g, topic) => Telling(p, g, topic)'
    BY <1>2, <1>4 DEF Telling
  <2>2. p \in Looked(g, topic)' => p \in Looked(g, topic)
    BY <1>1, <1>2, <1>4, <2>1, LookedIsLocal
  <2> QED BY <1>1, <1>2, <1>4, <2>2, OthersLooked
<1> QED BY <1>1, <1>5, <1>6, <1>7, <1>8, TrendsGoOn DEF SourceInv, CaseStep

\* A matching that goes back to the queue, or that begins or ends.
LEMMA MatchingSet ==
  ASSUME SourceInv, NEW p \in DOMAIN post, NEW r \in MatchTask, matching' = [matching EXCEPT ![p] = r]
  PROVE  /\ matching' \in [DOMAIN world.posts -> MatchTask] /\ matching'[p] = r
         /\ \A o \in DOMAIN post : o # p => matching'[o] = matching[o]
         /\ DOMAIN matching' = DOMAIN post /\ DOMAIN matching = DOMAIN post /\ DOMAIN post = DOMAIN world.posts
<1>1. matching \in [DOMAIN world.posts -> MatchTask] /\ p \in DOMAIN world.posts /\ DOMAIN post = DOMAIN world.posts
  BY PostIs
<1> QED BY <1>1

\* What holds of one matching at work.
AtWork(p) ==
  /\ matching[p].rev <= post[p].rev
  /\ \A s \in matching[p].todo :
       /\ s.stream = world.posts[p].stream /\ ask[s.id].at \in {"created", "done"}
       /\ \A u \in subscription : u.id = s.id => u = s
  /\ \A m \in match : m.post = p => m.rev <= matching[p].rev
  /\ \A m \in match, s \in subscription : m.post = p /\ s.id = m.sub =>
       s \in matching[p].todo \/ ~Decide(s, p, matching[p]) \/ s.graph \in matching[p].hits

LEMMA WorkOf == ASSUME SourceInv, NEW p \in DOMAIN post, matching[p].at = "deciding" PROVE AtWork(p)
BY PostIs DEF SourceInv, MatchingFacts, AtWork

\* The other matchings are at work as they were.
LEMMA OthersWork ==
  ASSUME SourceInv, CaseStep, UNCHANGED <<ask, subscription>>, NEW p \in DOMAIN post, DOMAIN post' = DOMAIN post,
         matching' \in [DOMAIN world.posts -> MatchTask],
         \A o \in DOMAIN post : post'[o].rev = post[o].rev /\ (o # p => matching'[o] = matching[o]),
         \A m \in match' : m \in match \/ m.post = p,
         matching'[p].at = "deciding" => AtWork(p)'
  PROVE  MatchingFacts'
<1>1. DOMAIN matching' = DOMAIN post /\ DOMAIN post = DOMAIN world.posts
  BY PostIs
<1>2. ASSUME NEW o \in DOMAIN post, matching'[o].at = "deciding" PROVE AtWork(o)'
  <2>1. CASE o = p
    BY <1>2, <2>1
  <2>2. CASE o # p
    <3>1. AtWork(o) /\ matching'[o] = matching[o] /\ post'[o].rev = post[o].rev
      BY <1>2, <2>2, WorkOf
    <3>2. \A m \in match' : m.post = o => m \in match
      BY <2>2
    <3> QED BY <3>1, <3>2, SameWords DEF AtWork, CaseStep
  <2> QED BY <2>1, <2>2
<1>3. matching' \in [DOMAIN world'.posts -> MatchTask']
  BY CaseTypes DEF CaseStep
<1> QED BY <1>1, <1>2, <1>3 DEF MatchingFacts, AtWork

LEMMA UnmatchedIs ==
  /\ Unmatched \in MatchTask /\ [Unmatched EXCEPT !.at = "pending"] \in MatchTask
  /\ Unmatched.at = "none" /\ [Unmatched EXCEPT !.at = "pending"].at = "pending"
BY DEF Unmatched, MatchTask

LEMMA EnrichPostKeeps == ASSUME SourceInv, NEW p \in DOMAIN post, EnrichPost(p) PROVE SourceInv'
<1> DEFINE r == [post[p] EXCEPT !.enriched = post[p].rev]
           m0 == [matching[p] EXCEPT !.at = "pending"]
<1>1. CaseStep /\ AskFacts' /\ SubscriptionFacts'
  BY CaseUnchanged, PostsLeave DEF SourceInv, EnrichPost
<1>2. post' = [post EXCEPT ![p] = r] /\ UNCHANGED <<ask, world, subscription, match, generating, insight>>
      /\ matching' = IF matching[p].at = "none" THEN [matching EXCEPT ![p] = m0] ELSE matching
  BY DEF EnrichPost, Requeued
<1>3. r \in [rev : Nat, enriched : Nat, dismissed : BOOLEAN] /\ r.rev = post[p].rev /\ r.enriched = post[p].rev
  BY PostIs
<1>4. m0 \in MatchTask /\ m0.at = "pending"
  BY PostIs DEF MatchTask
<1> HIDE DEF r, m0
<1>5. /\ post' \in [DOMAIN world.posts -> [rev : Nat, enriched : Nat, dismissed : BOOLEAN]] /\ post'[p] = r
      /\ \A o \in DOMAIN post : post'[o].rev = post[o].rev
      /\ \A o \in DOMAIN post : o # p => post'[o] = post[o]
      /\ DOMAIN post' = DOMAIN post /\ DOMAIN post = DOMAIN world.posts
  BY <1>2, <1>3, PostIs
<1>6. /\ matching' \in [DOMAIN world.posts -> MatchTask]
      /\ \A o \in DOMAIN post : o # p => matching'[o] = matching[o]
      /\ matching'[p].at = "pending" \/ (matching'[p].at = "deciding" /\ matching' = matching)
  <2>1. CASE matching[p].at = "none"
    BY <1>2, <1>4, <2>1, MatchingSet
  <2>2. CASE matching[p].at # "none"
    BY <1>2, <2>2, PostIs DEF MatchTask
  <2> QED BY <2>1, <2>2
<1>7. PostFacts'
  <2>1. \A o \in DOMAIN post' : post'[o].enriched <= post'[o].rev /\ post'[o].rev <= Len(world.posts[o].texts)
    <3>1. SUFFICES ASSUME NEW o \in DOMAIN post PROVE post'[o].enriched <= post[o].rev /\ post[o].rev <= Len(world.posts[o].texts)
      BY <1>5
    <3>2. post[o].enriched <= post[o].rev /\ post[o].rev <= Len(world.posts[o].texts) /\ post[o].rev \in Nat
      BY PostIs DEF SourceInv, PostFacts
    <3>3. post'[p].enriched = post[p].rev
      BY <1>3, <1>5
    <3> QED BY <1>5, <3>2, <3>3
  <2> QED BY <1>1, <1>2, <1>5, <2>1 DEF SourceInv, PostFacts, CaseStep, Asks
<1>8. MatchingFacts'
  <2>1. matching'[p].at = "deciding" => AtWork(p)'
    BY <1>1, <1>2, <1>5, <1>6, WorkOf, SameWords DEF AtWork, CaseStep
  <2> QED BY <1>1, <1>2, <1>5, <1>6, <2>1, OthersWork
<1>9. InsightFacts'
  BY <1>1, <1>2, CaseTypes DEF SourceInv, InsightFacts, CaseStep, Grounded
<1>10. ASSUME NEW g \in Nat, NEW topic \in STRING PROVE TrendStep(g, topic)
  <2>1. ASSUME p \in Looked(g, topic)' PROVE FALSE
    <3>1. matching'[p].at = "deciding" /\ matching' = matching /\ AtWork(p)
      BY <1>6, <2>1, WorkOf DEF Looked
    <3>2. PICK s \in subscription : /\ s.graph = g /\ [sub |-> s.id, post |-> p, rev |-> post[p].rev] \in match
                                   /\ Decide(s, p, [rev |-> post[p].rev, text |-> post[p].rev])
      <4>1. post'[p].rev = post[p].rev /\ post'[p].enriched = post[p].rev
        BY <1>3, <1>5
      <4> QED BY <1>2, <2>1, <4>1 DEF Looked, Standing, Decide, PolicyTerms, SearchText, TextOf
    <3>3. matching[p].rev = post[p].rev
      <4> DEFINE m == [sub |-> s.id, post |-> p, rev |-> post[p].rev]
      <4>1. m.post = p /\ m.rev = post[p].rev
        OBVIOUS
      <4> HIDE DEF m
      <4>2. post[p].rev <= matching[p].rev
        BY <3>1, <3>2, <4>1 DEF AtWork, m
      <4>3. matching[p].rev <= post[p].rev
        BY <3>1 DEF AtWork
      <4>4. matching[p].rev \in Nat /\ post[p].rev \in Nat
        BY PostIs DEF MatchTask
      <4> QED BY <4>2, <4>3, <4>4
    <3>4. Decide(s, p, matching[p])
      <4> QED BY <3>2, <3>3 DEF Decide, PolicyTerms, SearchText, TextOf
    <3>5. s \in matching[p].todo \/ s.graph \in matching[p].hits
      <4> DEFINE m == [sub |-> s.id, post |-> p, rev |-> post[p].rev]
      <4>1. m.post = p /\ m.sub = s.id /\ m \in match
        BY <3>2
      <4> HIDE DEF m
      <4> QED BY <3>1, <3>4, <4>1 DEF AtWork
    <3>6. Deciding(p, g)'
      BY <1>1, <1>2, <1>5, <3>1, <3>2, <3>3, <3>4, <3>5, SameWords DEF Deciding
    <3> QED BY <2>1, <3>6 DEF Looked
  <2> QED BY <1>1, <1>2, <1>5, <1>6, <2>1, OthersLooked
<1> QED BY <1>1, <1>7, <1>8, <1>9, <1>10, TrendsGoOn DEF SourceInv, CaseStep

\* Nothing but one matching changes.
LEMMA MatchingMoves ==
  ASSUME SourceInv, UNCHANGED <<ask, graphOf, providerStream, subscription, post, match, generating, insight>>, CaseStep,
         NEW p \in DOMAIN post, NEW r \in MatchTask, matching' = [matching EXCEPT ![p] = r],
         r.at = "deciding" => AtWork(p)',
         \A g \in Nat, topic \in STRING : p \in Looked(g, topic)' => p \in Looked(g, topic)
  PROVE  SourceInv'
<1>1. AskFacts' /\ SubscriptionFacts'
  BY PostsLeave
<1>2. /\ matching' \in [DOMAIN world.posts -> MatchTask] /\ matching'[p] = r
      /\ \A o \in DOMAIN post : o # p => matching'[o] = matching[o]
  BY MatchingSet
<1>3. PostFacts'
  BY CaseTypes DEF SourceInv, PostFacts, CaseStep
<1>4. MatchingFacts'
  BY <1>2, OthersWork
<1>5. InsightFacts'
  BY CaseTypes DEF SourceInv, InsightFacts, CaseStep, Grounded
<1>6. TrendFacts'
  BY <1>2, OthersLooked, TrendsGoOn
<1> QED BY <1>1, <1>3, <1>4, <1>5, <1>6 DEF SourceInv, CaseStep

LEMMA MatchingDiesKeeps == ASSUME SourceInv, NEW p \in DOMAIN post, MatchingDies(p) PROVE SourceInv'
<1> DEFINE r == [Unmatched EXCEPT !.at = "pending"]
<1>1. CaseStep /\ matching' = [matching EXCEPT ![p] = r]
  BY CaseConsumes DEF MatchingDies, SourceInv
<1>2. r \in MatchTask /\ r.at = "pending"
  BY UnmatchedIs
<1> HIDE DEF r
<1>3. matching'[p].at = "pending"
  BY <1>1, <1>2, MatchingSet
<1>4. \A g, topic : p \notin Looked(g, topic)'
  BY <1>3 DEF Looked
<1> QED BY <1>1, <1>2, <1>4, MatchingMoves DEF MatchingDies

LEMMA LoadMatchingKeeps == ASSUME SourceInv, NEW p \in DOMAIN post, LoadMatching(p) PROVE SourceInv'
<1> DEFINE due == {s \in subscription : s.stream = world.posts[p].stream}
           r == [at |-> "deciding", rev |-> post[p].rev, text |-> post[p].enriched, hits |-> {}, todo |-> due]
<1>1. CaseStep /\ matching' = [matching EXCEPT ![p] = r]
      /\ UNCHANGED <<world, ask, graphOf, providerStream, subscription, post, match, generating, insight>>
  BY CaseUnchanged DEF LoadMatching, SourceInv
<1>2. r \in MatchTask /\ r.at = "deciding" /\ r.rev = post[p].rev /\ r.text = post[p].enriched /\ r.todo = due
  <2>1. due \in SUBSET Subscribed
    BY DEF SourceInv, SubscriptionFacts
  <2> HIDE DEF due
  <2> QED BY <2>1, PostIs DEF MatchTask
<1>3. \A m \in match, s \in subscription : m.post = p /\ s.id = m.sub => s \in due
  BY DEF SourceInv, PostFacts, SubscriptionFacts
<1>4. \A m \in match : m.post = p => m.rev <= post[p].rev
  BY DEF SourceInv, PostFacts
<1>5. \A s \in due : s \in subscription /\ s.stream = world.posts[p].stream
  OBVIOUS
<1> HIDE DEF r, due
<1>6. matching'[p] = r
  BY <1>1, <1>2, MatchingSet
<1>7. AtWork(p)'
  <2>1. r.rev <= post[p].rev
    BY <1>2, PostIs
  <2> QED BY <1>1, <1>2, <1>3, <1>4, <1>5, <1>6, <2>1 DEF AtWork, SourceInv, SubscriptionFacts
<1>8. ASSUME NEW g \in Nat, NEW topic \in STRING, p \in Looked(g, topic)' PROVE FALSE
  <2>1. PICK s \in subscription : /\ s.graph = g /\ [sub |-> s.id, post |-> p, rev |-> post[p].rev] \in match
                                 /\ Decide(s, p, [rev |-> post[p].rev, text |-> post[p].enriched])
    BY <1>1, <1>8 DEF Looked, Standing, Decide, PolicyTerms, SearchText, TextOf
  <2>2. s \in due
    <3> DEFINE m == [sub |-> s.id, post |-> p, rev |-> post[p].rev]
    <3>1. m.post = p /\ m.sub = s.id /\ m \in match
      BY <2>1
    <3> HIDE DEF m
    <3> QED BY <1>3, <3>1
  <2>3. Decide(s, p, r)
    BY <1>2, <2>1 DEF Decide, PolicyTerms, SearchText, TextOf
  <2>4. Deciding(p, g)'
    BY <1>1, <1>2, <1>6, <2>1, <2>2, <2>3, SameWords DEF Deciding
  <2> QED BY <1>8, <2>4 DEF Looked
<1> QED BY <1>1, <1>2, <1>7, <1>8, MatchingMoves

LEMMA MatchOneKeeps == ASSUME SourceInv, NEW p \in DOMAIN post, MatchOne(p) PROVE SourceInv'
<1>1. CaseStep /\ matching[p].at = "deciding" /\ AtWork(p)
      /\ UNCHANGED <<world, ask, graphOf, providerStream, subscription, post, generating, insight>>
  BY CaseUnchanged, WorkOf DEF MatchOne, SourceInv
<1>2. PICK s \in matching[p].todo :
       IF ~Decide(s, p, matching[p])
       THEN matching' = [matching EXCEPT ![p].todo = @ \ {s}] /\ UNCHANGED match
       ELSE IF s.id \in {t.id : t \in subscription}
       THEN /\ Save(s, p, matching[p].rev)
            /\ matching' = [matching EXCEPT ![p].todo = @ \ {s}, ![p].hits = @ \cup {s.graph}]
       ELSE matching' = [matching EXCEPT ![p] = [Unmatched EXCEPT !.at = "pending"]] /\ UNCHANGED match
  BY DEF MatchOne
<1>3. matching[p] \in MatchTask /\ s \in Subscribed /\ s.graph \in Nat /\ s.id \in Asks
  BY PostIs DEF MatchTask, Subscribed
<1> DEFINE r1 == [matching[p] EXCEPT !.todo = matching[p].todo \ {s}]
<1>4. /\ r1 \in MatchTask /\ r1.at = "deciding" /\ r1.rev = matching[p].rev /\ r1.text = matching[p].text
      /\ r1.todo = matching[p].todo \ {s} /\ r1.hits = matching[p].hits
  BY <1>1, <1>3 DEF MatchTask
<1>5. CASE ~Decide(s, p, matching[p])
  <2>1. matching' = [matching EXCEPT ![p] = r1] /\ UNCHANGED match
    BY <1>2, <1>5
  <2> HIDE DEF r1
  <2>2. matching'[p] = r1
    BY <1>4, <2>1, MatchingSet
  <2>3. \A u : Decide(u, p, r1) <=> Decide(u, p, matching[p])
    BY <1>4 DEF Decide, PolicyTerms, SearchText
  <2>4. AtWork(p)'
    <3>1. /\ \A u \in r1.todo : u \in matching[p].todo
          /\ \A u, m : Decide(u, p, m)' <=> Decide(u, p, m)
      BY <1>1, <1>4, SameWords
    <3> QED BY <1>1, <1>4, <1>5, <2>1, <2>2, <2>3, <3>1 DEF AtWork
  <2>5. ASSUME NEW g \in Nat, NEW topic \in STRING, p \in Looked(g, topic)' PROVE p \in Looked(g, topic)
    <3>1. p \in Standing(g, topic)
      BY <1>1, <2>1, <2>5 DEF Looked, Standing, Decide, PolicyTerms, SearchText, TextOf, TopicsOf
    <3>2. Deciding(p, g) => Deciding(p, g)'
      BY <1>1, <1>4, <1>5, <2>2, <2>3, SameWords DEF Deciding
    <3>3. Telling(p, g, topic) => Telling(p, g, topic)'
      BY <1>1 DEF Telling
    <3> QED BY <1>1, <2>5, <3>1, <3>2, <3>3 DEF Looked
  <2> QED BY <1>1, <1>4, <2>1, <2>4, <2>5, MatchingMoves
<1>6. CASE Decide(s, p, matching[p]) /\ s.id \notin {t.id : t \in subscription}
  <2> DEFINE r == [Unmatched EXCEPT !.at = "pending"]
  <2>1. matching' = [matching EXCEPT ![p] = r] /\ UNCHANGED match /\ r \in MatchTask /\ r.at = "pending"
    BY <1>2, <1>6, UnmatchedIs
  <2> HIDE DEF r
  <2>2. matching'[p].at = "pending"
    BY <2>1, MatchingSet
  <2>3. \A g, topic : p \notin Looked(g, topic)'
    BY <2>2 DEF Looked
  <2> QED BY <1>1, <2>1, <2>3, MatchingMoves
<1>7. CASE Decide(s, p, matching[p]) /\ s.id \in {t.id : t \in subscription}
  <2> DEFINE r == [r1 EXCEPT !.hits = matching[p].hits \cup {s.graph}]
             row == [sub |-> s.id, post |-> p, rev |-> matching[p].rev]
  <2>1. matching' = [matching EXCEPT ![p] = r] /\ match' = match \cup {row}
    BY <1>2, <1>7 DEF Save
  <2>2. s \in subscription
    BY <1>1, <1>7 DEF AtWork
  <2>3. s.stream = world.posts[p].stream /\ matching[p].rev <= post[p].rev
    BY <1>1 DEF AtWork
  <2> HIDE DEF r1
  <2>4. /\ r \in MatchTask /\ r.at = "deciding" /\ r.rev = matching[p].rev /\ r.text = matching[p].text
        /\ r.todo = matching[p].todo \ {s} /\ r.hits = matching[p].hits \cup {s.graph}
    BY <1>3, <1>4 DEF MatchTask
  <2>5. row \in [sub : Asks, post : DOMAIN world.posts, rev : Nat] /\ row.sub = s.id /\ row.post = p /\ row.rev = matching[p].rev
    BY <1>3, PostIs DEF MatchTask
  <2>6. ASSUME NEW id, NEW o, NEW rev, [sub |-> id, post |-> o, rev |-> rev] = row
        PROVE  id = s.id /\ o = p /\ rev = matching[p].rev
    BY <2>6
  <2> HIDE DEF r, row
  <2>7. /\ matching' \in [DOMAIN world.posts -> MatchTask] /\ matching'[p] = r
        /\ \A o \in DOMAIN post : o # p => matching'[o] = matching[o]
    BY <2>1, <2>4, MatchingSet
  <2>8. PostFacts'
    BY <1>1, <2>1, <2>2, <2>3, <2>5, CaseTypes DEF SourceInv, PostFacts, CaseStep
  <2>9. \A u : Decide(u, p, r) <=> Decide(u, p, matching[p])
    BY <2>4 DEF Decide, PolicyTerms, SearchText
  <2>10. AtWork(p)'
    <3>1. \A u, m : Decide(u, p, m)' <=> Decide(u, p, m)
      BY <1>1, SameWords
    <3>2. \A u \in r.todo : u \in matching[p].todo
      BY <2>4
    <3>3. \A m \in match' : m.post = p => m.rev <= r.rev
      <4>1. matching[p].rev <= matching[p].rev
        BY <1>3 DEF MatchTask
      <4> QED BY <1>1, <2>1, <2>4, <2>5, <4>1 DEF AtWork
    <3>4. \A m \in match', u \in subscription : m.post = p /\ u.id = m.sub =>
            u \in r.todo \/ ~Decide(u, p, r) \/ u.graph \in r.hits
      BY <1>1, <2>1, <2>2, <2>4, <2>5, <2>9 DEF AtWork, SourceInv, SubscriptionFacts
    <3>5. r.rev <= post[p].rev
      BY <2>3, <2>4
    <3> QED BY <1>1, <2>7, <3>1, <3>2, <3>3, <3>4, <3>5 DEF AtWork
  <2>11. MatchingFacts'
    BY <1>1, <2>1, <2>5, <2>7, <2>10, OthersWork
  <2>12. InsightFacts'
    <3>1. \A posts : Grounded(posts) => Grounded(posts)'
      BY <1>1, <2>1 DEF Grounded
    <3> QED BY <1>1, <3>1, CaseTypes DEF SourceInv, InsightFacts, CaseStep
  <2>13. ASSUME NEW g \in Nat, NEW topic \in STRING PROVE TrendStep(g, topic)
    <3>1. ASSUME p \in Looked(g, topic)' PROVE p \in Looked(g, topic)
      <4>1. ~(s.graph = g /\ matching[p].rev = post[p].rev)
        BY <1>1, <2>4, <2>7, <3>1 DEF Looked, Deciding
      <4>2. PICK u \in subscription : /\ u.graph = g /\ [sub |-> u.id, post |-> p, rev |-> post[p].rev] \in match'
                                     /\ Decide(u, p, [rev |-> post[p].rev, text |-> post[p].enriched])
        BY <1>1, <3>1 DEF Looked, Standing, Decide, PolicyTerms, SearchText, TextOf
      <4>3. [sub |-> u.id, post |-> p, rev |-> post[p].rev] # row
        <5>1. u.id = s.id => u = s
          BY <2>2 DEF SourceInv, SubscriptionFacts
        <5> QED BY <2>6, <4>1, <4>2, <5>1
      <4>4. [sub |-> u.id, post |-> p, rev |-> post[p].rev] \in match
        BY <2>1, <4>2, <4>3
      <4>5. p \in Standing(g, topic)
        BY <1>1, <3>1, <4>2, <4>4 DEF Looked, Standing, TopicsOf, TextOf
      <4>6. Deciding(p, g) => Deciding(p, g)'
        BY <1>1, <2>4, <2>7, <2>9, <4>1, SameWords DEF Deciding
      <4>7. Telling(p, g, topic) => Telling(p, g, topic)'
        BY <1>1 DEF Telling
      <4> QED BY <1>1, <3>1, <4>5, <4>6, <4>7 DEF Looked
    <3> QED BY <1>1, <2>1, <2>5, <2>7, <3>1, OthersLooked
  <2> QED BY <1>1, <2>8, <2>11, <2>12, <2>13, PostsLeave, TrendsGoOn DEF SourceInv, CaseStep
<1> QED BY <1>5, <1>6, <1>7

LEMMA NewTask ==
  ASSUME NEW g \in Nat, NEW p \in DOMAIN world.posts, NEW rev \in Nat
  PROVE  [graph |-> g, post |-> p, rev |-> rev, at |-> "pending", todo |-> {}, now |-> "none"] \in InsightTask
BY DEF InsightTask

LEMMA HandToInsightsKeeps == ASSUME SourceInv, NEW p \in DOMAIN post, HandToInsights(p) PROVE SourceInv'
<1> DEFINE busy == \E g \in matching[p].hits : \E t \in SameTask(g, p, matching[p].rev) : t.at # "pending"
           b == world.blind \/ busy
           fresh == {[graph |-> g, post |-> p, rev |-> matching[p].rev, at |-> "pending", todo |-> {}, now |-> "none"] :
                       g \in {h \in matching[p].hits : SameTask(h, p, matching[p].rev) = {}}}
<1>1. CaseStep /\ (world'.blind <=> b) /\ world'.removed = world.removed
  <2>1. world' = [world EXCEPT !.blind = b]
    BY DEF HandToInsights
  <2>2. b \in BOOLEAN /\ (world.blind => b)
    OBVIOUS
  <2> QED BY <2>1, <2>2, CaseBlinded DEF SourceInv
<1>2. /\ matching[p].at = "deciding" /\ matching[p].todo = {}
      /\ generating' = generating \cup fresh /\ matching' = [matching EXCEPT ![p] = Unmatched]
      /\ UNCHANGED <<ask, graphOf, providerStream, subscription, post, match, insight>>
  BY DEF HandToInsights, EnqueueInsightGeneration
<1>3. /\ fresh \subseteq InsightTask
      /\ \A t \in fresh : t.todo = {}
      /\ \A g \in matching[p].hits : SameTask(g, p, matching[p].rev) = {} =>
           \E t \in fresh : t.graph = g /\ t.post = p /\ t.rev = matching[p].rev /\ t.at = "pending"
  <2>1. matching[p].hits \subseteq Nat /\ matching[p].rev \in Nat /\ p \in DOMAIN world.posts
    BY PostIs DEF MatchTask
  <2>2. fresh \subseteq InsightTask
    <3>1. ASSUME NEW g \in matching[p].hits
          PROVE  [graph |-> g, post |-> p, rev |-> matching[p].rev, at |-> "pending", todo |-> {}, now |-> "none"] \in InsightTask
      <4> HIDE DEF fresh, b, busy
      <4> QED BY <2>1, NewTask
    <3> QED BY <3>1
  <2>3. \A t \in fresh : t.todo = {}
    OBVIOUS
  <2>4. ASSUME NEW g \in matching[p].hits, SameTask(g, p, matching[p].rev) = {}
        PROVE  \E t \in fresh : t.graph = g /\ t.post = p /\ t.rev = matching[p].rev /\ t.at = "pending"
    <3> DEFINE t == [graph |-> g, post |-> p, rev |-> matching[p].rev, at |-> "pending", todo |-> {}, now |-> "none"]
    <3>1. t \in fresh
      BY <2>4
    <3>2. t.graph = g /\ t.post = p /\ t.rev = matching[p].rev /\ t.at = "pending"
      OBVIOUS
    <3> QED BY <3>1, <3>2
  <2> QED BY <2>2, <2>3, <2>4
<1> HIDE DEF fresh, b
<1>4. /\ matching' \in [DOMAIN world.posts -> MatchTask] /\ matching'[p] = Unmatched
      /\ \A o \in DOMAIN post : o # p => matching'[o] = matching[o]
  BY <1>2, UnmatchedIs, MatchingSet
<1>5. PostFacts'
  BY <1>1, <1>2, CaseTypes DEF SourceInv, PostFacts, CaseStep
<1>6. MatchingFacts'
  BY <1>1, <1>2, <1>4, UnmatchedIs, OthersWork
<1>7. InsightFacts'
  <2>1. \A posts : Grounded(posts) => Grounded(posts)'
    BY <1>1, <1>2 DEF Grounded
  <2> QED BY <1>1, <1>2, <1>3, <2>1, CaseTypes DEF SourceInv, InsightFacts, CaseStep
<1>8. ASSUME NEW g \in Nat, NEW topic \in STRING PROVE TrendStep(g, topic)
  <2>1. ASSUME p \in Looked(g, topic)', ~world'.blind PROVE p \in Looked(g, topic)
    <3>1. p \in Standing(g, topic)
      BY <1>1, <1>2, <2>1 DEF Looked, Standing, Decide, PolicyTerms, SearchText, TextOf, TopicsOf, CaseStep
    <3>2. Telling(p, g, topic) => Telling(p, g, topic)'
      BY <1>2 DEF Telling
    <3>3. ASSUME Deciding(p, g) PROVE FALSE
      <4>1. g \in matching[p].hits /\ matching[p].rev = post[p].rev
        BY <1>2, <3>3 DEF Deciding
      <4>2. SameTask(g, p, matching[p].rev) = {} \/ \E t \in SameTask(g, p, matching[p].rev) : t.at = "pending"
        BY <1>1, <2>1, <4>1 DEF b
      <4>3. Telling(p, g, topic)'
        BY <1>2, <1>3, <4>1, <4>2 DEF Telling, SameTask
      <4> QED BY <2>1, <4>3 DEF Looked
    <3> QED BY <1>2, <2>1, <3>1, <3>2, <3>3 DEF Looked
  <2> QED BY <1>1, <1>2, <1>4, <2>1, OthersLooked
<1> QED BY <1>1, <1>2, <1>5, <1>6, <1>7, <1>8, PostsLeave, TrendsGoOn DEF SourceInv, CaseStep

LEMMA PostsStay ==
  ASSUME SourceInv, CaseStep, UNCHANGED <<ask, graphOf, providerStream, subscription, post, match, matching>>
  PROVE  AskFacts' /\ SubscriptionFacts' /\ PostFacts' /\ MatchingFacts'
<1>1. PostFacts'
  BY CaseTypes DEF SourceInv, PostFacts, CaseStep
<1>2. MatchingFacts'
  BY SameWords, CaseTypes DEF SourceInv, MatchingFacts, CaseStep
<1> QED BY <1>1, <1>2, PostsLeave

\* Of the insight tasks, it matters which topics they may still come to.
LEMMA TellingMoves ==
  ASSUME SourceInv, CaseStep, UNCHANGED <<subscription, post, match, matching>>, NEW g \in Nat, NEW topic \in STRING,
         ExistsRecent(g, topic) => ExistsRecent(g, topic)',
         \/ world'.blind \/ ExistsRecent(g, topic)' \/ Cardinality(Standing(g, topic)) < Trending
         \/ \A p \in Standing(g, topic) : Telling(p, g, topic) => Telling(p, g, topic)'
  PROVE  TrendStep(g, topic)
<1>1. Standing(g, topic)' = Standing(g, topic)
  BY ZenonT(40) DEF Standing, Decide, PolicyTerms, SearchText, TextOf, TopicsOf, CaseStep
<1>2. \A p : Deciding(p, g)' <=> Deciding(p, g)
  BY SameWords DEF Deciding
<1>3. CASE Cardinality(Standing(g, topic)) < Trending
  <2>1. Looked(g, topic)' \subseteq Standing(g, topic)
    BY <1>1 DEF Looked
  <2>2. IsFiniteSet(Standing(g, topic)) /\ Cardinality(Standing(g, topic)) \in Nat
    BY StandingIsFinite
  <2>3. Cardinality(Looked(g, topic)') <= Cardinality(Standing(g, topic)) /\ IsFiniteSet(Looked(g, topic)')
    BY <2>1, <2>2, FS_Subset
  <2>4. Cardinality(Looked(g, topic)') \in Nat /\ Trending \in Nat
    BY <2>3, FS_CardinalityType, SourceAssumption
  <2>5. Cardinality(Looked(g, topic)') < Trending
    BY <1>3, <2>2, <2>3, <2>4
  <2> QED BY <2>5 DEF TrendStep
<1>4. CASE \A p \in Standing(g, topic) : Telling(p, g, topic) => Telling(p, g, topic)'
  <2>1. Looked(g, topic)' \subseteq Looked(g, topic)
    BY <1>1, <1>2, <1>4 DEF Looked
  <2> QED BY <2>1 DEF TrendStep
<1> QED BY <1>3, <1>4 DEF TrendStep

LEMMA TopicsAre == ASSUME SourceInv, NEW p \in DOMAIN post PROVE TopicsOf(p) \subseteq STRING
<1>1. /\ post[p].enriched \in Nat /\ post[p].enriched <= post[p].rev /\ post[p].rev \in Nat
      /\ post[p].rev <= Len(world.posts[p].texts) /\ p \in DOMAIN world.posts
  BY PostIs DEF SourceInv, PostFacts
<1>2. world.posts[p].texts \in Seq([words : SUBSET STRING, topics : SUBSET STRING])
  BY <1>1, CaseIs DEF SourceInv
<1>3. CASE post[p].enriched # 0
  <2>1. Len(world.posts[p].texts) \in Nat /\ DOMAIN world.posts[p].texts = 1 .. Len(world.posts[p].texts)
    BY <1>2
  <2>2. post[p].enriched \in DOMAIN world.posts[p].texts
    BY <1>1, <1>3, <2>1
  <2> DEFINE T == [words : SUBSET STRING, topics : SUBSET STRING]
  <2>6. world.posts[p].texts \in Seq(T)
    BY <1>2
  <2> HIDE DEF T
  <2>5. world.posts[p].texts[post[p].enriched] \in T
    BY <2>2, <2>6
  <2>3. world.posts[p].texts[post[p].enriched] \in [words : SUBSET STRING, topics : SUBSET STRING]
    BY <2>5 DEF T
  <2>4. world.posts[p].texts[post[p].enriched].topics \subseteq STRING
    BY <2>3
  <2> QED BY <1>3, <2>4 DEF TopicsOf, TextOf
<1> QED BY <1>3 DEF TopicsOf

LEMMA MembersAre ==
  ASSUME SourceInv, NEW g, NEW topic
  PROVE  /\ Standing(g, topic) \subseteq Members(g, topic) /\ Members(g, topic) \subseteq DOMAIN world.posts
         /\ IsFiniteSet(Members(g, topic)) /\ Cardinality(Members(g, topic)) \in Nat
         /\ Mentions(g, topic) = Cardinality(Members(g, topic))
         /\ \A p \in Members(g, topic) : \E m \in match : m.post = p
<1>1. Standing(g, topic) \subseteq Members(g, topic)
  <2>1. SUFFICES ASSUME NEW p \in Standing(g, topic) PROVE RelevantTo(g, p) # {}
    BY DEF Standing, Members
  <2>2. PICK s \in subscription : s.graph = g /\ [sub |-> s.id, post |-> p, rev |-> post[p].rev] \in match
    BY DEF Standing
  <2> DEFINE m == [sub |-> s.id, post |-> p, rev |-> post[p].rev]
  <2>3. m \in match /\ m.post = p /\ m.sub = s.id
    BY <2>2
  <2> HIDE DEF m
  <2> QED BY <2>2, <2>3 DEF RelevantTo
<1>2. Members(g, topic) \subseteq DOMAIN post /\ DOMAIN post = DOMAIN world.posts
  BY DEF Members, SourceInv, PostFacts
<1>3. IsFiniteSet(Members(g, topic))
  BY <1>2, StandingIsFinite, FS_Subset
<1>4. \A p \in Members(g, topic) : \E m \in match : m.post = p
  BY DEF Members, RelevantTo
<1>5. Mentions(g, topic) = Cardinality(Members(g, topic))
  BY DEF Mentions, Members
<1> QED BY <1>1, <1>2, <1>3, <1>4, <1>5, FS_CardinalityType

\* One insight task becomes another, or ends.
LEMMA TaskMoves ==
  ASSUME SourceInv, CaseStep, world'.removed = world.removed,
         UNCHANGED <<ask, graphOf, providerStream, subscription, post, match, matching, insight>>,
         NEW t \in generating, NEW u, Becomes(t, u), u \in InsightTask, \A x \in u.todo : Grounded(x.posts),
         \A g \in Nat, topic \in STRING :
           \/ world'.blind \/ ExistsRecent(g, topic) \/ Cardinality(Standing(g, topic)) < Trending
           \/ \A p \in Standing(g, topic) :
                t.graph = g /\ t.post = p /\ t.rev = post[p].rev /\ (t.at = "pending" \/ \E x \in t.todo : x.topic = topic) =>
                u.graph = g /\ u.post = p /\ u.rev = post[p].rev /\ (u.at = "pending" \/ \E x \in u.todo : x.topic = topic)
  PROVE  SourceInv'
<1>1. AskFacts' /\ SubscriptionFacts' /\ PostFacts' /\ MatchingFacts'
  BY PostsStay
<1>2. InsightFacts'
  <2>1. \A posts : Grounded(posts) => Grounded(posts)'
    BY DEF Grounded
  <2> QED BY <2>1, CaseTypes DEF SourceInv, InsightFacts, CaseStep, Becomes
<1>3. ASSUME NEW g \in Nat, NEW topic \in STRING PROVE TrendStep(g, topic)
  <2>1. ExistsRecent(g, topic)' <=> ExistsRecent(g, topic)
    BY DEF ExistsRecent
  <2>2. ASSUME NEW p \in Standing(g, topic), Telling(p, g, topic),
               t.graph = g /\ t.post = p /\ t.rev = post[p].rev /\ (t.at = "pending" \/ \E x \in t.todo : x.topic = topic) =>
               u.graph = g /\ u.post = p /\ u.rev = post[p].rev /\ (u.at = "pending" \/ \E x \in u.todo : x.topic = topic)
        PROVE  Telling(p, g, topic)'
    BY <2>2 DEF Telling, Becomes
  <2> QED BY <2>1, <2>2, TellingMoves
<1> QED BY <1>1, <1>2, <1>3, TrendsGoOn DEF SourceInv, CaseStep

LEMMA TaskEnds ==
  ASSUME SourceInv, UNCHANGED <<world, ask, graphOf, providerStream, subscription, post, match, matching, insight>>,
         NEW t \in generating, Ends(t),
         \/ post[t.post].rev # t.rev \/ world.posts[t.post].type # "post" \/ (t.at # "pending" /\ t.todo = {})
  PROVE  SourceInv'
<1>0. CaseStep
  BY CaseUnchanged DEF SourceInv
<1>1. AskFacts' /\ SubscriptionFacts' /\ PostFacts' /\ MatchingFacts'
  BY <1>0, PostsStay
<1>2. InsightFacts'
  <2>1. \A posts : Grounded(posts) => Grounded(posts)'
    BY DEF Grounded
  <2> QED BY <1>0, <2>1, CaseTypes DEF SourceInv, InsightFacts, CaseStep, Ends
<1>3. ASSUME NEW g \in Nat, NEW topic \in STRING PROVE TrendStep(g, topic)
  <2>1. ExistsRecent(g, topic)' <=> ExistsRecent(g, topic)
    BY DEF ExistsRecent
  <2>2. ASSUME NEW p \in Standing(g, topic), Telling(p, g, topic) PROVE Telling(p, g, topic)'
    BY <2>2 DEF Telling, Ends, Standing
  <2> QED BY <1>0, <2>1, <2>2, TellingMoves
<1> QED BY <1>0, <1>1, <1>2, <1>3, TrendsGoOn DEF SourceInv, CaseStep

LEMMA TaskIs ==
  ASSUME SourceInv, NEW t \in generating
  PROVE  /\ t \in InsightTask /\ t.graph \in Nat /\ t.post \in DOMAIN post /\ t.rev \in Nat /\ t.todo \subseteq TrendOf
         /\ t.post \in DOMAIN world.posts
         /\ \A x \in t.todo : Grounded(x.posts) /\ x.topic \in STRING /\ x.posts \subseteq DOMAIN world.posts
<1>1. t \in InsightTask /\ \A x \in t.todo : Grounded(x.posts)
  BY DEF SourceInv, InsightFacts
<1>2. t.graph \in Nat /\ t.post \in DOMAIN world.posts /\ t.rev \in Nat /\ t.todo \subseteq TrendOf
  BY <1>1 DEF InsightTask
<1>3. \A x \in t.todo : x.topic \in STRING /\ x.posts \subseteq DOMAIN world.posts
  BY <1>2 DEF TrendOf
<1>4. DOMAIN post = DOMAIN world.posts
  BY DEF SourceInv, PostFacts
<1> QED BY <1>1, <1>2, <1>3, <1>4

LEMMA GenerateForRecordKeeps == ASSUME SourceInv, NEW t \in generating, GenerateForRecord(t) PROVE SourceInv'
<1> DEFINE told == Trends(t.graph, t.post)
           u1 == [t EXCEPT !.at = "storing"]
           u == [u1 EXCEPT !.todo = told]
<1>1. CASE post[t.post].rev # t.rev \/ world.posts[t.post].type # "post"
  BY <1>1, TaskEnds DEF GenerateForRecord
<1>2. CASE ~(post[t.post].rev # t.rev \/ world.posts[t.post].type # "post")
  <2>1. told \subseteq TrendOf /\ \A x \in told : Grounded(x.posts)
    <3>1. ASSUME NEW topic \in TopicsOf(t.post), Mentions(t.graph, topic) >= Trending
          PROVE  /\ [topic |-> topic, posts |-> Members(t.graph, topic)] \in TrendOf
                 /\ Grounded(Members(t.graph, topic))
      <4>1. topic \in STRING
        BY TaskIs, TopicsAre
      <4>2. Members(t.graph, topic) \subseteq DOMAIN world.posts /\ Cardinality(Members(t.graph, topic)) >= Trending
            /\ \A p \in Members(t.graph, topic) : \E m \in match : m.post = p
        BY <3>1, MembersAre
      <4> QED BY <4>1, <4>2 DEF TrendOf, Grounded
    <3> QED BY <3>1 DEF Trends
  <2>2. \A topic \in TopicsOf(t.post) : Mentions(t.graph, topic) >= Trending => \E x \in told : x.topic = topic
    <3>1. ASSUME NEW topic \in TopicsOf(t.post), Mentions(t.graph, topic) >= Trending PROVE \E x \in told : x.topic = topic
      <4> DEFINE x == [topic |-> topic, posts |-> Members(t.graph, topic)]
      <4>1. x \in told /\ x.topic = topic
        BY <3>1 DEF Trends
      <4> QED BY <4>1
    <3> QED BY <3>1
  <2> HIDE DEF told
  <2>3. u1 \in InsightTask /\ u1.graph = t.graph /\ u1.post = t.post /\ u1.rev = t.rev
    BY TaskIs DEF InsightTask
  <2>4. Becomes(t, u)
    BY <1>2 DEF GenerateForRecord, told
  <2> HIDE DEF u1
  <2>5. u \in InsightTask /\ u.graph = t.graph /\ u.post = t.post /\ u.rev = t.rev /\ u.todo = told
    BY <2>1, <2>3 DEF InsightTask
  <2> HIDE DEF u
  <2>6. CaseStep /\ world'.removed = world.removed
        /\ UNCHANGED <<ask, graphOf, providerStream, subscription, post, match, matching, insight>>
    BY CaseUnchanged DEF SourceInv, GenerateForRecord
  <2>7. ASSUME NEW g \in Nat, NEW topic \in STRING, ~(Cardinality(Standing(g, topic)) < Trending),
               NEW p \in Standing(g, topic), t.graph = g, t.post = p
        PROVE  \E x \in u.todo : x.topic = topic
    <3>1. topic \in TopicsOf(p)
      BY DEF Standing
    <3>2. Standing(g, topic) \subseteq Members(g, topic) /\ IsFiniteSet(Members(g, topic))
          /\ Cardinality(Members(g, topic)) \in Nat /\ Mentions(g, topic) = Cardinality(Members(g, topic))
      BY MembersAre
    <3>3. Cardinality(Standing(g, topic)) <= Cardinality(Members(g, topic)) /\ Cardinality(Standing(g, topic)) \in Nat
      BY <3>2, FS_Subset, StandingIsFinite
    <3>4. Mentions(g, topic) >= Trending
      BY <2>7, <3>2, <3>3, SourceAssumption
    <3> QED BY <2>2, <2>5, <2>7, <3>1, <3>4
  <2> QED BY <2>1, <2>4, <2>5, <2>6, <2>7, TaskMoves
<1> QED BY <1>1, <1>2

LEMMA LookUpKeeps == ASSUME SourceInv, NEW t \in generating, LookUp(t) PROVE SourceInv'
<1>1. UNCHANGED <<ask, graphOf, providerStream, subscription, post, match, matching, insight>> /\ t.at = "storing"
  BY DEF LookUp
<1>2. PICK x \in t.todo :
       \/ /\ Becomes(t, IF ExistsRecent(t.graph, x.topic) THEN [t EXCEPT !.todo = @ \ {x}]
                        ELSE [t EXCEPT !.at = "telling", !.now = x.topic])
          /\ UNCHANGED world
       \/ /\ world.faults > 0 /\ world' = [world EXCEPT !.faults = @ - 1, !.blind = TRUE]
          /\ Becomes(t, [t EXCEPT !.todo = @ \ {x}])
  BY DEF LookUp
<1> DEFINE less == [t EXCEPT !.todo = t.todo \ {x}]
           now1 == [t EXCEPT !.at = "telling"]
           now2 == [now1 EXCEPT !.now = x.topic]
<1>3. less \in InsightTask /\ less.graph = t.graph /\ less.post = t.post /\ less.rev = t.rev /\ less.todo = t.todo \ {x}
  BY TaskIs DEF InsightTask
<1>4. now1 \in InsightTask /\ now1.graph = t.graph /\ now1.post = t.post /\ now1.rev = t.rev /\ now1.todo = t.todo
  BY TaskIs DEF InsightTask
<1>5. CASE Becomes(t, less) /\ UNCHANGED world /\ ExistsRecent(t.graph, x.topic)
  <2> HIDE DEF less, now1
  <2>1. CaseStep /\ world'.removed = world.removed
    BY <1>5, CaseUnchanged DEF SourceInv
  <2>2. \A y \in less.todo : Grounded(y.posts)
    BY <1>3, TaskIs
  <2>3. ASSUME NEW g \in Nat, NEW topic \in STRING, ~ExistsRecent(g, topic), t.graph = g, NEW y \in t.todo, y.topic = topic
        PROVE  y \in less.todo
    BY <1>3, <1>5, <2>3
  <2> QED BY <1>1, <1>3, <1>5, <2>1, <2>2, <2>3, TaskMoves
<1>6. CASE Becomes(t, now2) /\ UNCHANGED world
  <2> HIDE DEF less, now1
  <2>1. now2 \in InsightTask /\ now2.graph = t.graph /\ now2.post = t.post /\ now2.rev = t.rev /\ now2.todo = t.todo
    BY <1>4, TaskIs DEF InsightTask
  <2> HIDE DEF now2
  <2>2. CaseStep /\ world'.removed = world.removed
    BY <1>6, CaseUnchanged DEF SourceInv
  <2> QED BY <1>1, <1>6, <2>1, <2>2, TaskIs, TaskMoves
<1>7. CASE Becomes(t, less) /\ world.faults > 0 /\ world' = [world EXCEPT !.faults = @ - 1, !.blind = TRUE]
  <2> HIDE DEF less, now1
  <2>1. CaseStep /\ world'.removed = world.removed /\ world'.blind
    BY <1>7, CaseFails DEF SourceInv
  <2>2. \A y \in less.todo : Grounded(y.posts)
    BY <1>3, TaskIs
  <2> QED BY <1>1, <1>3, <1>7, <2>1, <2>2, TaskMoves
<1> QED BY <1>2, <1>5, <1>6, <1>7

LEMMA StoreInsightKeeps == ASSUME SourceInv, NEW t \in generating, StoreInsight(t) PROVE SourceInv'
<1>1. UNCHANGED <<world, ask, graphOf, providerStream, subscription, post, match, matching>> /\ t.at = "telling"
  BY DEF StoreInsight
<1>2. CaseStep
  BY <1>1, CaseUnchanged DEF SourceInv
<1>3. PICK x \in t.todo :
        /\ insight' = insight \cup {[graph |-> t.graph, topic |-> x.topic, posts |-> x.posts, by |-> <<t.post, t.rev>>,
                                     dismissed |-> FALSE]}
        /\ Becomes(t, [t EXCEPT !.at = "storing", !.todo = @ \ {x}, !.now = "none"])
  BY DEF StoreInsight
<1> DEFINE i == [graph |-> t.graph, topic |-> x.topic, posts |-> x.posts, by |-> <<t.post, t.rev>>, dismissed |-> FALSE]
           u1 == [t EXCEPT !.at = "storing"]
           u2 == [u1 EXCEPT !.todo = t.todo \ {x}]
           u == [u2 EXCEPT !.now = "none"]
<1>4. i \in InsightRow /\ i.graph = t.graph /\ i.topic = x.topic /\ i.posts = x.posts
  BY TaskIs DEF InsightRow
<1>5. u1 \in InsightTask /\ u1.graph = t.graph /\ u1.post = t.post /\ u1.rev = t.rev /\ u1.todo = t.todo
  BY TaskIs DEF InsightTask
<1>6. Becomes(t, u) /\ insight' = insight \cup {i}
  BY <1>3
<1> HIDE DEF u1, i
<1>7. u2 \in InsightTask /\ u2.graph = t.graph /\ u2.post = t.post /\ u2.rev = t.rev /\ u2.todo = t.todo \ {x}
  BY <1>5, TaskIs DEF InsightTask
<1> HIDE DEF u2
<1>8. u \in InsightTask /\ u.graph = t.graph /\ u.post = t.post /\ u.rev = t.rev /\ u.todo = t.todo \ {x}
  BY <1>7 DEF InsightTask
<1> HIDE DEF u
<1>9. InsightFacts'
  <2>1. \A posts : Grounded(posts) => Grounded(posts)'
    BY <1>1 DEF Grounded
  <2>2. Grounded(x.posts) /\ \A y \in u.todo : Grounded(y.posts)
    BY <1>8, TaskIs
  <2> QED BY <1>2, <1>4, <1>6, <1>8, <2>1, <2>2, CaseTypes DEF SourceInv, InsightFacts, Becomes
<1>10. ASSUME NEW g \in Nat, NEW topic \in STRING PROVE TrendStep(g, topic)
  <2>1. ExistsRecent(g, topic) => ExistsRecent(g, topic)'
    BY <1>6 DEF ExistsRecent
  <2>2. CASE g = t.graph /\ topic = x.topic
    <3>1. ExistsRecent(g, topic)'
      BY <1>4, <1>6, <2>2 DEF ExistsRecent
    <3> QED BY <1>1, <1>2, <2>1, <3>1, TellingMoves
  <2>3. CASE ~(g = t.graph /\ topic = x.topic)
    <3>1. ASSUME NEW p \in Standing(g, topic), Telling(p, g, topic) PROVE Telling(p, g, topic)'
      <4>1. PICK v \in generating : /\ v.graph = g /\ v.post = p /\ v.rev = post[p].rev
                                    /\ v.at = "pending" \/ \E y \in v.todo : y.topic = topic
        BY <3>1 DEF Telling
      <4>2. CASE v # t
        BY <1>1, <1>6, <4>1, <4>2 DEF Telling, Becomes
      <4>3. CASE v = t
        <5>1. PICK y \in t.todo : y.topic = topic
          BY <1>1, <4>1, <4>3
        <5>2. y \in u.todo
          BY <1>8, <2>3, <4>1, <4>3, <5>1
        <5> QED BY <1>1, <1>6, <1>8, <4>1, <4>3, <5>1, <5>2 DEF Telling, Becomes
      <4> QED BY <4>2, <4>3
    <3> QED BY <1>1, <1>2, <2>1, <3>1, TellingMoves
  <2> QED BY <2>2, <2>3
<1> QED BY <1>1, <1>2, <1>9, <1>10, PostsStay, TrendsGoOn DEF SourceInv, CaseStep

LEMMA GeneratingFailsKeeps == ASSUME SourceInv, NEW t \in generating, GeneratingFails(t) PROVE SourceInv'
<1>1. CaseStep /\ world'.removed = world.removed
      /\ UNCHANGED <<ask, graphOf, providerStream, subscription, post, match, matching, insight>>
  BY CaseConsumes DEF SourceInv, GeneratingFails
<1> DEFINE u1 == [t EXCEPT !.at = "pending"]
           u2 == [u1 EXCEPT !.todo = {}]
           u == [u2 EXCEPT !.now = "none"]
<1>2. Becomes(t, u)
  BY DEF GeneratingFails
<1>3. u1 \in InsightTask /\ u1.graph = t.graph /\ u1.post = t.post /\ u1.rev = t.rev /\ u1.at = "pending"
  BY TaskIs DEF InsightTask
<1> HIDE DEF u1
<1>4. u2 \in InsightTask /\ u2.graph = t.graph /\ u2.post = t.post /\ u2.rev = t.rev /\ u2.at = "pending" /\ u2.todo = {}
  BY <1>3 DEF InsightTask
<1> HIDE DEF u2
<1>5. u \in InsightTask /\ u.graph = t.graph /\ u.post = t.post /\ u.rev = t.rev /\ u.at = "pending" /\ u.todo = {}
  BY <1>4 DEF InsightTask
<1> HIDE DEF u
<1> QED BY <1>1, <1>2, <1>5, TaskMoves

LEMMA UpdateStatusKeeps == ASSUME SourceInv, NEW i \in insight, UpdateStatus(i) PROVE SourceInv'
<1> DEFINE j == [i EXCEPT !.dismissed = TRUE]
<1>1. CaseStep /\ insight' = (insight \ {i}) \cup {j}
      /\ UNCHANGED <<world, ask, graphOf, providerStream, subscription, post, match, matching, generating>>
  BY CaseUnchanged DEF SourceInv, UpdateStatus
<1>2. j \in InsightRow /\ j.graph = i.graph /\ j.topic = i.topic /\ j.posts = i.posts
  BY DEF SourceInv, InsightFacts, InsightRow
<1> HIDE DEF j
<1>3. InsightFacts'
  <2>1. \A posts : Grounded(posts) => Grounded(posts)'
    BY <1>1 DEF Grounded
  <2> QED BY <1>1, <1>2, <2>1, CaseTypes DEF SourceInv, InsightFacts
<1>4. ASSUME NEW g \in Nat, NEW topic \in STRING PROVE TrendStep(g, topic)
  <2>1. ExistsRecent(g, topic) => ExistsRecent(g, topic)'
    BY <1>1, <1>2 DEF ExistsRecent
  <2>2. \A p : Telling(p, g, topic) => Telling(p, g, topic)'
    BY <1>1 DEF Telling
  <2> QED BY <1>1, <2>1, <2>2, TellingMoves
<1> QED BY <1>1, <1>3, <1>4, PostsStay, TrendsGoOn DEF SourceInv, CaseStep

LEMMA SourceInitInv == SourceInit => SourceInv
<1> SUFFICES ASSUME SourceInit PROVE SourceInv
  OBVIOUS
<1>1. PICK c \in SourceCases :
        world = [asks |-> c.asks, posts |-> c.posts, reads |-> c.reads, crashes |-> c.crashes, faults |-> c.faults,
                 blind |-> FALSE, removed |-> FALSE]
  BY DEF SourceInit
<1>2. CaseKept
  <2>1. c.reads \in Nat /\ c.crashes \in Nat /\ c.faults \in Nat
    BY SourceAssumption
  <2> QED BY <1>1, <2>1 DEF CaseKept
<1>3. AskFacts
  <2>1. graphOf \in Seq(Patrons) /\ DOMAIN graphOf = {}
    BY DEF SourceInit
  <2>2. ask \in [Asks -> PatronAsks] /\ \A q \in Asks : ask[q].at = "new"
    BY DEF SourceInit, PatronAsks
  <2> QED BY <2>1, <2>2 DEF AskFacts
<1>4. SubscriptionFacts
  BY DEF SourceInit, SubscriptionFacts
<1>5. PostFacts
  <2>1. post \in [DOMAIN world.posts -> [rev : Nat, enriched : Nat, dismissed : BOOLEAN]]
        /\ \A p \in DOMAIN post : post[p].rev = 0 /\ post[p].enriched = 0
    BY DEF SourceInit
  <2>2. \A p \in DOMAIN post : Len(world.posts[p].texts) \in Nat
    BY <1>2, <2>1, CaseIs
  <2>3. match = {}
    BY DEF SourceInit
  <2> QED BY <2>1, <2>2, <2>3 DEF PostFacts
<1>6. MatchingFacts
  BY UnmatchedIs DEF SourceInit, MatchingFacts
<1>7. InsightFacts
  BY DEF SourceInit, InsightFacts
<1>8. TrendFacts
  <2>1. ASSUME NEW g, NEW topic PROVE Cardinality(Looked(g, topic)) < Trending
    <3>1. Looked(g, topic) = {}
      BY DEF SourceInit, Looked, Standing
    <3>2. Cardinality(Looked(g, topic)) = 0
      BY <3>1, FS_EmptySet
    <3> QED BY <3>2, SourceAssumption
  <2> QED BY <2>1 DEF TrendFacts
<1> QED BY <1>2, <1>3, <1>4, <1>5, <1>6, <1>7, <1>8 DEF SourceInv

LEMMA SourceNextInv == SourceInv /\ [SourceNext]_sourceVars => SourceInv'
<1> SUFFICES ASSUME SourceInv, [SourceNext]_sourceVars PROVE SourceInv'
  OBVIOUS
<1>1. CASE \E q \in Asks : \/ BeginAsk(q) \/ EnsureLooks(q) \/ EnsureCommits(q) \/ CreateSource(q) \/ ReadSource(q)
                           \/ DeleteSource(q)
  BY <1>1, BeginAskKeeps, EnsureLooksKeeps, EnsureCommitsKeeps, CreateSourceKeeps, ReadSourceKeeps, DeleteSourceKeeps
<1>2. CASE \E k \in DOMAIN providerStream : ReadStream(k)
  BY <1>2, ReadStreamKeeps
<1>3. CASE \E p \in DOMAIN post : \/ CapturePost(p) \/ EnrichPost(p) \/ LoadMatching(p) \/ MatchOne(p)
                                  \/ HandToInsights(p) \/ MatchingDies(p) \/ DismissPost(p)
  BY <1>3, CapturePostKeeps, EnrichPostKeeps, LoadMatchingKeeps, MatchOneKeeps, HandToInsightsKeeps, MatchingDiesKeeps,
     DismissPostKeeps
<1>4. CASE \E t \in generating : \/ GenerateForRecord(t) \/ LookUp(t) \/ StoreInsight(t) \/ GeneratingEnds(t)
                                 \/ GeneratingFails(t)
  <2>1. \A t \in generating : GeneratingEnds(t) => SourceInv'
    BY TaskEnds DEF GeneratingEnds
  <2> QED BY <1>4, <2>1, GenerateForRecordKeeps, LookUpKeeps, StoreInsightKeeps, GeneratingFailsKeeps
<1>5. CASE \E i \in insight : UpdateStatus(i)
  BY <1>5, UpdateStatusKeeps
<1>6. CASE UNCHANGED sourceVars
  <2>1. CaseStep
    BY <1>6, CaseUnchanged DEF SourceInv, sourceVars, sourceState
  <2>2. UNCHANGED <<ask, graphOf, providerStream, subscription, post, match, matching, generating, insight>>
    BY <1>6 DEF sourceVars, sourceState
  <2> QED BY <2>1, <2>2, SourcesLeave, PostsStay DEF SourceInv, CaseStep
<1> QED BY <1>1, <1>2, <1>3, <1>4, <1>5, <1>6 DEF SourceNext

\* What counts when nothing is under way has nothing more to come.
LEMMA SettledIsLooked ==
  ASSUME SourceInv, Settled, NEW g, NEW topic
  PROVE  MatchedNow(g, topic) \subseteq Looked(g, topic)
<1>1. DOMAIN matching = DOMAIN post
  BY DEF SourceInv, PostFacts, MatchingFacts
<1>2. \A p \in MatchedNow(g, topic) : p \in Standing(g, topic)
  BY DEF MatchedNow, Standing, Settled
<1>3. \A p \in DOMAIN post : matching[p].at = "none" /\ ~Deciding(p, g) /\ ~Telling(p, g, topic)
  BY DEF Settled, Deciding, Telling
<1> QED BY <1>2, <1>3 DEF Looked, Standing

LEMMA TrendsTold == SourceInv => TrendsAreTold
<1> SUFFICES ASSUME SourceInv, Settled, ~world.blind, NEW g \in DOMAIN graphOf, NEW p \in DOMAIN post,
                    NEW topic \in TopicsOf(p), Cardinality(MatchedNow(g, topic)) >= Trending
             PROVE  ExistsRecent(g, topic)
  BY DEF TrendsAreTold
<1>1. g \in Nat /\ topic \in STRING
  BY TopicsAre DEF SourceInv, AskFacts
<1>2. ExistsRecent(g, topic) \/ Cardinality(Looked(g, topic)) < Trending
  BY <1>1 DEF SourceInv, TrendFacts
<1>3. IsFiniteSet(Looked(g, topic)) /\ Cardinality(Looked(g, topic)) \in Nat
  BY StandingIsFinite
<1>4. Cardinality(MatchedNow(g, topic)) <= Cardinality(Looked(g, topic)) /\ IsFiniteSet(MatchedNow(g, topic))
  BY <1>3, SettledIsLooked, FS_Subset
<1>5. Cardinality(MatchedNow(g, topic)) \in Nat /\ Trending \in Nat
  BY <1>4, FS_CardinalityType, SourceAssumption
<1> QED BY <1>2, <1>3, <1>4, <1>5

(* Requests, graphs, subscriptions, posts, rows and matchings keep their types. *)
THEOREM SourceTypeCorrect == SourceSpec => []SourceTypeOK
<1>1. SourceInv => SourceTypeOK
  <2> SUFFICES ASSUME SourceInv PROVE SourceTypeOK
    OBVIOUS
  <2>1. \A q \in Asks : ask[q].at \in {"new", "waiting", "looked", "ensured", "created", "done"}
    BY DEF SourceInv, AskFacts, PatronAsks
  <2>2. \A m \in match : m.rev <= post[m.post].rev /\ m.sub \in {s.id : s \in subscription}
    BY DEF SourceInv, PostFacts
  <2>3. \A p \in DOMAIN matching : matching[p].at \in {"none", "pending", "deciding"}
    BY DEF SourceInv, MatchingFacts, MatchTask
  <2> QED BY <2>1, <2>2, <2>3 DEF SourceInv, SourceTypeOK, AskFacts, SubscriptionFacts, PostFacts
<1> QED BY <1>1, SourceInitInv, SourceNextInv, PTL DEF SourceSpec

(* A user's requests make one graph and one subscription to a stream, whatever order they
   run in; when all is settled every trend was told, because whichever of its posts came
   last saw the others; and what an insight tells can be opened (EnsureDefault,
   CreateSource, MatchItem, GenerateForRecord). *)
THEOREM TrendsReachUsers == SourceSpec => []MatchesHold
<1>1. SourceInv => OneGraph
  BY DEF SourceInv, OneGraph, AskFacts, SubscriptionFacts
<1>2. SourceInv => InsightsAreGrounded
  <2> SUFFICES ASSUME SourceInv, NEW i \in insight
               PROVE  /\ Cardinality(i.posts) >= Trending
                      /\ ~world.removed => \A p \in i.posts : p \in FeedList \/ post[p].dismissed
    BY DEF InsightsAreGrounded
  <2>1. Grounded(i.posts) /\ i.posts \subseteq DOMAIN post
    BY DEF SourceInv, InsightFacts, InsightRow, PostFacts
  <2> QED BY <2>1 DEF Grounded, FeedList
<1> QED BY <1>1, <1>2, TrendsTold, SourceInitInv, SourceNextInv, PTL DEF SourceSpec, MatchesHold

---------------------------------------------------------------------------
(* The index over what is written. *)

ArtifactKinds == {"page", "file", "board", "link", "voice"}
ClockNames == {"own", "blocks", "pages"}
Plan == [kind : [Readables -> ArtifactKinds], broken : SUBSET Readables, sweepers : SUBSET Indexers,
         writes : Nat, stops : Nat]
Clock == [at : Nat, version : Nat]
OpenWrite == [of : Readables, clock : ClockNames, began : Nat]
StaleRow == [of : Readables, stamp : Nat]
Sweeper == [todo : Seq(StaleRow), at : {"idle", "project", "replace", "commit"}, got : Nat, saw : SUBSET Nat]

IndexTypes ==
  /\ corpus \in Plan /\ moment \in Nat
  /\ DOMAIN origin = Readables
  /\ \A a \in Readables :
       /\ DOMAIN origin[a] = Clocks(corpus.kind[a])
       /\ \A c \in Clocks(corpus.kind[a]) : origin[a][c] \in Clock
  /\ writing \in [Writers -> OpenWrite \cup {NoWrite}]
  /\ \A w \in Writers : writing[w] # NoWrite =>
       writing[w] \in OpenWrite /\ writing[w].clock \in Clocks(corpus.kind[writing[w].of])
  /\ rows \in [Readables -> SUBSET Nat] /\ stamp \in [Readables -> Nat]
  /\ indexer \in [Indexers -> Sweeper]
  /\ rowLock \in [Readables -> Indexers \cup {NotLocked}]
  /\ latest \in [Readables -> [began : Nat, overtaken : BOOLEAN]]

\* The clocks of an artifact are at most its latest beginning, and one is at it unless the last
\* commit was overtaken.
ClocksHold ==
  \A a \in Readables :
    /\ latest[a].began <= moment
    /\ \A c \in Clocks(corpus.kind[a]) : origin[a][c].at <= latest[a].began
    /\ ~latest[a].overtaken => \E c \in Clocks(corpus.kind[a]) : origin[a][c].at = latest[a].began

\* No two transactions begin at one moment.
OpenApart ==
  \A w \in Writers : writing[w] # NoWrite =>
    /\ writing[w].began <= moment
    /\ \A a \in Readables : writing[w].began # latest[a].began
    /\ \A v \in Writers : writing[v] # NoWrite /\ writing[v].began = writing[w].began => v = w

\* A stamp, recorded or about to be, is never ahead; and what goes with the latest is the text.
NothingAhead ==
  /\ \A a \in Readables : stamp[a] <= latest[a].began
  /\ \A i \in Indexers : \A k \in DOMAIN indexer[i].todo :
       indexer[i].todo[k].stamp <= latest[indexer[i].todo[k].of].began
IndexSettled(a, s) == s = latest[a].began /\ ~latest[a].overtaken
RowsAreText == \A a \in Readables : IndexSettled(a, stamp[a]) => Extracted(a) \in rows[a]
GotIsText ==
  \A i \in Indexers : indexer[i].at \in {"replace", "commit"} =>
    (IndexSettled(Head1(i).of, Head1(i).stamp) => indexer[i].got = Extracted(Head1(i).of))

\* A sweeper at work has something to do; and one alone saw the rows there are.
HasWork == \A i \in Indexers : indexer[i].at # "idle" => indexer[i].todo # <<>> /\ i \in corpus.sweepers
Alone ==
  (\A i, j \in corpus.sweepers : i = j) =>
    /\ \A a \in Readables : \E v \in Nat : rows[a] \subseteq {v}
    /\ \A i \in Indexers : indexer[i].at = "commit" => rows[Head1(i).of] \subseteq indexer[i].saw

IndexInv == IndexTypes /\ ClocksHold /\ OpenApart /\ NothingAhead /\ RowsAreText /\ GotIsText /\ HasWork /\ Alone

LEMMA ClocksAre == ASSUME NEW k \in ArtifactKinds
  PROVE /\ "own" \in Clocks(k) /\ Clocks(k) \subseteq ClockNames /\ SourceOf(k) \in Clocks(k)
        /\ IsFiniteSet(Clocks(k))
<1>1. SourceOf(k) \in ClockNames
  BY DEF ArtifactKinds, ClockNames, SourceOf
<1>2. IsFiniteSet({"own", SourceOf(k)})
  <2>1. IsFiniteSet({"own"} \cup {SourceOf(k)})
    BY FS_Singleton, FS_Union
  <2>2. {"own"} \cup {SourceOf(k)} = {"own", SourceOf(k)}
    OBVIOUS
  <2> QED BY <2>1, <2>2
<1> QED BY <1>1, <1>2 DEF Clocks, ClockNames

\* The newest clock is one of them, and none is newer.
LEMMA NewestIs == ASSUME IndexTypes, NEW a \in Readables
  PROVE  /\ Newest(a) \in Nat
         /\ \E c \in Clocks(corpus.kind[a]) : origin[a][c].at = Newest(a)
         /\ \A c \in Clocks(corpus.kind[a]) : origin[a][c].at <= Newest(a)
<1> DEFINE C == Clocks(corpus.kind[a])
           S == {origin[a][c].at : c \in C}
<1>1. corpus.kind[a] \in ArtifactKinds /\ \A c \in C : origin[a][c].at \in Nat
  BY DEF IndexTypes, Plan, Clock
<1>2. IsFiniteSet(C) /\ "own" \in C
  BY <1>1, ClocksAre
<1>3. S \in SUBSET Nat /\ S # {}
  BY <1>1, <1>2
<1>4. IsFiniteSet(S)
  <2> DEFINE f == [c \in C |-> origin[a][c].at]
  <2>1. f \in Surjection(C, S)
    BY DEF Surjection
  <2> QED BY <2>1, <1>2, FS_Surjection
<1>5. PICK x \in S : \A y \in S : x >= y
  <2> HIDE DEF S
  <2> QED BY <1>3, <1>4, GreatestOf
<1>6. Max(S) \in S /\ \A y \in S : Max(S) >= y
  BY <1>5 DEF Max
<1>7. Newest(a) = Max(S)
  BY DEF Newest
<1>8. \E c \in C : Max(S) = origin[a][c].at
  BY <1>6
<1>9. \A c \in C : origin[a][c].at \in S
  OBVIOUS
<1> QED BY <1>1, <1>6, <1>7, <1>8, <1>9

LEMMA ExtractedIs == ASSUME IndexTypes, NEW a \in Readables PROVE Text(a) \in Nat /\ Extracted(a) \in Nat
<1>1. corpus.kind[a] \in ArtifactKinds
  BY DEF IndexTypes, Plan
<1>2. SourceOf(corpus.kind[a]) \in Clocks(corpus.kind[a])
  BY <1>1, ClocksAre
<1>3. origin[a][SourceOf(corpus.kind[a])] \in Clock
  BY <1>2 DEF IndexTypes
<1> QED BY <1>3 DEF Text, Extracted, Clock

\* What a sweeper is at is the first of its list.
LEMMA FirstIs == ASSUME IndexTypes, HasWork, NEW i \in Indexers, indexer[i].at # "idle"
  PROVE /\ 1 \in DOMAIN indexer[i].todo /\ Head1(i) = indexer[i].todo[1]
        /\ Head1(i) \in StaleRow /\ Head1(i).of \in Readables /\ Head1(i).stamp \in Nat
        /\ Tail(indexer[i].todo) \in Seq(StaleRow)
        /\ \A k \in DOMAIN Tail(indexer[i].todo) :
             k + 1 \in DOMAIN indexer[i].todo /\ Tail(indexer[i].todo)[k] = indexer[i].todo[k + 1]
<1> DEFINE t == indexer[i].todo
<1>1. t \in Seq(StaleRow) /\ t # <<>>
  BY DEF IndexTypes, HasWork, Sweeper
<1> HIDE DEF t
<1>2. Len(t) \in Nat /\ Len(t) # 0 /\ DOMAIN t = 1 .. Len(t)
  BY <1>1
<1>3. 1 \in DOMAIN t
  BY <1>2
<1>4. t[1] \in StaleRow /\ Head(t) = t[1]
  BY <1>1, <1>2, <1>3
<1>5. t[1].of \in Readables /\ t[1].stamp \in Nat
  BY <1>4 DEF StaleRow
<1>6. Tail(t) \in Seq(StaleRow) /\ \A k \in DOMAIN Tail(t) : k + 1 \in DOMAIN t /\ Tail(t)[k] = t[k + 1]
  BY <1>1, <1>2
<1> QED BY <1>3, <1>4, <1>5, <1>6 DEF Head1, t

LEMMA IndexInitInv == IndexInit => IndexInv
<1> SUFFICES ASSUME IndexInit PROVE IndexInv
  OBVIOUS
<1> USE ContentIndexAssumption DEF IndexInit
<1>1. corpus \in Plan
  BY DEF Plan, ArtifactKinds
<1>2. \A a \in Readables : "own" \in Clocks(corpus.kind[a])
  BY DEF Clocks
<1>3. \A a \in Readables : \A c \in Clocks(corpus.kind[a]) :
        origin[a][c] = [at |-> IF c = "own" THEN 1 ELSE 0, version |-> 0]
  OBVIOUS
<1>4. Resting \in Sweeper /\ \A i \in Indexers : indexer[i] = Resting
  <2>1. <<>> \in Seq(StaleRow)
    OBVIOUS
  <2> QED BY <2>1 DEF Resting, Sweeper
<1>5. IndexTypes
  <2>1. indexer \in [Indexers -> Sweeper]
    BY <1>4
  <2>2. \A a \in Readables : \A c \in Clocks(corpus.kind[a]) : origin[a][c] \in Clock
    BY <1>3 DEF Clock
  <2> QED BY <1>1, <2>1, <2>2 DEF IndexTypes
<1>6. ClocksHold
  BY <1>2, <1>3 DEF ClocksHold
<1>7. OpenApart
  BY DEF OpenApart
<1>8. NothingAhead
  BY <1>4 DEF NothingAhead, Resting
<1>9. RowsAreText
  BY DEF RowsAreText, IndexSettled
<1>10. GotIsText /\ HasWork /\ Alone
  <2>1. \A a \in Readables : rows[a] \subseteq {0}
    OBVIOUS
  <2> QED BY <1>4, <2>1 DEF GotIsText, HasWork, Alone, Resting
<1> QED BY <1>5, <1>6, <1>7, <1>8, <1>9, <1>10 DEF IndexInv

LEMMA BeginKeeps == ASSUME IndexInv, NEW w \in Writers, BeginWrite(w) PROVE IndexInv'
<1> USE DEF BeginWrite
<1>0. PICK a \in Readables : \E c \in Clocks(corpus.kind[a]) :
        writing' = [writing EXCEPT ![w] = [of |-> a, clock |-> c, began |-> moment + 1]]
  OBVIOUS
<1>1. PICK c \in Clocks(corpus.kind[a]) :
        writing' = [writing EXCEPT ![w] = [of |-> a, clock |-> c, began |-> moment + 1]]
  BY <1>0
<1> DEFINE opened == [of |-> a, clock |-> c, began |-> moment + 1]
<1>2. corpus \in Plan /\ moment \in Nat /\ writing \in [Writers -> OpenWrite \cup {NoWrite}] /\ corpus.writes > 0
  BY DEF IndexInv, IndexTypes
<1>3. /\ corpus' \in Plan /\ corpus'.kind = corpus.kind /\ corpus'.sweepers = corpus.sweepers
      /\ moment' = moment + 1
  BY <1>2 DEF Plan
<1>4. opened \in OpenWrite /\ opened.clock \in Clocks(corpus.kind[opened.of]) /\ opened.began = moment + 1
  <2>1. c \in ClockNames
    BY <1>2, ClocksAre DEF Plan
  <2> QED BY <1>2, <2>1 DEF OpenWrite
<1>5. writing' = [writing EXCEPT ![w] = opened]
  BY <1>1
<1> HIDE DEF opened
<1>6. \A v \in Writers : writing'[v] = IF v = w THEN opened ELSE writing[v]
  BY <1>2, <1>5
<1>7. \A b \in Readables : Extracted(b)' = Extracted(b) /\ Clocks(corpus'.kind[b]) = Clocks(corpus.kind[b])
  BY <1>3 DEF Extracted, Text
<1>8. IndexTypes'
  <2>1. writing' \in [Writers -> OpenWrite \cup {NoWrite}]
    BY <1>2, <1>4, <1>5
  <2>2. moment' \in Nat
    BY <1>2, <1>3
  <2>3. \A v \in Writers : writing'[v] # NoWrite =>
          writing'[v] \in OpenWrite /\ writing'[v].clock \in Clocks(corpus'.kind[writing'[v].of])
    BY <1>3, <1>4, <1>6 DEF IndexInv, IndexTypes
  <2>4. \A b \in Readables : /\ DOMAIN origin[b] = Clocks(corpus.kind[b])
                             /\ \A d \in Clocks(corpus.kind[b]) : origin[b][d] \in Clock
    BY DEF IndexInv, IndexTypes
  <2> QED BY <1>3, <2>1, <2>2, <2>3, <2>4 DEF IndexInv, IndexTypes
<1>9. \A b \in Readables : latest[b].began \in Nat /\ latest[b].began <= moment
  BY DEF IndexInv, IndexTypes, ClocksHold
<1>10. \A v \in Writers : writing[v] # NoWrite => writing[v].began \in Nat /\ writing[v].began <= moment
  BY DEF IndexInv, IndexTypes, OpenApart, OpenWrite
<1>11. ClocksHold'
  <2>1. \A b \in Readables : latest[b].began <= moment'
    BY <1>2, <1>3, <1>9
  <2> QED BY <1>3, <2>1 DEF IndexInv, ClocksHold
<1>12. OpenApart'
  <2> SUFFICES ASSUME NEW v \in Writers, writing'[v] # NoWrite
               PROVE /\ writing'[v].began <= moment'
                     /\ \A b \in Readables : writing'[v].began # latest'[b].began
                     /\ \A u \in Writers : writing'[u] # NoWrite /\ writing'[u].began = writing'[v].began => u = v
    BY DEF OpenApart
  <2>1. CASE v = w
    <3>1. writing'[v].began = moment + 1
      BY <1>4, <1>6, <2>1
    <3>2. \A u \in Writers : writing'[u] # NoWrite /\ writing'[u].began = moment + 1 => u = w
      BY <1>2, <1>6, <1>10
    <3>3. moment + 1 <= moment' /\ \A b \in Readables : moment + 1 # latest[b].began
      BY <1>2, <1>3, <1>9
    <3> QED BY <2>1, <3>1, <3>2, <3>3
  <2>2. CASE v # w
    <3>1. writing'[v] = writing[v] /\ writing[v] # NoWrite
      BY <1>6, <2>2
    <3>2. writing[v].began <= moment' /\ writing[v].began # moment + 1
      BY <1>2, <1>3, <1>10, <3>1
    <3>3. \A u \in Writers : writing'[u] # NoWrite /\ writing'[u].began = writing[v].began => u = v
      BY <1>4, <1>6, <3>1, <3>2 DEF IndexInv, OpenApart
    <3>4. \A b \in Readables : writing[v].began # latest[b].began
      BY <3>1 DEF IndexInv, OpenApart
    <3> QED BY <3>1, <3>2, <3>3, <3>4
  <2> QED BY <2>1, <2>2
<1>13. NothingAhead' /\ RowsAreText'
  BY <1>7 DEF IndexInv, NothingAhead, RowsAreText, IndexSettled
<1>14. GotIsText'
  <2>1. \A i \in Indexers : indexer[i].at \in {"replace", "commit"} => Head1(i).of \in Readables
    BY FirstIs DEF IndexInv
  <2> QED BY <1>7, <2>1 DEF IndexInv, GotIsText, IndexSettled, Head1
<1>15. HasWork' /\ Alone'
  BY <1>3 DEF IndexInv, HasWork, Alone, Head1
<1> QED BY <1>8, <1>11, <1>12, <1>13, <1>14, <1>15 DEF IndexInv

LEMMA CommitKeeps == ASSUME IndexInv, NEW w \in Writers, CommitWrite(w) PROVE IndexInv'
<1> DEFINE a == writing[w].of
           c == writing[w].clock
           b == writing[w].began
           later == IF latest[a].began > b THEN latest[a].began ELSE b
<1>1. writing[w] # NoWrite /\ a \in Readables /\ c \in Clocks(corpus.kind[a]) /\ b \in Nat /\ b <= moment /\ moment \in Nat
  BY DEF CommitWrite, IndexInv, IndexTypes, OpenApart, OpenWrite
<1>2. latest[a].began \in Nat /\ latest[a].began <= moment /\ latest[a].began # b
  BY <1>1 DEF IndexInv, IndexTypes, ClocksHold, OpenApart
<1>3. Max({latest[a].began, b}) = later
  BY <1>1, <1>2 DEF Max
<1>4. /\ \A d \in Readables : latest'[d].began = IF d = a THEN later ELSE latest[d].began
      /\ \A d \in Readables \ {a} : latest'[d] = latest[d]
      /\ latest'[a].overtaken <=> b < latest[a].began
  <2> DEFINE made == [began |-> Max({latest[a].began, b}), overtaken |-> b < latest[a].began]
  <2>1. made.began = later /\ (made.overtaken <=> b < latest[a].began)
    <3>1. made.overtaken = (b < latest[a].began)
      BY Zenon
    <3> QED BY <1>3, <3>1
  <2>2. latest' = [latest EXCEPT ![a] = made] /\ DOMAIN latest = Readables
    BY DEF CommitWrite, IndexInv, IndexTypes
  <2> HIDE DEF made, later, a, b, c
  <2>3. latest'[a] = made /\ \A d \in Readables \ {a} : latest'[d] = latest[d]
    BY <1>1, <2>2
  <2>4. latest'[a].overtaken <=> b < latest[a].began
    BY <2>1, <2>3, Zenon
  <2>5. \A d \in Readables : latest'[d].began = IF d = a THEN later ELSE latest[d].began
    <3>1. latest'[a].began = later
      BY <2>1, <2>3, Zenon
    <3>2. \A d \in Readables \ {a} : latest'[d].began = latest[d].began
      BY <2>3, Zenon
    <3>3. SUFFICES ASSUME NEW d \in Readables PROVE latest'[d].began = IF d = a THEN later ELSE latest[d].began
      OBVIOUS
    <3>4. CASE d = a
      BY <3>1, <3>4, Zenon
    <3>5. CASE d # a
      BY <3>2, <3>5, Zenon
    <3> QED BY <3>4, <3>5
  <2> QED BY <2>3, <2>4, <2>5
<1>5. /\ later \in Nat /\ later <= moment /\ later >= b /\ later >= latest[a].began
      /\ ~(b < latest[a].began) => later = b /\ later > latest[a].began
  BY <1>1, <1>2
<1>6. latest' \in [Readables -> [began : Nat, overtaken : BOOLEAN]]
  <2> DEFINE made == [began |-> Max({latest[a].began, b}), overtaken |-> b < latest[a].began]
  <2>1. made \in [began : Nat, overtaken : BOOLEAN]
    BY <1>3, <1>5
  <2>2. latest' = [latest EXCEPT ![a] = made]
    BY DEF CommitWrite
  <2> QED BY <2>1, <2>2 DEF IndexInv, IndexTypes
<1>7. /\ DOMAIN origin' = Readables
      /\ \A d \in Readables : DOMAIN origin'[d] = Clocks(corpus.kind[d])
      /\ \A d \in Readables : \A k \in Clocks(corpus.kind[d]) :
           origin'[d][k] = IF d = a /\ k = c THEN [at |-> b, version |-> origin[a][c].version + 1] ELSE origin[d][k]
  <2>1. /\ DOMAIN origin = Readables
        /\ \A d \in Readables : DOMAIN origin[d] = Clocks(corpus.kind[d])
    BY DEF IndexInv, IndexTypes
  <2>2. origin' = [origin EXCEPT ![a][c] = [at |-> b, version |-> origin[a][c].version + 1]]
    BY DEF CommitWrite
  <2> HIDE DEF a, b, c
  <2> QED BY <1>1, <2>1, <2>2
<1>8. \A d \in Readables : \A k \in Clocks(corpus.kind[d]) : origin[d][k].at \in Nat /\ origin[d][k].version \in Nat
  BY DEF IndexInv, IndexTypes, Clock
<1>9. \A v \in Writers : writing'[v] = IF v = w THEN NoWrite ELSE writing[v]
  BY DEF CommitWrite, IndexInv, IndexTypes
<1>10. corpus' = corpus /\ moment' = moment /\ rows' = rows /\ stamp' = stamp /\ indexer' = indexer /\ rowLock' = rowLock
  BY DEF CommitWrite
<1>11. \A v \in Writers : writing[v] # NoWrite =>
         /\ writing[v] \in OpenWrite /\ writing[v].clock \in Clocks(corpus.kind[writing[v].of])
         /\ writing[v].began <= moment /\ (v # w => writing[v].began # b)
         /\ \A d \in Readables : writing[v].began # latest[d].began
  BY <1>1 DEF IndexInv, IndexTypes, OpenApart
<1>13. IndexTypes'
  <2>1. writing' \in [Writers -> OpenWrite \cup {NoWrite}]
    BY DEF CommitWrite, IndexInv, IndexTypes
  <2>2. \A d \in Readables : \A k \in Clocks(corpus.kind[d]) : origin'[d][k] \in Clock
    <3>1. [at |-> b, version |-> origin[a][c].version + 1] \in Clock
      BY <1>1, <1>8 DEF Clock
    <3>2. \A d \in Readables : \A k \in Clocks(corpus.kind[d]) : origin[d][k] \in Clock
      BY DEF IndexInv, IndexTypes
    <3> HIDE DEF a, b, c
    <3> QED BY <1>7, <3>1, <3>2
  <2>3. \A v \in Writers : writing'[v] # NoWrite =>
          writing'[v] \in OpenWrite /\ writing'[v].clock \in Clocks(corpus'.kind[writing'[v].of])
    BY <1>9, <1>10, <1>11
  <2> QED BY <1>6, <1>7, <1>10, <2>1, <2>2, <2>3 DEF IndexInv, IndexTypes
<1> HIDE DEF later
<1>14. ClocksHold'
  <2> SUFFICES ASSUME NEW d \in Readables
               PROVE /\ latest'[d].began <= moment
                     /\ \A k \in Clocks(corpus.kind[d]) : origin'[d][k].at <= latest'[d].began
                     /\ ~latest'[d].overtaken => \E k \in Clocks(corpus.kind[d]) : origin'[d][k].at = latest'[d].began
    BY <1>10 DEF ClocksHold
  <2>1. /\ latest[d].began <= moment
        /\ \A k \in Clocks(corpus.kind[d]) : origin[d][k].at <= latest[d].began
        /\ ~latest[d].overtaken => \E k \in Clocks(corpus.kind[d]) : origin[d][k].at = latest[d].began
    BY DEF IndexInv, ClocksHold
  <2> HIDE DEF a, b, c
  <2>2. CASE d # a
    BY <1>4, <1>7, <2>1, <2>2
  <2>3. CASE d = a
    <3>1. latest'[d].began = later /\ (latest'[d].overtaken <=> b < latest[a].began)
      BY <1>4, <2>3
    <3>2. \A k \in Clocks(corpus.kind[d]) : origin'[d][k].at = IF k = c THEN b ELSE origin[d][k].at
      BY <1>7, <2>3
    <3>3. \A k \in Clocks(corpus.kind[d]) : origin'[d][k].at <= later
      BY <1>1, <1>2, <1>5, <1>8, <2>1, <2>3, <3>2
    <3>4. ~(b < latest[a].began) => origin'[d][c].at = later
      BY <1>1, <1>5, <2>3, <3>2
    <3> QED BY <1>1, <1>5, <2>3, <3>1, <3>3, <3>4
  <2> QED BY <2>2, <2>3
<1>15. OpenApart'
  <2> SUFFICES ASSUME NEW v \in Writers, writing'[v] # NoWrite
               PROVE /\ writing'[v].began <= moment
                     /\ \A d \in Readables : writing'[v].began # latest'[d].began
                     /\ \A u \in Writers : writing'[u] # NoWrite /\ writing'[u].began = writing'[v].began => u = v
    BY <1>10 DEF OpenApart
  <2>1. v # w /\ writing'[v] = writing[v] /\ writing[v] # NoWrite
    BY <1>9
  <2>2. writing[v].began # later
    BY <1>1, <1>11, <2>1 DEF later
  <2>3. \A u \in Writers : writing'[u] # NoWrite /\ writing'[u].began = writing[v].began => u = v
    BY <1>9, <2>1 DEF IndexInv, OpenApart
  <2> HIDE DEF a, b, c
  <2>4. \A d \in Readables : writing[v].began # latest'[d].began
    BY <1>4, <1>11, <2>1, <2>2
  <2> QED BY <1>11, <2>1, <2>3, <2>4
\* What was settled is not any more; nothing else changed.
<1>16. \A d \in Readables, s \in Nat : s <= latest[d].began =>
         /\ s <= latest'[d].began
         /\ IndexSettled(d, s)' => d # a /\ IndexSettled(d, s)
  <2> SUFFICES ASSUME NEW d \in Readables, NEW s \in Nat, s <= latest[d].began
               PROVE s <= latest'[d].began /\ (IndexSettled(d, s)' => d # a /\ IndexSettled(d, s))
    OBVIOUS
  <2> HIDE DEF a, b, c
  <2>1. CASE d # a
    BY <1>4, <2>1 DEF IndexSettled
  <2>2. CASE d = a
    <3>1. latest'[d].began = later /\ (IndexSettled(d, s)' => s = later /\ ~(b < latest[a].began))
      BY <1>4, <2>2 DEF IndexSettled
    <3> QED BY <1>2, <1>5, <2>2, <3>1
  <2> QED BY <2>1, <2>2
<1>17. \A d \in Readables : d # a => Extracted(d)' = Extracted(d)
  <2>1. \A d \in Readables : SourceOf(corpus.kind[d]) \in Clocks(corpus.kind[d])
    BY ClocksAre DEF IndexInv, IndexTypes, Plan
  <2> HIDE DEF a, b, c
  <2> QED BY <1>7, <1>10, <2>1 DEF Extracted, Text
<1> HIDE DEF a, b, c
<1>18. \A d \in Readables : stamp[d] \in Nat /\ stamp[d] <= latest[d].began
  BY DEF IndexInv, IndexTypes, NothingAhead
<1>19. \A i \in Indexers : \A k \in DOMAIN indexer[i].todo :
         /\ indexer[i].todo[k].of \in Readables /\ indexer[i].todo[k].stamp \in Nat
         /\ indexer[i].todo[k].stamp <= latest[indexer[i].todo[k].of].began
  <2> SUFFICES ASSUME NEW i \in Indexers, NEW k \in DOMAIN indexer[i].todo
               PROVE /\ indexer[i].todo[k].of \in Readables /\ indexer[i].todo[k].stamp \in Nat
                     /\ indexer[i].todo[k].stamp <= latest[indexer[i].todo[k].of].began
    OBVIOUS
  <2>1. indexer[i].todo \in Seq(StaleRow)
    BY DEF IndexInv, IndexTypes, Sweeper
  <2>2. indexer[i].todo[k] \in StaleRow
    BY <2>1
  <2> QED BY <2>2 DEF IndexInv, NothingAhead, StaleRow
<1>20. NothingAhead'
  BY <1>10, <1>16, <1>18, <1>19 DEF NothingAhead
<1>21. RowsAreText'
  BY <1>10, <1>16, <1>17, <1>18 DEF IndexInv, RowsAreText
<1>22. GotIsText'
  <2> SUFFICES ASSUME NEW i \in Indexers, indexer[i].at \in {"replace", "commit"}
               PROVE IndexSettled(Head1(i).of, Head1(i).stamp)' => indexer[i].got = Extracted(Head1(i).of)'
    BY <1>10 DEF GotIsText
  <2>1. Head1(i)' = Head1(i)
    BY <1>10 DEF Head1
  <2>2. Head1(i).of \in Readables /\ Head1(i).stamp \in Nat /\ Head1(i) = indexer[i].todo[1] /\ 1 \in DOMAIN indexer[i].todo
    BY FirstIs DEF IndexInv
  <2>3. Head1(i).stamp <= latest[Head1(i).of].began
    BY <1>19, <2>2
  <2>4. IndexSettled(Head1(i).of, Head1(i).stamp)' => Head1(i).of # a /\ IndexSettled(Head1(i).of, Head1(i).stamp)
    BY <1>16, <2>1, <2>2, <2>3 DEF IndexSettled
  <2>5. Head1(i).of # a => Extracted(Head1(i).of)' = Extracted(Head1(i).of)
    BY <1>10, <1>17, <2>1, <2>2 DEF Extracted, Text
  <2> QED BY <2>4, <2>5 DEF IndexInv, GotIsText
<1>23. HasWork' /\ Alone'
  BY <1>10 DEF IndexInv, HasWork, Alone, Head1
<1> QED BY <1>13, <1>14, <1>15, <1>20, <1>21, <1>22, <1>23 DEF IndexInv

\* A step of a sweeper moves no clock: what is settled stays so.
LEMMA SweeperKeeps ==
  ASSUME IndexInv, UNCHANGED <<moment, origin, writing, latest>>, corpus' \in Plan,
         corpus'.kind = corpus.kind, corpus'.sweepers = corpus.sweepers,
         rows' \in [Readables -> SUBSET Nat], stamp' \in [Readables -> Nat],
         indexer' \in [Indexers -> Sweeper], rowLock' \in [Readables -> Indexers \cup {NotLocked}]
  PROVE  /\ IndexTypes' /\ ClocksHold' /\ OpenApart'
         /\ \A a \in Readables : Extracted(a)' = Extracted(a) /\ latest'[a] = latest[a]
<1>1. \A a \in Readables : /\ DOMAIN origin[a] = Clocks(corpus.kind[a])
                           /\ \A c \in Clocks(corpus.kind[a]) : origin[a][c] \in Clock
  BY DEF IndexInv, IndexTypes
<1>2. \A w \in Writers : writing[w] # NoWrite =>
         writing[w] \in OpenWrite /\ writing[w].clock \in Clocks(corpus.kind[writing[w].of])
  BY DEF IndexInv, IndexTypes
<1>3. IndexTypes'
  BY <1>1, <1>2 DEF IndexInv, IndexTypes
<1>4. ClocksHold' /\ OpenApart'
  BY DEF IndexInv, ClocksHold, OpenApart
<1>5. \A a \in Readables : Extracted(a)' = Extracted(a) /\ latest'[a] = latest[a]
  BY DEF Extracted, Text
<1> QED BY <1>3, <1>4, <1>5

\* The list of a sweep is not empty, and no stamp in it is ahead.
LEMMA ListIs == ASSUME IndexInv, Behind # {}, NEW list \in SeqOf(Behind, SweepBatch), OldestFirst(list)
  PROVE  /\ list \in Seq(StaleRow) /\ list # <<>>
         /\ \A k \in DOMAIN list : list[k].of \in Readables /\ list[k].stamp <= latest[list[k].of].began
<1>1. \A s \in Behind : s \in StaleRow /\ s.of \in Readables /\ s.stamp = Newest(s.of)
  <2>1. \A a \in Readables : Newest(a) \in Nat
    BY NewestIs DEF IndexInv
  <2> QED BY <2>1 DEF Behind, StaleRow
<1>2. PICK n \in 0 .. SweepBatch : list \in [1 .. n -> Behind]
  BY DEF SeqOf
<1>3. n \in Nat /\ SweepBatch \in Nat /\ SweepBatch # 0
  BY ContentIndexAssumption
<1>4. list \in Seq(Behind) /\ Len(list) = n /\ DOMAIN list = 1 .. n
  BY <1>2, <1>3
<1>5. \A k \in DOMAIN list : list[k] \in Behind
  BY <1>2
<1>6. list \in Seq(StaleRow)
  BY <1>1, <1>4, <1>5
<1>7. list # <<>>
  <2> SUFFICES ASSUME list = <<>> PROVE FALSE
    OBVIOUS
  <2>1. Range(list) = {} /\ Len(list) = 0
    BY DEF Range
  <2>2. PICK s \in Behind : TRUE
    OBVIOUS
  <2>3. Len(list) = SweepBatch
    BY <2>1, <2>2 DEF OldestFirst
  <2> QED BY <1>3, <2>1, <2>3
<1>8. \A a \in Readables : Newest(a) <= latest[a].began
  <2> SUFFICES ASSUME NEW a \in Readables PROVE Newest(a) <= latest[a].began
    OBVIOUS
  <2>1. PICK c \in Clocks(corpus.kind[a]) : origin[a][c].at = Newest(a)
    BY NewestIs DEF IndexInv
  <2> QED BY <2>1 DEF IndexInv, ClocksHold
<1> QED BY <1>1, <1>5, <1>6, <1>7, <1>8

LEMMA ListKeeps == ASSUME IndexInv, NEW i \in Indexers, StaleArtifacts(i) PROVE IndexInv'
<1>1. PICK list \in SeqOf(Behind, SweepBatch) :
        OldestFirst(list) /\ indexer' = [indexer EXCEPT ![i] = [Resting EXCEPT !.at = "project", !.todo = list]]
  BY DEF StaleArtifacts
<1>2. /\ Behind # {} /\ i \in corpus.sweepers
      /\ corpus' = corpus /\ rows' = rows /\ stamp' = stamp /\ rowLock' = rowLock
      /\ UNCHANGED <<moment, origin, writing, latest>>
  BY DEF StaleArtifacts
<1>3. /\ list \in Seq(StaleRow) /\ list # <<>>
      /\ \A k \in DOMAIN list : list[k].of \in Readables /\ list[k].stamp <= latest[list[k].of].began
  BY <1>1, <1>2, ListIs
<1> DEFINE set == [Resting EXCEPT !.at = "project", !.todo = list]
<1>4. set \in Sweeper /\ set.at = "project" /\ set.todo = list
  BY <1>3 DEF Sweeper, Resting
<1>5. indexer \in [Indexers -> Sweeper] /\ indexer' = [indexer EXCEPT ![i] = set]
  BY <1>1 DEF IndexInv, IndexTypes
<1> HIDE DEF set
<1>6. indexer' \in [Indexers -> Sweeper] /\ \A j \in Indexers : indexer'[j] = IF j = i THEN set ELSE indexer[j]
  BY <1>4, <1>5
<1>7. /\ IndexTypes' /\ ClocksHold' /\ OpenApart'
      /\ \A a \in Readables : Extracted(a)' = Extracted(a) /\ latest'[a] = latest[a]
  <2>1. /\ corpus' \in Plan /\ rows' \in [Readables -> SUBSET Nat] /\ stamp' \in [Readables -> Nat]
        /\ rowLock' \in [Readables -> Indexers \cup {NotLocked}]
    BY <1>2 DEF IndexInv, IndexTypes
  <2> QED BY <1>2, <1>6, <2>1, SweeperKeeps
<1>8. NothingAhead'
  BY <1>2, <1>3, <1>4, <1>6 DEF IndexInv, NothingAhead
<1>9. RowsAreText'
  BY <1>2, <1>7 DEF IndexInv, RowsAreText, IndexSettled
<1>10. GotIsText'
  <2> SUFFICES ASSUME NEW j \in Indexers, indexer'[j].at \in {"replace", "commit"}
               PROVE IndexSettled(Head1(j).of, Head1(j).stamp)' => indexer'[j].got = Extracted(Head1(j).of)'
    BY DEF GotIsText
  <2>1. j # i /\ indexer'[j] = indexer[j]
    BY <1>4, <1>6
  <2>2. Head1(j)' = Head1(j) /\ Head1(j).of \in Readables
    BY <2>1, FirstIs DEF IndexInv, Head1
  <2> QED BY <1>2, <1>7, <2>1, <2>2 DEF IndexInv, GotIsText, IndexSettled, Extracted, Text
<1>11. HasWork'
  BY <1>2, <1>3, <1>4, <1>6 DEF IndexInv, HasWork
<1>12. Alone'
  BY <1>2, <1>4, <1>6 DEF IndexInv, Alone, Head1
<1> QED BY <1>7, <1>8, <1>9, <1>10, <1>11, <1>12 DEF IndexInv

\* The sweeps that end, and those that go on with the rest of the list or with the same artifact.
LEMMA EndKeeps ==
  ASSUME IndexInv, NEW i \in Indexers, EndSweep(i), UNCHANGED <<moment, origin, writing, rows, stamp, latest>>,
         corpus' \in Plan, corpus'.kind = corpus.kind, corpus'.sweepers = corpus.sweepers,
         rowLock' \in [Readables -> Indexers \cup {NotLocked}]
  PROVE  IndexInv'
<1>1. Resting \in Sweeper /\ Resting.at = "idle" /\ Resting.todo = <<>>
  <2>1. <<>> \in Seq(StaleRow)
    OBVIOUS
  <2> QED BY <2>1 DEF Resting, Sweeper
<1>2. indexer \in [Indexers -> Sweeper] /\ rows' \in [Readables -> SUBSET Nat] /\ stamp' \in [Readables -> Nat]
  BY DEF IndexInv, IndexTypes
<1>3. indexer' \in [Indexers -> Sweeper] /\ \A j \in Indexers : indexer'[j] = IF j = i THEN Resting ELSE indexer[j]
  BY <1>1, <1>2 DEF EndSweep
<1>4. /\ IndexTypes' /\ ClocksHold' /\ OpenApart'
      /\ \A a \in Readables : Extracted(a)' = Extracted(a) /\ latest'[a] = latest[a]
  BY <1>2, <1>3, SweeperKeeps
<1>5. NothingAhead'
  BY <1>1, <1>3 DEF IndexInv, NothingAhead
<1>6. RowsAreText'
  BY <1>4 DEF IndexInv, RowsAreText, IndexSettled
<1>7. GotIsText'
  <2> SUFFICES ASSUME NEW j \in Indexers, indexer'[j].at \in {"replace", "commit"}
               PROVE IndexSettled(Head1(j).of, Head1(j).stamp)' => indexer'[j].got = Extracted(Head1(j).of)'
    BY DEF GotIsText
  <2>1. j # i /\ indexer'[j] = indexer[j]
    BY <1>1, <1>3
  <2>2. Head1(j)' = Head1(j) /\ Head1(j).of \in Readables
    BY <2>1, FirstIs DEF IndexInv, Head1
  <2> QED BY <1>4, <2>1, <2>2 DEF IndexInv, GotIsText, IndexSettled, Extracted, Text
<1>8. HasWork' /\ Alone'
  BY <1>1, <1>3 DEF IndexInv, HasWork, Alone, Head1
<1> QED BY <1>4, <1>5, <1>6, <1>7, <1>8 DEF IndexInv

LEMMA ProjectKeeps == ASSUME IndexInv, NEW i \in Indexers, Project(i) PROVE IndexInv'
<1> DEFINE a == Head1(i).of
<1>1. indexer[i].at = "project" /\ corpus' = corpus /\ UNCHANGED <<moment, origin, writing, rows, stamp, rowLock, latest>>
  BY DEF Project
<1>2. /\ corpus' \in Plan /\ rowLock' \in [Readables -> Indexers \cup {NotLocked}]
      /\ rows' \in [Readables -> SUBSET Nat] /\ stamp' \in [Readables -> Nat] /\ indexer \in [Indexers -> Sweeper]
  BY <1>1 DEF IndexInv, IndexTypes
<1>3. CASE a \in corpus.broken
  <2>1. EndSweep(i)
    BY <1>3 DEF Project
  <2> QED BY <1>1, <1>2, <2>1, EndKeeps
<1>4. CASE a \notin corpus.broken
  <2> DEFINE set == [indexer[i] EXCEPT !.at = "replace", !.got = Extracted(a)]
  <2>1. a \in Readables /\ Extracted(a) \in Nat
    BY <1>1, FirstIs, ExtractedIs DEF IndexInv
  <2>2. set \in Sweeper /\ set.at = "replace" /\ set.got = Extracted(a) /\ set.todo = indexer[i].todo
    BY <1>2, <2>1 DEF Sweeper
  <2>3. indexer' = [indexer EXCEPT ![i] = set]
    BY <1>4, <1>2 DEF Project, Sweeper
  <2> HIDE DEF set
  <2>4. indexer' \in [Indexers -> Sweeper] /\ \A j \in Indexers : indexer'[j] = IF j = i THEN set ELSE indexer[j]
    BY <1>2, <2>2, <2>3
  <2>5. /\ IndexTypes' /\ ClocksHold' /\ OpenApart'
        /\ \A b \in Readables : Extracted(b)' = Extracted(b) /\ latest'[b] = latest[b]
    BY <1>1, <1>2, <2>4, SweeperKeeps
  <2>6. \A j \in Indexers : indexer'[j].todo = indexer[j].todo /\ Head1(j)' = Head1(j)
    BY <2>2, <2>4 DEF Head1
  <2>7. NothingAhead'
    BY <1>1, <2>6 DEF IndexInv, NothingAhead
  <2>8. RowsAreText'
    BY <1>1, <2>5 DEF IndexInv, RowsAreText, IndexSettled
  <2>9. GotIsText'
    <3> SUFFICES ASSUME NEW j \in Indexers, indexer'[j].at \in {"replace", "commit"}
                 PROVE IndexSettled(Head1(j).of, Head1(j).stamp)' => indexer'[j].got = Extracted(Head1(j).of)'
      BY DEF GotIsText
    <3>1. Extracted(Head1(j).of)' = Extracted(Head1(j).of)
      BY <1>1, <2>6 DEF Extracted, Text
    <3>2. CASE j = i
      BY <2>2, <2>4, <3>1, <3>2
    <3>3. CASE j # i
      BY <1>1, <2>4, <2>6, <3>1, <3>3 DEF IndexInv, GotIsText, IndexSettled
    <3> QED BY <3>2, <3>3
  <2>10. HasWork'
    BY <1>1, <2>4, <2>6 DEF IndexInv, HasWork
  <2>11. Alone'
    BY <1>1, <2>2, <2>4, <2>6 DEF IndexInv, Alone
  <2> QED BY <2>5, <2>7, <2>8, <2>9, <2>10, <2>11 DEF IndexInv
<1> QED BY <1>3, <1>4

LEMMA ReplaceKeeps == ASSUME IndexInv, NEW i \in Indexers, ReplaceRows(i) PROVE IndexInv'
<1> DEFINE a == Head1(i).of
           set == [indexer[i] EXCEPT !.at = "commit", !.saw = rows[a]]
<1>1. indexer[i].at = "replace" /\ corpus' = corpus /\ UNCHANGED <<moment, origin, writing, rows, stamp, latest>>
  BY DEF ReplaceRows
<1>2. a \in Readables
  BY <1>1, FirstIs DEF IndexInv
<1>3. /\ corpus' \in Plan /\ rowLock \in [Readables -> Indexers \cup {NotLocked}]
      /\ rows' \in [Readables -> SUBSET Nat] /\ stamp' \in [Readables -> Nat] /\ indexer \in [Indexers -> Sweeper]
      /\ rows[a] \in SUBSET Nat
  BY <1>1, <1>2 DEF IndexInv, IndexTypes
<1>4. rowLock' \in [Readables -> Indexers \cup {NotLocked}]
  BY <1>3 DEF ReplaceRows
<1>5. /\ set \in Sweeper /\ set.at = "commit" /\ set.saw = rows[a]
      /\ set.got = indexer[i].got /\ set.todo = indexer[i].todo
  BY <1>3 DEF Sweeper
<1>6. indexer' = [indexer EXCEPT ![i] = set]
  BY <1>3 DEF ReplaceRows, Sweeper
<1> HIDE DEF set
<1>7. indexer' \in [Indexers -> Sweeper] /\ \A j \in Indexers : indexer'[j] = IF j = i THEN set ELSE indexer[j]
  BY <1>3, <1>5, <1>6
<1>8. /\ IndexTypes' /\ ClocksHold' /\ OpenApart'
      /\ \A b \in Readables : Extracted(b)' = Extracted(b) /\ latest'[b] = latest[b]
  BY <1>1, <1>3, <1>4, <1>7, SweeperKeeps
<1>9. \A j \in Indexers : /\ indexer'[j].todo = indexer[j].todo /\ Head1(j)' = Head1(j)
                          /\ indexer'[j].got = indexer[j].got
                          /\ indexer'[j].at # "idle" => indexer[j].at # "idle"
  BY <1>1, <1>5, <1>7 DEF Head1
<1>10. NothingAhead' /\ HasWork'
  BY <1>1, <1>9 DEF IndexInv, NothingAhead, HasWork
<1>11. RowsAreText'
  BY <1>1, <1>8 DEF IndexInv, RowsAreText, IndexSettled
<1>12. GotIsText'
  <2> SUFFICES ASSUME NEW j \in Indexers, indexer'[j].at \in {"replace", "commit"}
               PROVE IndexSettled(Head1(j).of, Head1(j).stamp)' => indexer'[j].got = Extracted(Head1(j).of)'
    BY DEF GotIsText
  <2>1. Extracted(Head1(j).of)' = Extracted(Head1(j).of)
    BY <1>1, <1>9 DEF Extracted, Text
  <2>2. indexer[j].at \in {"replace", "commit"}
    BY <1>1, <1>7
  <2> QED BY <1>1, <1>9, <2>1, <2>2 DEF IndexInv, GotIsText, IndexSettled
<1>13. Alone'
  BY <1>1, <1>5, <1>7, <1>9 DEF IndexInv, Alone
<1> QED BY <1>8, <1>10, <1>11, <1>12, <1>13 DEF IndexInv

LEMMA StoreKeeps == ASSUME IndexInv, NEW i \in Indexers, CommitRows(i) PROVE IndexInv'
<1> DEFINE a == Head1(i).of
           rest == Tail(indexer[i].todo)
           set == IF rest = <<>> THEN Resting ELSE [Resting EXCEPT !.at = "project", !.todo = rest]
<1>1. indexer[i].at = "commit" /\ corpus' = corpus /\ UNCHANGED <<moment, origin, writing, latest>>
  BY DEF CommitRows
<1>2. /\ 1 \in DOMAIN indexer[i].todo /\ Head1(i) = indexer[i].todo[1]
      /\ a \in Readables /\ Head1(i).stamp \in Nat /\ rest \in Seq(StaleRow)
      /\ \A k \in DOMAIN rest : k + 1 \in DOMAIN indexer[i].todo /\ rest[k] = indexer[i].todo[k + 1]
  BY <1>1, FirstIs DEF IndexInv
<1>3. /\ corpus' \in Plan /\ rowLock \in [Readables -> Indexers \cup {NotLocked}]
      /\ rows \in [Readables -> SUBSET Nat] /\ stamp \in [Readables -> Nat] /\ indexer \in [Indexers -> Sweeper]
      /\ indexer[i].got \in Nat
  BY <1>1 DEF IndexInv, IndexTypes, Sweeper
<1>4. /\ rows' = [rows EXCEPT ![a] = (rows[a] \ indexer[i].saw) \cup {indexer[i].got}]
      /\ stamp' = [stamp EXCEPT ![a] = Head1(i).stamp]
      /\ rowLock' = [rowLock EXCEPT ![a] = NotLocked]
      /\ indexer' = [indexer EXCEPT ![i] = set]
  BY DEF CommitRows
<1>5. set \in Sweeper /\ set.at \in {"idle", "project"} /\ set.todo = rest /\ (set.at # "idle" => rest # <<>>)
  <2>1. CASE rest = <<>>
    BY <1>2, <2>1 DEF Sweeper, Resting
  <2>2. CASE rest # <<>>
    BY <1>2, <2>2 DEF Sweeper, Resting
  <2> QED BY <2>1, <2>2
<1> HIDE DEF set, rest, a
<1>6. indexer' \in [Indexers -> Sweeper] /\ \A j \in Indexers : indexer'[j] = IF j = i THEN set ELSE indexer[j]
  BY <1>3, <1>4, <1>5
<1>7. /\ rows' \in [Readables -> SUBSET Nat] /\ stamp' \in [Readables -> Nat]
      /\ rowLock' \in [Readables -> Indexers \cup {NotLocked}]
      /\ \A b \in Readables : b # a => rows'[b] = rows[b] /\ stamp'[b] = stamp[b]
      /\ rows'[a] = (rows[a] \ indexer[i].saw) \cup {indexer[i].got} /\ stamp'[a] = Head1(i).stamp
  BY <1>2, <1>3, <1>4
<1>8. /\ IndexTypes' /\ ClocksHold' /\ OpenApart'
      /\ \A b \in Readables : Extracted(b)' = Extracted(b) /\ latest'[b] = latest[b]
  BY <1>1, <1>3, <1>6, <1>7, SweeperKeeps
<1>9. \A j \in Indexers : \A k \in DOMAIN indexer[j].todo :
        indexer[j].todo[k].stamp <= latest[indexer[j].todo[k].of].began
  BY DEF IndexInv, NothingAhead
<1>10. NothingAhead'
  <2>1. \A b \in Readables : stamp'[b] <= latest'[b].began
    <3>1. stamp'[a] <= latest[a].began
      BY <1>2, <1>7, <1>9 DEF a
    <3> QED BY <1>1, <1>7, <3>1 DEF IndexInv, NothingAhead
  <2>2. \A j \in Indexers : \A k \in DOMAIN indexer'[j].todo :
          indexer'[j].todo[k].stamp <= latest'[indexer'[j].todo[k].of].began
    BY <1>1, <1>2, <1>5, <1>6, <1>9
  <2> QED BY <2>1, <2>2 DEF NothingAhead
<1>11. RowsAreText'
  <2> SUFFICES ASSUME NEW b \in Readables, IndexSettled(b, stamp[b])' PROVE Extracted(b)' \in rows'[b]
    BY DEF RowsAreText
  <2>1. CASE b = a
    <3>1. IndexSettled(Head1(i).of, Head1(i).stamp)
      BY <1>1, <1>7, <2>1 DEF IndexSettled, a
    <3>2. indexer[i].got = Extracted(a)
      BY <1>1, <3>1 DEF IndexInv, GotIsText, a
    <3> QED BY <1>7, <1>8, <2>1, <3>2
  <2>2. CASE b # a
    <3>1. IndexSettled(b, stamp[b])
      BY <1>1, <1>7, <2>2 DEF IndexSettled
    <3> QED BY <1>7, <1>8, <2>2, <3>1 DEF IndexInv, RowsAreText
  <2> QED BY <2>1, <2>2
<1>12. \A j \in Indexers : indexer'[j].at \in {"replace", "commit"} => j # i /\ indexer'[j] = indexer[j] /\ Head1(j)' = Head1(j)
  BY <1>5, <1>6 DEF Head1
<1>13. GotIsText'
  <2> SUFFICES ASSUME NEW j \in Indexers, indexer'[j].at \in {"replace", "commit"}
               PROVE IndexSettled(Head1(j).of, Head1(j).stamp)' => indexer'[j].got = Extracted(Head1(j).of)'
    BY DEF GotIsText
  <2>1. Extracted(Head1(j).of)' = Extracted(Head1(j).of)
    BY <1>1, <1>12 DEF Extracted, Text
  <2> QED BY <1>1, <1>12, <2>1 DEF IndexInv, GotIsText, IndexSettled
<1>14. HasWork'
  BY <1>1, <1>5, <1>6 DEF IndexInv, HasWork
<1>15. Alone'
  <2> SUFFICES ASSUME \A j, k \in corpus.sweepers : j = k
               PROVE /\ \A b \in Readables : \E v \in Nat : rows'[b] \subseteq {v}
                     /\ \A j \in Indexers : indexer'[j].at # "commit"
    BY <1>1 DEF Alone
  <2>1. \A j \in Indexers : j # i => indexer[j].at = "idle"
    BY <1>1 DEF IndexInv, HasWork
  <2>2. rows[a] \subseteq indexer[i].saw
    BY <1>1 DEF IndexInv, Alone, a
  <2>3. rows'[a] \subseteq {indexer[i].got}
    BY <1>7, <2>2
  <2> QED BY <1>3, <1>5, <1>6, <1>7, <2>1, <2>3 DEF IndexInv, Alone
<1> QED BY <1>8, <1>10, <1>11, <1>13, <1>14, <1>15 DEF IndexInv

LEMMA FailKeeps == ASSUME IndexInv, NEW i \in Indexers, IndexerFails(i) PROVE IndexInv'
<1>1. corpus \in Plan /\ corpus.stops > 0 /\ corpus' = [corpus EXCEPT !.stops = corpus.stops - 1]
  BY DEF IndexInv, IndexTypes, IndexerFails
<1>2. corpus' \in Plan /\ corpus'.kind = corpus.kind /\ corpus'.sweepers = corpus.sweepers
  BY <1>1 DEF Plan
<1>3. rowLock' \in [Readables -> Indexers \cup {NotLocked}]
  BY DEF IndexInv, IndexTypes, IndexerFails
<1> QED BY <1>2, <1>3, EndKeeps DEF IndexerFails

LEMMA IndexStep == IndexInv /\ [IndexNext]_indexVars => IndexInv'
<1> SUFFICES ASSUME IndexInv, [IndexNext]_indexVars PROVE IndexInv'
  OBVIOUS
<1>1. CASE \E w \in Writers : BeginWrite(w) \/ CommitWrite(w)
  BY <1>1, BeginKeeps, CommitKeeps
<1>2. CASE \E i \in Indexers : IndexSweep(i) \/ IndexerFails(i)
  BY <1>2, ListKeeps, ProjectKeeps, ReplaceKeeps, StoreKeeps, FailKeeps DEF IndexSweep
<1>3. CASE UNCHANGED indexVars
  BY <1>3 DEF indexVars, IndexInv, IndexTypes, ClocksHold, OpenApart, NothingAhead, RowsAreText, IndexSettled, GotIsText,
     Head1, HasWork, Alone, Extracted, Text
<1> QED BY <1>1, <1>2, <1>3 DEF IndexNext

LEMMA KeepsUpFollows == IndexInv => KeepsUp
<1> SUFFICES ASSUME IndexInv, NEW a \in Readables, ~IsStale(a), ~latest[a].overtaken PROVE Extracted(a) \in rows[a]
  BY DEF KeepsUp
<1>1. /\ stamp[a] \in Nat /\ latest[a].began \in Nat /\ stamp[a] <= latest[a].began
      /\ Newest(a) \in Nat /\ stamp[a] >= Newest(a)
  BY NewestIs DEF IndexInv, IndexTypes, NothingAhead, IsStale
<1>2. Newest(a) >= latest[a].began
  <2>1. PICK c \in Clocks(corpus.kind[a]) : origin[a][c].at = latest[a].began
    BY DEF IndexInv, ClocksHold
  <2> QED BY <2>1, <1>1, NewestIs DEF IndexInv
<1> QED BY <1>1, <1>2 DEF IndexInv, RowsAreText, IndexSettled

LEMMA OneProjectionFollows == IndexInv => OneProjection
<1> SUFFICES ASSUME IndexInv, Cardinality(corpus.sweepers) = 1, NEW a \in Readables
             PROVE  Cardinality(rows[a]) <= 1
  BY DEF OneProjection
<1>1. IsFiniteSet(corpus.sweepers)
  BY ContentIndexAssumption, FS_Subset DEF IndexInv, IndexTypes, Plan
<1>2. \A i, j \in corpus.sweepers : i = j
  BY <1>1, FS_Singleton
<1>3. PICK v \in Nat : rows[a] \subseteq {v}
  BY <1>2 DEF IndexInv, Alone
<1>4. IsFiniteSet({v}) /\ Cardinality({v}) = 1
  BY FS_Singleton
<1>5. Cardinality(rows[a]) <= Cardinality({v})
  BY <1>3, <1>4, FS_Subset
<1> QED BY <1>4, <1>5

LEMMA SearchFollows == IndexInv => SearchServes
<1> SUFFICES ASSUME IndexInv, NEW limit \in 1 .. 2, NEW failing \in SUBSET {"titles", "texts"}
             PROVE LET hits == Search(limit, failing)
                   IN /\ \A h, g \in hits : h.of = g.of => h = g
                      /\ "texts" \notin failing => \A a \in ContentSearch(limit) : \E h \in hits : h.of = a
                      /\ \A h \in hits : IF h.by = "text" THEN rows[h.of] \ {0} # {} ELSE corpus.kind[h.of] = "page"
  BY DEF SearchServes
<1> DEFINE titles == IF "titles" \in failing THEN {} ELSE TitleSearch(limit)
           texts == IF "texts" \in failing THEN {} ELSE ContentSearch(limit)
           hits == [of : titles, by : {"title"}] \cup [of : texts \ titles, by : {"text"}]
<1>1. Search(limit, failing) = hits
  BY DEF Search
<1>2. \A a \in titles : corpus.kind[a] = "page"
  BY DEF TitleSearch, FirstOf
<1>3. \A a \in texts : rows[a] \ {0} # {}
  BY DEF ContentSearch, FirstOf
<1>4. "texts" \notin failing => texts = ContentSearch(limit)
  OBVIOUS
<1> HIDE DEF titles, texts
<1>5. \A h \in hits : \/ h.of \in titles /\ h.by = "title" /\ h = [of |-> h.of, by |-> "title"]
                      \/ h.of \in texts \ titles /\ h.by = "text" /\ h = [of |-> h.of, by |-> "text"]
  OBVIOUS
<1>6. \A a \in texts : \E h \in hits : h.of = a
  <2> SUFFICES ASSUME NEW a \in texts PROVE \E h \in hits : h.of = a
    OBVIOUS
  <2>1. CASE a \in titles
    <3>1. [of |-> a, by |-> "title"] \in hits
      BY <2>1
    <3> QED BY <3>1
  <2>2. CASE a \notin titles
    <3>1. [of |-> a, by |-> "text"] \in hits
      BY <2>2
    <3> QED BY <3>1
  <2> QED BY <2>1, <2>2
<1> HIDE DEF hits
<1>7. \A h, g \in hits : h.of = g.of => h = g
  BY <1>5
<1>8. \A h \in hits : IF h.by = "text" THEN rows[h.of] \ {0} # {} ELSE corpus.kind[h.of] = "page"
  BY <1>2, <1>3, <1>5
<1> QED BY <1>1, <1>4, <1>6, <1>7, <1>8

\* What the index and its sweepers hold.
THEOREM IndexTypeCorrect == IndexSpec => []IndexTypeOK
<1>1. IndexInv => IndexTypeOK
  <2> SUFFICES ASSUME IndexInv PROVE IndexTypeOK
    OBVIOUS
  <2>1. \A a \in Readables : stamp[a] \in Nat /\ latest[a].began \in Nat /\ latest[a].began <= moment /\ moment \in Nat
                            /\ stamp[a] <= latest[a].began
    BY DEF IndexInv, IndexTypes, ClocksHold, NothingAhead
  <2>2. \A a \in Readables : \A c \in Clocks(corpus.kind[a]) : origin[a][c].at <= moment
    BY <2>1 DEF IndexInv, IndexTypes, ClocksHold, Clock
  <2>3. \A a \in Readables : rows[a] \subseteq Nat /\ rowLock[a] \in Indexers \cup {NotLocked}
    BY DEF IndexInv, IndexTypes
  <2>4. \A w \in Writers : writing[w].began <= moment
    BY DEF IndexInv, IndexTypes, OpenApart, NoWrite
  <2>5. \A i \in Indexers : indexer[i].at \in {"idle", "project", "replace", "commit"}
    BY DEF IndexInv, IndexTypes, Sweeper
  <2>6. \A a \in Readables : stamp[a] <= moment
    BY <2>1
  <2>7. moment \in Nat
    BY DEF IndexInv, IndexTypes
  <2> QED BY <2>2, <2>3, <2>4, <2>5, <2>6, <2>7 DEF IndexTypeOK
<1> QED BY <1>1, IndexInitInv, IndexStep, PTL DEF IndexSpec

\* Whatever writers and sweepers do in between, and whichever of them fails, what is not stale
\* has its present text among its rows, but for a write that was overtaken by a later one; a
\* sweeper that is alone leaves one projection; and a search finds each artifact once.
THEOREM IndexFollowsText == IndexSpec => []IndexKeepsUp
<1>1. IndexInv => IndexKeepsUp
  BY KeepsUpFollows, OneProjectionFollows, SearchFollows DEF IndexKeepsUp
<1> QED BY <1>1, IndexInitInv, IndexStep, PTL DEF IndexSpec

-----------------------------------------------------------------------------
(* The components side by side. *)

\* A behaviour of the composition is a behaviour of each component.
LEMMA ServicesCompose ==
  ServicesSpec => /\ PipeSpec /\ SyncSpec /\ EntitySpec /\ ReleaseSpec
                  /\ SurfaceFilesSpec /\ IndexSpec /\ SourceSpec /\ WorkerSpec
<1>1. ServicesInit => /\ PipeInit /\ SyncInit /\ EntityInit /\ ReleaseInit
                      /\ SurfaceFilesInit /\ IndexInit /\ SourceInit /\ WorkerInit
  BY DEF ServicesInit
<1> DEFINE all == <<part, pipeVars, syncVars, entityVars, releaseVars, fileVars, indexVars, sourceVars, workerVars>>
<1>2. [ServicesNext]_all
        => /\ [PipeNext]_pipeVars /\ [SyncNext]_syncVars /\ [EntityNext]_entityVars /\ [ReleaseNext]_releaseVars
           /\ [SurfaceFilesNext]_fileVars /\ [IndexNext]_indexVars /\ [SourceNext]_sourceVars /\ [WorkerNext]_workerVars
  BY DEF ServicesNext
<1> QED BY <1>1, <1>2, PTL DEF ServicesSpec, PipeSpec, SyncSpec, EntitySpec, ReleaseSpec, SurfaceFilesSpec, IndexSpec,
                               SourceSpec, WorkerSpec

\* The types the run checks, of every service in the background and of pages that are built.
THEOREM ServicesTypeCorrect == ServicesSpec => []ServicesTypeOK
<1>1. PipeTypeOK /\ SyncTypeOK /\ EntityTypeOK /\ ReleaseTypeOK /\ SurfaceFilesTypeOK /\ IndexTypeOK /\ SourceTypeOK /\ WorkerTypeOK
        => ServicesTypeOK
  BY DEF ServicesTypeOK
<1> QED BY <1>1, ServicesCompose, PipeTypeCorrect, SyncTypeCorrect, EntityTypeCorrect, ReleaseTypeCorrect,
           SurfaceFilesTypeCorrect, IndexTypeCorrect, SourceTypeCorrect, WorkerTypeCorrect, PTL
=============================================================================

----------------------------- MODULE ShardSchema -----------------------------
(***************************************************************************)
(* The data schemas of a shard's contract, and what a binding may show of a *)
(* record: the schema of the projection is made when the contract is        *)
(* compiled, the projection itself when a record is answered, each by a     *)
(* function of its own.                                                     *)
(*                                                                         *)
(* A JSON Pointer is a member of Pointers, placed by the pointer Above it.  *)
(* A schema is the tree that is left when its local references are          *)
(* followed; a record's data is a function of the pointers that lead        *)
(* somewhere in it.                                                         *)
(***************************************************************************)
EXTENDS Integers, FiniteSets

CONSTANTS
  Pointers,     \* JSON pointers to fields
  Document,     \* the empty pointer
  Above,        \* the pointer each field lies directly below
  AtOrBelow,    \* the pairs <<p, q>> with p at q or below it
  SchemaNodes   \* the number of nodes a schema may have

ASSUME PointerAssumption ==
  /\ Document \notin Pointers /\ Above \in [Pointers -> Pointers \cup {Document}]
  /\ AtOrBelow \subseteq Pointers \X Pointers
  /\ \A p, q \in Pointers : <<p, q>> \in AtOrBelow <=> p = q \/ <<Above[p], q>> \in AtOrBelow

Scalars == {"string", "number", "boolean", "null"}
SchemaTypes == Scalars \cup {"object"}

\* A schema of declared fields: the types of each, the required ones, and the objects that
\* may have other fields besides.
ValidateSchema(s) ==
  /\ s.declared \subseteq Pointers /\ Cardinality(s.declared) < SchemaNodes
  /\ \A p \in s.declared, q \in Pointers : <<p, q>> \in AtOrBelow => q \in s.declared
  /\ s.types \in [s.declared -> SUBSET SchemaTypes]
  /\ s.required \subseteq s.declared /\ s.open \subseteq s.declared \cup {Document}

\* The data of a record, an object: what a pointer leads to lies in an object.
IsData(d) ==
  /\ DOMAIN d \subseteq Pointers
  /\ \A p \in DOMAIN d : Above[p] # Document => Above[p] \in DOMAIN d /\ d[Above[p]].type = "object"

IsObject(d, p) == p = Document \/ (p \in DOMAIN d /\ d[p].type = "object")

ValidateData(s, d) ==
  /\ \A p \in DOMAIN d \cap s.declared : d[p].type \in s.types[p]
  /\ \A p \in DOMAIN d \ s.declared : Above[p] \in s.declared \cup {Document} => Above[p] \in s.open
  /\ \A p \in s.required : IsObject(d, Above[p]) => p \in DOMAIN d

\* A field that can be named in a query or a projection: declared, below objects.
FieldSchema(s, p) ==
  p \in s.declared /\ \A q \in s.declared : <<p, q>> \in AtOrBelow /\ q # p => "object" \in s.types[q]

ScalarSchema(s, p) == FieldSchema(s, p) /\ s.types[p] # {} /\ s.types[p] \subseteq Scalars

Overlapping(selection) == \E p, q \in selection : p # q /\ <<p, q>> \in AtOrBelow

Projects(s, selection) == ~Overlapping(selection) /\ \A p \in selection : FieldSchema(s, p)

\* On the way to a selected field, or in it.
Kept(selection, p) == \E q \in selection : <<p, q>> \in AtOrBelow \/ <<q, p>> \in AtOrBelow
Inside(selection, p) == \E q \in selection : <<p, q>> \in AtOrBelow

\* The objects on the way show nothing but the way; the selected fields stay as they are.
ProjectSchema(s, selection) ==
  IF selection = {} THEN s
  ELSE LET kept == {p \in s.declared : Kept(selection, p)}
       IN [declared |-> kept, types |-> [p \in kept |-> s.types[p]], required |-> s.required \cap kept,
           open |-> {p \in s.open : Inside(selection, p)}]

\* Something that is neither an object nor null on the way to a selected field.
ProjectionFails(d, selection) ==
  \E p \in DOMAIN d : /\ \E q \in selection : <<q, p>> \in AtOrBelow /\ q # p
                      /\ d[p].type \notin {"object", "null"}

ProjectData(d, selection) ==
  IF selection = {} THEN d ELSE [p \in {q \in DOMAIN d : Kept(selection, q)} |-> d[p]]

(* What is answered through a projection conforms to the schema the reader
   was told.  The two are computed apart: PointerParts, ProjectSchema and
   ProjectData each walk the selection on their own. *)
ProjectionConforms(s, selection, d) ==
  ValidateSchema(s) /\ IsData(d) /\ Projects(s, selection) /\ ValidateData(s, d) /\ ~ProjectionFails(d, selection)
  => ValidateData(ProjectSchema(s, selection), ProjectData(d, selection))
=============================================================================

------------------------------ MODULE PageEdits ------------------------------
(***************************************************************************)
(* The blocks of one page and what is known of them elsewhere.  The truth   *)
(* is the live document of the sidecar.  Agents change it over the bridge,  *)
(* one transaction per operation; the owner's editor changes it as the      *)
(* owner types.  After an edit whoever made it projects what the document   *)
(* now says into rows: the # references and the @ mentions, each replaced   *)
(* as a whole in a transaction of its own.                                  *)
(***************************************************************************)
EXTENDS Naturals, Sequences, FiniteSets, SequencesExt

CONSTANTS
  Agents,      \* calls of the page tools, one operation each
  Scenes,      \* what to look at: the tool of each call, and how often the owner types, the
               \* owner tags, and a call between the parts fails
  Written,     \* what markdown can become: sequences of what each block says
  Shelf,       \* artifacts a block can refer to
  Registered,  \* entities a block can mention
  Unknown      \* an entity id nobody registered

ASSUME PageAssumption ==
  /\ \A s \in Scenes :
       /\ s.tools \in [Agents -> {"update_page", "update_block", "insert_blocks", "delete_block", "none"}]
       /\ s.typing \in Nat /\ s.tagging \in Nat /\ s.faults \in Nat
  /\ Written \subseteq Seq(Shelf \cup Registered \cup {Unknown, "prose"})

VARIABLES
  versions,  \* the live document, and before it everything it was
  minted,    \* block ids given so far
  stamped,   \* block_attribution: the blocks an agent touched
  hashes,    \* artifact_refs, origin = 'reference'
  mentioned, \* artifact_entities, origin = 'mention'
  pinned,    \* artifact_entities, origin = 'tag'
  turn,      \* how far each call is
  posts,     \* projections the editor sent that did not arrive
  projected, \* whether an editor is open, and what it projected last
  typing, tagging, faults  \* what the scene still allows

pageVars == <<versions, minted, stamped, hashes, mentioned, pinned, turn, posts, projected, typing, tagging, faults>>

live == versions[Len(versions)]
IdsOf(d) == {d[i].id : i \in DOMAIN d}
At(d, id) == CHOOSE i \in DOMAIN d : d[i].id = id
HashesIn(d) == {<<b.says, b.id>> : b \in {c \in Range(d) : c.says \in Shelf}}
MentionsIn(d) == {<<b.says, b.id>> : b \in {c \in Range(d) : c.says \in Registered \cup {Unknown}}}

(* The converter gives every block an id of its own. *)
MDToBlocks(w) == [i \in DOMAIN w |-> [id |-> minted + i, says |-> w[i]]]
WithFirstBlockID(new, id) == IF new = <<>> THEN new ELSE [new EXCEPT ![1].id = id]
Splice(d, at, gone, new) == SubSeq(d, 1, at) \o new \o SubSeq(d, at + gone + 1, Len(d))

Works == UNCHANGED faults
Fails == faults > 0 /\ faults' = faults - 1

NoTurn(tool) == [tool |-> tool, stage |-> "idle", made |-> 0, target |-> 0,
                 touched |-> {}, sees |-> 0, stamps |-> {}]

PageInit ==
  /\ versions = << <<>> >>
  /\ minted = 0
  /\ stamped = {} /\ hashes = {} /\ mentioned = {} /\ pinned = {}
  /\ \E s \in Scenes :
       /\ turn = [a \in Agents |-> NoTurn(s.tools[a])]
       /\ typing = s.typing /\ tagging = s.tagging /\ faults = s.faults
  /\ posts = {}
  /\ projected = [open |-> FALSE, hashes |-> {}, mentions |-> {}]

(***************************************************************************)
(* A tool: markdown to blocks, then one operation on the live document.     *)
(* Reading and rewriting it is one transaction of the sidecar.  An answer   *)
(* that refuses changes nothing.                                            *)
(***************************************************************************)
ApplyOperation(a, target, next, touched) ==
  /\ versions' = Append(versions, next)
  /\ turn' = [turn EXCEPT ![a].stage = "stamp", ![a].made = Len(versions) + 1,
                          ![a].target = target, ![a].touched = touched]
  /\ UNCHANGED <<stamped, hashes, mentioned, pinned, posts, projected, typing, tagging, faults>>

IsAsked(a, tool) == turn[a].stage = "idle" /\ turn[a].tool = tool
Mint(new) == minted' = minted + Len(new)

UpdatePage(a, w) ==
  /\ IsAsked(a, "update_page")
  /\ LET new == MDToBlocks(w) IN Mint(new) /\ ApplyOperation(a, 0, new, IdsOf(new))

UpdateBlock(a, id, w) ==
  /\ IsAsked(a, "update_block")
  /\ id \in IdsOf(live)
  /\ LET new == WithFirstBlockID(MDToBlocks(w), id)
     IN Mint(new) /\ ApplyOperation(a, id, Splice(live, At(live, id) - 1, 1, new), IdsOf(new))

\* Where to insert: after a block, before it, at the start or at the end.
InsertPositions ==
  {0, Len(live)} \cup {At(live, id) : id \in IdsOf(live)} \cup {At(live, id) - 1 : id \in IdsOf(live)}
InsertBlocks(a, at, w) ==
  /\ IsAsked(a, "insert_blocks")
  /\ w # <<>>
  /\ LET new == MDToBlocks(w) IN Mint(new) /\ ApplyOperation(a, 0, Splice(live, at, 0, new), IdsOf(new))

DeleteBlock(a, id) ==
  /\ IsAsked(a, "delete_block")
  /\ id \in IdsOf(live) /\ Len(live) > 1
  /\ ApplyOperation(a, id, Splice(live, At(live, id) - 1, 1, <<>>), {})
  /\ UNCHANGED minted

(* The attribution is read, merged and written back; a failure leaves it as it is. *)
ReadAttribution(a) ==
  /\ turn[a].stage = "stamp"
  /\ turn' = [turn EXCEPT ![a].stage = IF turn[a].touched # {} THEN "stamping" ELSE "read",
                          ![a].stamps = (stamped \cap IdsOf(versions[turn[a].made])) \cup turn[a].touched]
  /\ UNCHANGED <<versions, minted, stamped, hashes, mentioned, pinned, posts, projected, typing, tagging, faults>>
WriteAttribution(a) ==
  /\ turn[a].stage = "stamping"
  /\ \/ Works /\ stamped' = turn[a].stamps
     \/ Fails /\ UNCHANGED stamped
  /\ turn' = [turn EXCEPT ![a].stage = "read"]
  /\ UNCHANGED <<versions, minted, hashes, mentioned, pinned, posts, projected, typing, tagging>>

(***************************************************************************)
(* projectPage.  The document is read again, as it is by now; a lost answer *)
(* ends the call before that, with the edit made.  References and mentions  *)
(* are then replaced one after the other, and either can fail: mentions do  *)
(* when an entity is unknown.                                               *)
(***************************************************************************)
LoseAnswer(a) ==
  /\ turn[a].stage \in {"stamp", "stamping", "read"}
  /\ Fails
  /\ turn' = [turn EXCEPT ![a].stage = "done"]
  /\ UNCHANGED <<versions, minted, stamped, hashes, mentioned, pinned, posts, projected, typing, tagging>>
\* A mutant: what is projected is the document as it was before the operation.
BugReadLive(a) ==
  /\ turn[a].stage = "read"
  /\ turn' = [turn EXCEPT ![a].stage = "refs", ![a].sees = turn[a].made - 1]
  /\ UNCHANGED <<versions, minted, stamped, hashes, mentioned, pinned, posts, projected, typing, tagging, faults>>
ReadLive(a) ==
  /\ turn[a].stage = "read"
  /\ turn' = [turn EXCEPT ![a].stage = "refs", ![a].sees = Len(versions)]
  /\ UNCHANGED <<versions, minted, stamped, hashes, mentioned, pinned, posts, projected, typing, tagging, faults>>

ReplaceRefs(d) == hashes' = HashesIn(d)
ReplaceMentions(d) ==
  mentioned' = IF \A m \in MentionsIn(d) : m[1] # Unknown THEN MentionsIn(d) ELSE mentioned

SyncRefs(a) ==
  /\ turn[a].stage = "refs"
  /\ turn' = [turn EXCEPT ![a].stage = "mentions"]
  /\ \/ Works /\ ReplaceRefs(versions[turn[a].sees])
     \/ Fails /\ UNCHANGED hashes
  /\ UNCHANGED <<versions, minted, stamped, mentioned, pinned, posts, projected, typing, tagging>>
SyncMentions(a) ==
  /\ turn[a].stage = "mentions"
  /\ turn' = [turn EXCEPT ![a].stage = "done"]
  /\ \/ Works /\ ReplaceMentions(versions[turn[a].sees])
     \/ Fails /\ UNCHANGED mentioned
  /\ UNCHANGED <<versions, minted, stamped, hashes, pinned, posts, projected, typing, tagging>>

(***************************************************************************)
(* The owner.  An editor adds or deletes a block, and posts what the        *)
(* document says when that differs from what it posted last; nothing orders *)
(* the posts, and a post that fails is not repeated.                        *)
(***************************************************************************)
Type(next) ==
  /\ typing > 0 /\ typing' = typing - 1
  /\ versions' = Append(versions, next)
  /\ projected' = [projected EXCEPT !.open = TRUE]
  /\ UNCHANGED <<stamped, hashes, mentioned, pinned, turn, posts, tagging, faults>>
TypeBlock(says) ==
  /\ Type(Append(live, [id |-> minted + 1, says |-> says]))
  /\ minted' = minted + 1
DeleteTyped(id) ==
  /\ Type(Splice(live, At(live, id) - 1, 1, <<>>))
  /\ UNCHANGED minted

PostEdits ==
  LET now == [open |-> TRUE, hashes |-> HashesIn(live), mentions |-> MentionsIn(live)]
      changed == {k \in {"hashes", "mentions"} : now[k] # projected[k]}
  IN /\ projected.open /\ changed # {}
     /\ projected' = now
     /\ posts' = posts \cup {[kind |-> k, sees |-> Len(versions)] : k \in changed}
     /\ UNCHANGED <<versions, minted, stamped, hashes, mentioned, pinned, turn, typing, tagging, faults>>
PostArrives(p) ==
  /\ posts' = posts \ {p}
  /\ \/ p.kind = "hashes" /\ Works /\ ReplaceRefs(versions[p.sees]) /\ UNCHANGED mentioned
     \/ p.kind = "mentions" /\ Works /\ ReplaceMentions(versions[p.sees]) /\ UNCHANGED hashes
     \/ Fails /\ UNCHANGED <<hashes, mentioned>>
  /\ UNCHANGED <<versions, minted, stamped, pinned, turn, projected, typing, tagging>>

(* Page tags are rows of the same table, and the owner's own. *)
Tagging == tagging > 0 /\ tagging' = tagging - 1
           /\ UNCHANGED <<versions, minted, stamped, hashes, mentioned, turn, posts, projected, typing, faults>>
AttachTag(e) == Tagging /\ pinned' = pinned \cup {e}
DetachTag(e) == Tagging /\ pinned' = pinned \ {e}

AgentStep(a) ==
  \/ \E w \in Written : UpdatePage(a, w) \/ \E id \in IdsOf(live) : UpdateBlock(a, id, w)
  \/ \E w \in Written, at \in InsertPositions : InsertBlocks(a, at, w)
  \/ \E id \in IdsOf(live) : DeleteBlock(a, id)
  \/ ReadAttribution(a) \/ WriteAttribution(a) \/ LoseAnswer(a) \/ ReadLive(a)
  \/ SyncRefs(a) \/ SyncMentions(a)
PageNext ==
  \/ \E a \in Agents : AgentStep(a)
  \/ \E s \in Shelf \cup Registered \cup {"prose"} : TypeBlock(s)
  \/ \E id \in IdsOf(live) : DeleteTyped(id)
  \/ PostEdits
  \/ \E p \in posts : PostArrives(p)
  \/ \E e \in Registered : AttachTag(e) \/ DetachTag(e)

PageSpec == PageInit /\ [][PageNext]_pageVars

PageTypeOK ==
  /\ \A k \in DOMAIN versions : \A b \in Range(versions[k]) :
       b.id \in 1 .. minted /\ b.says \in Shelf \cup Registered \cup {Unknown, "prose"}
  /\ stamped \subseteq 1 .. minted
  /\ hashes \subseteq Shelf \X (1 .. minted)
  /\ mentioned \subseteq Registered \X (1 .. minted)
  /\ pinned \subseteq Registered
  /\ \A a \in Agents : turn[a].made <= Len(versions) /\ turn[a].sees <= Len(versions)
  /\ \A p \in posts : p.sees \in DOMAIN versions

(***************************************************************************)
(* Properties                                                              *)
(***************************************************************************)

(* A block id names one block, for as long as the page lives: the ids an
   agent was told stay good targets beside everybody else's edits. *)
IdsNameOneBlock == \A k \in DOMAIN versions : IsInjective([i \in DOMAIN versions[k] |-> versions[k][i].id])

(* An operation on a block leaves the blocks it does not name as they were
   and where they were, whatever was edited since the agent read the page;
   and a block that was rewritten is still there under its id. *)
OthersStay ==
  \A a \in Agents : turn'[a].made > Len(versions) =>
    LET t == turn'[a].target
        kept == IF turn[a].tool = "update_page" THEN {} ELSE {i \in DOMAIN live : live[i].id # t}
    IN /\ \E place \in [kept -> DOMAIN live'] :
            \A i, k \in kept : live'[place[i]] = live[i] /\ (i < k => place[i] < place[k])
       /\ t \in turn'[a].touched => t \in IdsOf(live')

(* What is queried of the page is something the page said: all the
   references, and all the mentions, of one version; a call's own projection
   shows a version that has the call's edit. *)
RowsAreOfOneVersion ==
  /\ \E k \in DOMAIN versions : hashes = HashesIn(versions[k])
  /\ \E k \in DOMAIN versions : mentioned = MentionsIn(versions[k])
OwnEditIsShown ==
  \A a \in Agents :
    /\ turn[a].stage = "refs" /\ turn'[a].stage # "refs" /\ hashes' # hashes =>
         \E k \in turn[a].made .. Len(versions) : hashes' = HashesIn(versions[k])
    /\ turn[a].stage = "mentions" /\ turn'[a].stage # "mentions" /\ mentioned' # mentioned =>
         \E k \in turn[a].made .. Len(versions) : mentioned' = MentionsIn(versions[k])

(* All of that, and the owner's tags, which no projection touches. *)
PageEditsHold ==
  [][ /\ IdsNameOneBlock' /\ RowsAreOfOneVersion'
      /\ OthersStay /\ OwnEditIsShown
      /\ pinned' # pinned => tagging' # tagging ]_pageVars

(* Not so: when everything is done the rows are those of the document as it
   is.  Two calls read the document one after the other and replace the rows
   in the other order. *)
Settled == posts = {} /\ \A a \in Agents : turn[a].stage \in {"idle", "done"}
RowsMatchThePage == Settled /\ (\A a \in Agents : turn[a].stage = "done") => hashes = HashesIn(live)
=============================================================================

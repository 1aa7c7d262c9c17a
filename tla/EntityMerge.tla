----------------------------- MODULE EntityMerge -----------------------------
(***************************************************************************)
(* The shared entity registry and the reversible merge overlay on it. The   *)
(* resolver creates entities from records and proposes to merge them, the   *)
(* editor mints placeholders, the judge sweep decides proposals and         *)
(* promotes placeholders, and the user accepts or rejects from the queue.   *)
(*                                                                         *)
(* Entities are numbered in the order of their creation; 0 is NULL. The     *)
(* similarity of two names does not change: a pair is near enough to be     *)
(* proposed, sure enough to be merged without the judge, or neither.        *)
(* Tenant entities and the revert of a merge have no caller in the program. *)
(***************************************************************************)
EXTENDS Integers, Sequences, FiniteSets, FiniteSetsExt

CONSTANTS
  MaxEntities,  \* bound: the entities a behaviour may create
  SweepLimit,   \* how many placeholders, or proposals, one pass looks at
  Registries    \* what a behaviour starts from: [near, sure, judge, crashes], two
                \* sets of unordered pairs, whether a judge is configured, and the
                \* crashes of the worker

ASSUME EntityAssumption == MaxEntities \in Nat /\ SweepLimit \in Nat \ {0} /\ \A k \in Registries : k.sure \subseteq k.near

VARIABLES
  tier,      \* the trust tier of the entities created so far
  overlay,   \* canonical_root_id
  merges,    \* the status of the merge row of an ordered pair
  resolves,  \* resolutions past the creation: the new entity, and the entity it is to be merged into
  sweep,     \* the pass under way
  registry   \* what the behaviour started from, crashes counted down

entityState == <<tier, overlay, merges, resolves, sweep>>
entityVars == <<entityState, registry>>

EntityIds == 1 .. MaxEntities
KnownEntities == 1 .. Len(tier)
Undecided == {"sure", "proposed", "unsure"}
Idle == [at |-> "idle", batch |-> {}, left |-> {}, entity |-> 0, rows |-> {}]

\* The type invariant: the overlay and the merge rows name entities that were created,
\* and no entity is merged with itself.
EntityTypeOK ==
  /\ tier \in Seq({"placeholder", "believed"}) /\ Len(tier) <= MaxEntities
  /\ overlay \in [EntityIds -> {0} \cup KnownEntities]
  /\ merges \in [EntityIds \X EntityIds -> {"none", "rejected", "applied"} \cup Undecided]
  /\ \A e, f \in EntityIds : merges[<<e, f>>] # "none" => e # f /\ {e, f} \subseteq KnownEntities
  /\ resolves \subseteq KnownEntities \X ({0} \cup KnownEntities)
  /\ sweep \in [at : {"idle", "propose", "judge", "finish", "promote"}, batch : SUBSET KnownEntities,
                left : SUBSET KnownEntities, entity : {0} \cup KnownEntities, rows : SUBSET (EntityIds \X EntityIds)]

EntityInit ==
  /\ tier = <<>> /\ overlay = [e \in EntityIds |-> 0]
  /\ merges = [p \in EntityIds \X EntityIds |-> "none"] /\ resolves = {} /\ sweep = Idle
  /\ registry \in Registries

Near(e) == {f \in KnownEntities \ {e} : {e, f} \in registry.near}
Asked(e) == \E f \in EntityIds : merges[<<e, f>>] \in Undecided \/ merges[<<f, e>>] \in Undecided
Mirror(p) == <<p[2], p[1]>>

\* The rows of an unordered pair, whatever their status.
Unheard(p) == merges[p] = "none" /\ merges[Mirror(p)] = "none"

WrittenFor(p) == IF {p[1], p[2]} \in registry.sure THEN "sure" ELSE "proposed"
First(set) == {e \in set : Cardinality({f \in set : f < e}) < SweepLimit}

-----------------------------------------------------------------------------
(* The resolver. *)

Mint(trust) == Len(tier) < MaxEntities /\ tier' = Append(tier, trust)

\* An unseen key: the entity is created, and the best near match is read next.
CreateSharedEntity ==
  /\ Mint("believed")
  /\ resolves' = resolves \cup {<<Len(tier) + 1, 0>>}
  /\ UNCHANGED <<overlay, merges, sweep, registry>>

\* The candidates include entities merged away. The insert is one statement: its
\* NOT EXISTS sees what was committed when it began.
ProposeFuzzyMerge(e) ==
  /\ <<e, 0>> \in resolves
  /\ \/ \E f \in Near(e) :
          resolves' = (resolves \ {<<e, 0>>}) \cup IF Unheard(<<e, f>>) THEN {<<e, f>>} ELSE {}
     \/ Near(e) = {} /\ resolves' = resolves \ {<<e, 0>>}
  /\ UNCHANGED <<tier, overlay, merges, sweep, registry>>

\* The adjudicator may find the two different, which is written as a rejected row,
\* or the same, with a confidence of its own. The ordered pair is unique.
InsertMerge(p) ==
  /\ p \in resolves /\ p[2] # 0
  /\ resolves' = resolves \ {p}
  /\ \E status \in {WrittenFor(p)} \cup IF registry.judge THEN {"rejected", "sure"} ELSE {} :
       merges' = IF merges[p] = "none" THEN [merges EXCEPT ![p] = status] ELSE merges
  /\ UNCHANGED <<tier, overlay, sweep, registry>>

\* The editor's @ create, when no known surface matches.
CreatePlaceholder == Mint("placeholder") /\ UNCHANGED <<overlay, merges, resolves, sweep, registry>>

-----------------------------------------------------------------------------
(* The decisions. *)

RootOf(e) == IF overlay[e] = 0 THEN e ELSE overlay[e]

\* The judge re-points what was merged into the from-entity.
Folded(p) == [e \in EntityIds |-> IF e = p[1] \/ overlay[e] = p[1] THEN RootOf(p[2]) ELSE overlay[e]]

DecideMerge(p, outcome) ==
  IF merges[p] \in Undecided
  THEN /\ merges' = [merges EXCEPT ![p] = outcome]
       /\ overlay' = IF outcome = "applied" THEN Folded(p) ELSE overlay
  ELSE UNCHANGED <<merges, overlay>>

BugAcceptMerge(p) ==
  /\ merges[p] # "none"
  /\ merges' = [merges EXCEPT ![p] = "applied"]
  /\ overlay' = [overlay EXCEPT ![p[1]] = RootOf(p[2])]
  /\ UNCHANGED <<tier, resolves, sweep, registry>>

\* The user accepts: only the from-entity is pointed at the other's root.
AcceptMerge(p) ==
  /\ merges[p] \in Undecided
  /\ merges' = [merges EXCEPT ![p] = "applied"]
  /\ overlay' = [overlay EXCEPT ![p[1]] = RootOf(p[2])]
  /\ UNCHANGED <<tier, resolves, sweep, registry>>

RejectMerge(p) ==
  /\ merges[p] \in Undecided
  /\ merges' = [merges EXCEPT ![p] = "rejected"]
  /\ UNCHANGED <<tier, overlay, resolves, sweep, registry>>

-----------------------------------------------------------------------------
(* The judge sweep. *)

\* ListPlaceholders: oldest first, none that is merged away or awaits a decision.
Placeholders == {e \in KnownEntities : tier[e] = "placeholder" /\ overlay[e] = 0 /\ ~Asked(e)}

Candidates(e) == {f \in Near(e) : overlay[f] = 0}
Unjudged == {p \in EntityIds \X EntityIds : merges[p] \in {"sure", "proposed"}}

SweepBegins ==
  /\ sweep.at = "idle" /\ (Placeholders \cup UNION {{p[1]} : p \in Unjudged}) # {}
  /\ sweep' = [Idle EXCEPT !.at = "propose", !.batch = First(Placeholders), !.left = First(Placeholders)]
  /\ UNCHANGED <<tier, overlay, merges, resolves, registry>>

Promote(e) == tier' = [tier EXCEPT ![e] = "believed"]

SweepProposes ==
  /\ sweep.at = "propose" /\ sweep.left # {}
  /\ LET e == Min(sweep.left)
     IN /\ sweep' = [sweep EXCEPT !.left = @ \ {e}]
        /\ IF Candidates(e) = {} THEN Promote(e) /\ UNCHANGED merges
           ELSE /\ UNCHANGED tier
                /\ merges' = [p \in EntityIds \X EntityIds |->
                     IF p[1] = e /\ p[2] \in Candidates(e) /\ Unheard(p) THEN WrittenFor(p) ELSE merges[p]]
  /\ UNCHANGED <<overlay, resolves, registry>>

\* The oldest proposals first; which these are is left open.
SweepLists ==
  /\ sweep.at = "propose" /\ sweep.left = {}
  /\ \E rows \in SUBSET Unjudged :
       /\ Cardinality(rows) = Min({SweepLimit, Cardinality(Unjudged)})
       /\ sweep' = [sweep EXCEPT !.at = "judge", !.rows = rows]
  /\ UNCHANGED <<tier, overlay, merges, resolves, registry>>

\* A sure pair needs no judge; without a judge, or when it fails, the pair stays.
Verdicts(p) ==
  IF merges[p] = "sure" THEN {"applied"}
  ELSE {"none"} \cup IF registry.judge THEN {"applied", "rejected", "unsure"} ELSE {}

SweepDecides ==
  /\ sweep.at = "judge"
  /\ \E p \in sweep.rows :
       /\ sweep' = [sweep EXCEPT !.rows = @ \ {p}]
       /\ \E verdict \in Verdicts(p) :
            IF verdict = "none" THEN UNCHANGED <<merges, overlay>> ELSE DecideMerge(p, verdict)
  /\ UNCHANGED <<tier, resolves, registry>>

SweepFinishes ==
  /\ sweep.at = "judge" /\ sweep.rows = {}
  /\ sweep' = [sweep EXCEPT !.at = "finish", !.left = sweep.batch]
  /\ UNCHANGED <<tier, overlay, merges, resolves, registry>>

\* ResolveCanonicalRoot and HasProposedMergeFor, then the promotion.
SweepChecks ==
  /\ sweep.at = "finish"
  /\ IF sweep.left = {} THEN sweep' = Idle
     ELSE LET e == Min(sweep.left)
          IN sweep' = [sweep EXCEPT !.left = @ \ {e}, !.entity = e,
                                    !.at = IF RootOf(e) = e /\ ~Asked(e) THEN "promote" ELSE "finish"]
  /\ UNCHANGED <<tier, overlay, merges, resolves, registry>>

SweepPromotes ==
  /\ sweep.at = "promote"
  /\ Promote(sweep.entity)
  /\ sweep' = [sweep EXCEPT !.at = "finish"]
  /\ UNCHANGED <<overlay, merges, resolves, registry>>

\* The worker dies: a record's next resolution finds the key, and proposes nothing.
EntityCrash ==
  /\ registry.crashes > 0 /\ registry' = [registry EXCEPT !.crashes = @ - 1]
  /\ resolves' = {} /\ sweep' = Idle
  /\ UNCHANGED <<tier, overlay, merges>>

SweepStep == SweepBegins \/ SweepProposes \/ SweepLists \/ SweepDecides \/ SweepFinishes \/ SweepChecks \/ SweepPromotes

EntityNext ==
  \/ CreateSharedEntity \/ CreatePlaceholder
  \/ \E e \in EntityIds : ProposeFuzzyMerge(e)
  \/ \E p \in EntityIds \X EntityIds : InsertMerge(p) \/ AcceptMerge(p) \/ RejectMerge(p)
  \/ SweepStep \/ EntityCrash

EntitySpec == EntityInit /\ [][EntityNext]_entityVars

\* The sweeper's ticker never stops.
EntityFairness == WF_entityState(SweepStep)

-----------------------------------------------------------------------------
(* Properties. *)

\* Where the decisions lead from an entity: whatever it has been decided to be the
\* same as, and what that has been decided to be the same as.
Joined == {p \in EntityIds \X EntityIds : merges[p] = "applied"}
ClosedUnder(pairs) == {S \in SUBSET EntityIds : \A p \in pairs : p[1] \in S => p[2] \in S}
LeadsTo(e, f) == \A S \in ClosedUnder(Joined) : e \in S => f \in S

\* entity_repo.go: an entity is read as another only because decisions lead from the
\* one to the other, however merges, their re-pointing and the answers of user and
\* judge on one row interleave: no pair that was rejected, or never asked, is folded.
FoldedByDecisions == \A e \in EntityIds : overlay[e] # 0 => LeadsTo(e, overlay[e])

\* judge_sweeper.go: an answer of the user and an answer the judge was still thinking
\* about when it came do not overwrite each other; what is rejected stays negative
\* evidence, and what is applied stays applied.
DecisionsStand ==
  [][\A p \in EntityIds \X EntityIds : merges[p] \in {"rejected", "applied"} => merges'[p] = merges[p]]_entityVars

\* The registry is what was decided, and stays what was decided.
DecisionsHold == []FoldedByDecisions /\ DecisionsStand

\* ListPlaceholders: each placeholder is promoted, merged away or put before
\* someone who decides; no proposal that nobody answers keeps the others out of
\* the batch.
PlaceholdersSettle ==
  \A e \in EntityIds : []<>(e \in KnownEntities /\ tier[e] = "placeholder" => overlay[e] # 0 \/ Asked(e))

Climb[e \in EntityIds, n \in 0 .. MaxEntities] ==
  IF n = 0 \/ overlay[e] \in {0, e} THEN e ELSE Climb[overlay[e], n - 1]

\* "the overlay is acyclic" (ResolveCanonicalRoot): from any entity the walk up the
\* overlay comes to an entity that is its own root.
OverlayIsAcyclic == \A e \in EntityIds : overlay[Climb[e, MaxEntities]] \in {0, Climb[e, MaxEntities]}
=============================================================================

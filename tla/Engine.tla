------------------------------- MODULE Engine -------------------------------
(***************************************************************************)
(* ReconciliationEngine.reconcile (core/engine.py): the limit check, the   *)
(* matcher (module Matcher, step by step), then the aligner, the four      *)
(* classifiers in registry order, root-cause analysis and suppression.     *)
(*                                                                         *)
(* A canonical tree is a record of functions on its node references:       *)
(*   parent   the parent reference, NoNode for the root                    *)
(*   kids     the sequence of child references                             *)
(*   node     type, pid, label and text, as module Evidence reads them     *)
(* Validation and normalisation have been done: trees are well formed and  *)
(* their content is what normalize() leaves.                               *)
(***************************************************************************)
EXTENDS Evidence, FiniteSets, Sequences, Filtering

CONSTANTS
  Sources, Targets, Ids, AuthoritativeId,
  MatchThreshold, ProbableThreshold, AmbiguityMargin,
  SourceTrees, TargetTrees,   \* the trees a job may bring
  Root, NoNode,               \* root_node_ref of both trees; no reference
  Commands                    \* the limits and the other profiles it may bring

OperationTypes == {"MATCH", "UPDATE", "INSERT", "DELETE", "MOVE", "REORDER"}

(* A command: ResourceLimits and incomplete_on_limit, OperationProfile     *)
(* (enabled, moveThreshold, presence), AlignmentProfile (the node types    *)
(* whose children have no order) and SuppressionProfile (the threshold of  *)
(* the rule an operation type has).                                        *)
IsCommand(c) ==
  /\ c.nodeLimit \in Nat \ {0} /\ c.depthLimit \in Nat \ {0}
  /\ c.incomplete \in BOOLEAN
  /\ c.enabled \subseteq OperationTypes
  /\ c.moveThreshold \in 0..Scale
  /\ c.presence \in
       {"SUPPRESS_AMBIGUOUS_NODES", "SUPPRESS_UNRESOLVED_REGIONS", "EMIT_ALL"}
  /\ DOMAIN c.suppression \subseteq c.enabled
  /\ \A type \in DOMAIN c.suppression : c.suppression[type] \in 0..Scale

(* What the contracts and validate_tree leave of the trees that may come:  *)
(* the root alone has no parent, a node lists exactly those it is the      *)
(* parent of, each once, and parents never lead around a cycle.            *)
IsTree(tree, nodes) ==
  /\ tree.parent \in [nodes -> nodes \cup {NoNode}]
  /\ \A n \in nodes :
       /\ tree.parent[n] = NoNode <=> n = Root
       /\ tree.kids[n] \in Seq(nodes)
       /\ { tree.kids[n][i] : i \in DOMAIN tree.kids[n] } = { m \in nodes : tree.parent[m] = n }
       /\ \A i, j \in DOMAIN tree.kids[n] : tree.kids[n][i] = tree.kids[n][j] => i = j
       /\ tree.node[n].pid \in Ids \cup {NoValue}
  /\ \A S \in SUBSET nodes : S # {} => \E n \in S : tree.parent[n] \notin S

\* The bounds of contracts/profiles.py and contracts/commands.py, and
\* validate_profiles: rules react to enabled operations only.  References
\* and ids are totally ordered, and trees finite.
ASSUME EngineAssumption ==
  /\ Sources \subseteq Nat /\ Targets \subseteq Nat /\ Ids \subseteq Nat
  /\ IsFiniteSet(Sources) /\ IsFiniteSet(Targets)
  /\ Root \in Sources \cap Targets /\ NoNode \notin Sources \cup Targets
  /\ NoValue \notin Ids
  /\ AuthoritativeId \in BOOLEAN
  /\ MatchThreshold \in 0..Scale
  /\ ProbableThreshold \in 0..MatchThreshold
  /\ AmbiguityMargin \in 0..Scale
  /\ \A c \in Commands : IsCommand(c)
  /\ \A tree \in SourceTrees : IsTree(tree, Sources)
  /\ \A tree \in TargetTrees : IsTree(tree, Targets)

VARIABLES
  command, sourceTree, targetTree,
  stage,                      \* where reconcile() stands
  source, target, phase, pendingIds, candidates, rows, edges, confirmable,
  regions,                    \* AlignmentResult.regions
  operations,                 \* StructuralOperationSet.operations
  roots, ambiguousCause,      \* the causal graph: roots, an alternative or not
  effects, retained           \* SuppressionResult

matching == <<source, target, phase, pendingIds, candidates, rows, edges, confirmable>>
job == <<command, sourceTree, targetTree>>
report == <<regions, operations, roots, ambiguousCause, effects, retained>>
vars == <<job, stage, matching, report>>

Stages == {"limits", "matching", "match_update", "insert_delete", "move", "reorder",
           "root_cause", "suppression", "complete", "incomplete", "failed"}

-----------------------------------------------------------------------------
(* Trees. *)

Nodes(tree) == DOMAIN tree.parent

Children(tree, n) == { m \in Nodes(tree) : tree.parent[m] = n }

(* The nodes on the path from a node to the root: whatever holds its       *)
(* parent, and of each node it holds the parent, holds them.               *)
Ancestors(tree, n) ==
  { m \in Nodes(tree) :
      \A up \in SUBSET (Nodes(tree) \cup {NoNode}) :
        (tree.parent[n] \in up /\ \A k \in up \ {NoNode} : tree.parent[k] \in up) => m \in up }

Descendants(tree, n) == { m \in Nodes(tree) : n \in Ancestors(tree, m) }

(* extract(): what the matcher is told of a tree. *)
EvidenceOf(tree) ==
  [n \in Nodes(tree) |->
     [type  |-> tree.node[n].type,
      pid   |-> tree.node[n].pid,
      label |-> tree.node[n].label,
      text  |-> tree.node[n].text,
      kids  |-> [i \in DOMAIN tree.kids[n] |-> tree.node[tree.kids[n][i]].type]]]

Content(n) == <<n.label, n.text>>

Matching == INSTANCE Matcher WITH
  SourceInputs <- { EvidenceOf(tree) : tree \in SourceTrees },
  TargetInputs <- { EvidenceOf(tree) : tree \in TargetTrees }

(* The match graph. *)
Confirmed == Matching!Confirmed
Ambiguous == Matching!InState("AMBIGUOUS")

Confidence(s, t) ==
  (CHOOSE c \in Matching!InState("CONFIRMED") : c.source = s /\ c.target = t).confidence

-----------------------------------------------------------------------------
(* Alignment.  A region is the alignment of the children of two            *)
(* corresponding parents.                                                  *)

(* Mutant of ParentPairs: the children of a moved node are not aligned. *)
MutantParentPairs ==
  {<<Root, Root>>} \cup
  { p \in Confirmed : <<sourceTree.parent[p[1]], targetTree.parent[p[2]]>> \in
                         Confirmed \cup {<<Root, Root>>} }

(* The roots, and every confirmed pair. *)
ParentPairs == {<<Root, Root>>} \cup Confirmed

(* Mutants of AmbiguousSources and AmbiguousTargets: any candidate settles. *)
MutantAmbiguousSources == { c.source : c \in Ambiguous } \ { c.source : c \in candidates }
MutantAmbiguousTargets == { c.target : c \in Ambiguous } \ { c.target : c \in candidates }

(* _ambiguous_index: a confirmed match settles a node. *)
AmbiguousSources == { c.source : c \in Ambiguous } \ { p[1] : p \in Confirmed }
AmbiguousTargets == { c.target : c \in Ambiguous } \ { p[2] : p \in Confirmed }

Aligned(sp, tp) ==
  { p \in Confirmed : p[1] \in Children(sourceTree, sp) /\ p[2] \in Children(targetTree, tp) }

(* Mutant of IsOrdered: the profile's order semantics is not looked up. *)
MutantIsOrdered(sp) == sp \in Sources

IsOrdered(sp) == sourceTree.node[sp].type \notin command.unordered

(* Mutant of TargetsInTargetOrder: unmatched children are not left out. *)
MutantTargetsInTargetOrder(sp, tp) == targetTree.kids[tp]

(* The matched targets, as the source's children order them and as their   *)
(* own parent does.                                                        *)
TargetsInSourceOrder(sp, tp) ==
  LET matched == Filter(sourceTree.kids[sp], { p[1] : p \in Aligned(sp, tp) })
  IN  [i \in DOMAIN matched |-> (CHOOSE p \in Aligned(sp, tp) : p[1] = matched[i])[2]]

TargetsInTargetOrder(sp, tp) ==
  Filter(targetTree.kids[tp], { p[2] : p \in Aligned(sp, tp) })

OrderChanged(sp, tp) ==
  /\ IsOrdered(sp)
  /\ Cardinality(Aligned(sp, tp)) >= 2
  /\ TargetsInSourceOrder(sp, tp) # TargetsInTargetOrder(sp, tp)

Region(sp, tp) ==
  LET leftSources == Children(sourceTree, sp) \ { p[1] : p \in Aligned(sp, tp) }
      leftTargets == Children(targetTree, tp) \ { p[2] : p \in Aligned(sp, tp) }
  IN  [parents          |-> <<sp, tp>>,
       aligned          |-> Aligned(sp, tp),
       sourceOnly       |-> leftSources \ AmbiguousSources,
       unresolvedSource |-> leftSources \cap AmbiguousSources,
       targetOnly       |-> leftTargets \ AmbiguousTargets,
       unresolvedTarget |-> leftTargets \cap AmbiguousTargets,
       ordered          |-> IsOrdered(sp),
       orderChanged     |-> OrderChanged(sp, tp)]

Unresolved(region) == region.unresolvedSource # {} \/ region.unresolvedTarget # {}

-----------------------------------------------------------------------------
(* Classification. *)

(* An operation, where it was found: the parents of its region, for a move *)
(* its prior and its new parent.  operation_id is its type and its nodes,  *)
(* for a reorder the source parent.                                        *)
Operation(type, ss, ts, confidence, at) ==
  [type |-> type, sources |-> ss, targets |-> ts, confidence |-> confidence, at |-> at]

Enabled(type) == type \in command.enabled

(* Mutant of PairType: only labels are compared. *)
MutantPairType(p) ==
  IF sourceTree.node[p[1]].label # targetTree.node[p[2]].label THEN "UPDATE" ELSE "MATCH"

PairType(p) ==
  IF Content(sourceTree.node[p[1]]) # Content(targetTree.node[p[2]]) THEN "UPDATE" ELSE "MATCH"

MatchUpdates ==
  UNION { { Operation(PairType(p), {p[1]}, {p[2]}, Confidence(p[1], p[2]), r.parents)
              : p \in { q \in r.aligned : Enabled(PairType(q)) } }
          : r \in regions }

(* Mutant of ParentsCorrespond: confirmed parents are not looked up. *)
MutantParentsCorrespond(sp, tp) == sp = Root /\ tp = Root

(* parents_correspond: the two roots, or a confirmed pair. *)
ParentsCorrespond(sp, tp) == (sp = Root /\ tp = Root) \/ <<sp, tp>> \in Confirmed

(* Mutant of CrossParent: a missing parent is not looked for. *)
MutantCrossParent(p) == ~ParentsCorrespond(sourceTree.parent[p[1]], targetTree.parent[p[2]])

CrossParent(p) ==
  LET sp == sourceTree.parent[p[1]]
      tp == targetTree.parent[p[2]]
  IN  sp # NoNode /\ tp # NoNode /\ ~ParentsCorrespond(sp, tp)

MovePairs == { p \in Confirmed : CrossParent(p) /\ Confidence(p[1], p[2]) >= command.moveThreshold }

(* Mutant of MovedSources: the move threshold is not applied. *)
MutantMovedSources == { p[1] : p \in { q \in Confirmed : CrossParent(q) } }

MovedSources == { p[1] : p \in MovePairs }
MovedTargets == { p[2] : p \in MovePairs }

(* presence_suppressed_region and presence_suppressed_pair. *)
WithheldRegion(r) == command.presence = "SUPPRESS_UNRESOLVED_REGIONS" /\ Unresolved(r)

(* Mutant of WithheldSource: the policy is not looked up. *)
MutantWithheldSource(r, s) == s \in r.unresolvedSource

WithheldSource(r, s) ==
  command.presence # "EMIT_ALL" /\ (s \in r.unresolvedSource \/ s \in AmbiguousSources)
WithheldTarget(r, t) ==
  command.presence # "EMIT_ALL" /\ (t \in r.unresolvedTarget \/ t \in AmbiguousTargets)

(* Mutant of AbsentSources: moved nodes are not left to the move classifier. *)
MutantAbsentSources(r) ==
  { s \in r.sourceOnly \cup r.unresolvedSource : ~WithheldSource(r, s) }

AbsentSources(r) ==
  { s \in (r.sourceOnly \cup r.unresolvedSource) \ MovedSources : ~WithheldSource(r, s) }
AbsentTargets(r) ==
  { t \in (r.targetOnly \cup r.unresolvedTarget) \ MovedTargets : ~WithheldTarget(r, t) }

Presences ==
  UNION { (IF Enabled("DELETE")
           THEN { Operation("DELETE", {s}, {}, Scale, r.parents)
                    : s \in AbsentSources(r) }
           ELSE {})
          \cup
          (IF Enabled("INSERT")
           THEN { Operation("INSERT", {}, {t}, Scale, r.parents)
                    : t \in AbsentTargets(r) }
           ELSE {})
          : r \in { q \in regions : ~WithheldRegion(q) } }

(* The prior and the new parent of a move, in the target tree's terms.     *)
FromParent(p) ==
  LET prior == { t \in Targets : <<sourceTree.parent[p[1]], t>> \in Confirmed }
  IN  IF prior = {} THEN NoNode ELSE CHOOSE t \in prior : TRUE

ToParent(p) == targetTree.parent[p[2]]

Moves ==
  IF Enabled("MOVE")
  THEN { Operation("MOVE", {p[1]}, {p[2]}, Confidence(p[1], p[2]),
                   <<FromParent(p), ToParent(p)>>) : p \in MovePairs }
  ELSE {}

Reorders ==
  IF Enabled("REORDER")
  THEN { Operation("REORDER", { p[1] : p \in r.aligned }, { p[2] : p \in r.aligned },
                   Scale, r.parents)
           : r \in { q \in regions : q.ordered /\ q.orderChanged } }
  ELSE {}

-----------------------------------------------------------------------------
(* Suppression. *)

(* The rule for its type fires: only a root that is certain enough hides   *)
(* what it causes.                                                         *)
Suppresses(op) ==
  op.type \in DOMAIN command.suppression /\ op.confidence >= command.suppression[op.type]

(* The targets of the regions an operation touches. *)
TouchedBy(op, r) ==
  CASE op.type = "INSERT"  -> op.targets \subseteq
         { p[2] : p \in r.aligned } \cup r.targetOnly \cup r.unresolvedTarget
    [] op.type = "DELETE"  -> op.sources \subseteq
         { p[1] : p \in r.aligned } \cup r.sourceOnly \cup r.unresolvedSource
    [] op.type = "REORDER" ->
         r.parents[1] \in op.sources \/ \E p \in r.aligned : p[1] \in op.sources
    [] OTHER -> FALSE

DownstreamSiblings(op) ==
  UNION { { p[2] : p \in r.aligned } : r \in { q \in regions : TouchedBy(op, q) } }

Affected(op) ==
  IF op.type = "MOVE"
  THEN UNION { Descendants(sourceTree, s) : s \in op.sources }
  ELSE DownstreamSiblings(op)

(* find_independent_defects: content changes inside a moved subtree. *)
IndependentDefects(affected) ==
  UNION { op.sources \cap affected : op \in { o \in operations : o.type = "UPDATE" } }

Effects ==
  { [root |-> op, affected |-> Affected(op)]
      : op \in { o \in operations : Suppresses(o) /\ Affected(o) # {} } }

-----------------------------------------------------------------------------
Init ==
  /\ command \in Commands
  /\ sourceTree \in SourceTrees /\ targetTree \in TargetTrees
  /\ stage = "limits"
  /\ source = EvidenceOf(sourceTree) /\ target = EvidenceOf(targetTree)
  /\ phase = "ids"
  /\ pendingIds = Matching!SharedUniqueIds(source, target)
  /\ candidates = {} /\ edges = {} /\ confirmable = {}
  /\ rows = [s \in Sources |-> {}]
  /\ regions = {} /\ operations = {}
  /\ roots = {} /\ ambiguousCause = FALSE
  /\ effects = {} /\ retained = {}

(* check_pre_limits: the nodes of both trees together, the depth of each   *)
(* (the root is at depth 1).                                               *)
TooMany == Cardinality(Nodes(sourceTree)) + Cardinality(Nodes(targetTree)) > command.nodeLimit

TooDeep(tree) == \E n \in Nodes(tree) : Cardinality(Ancestors(tree, n)) >= command.depthLimit

TooLarge == TooMany \/ TooDeep(sourceTree) \/ TooDeep(targetTree)

Refuse ==
  /\ stage = "limits" /\ TooLarge /\ ~command.incomplete
  /\ stage' = "failed"
  /\ UNCHANGED <<job, matching, report>>

(* _incomplete_result: every stage's output is empty. *)
ReturnIncomplete ==
  /\ stage = "limits" /\ TooLarge /\ command.incomplete
  /\ stage' = "incomplete"
  /\ UNCHANGED <<job, matching, report>>

Accept ==
  /\ stage = "limits" /\ ~TooLarge
  /\ stage' = "matching"
  /\ UNCHANGED <<job, matching, report>>

Match ==
  /\ stage = "matching" /\ phase \notin {"returned", "raised"}
  /\ Matching!Next
  /\ UNCHANGED <<job, stage, report>>

(* A contract of the match graph raised: reconcile() does not catch it. *)
MatchRaised ==
  /\ stage = "matching" /\ phase = "raised"
  /\ stage' = "failed"
  /\ UNCHANGED <<job, matching, report>>

Align ==
  /\ stage = "matching" /\ phase = "returned"
  /\ regions' = { Region(p[1], p[2]) : p \in ParentPairs }
  /\ stage' = "match_update"
  /\ UNCHANGED <<job, matching, operations, roots, ambiguousCause, effects, retained>>

Classify(at, found, next) ==
  /\ stage = at
  /\ operations' = operations \cup found
  /\ stage' = next
  /\ UNCHANGED <<job, matching, regions, roots, ambiguousCause, effects, retained>>

ClassifyMatchUpdate  == Classify("match_update", MatchUpdates, "insert_delete")
ClassifyInsertDelete == Classify("insert_delete", Presences, "move")
ClassifyMove         == Classify("move", Moves, "reorder")
ClassifyReorder      == Classify("reorder", Reorders, "root_cause")

(* The roots of the explanation are the operations that change anything;   *)
(* an ambiguous match graph leaves an alternative open.                    *)
AnalyseRootCause ==
  /\ stage = "root_cause"
  /\ roots' = { op \in operations : op.type # "MATCH" }
  /\ ambiguousCause' = (Ambiguous # {})
  /\ stage' = "suppression"
  /\ UNCHANGED <<job, matching, regions, operations, effects, retained>>

Suppress ==
  /\ stage = "suppression"
  /\ effects' = Effects
  /\ retained' = UNION { IndependentDefects(e.affected)
                           : e \in { f \in Effects : f.root.type = "MOVE" } }
  /\ stage' = "complete"
  /\ UNCHANGED <<job, matching, regions, operations, roots, ambiguousCause>>

(* reconcile() has returned or raised. *)
Ended ==
  /\ stage \in {"complete", "incomplete", "failed"}
  /\ UNCHANGED vars

Next ==
  \/ Refuse \/ ReturnIncomplete \/ Accept
  \/ Match \/ MatchRaised
  \/ Align
  \/ ClassifyMatchUpdate \/ ClassifyInsertDelete \/ ClassifyMove \/ ClassifyReorder
  \/ AnalyseRootCause
  \/ Suppress
  \/ Ended

Spec == Init /\ [][Next]_vars

-----------------------------------------------------------------------------
(* Properties. *)

OperationSet ==
  [type : OperationTypes, sources : SUBSET Sources, targets : SUBSET Targets,
   confidence : 0..Scale, at : (Sources \cup Targets \cup {NoNode}) \X Targets]

RegionSet ==
  [parents : Sources \X Targets, aligned : SUBSET (Sources \X Targets),
   sourceOnly : SUBSET Sources, unresolvedSource : SUBSET Sources,
   targetOnly : SUBSET Targets, unresolvedTarget : SUBSET Targets,
   ordered : BOOLEAN, orderChanged : BOOLEAN]

TypeOK ==
  /\ IsCommand(command)
  /\ Nodes(sourceTree) = Sources /\ Nodes(targetTree) = Targets
  /\ phase \in Matching!Phases
  /\ stage \in Stages
  /\ regions \subseteq RegionSet
  /\ operations \subseteq OperationSet
  /\ roots \subseteq operations /\ ambiguousCause \in BOOLEAN
  /\ effects \subseteq [root : operations, affected : SUBSET (Sources \cup Targets)]
  /\ retained \subseteq Sources

Complete == stage = "complete"

OfType(types) == { op \in operations : op.type \in types }

(* What the report says of the identity of a node. *)
SourceVerdicts(s) == { op \in OfType({"MATCH", "UPDATE", "MOVE", "DELETE"}) : s \in op.sources }
TargetVerdicts(t) == { op \in OfType({"MATCH", "UPDATE", "MOVE", "INSERT"}) : t \in op.targets }

(* A node is aligned, moved, deleted or inserted, and only one of these    *)
(* once (contracts/alignment.py: SOURCE_ONLY means no viable target): the  *)
(* four classifiers and the regions they walk, each written on its own,    *)
(* never report it twice.                                                  *)
OneVerdict ==
  Complete =>
    /\ \A s \in Sources : Cardinality(SourceVerdicts(s)) <= 1
    /\ \A t \in Targets : Cardinality(TargetVerdicts(t)) <= 1

HasRegion(sp, tp) == <<sp, tp>> \in ParentPairs

(* Ambiguous, and left out of the report for it. *)
Withheld(n, ambiguous) == command.presence # "EMIT_ALL" /\ n \in ambiguous

(* Nothing falls between the classifiers: a child of a node that has a     *)
(* counterpart is reported or, unless the profile asks for everything      *)
(* (EMIT_ALL), withheld as ambiguous.  The children of an absent node are  *)
(* covered by the operation on that node.                                  *)
NothingLost ==
  (Complete /\ command.enabled = OperationTypes
            /\ command.presence # "SUPPRESS_UNRESOLVED_REGIONS") =>
    /\ \A sp \in Sources, tp \in Targets : HasRegion(sp, tp) =>
         /\ \A s \in Children(sourceTree, sp) :
              SourceVerdicts(s) # {} \/ Withheld(s, AmbiguousSources)
         /\ \A t \in Children(targetTree, tp) :
              TargetVerdicts(t) # {} \/ Withheld(t, AmbiguousTargets)

(* REQ-058: a presence operation says that the node has no counterpart.    *)
(* Unless the profile asks for everything, it is never said of a node with *)
(* an ambiguous candidate, nor of one whose confirmed counterpart is under *)
(* the corresponding parent or sure enough to be a move.                   *)
Accounted(p) == CrossParent(p) => Confidence(p[1], p[2]) >= command.moveThreshold

AbsentMeansUnmatched ==
  \A op \in OfType({"DELETE", "INSERT"}) :
    /\ \A p \in Confirmed : Accounted(p) => p[1] \notin op.sources /\ p[2] \notin op.targets
    /\ command.presence # "EMIT_ALL" =>
         \A c \in Ambiguous : c.source \notin op.sources /\ c.target \notin op.targets

(* Position of a child among its siblings. *)
Position(tree, n) ==
  LET kids == tree.kids[tree.parent[n]] IN CHOOSE i \in DOMAIN kids : kids[i] = n

Inverted(p, q) ==
  /\ Position(sourceTree, p[1]) < Position(sourceTree, q[1])
  /\ Position(targetTree, p[2]) > Position(targetTree, q[2])

(* AC-006, AC-007: a reorder is reported for exactly the ordered regions   *)
(* in which two matched siblings swapped; insertions, deletions and moves  *)
(* around them, which shift positions, do not count.                       *)
ReorderMeansInversion ==
  (Complete /\ Enabled("REORDER")) =>
    \A r \in regions :
      (\E op \in OfType({"REORDER"}) : op.at = r.parents)
        <=> /\ sourceTree.node[r.parents[1]].type \notin command.unordered
            /\ \E p, q \in r.aligned : Inverted(p, q)

(* A tree compared with itself: whatever it repeats, no node is taken for  *)
(* another, nothing is absent, changed or reordered.  The one operation    *)
(* the report may hold is the move of a node whose parent is ambiguous.    *)
SelfComparison ==
  (Complete /\ sourceTree = targetTree /\ command.presence # "EMIT_ALL") =>
    /\ \A p \in Confirmed : p[1] = p[2]
    /\ \A op \in operations : op.type # "MATCH" =>
         /\ op.type = "MOVE"
         /\ \A s \in op.sources : sourceTree.parent[s] \in AmbiguousSources

(* AC-001: a tree compared with itself has no structural operation other   *)
(* than matches.                                                           *)
IdentityIsSilent ==
  (Complete /\ sourceTree = targetTree) => operations = OfType({"MATCH"})

(* And the other way round: when nothing is ambiguous and nothing but      *)
(* matches is reported, the trees have the same nodes below the root, with *)
(* the same content, under the same parents and in the same order.         *)
SilenceMeansIdentity ==
  (Complete /\ command.enabled = OperationTypes /\ Ambiguous = {}
            /\ operations = OfType({"MATCH"})) =>
    /\ \A s \in Sources \ {Root} : \E p \in Confirmed :
         /\ p[1] = s /\ ~CrossParent(p)
         /\ Content(sourceTree.node[s]) = Content(targetTree.node[p[2]])
    /\ \A t \in Targets \ {Root} : \E p \in Confirmed : p[2] = t
    /\ \A r \in regions : r.ordered => ~\E p, q \in r.aligned : Inverted(p, q)

(* REQ-263: every move names two different parents, although its prior     *)
(* parent is found by the counterpart of the source's and its new one in   *)
(* the target tree.                                                        *)
MovesChangeParent == \A op \in OfType({"MOVE"}) : op.at[1] # op.at[2]

(* AC-014: the positions of a moved subtree are explained by the move, the *)
(* content that changed inside it is not.  Such a defect is in the report  *)
(* and on the retained list, though the effect lists its node.             *)
MovedDefectsKept ==
  Complete =>
    \A e \in effects : e.root.type = "MOVE" =>
      \A p \in Confirmed :
        (/\ p[1] \in e.affected /\ ~CrossParent(p) /\ Enabled("UPDATE")
         /\ Content(sourceTree.node[p[1]]) # Content(targetTree.node[p[2]]))
        => p[1] \in retained

(* AC-008: content that changed while identity was preserved is reported   *)
(* as an update, wherever the node went; moves below their threshold are   *)
(* a deletion and an insertion by REQ-071 and not meant here.              *)
ContentChangeReported ==
  Complete =>
    \A p \in Confirmed :
      (/\ sourceTree.parent[p[1]] # NoNode /\ Accounted(p)
       /\ Content(sourceTree.node[p[1]]) # Content(targetTree.node[p[2]]))
      => \E op \in OfType({"UPDATE"}) : op.sources = {p[1]} /\ op.targets = {p[2]}
=============================================================================

---------------------------- MODULE EngineProofs ----------------------------
(***************************************************************************)
(* What the stages of reconcile() guarantee together, for all trees that   *)
(* validate_tree admits and all profiles.  The matcher's part is what      *)
(* MatcherProofs establishes, instantiated with the evidence of the trees. *)
(***************************************************************************)
EXTENDS Engine, Inductions, FiniteSetTheorems

Graph == INSTANCE MatcherRefinement WITH
  SourceInputs <- { EvidenceOf(tree) : tree \in SourceTrees },
  TargetInputs <- { EvidenceOf(tree) : tree \in TargetTrees }

-----------------------------------------------------------------------------
(* The matcher inside the engine. *)

(* The engine's matcher is the one that MatcherProofs is about. *)
LEMMA SameMatcher ==
  /\ Matching!Next <=> Graph!Next
  /\ Matching!SharedUniqueIds(source, target) = Graph!SharedUniqueIds(source, target)
  /\ Graph!Scale = Scale
<1>1. Matching!Next <=> Graph!Next
  BY DEF Matching!Scale, Graph!Scale, Matching!Signature, Graph!Signature,
         Matching!HardViolation, Graph!HardViolation, Matching!SameId,
         Graph!SameId, Matching!SameLabel, Graph!SameLabel, Matching!Count,
         Graph!Count, Matching!Total, Graph!Total, Matching!Matched,
         Graph!Matched, Matching!Value, Graph!Value, Matching!HasEvidence,
         Graph!HasEvidence, Matching!Duplicated, Graph!Duplicated,
         Matching!UniqueIds, Graph!UniqueIds, Matching!vars, Graph!vars,
         Matching!inputs, Graph!inputs, Matching!Phases, Graph!Phases,
         Matching!Candidate, Graph!Candidate, Matching!InState,
         Graph!InState, Matching!Confirmed, Graph!Confirmed,
         Matching!MatchedSources, Graph!MatchedSources,
         Matching!MatchedTargets, Graph!MatchedTargets, Matching!Score,
         Graph!Score, Matching!Admissible, Graph!Admissible, Matching!Entry,
         Graph!Entry, Matching!Plausible, Graph!Plausible, Matching!RowOf,
         Graph!RowOf, Matching!Before, Graph!Before, Matching!IsFirst,
         Graph!IsFirst, Matching!IsTopPick, Graph!IsTopPick,
         Matching!HasRival, Graph!HasRival, Matching!NearBest,
         Graph!NearBest, Matching!SourceSideEdges, Graph!SourceSideEdges,
         Matching!Contends, Graph!Contends, Matching!LeadsContenders,
         Graph!LeadsContenders, Matching!IsClose, Graph!IsClose,
         Matching!TargetSideEdges, Graph!TargetSideEdges,
         Matching!AmbiguousEdges, Graph!AmbiguousEdges,
         Matching!AmbiguousSources, Graph!AmbiguousSources,
         Matching!AmbiguousTargets, Graph!AmbiguousTargets,
         Matching!Alternatives, Graph!Alternatives, Matching!Claim,
         Graph!Claim, Matching!TopPicks, Graph!TopPicks, Matching!ClaimsOf,
         Graph!ClaimsOf, Matching!Confirmable, Graph!Confirmable,
         Matching!Earlier, Graph!Earlier, Matching!SharedUniqueIds,
         Graph!SharedUniqueIds, Matching!NextIdPair, Graph!NextIdPair,
         Matching!RejectId, Graph!RejectId, Matching!ConfirmId,
         Graph!ConfirmId, Matching!RaiseId, Graph!RaiseId,
         Matching!ScoreRows, Graph!ScoreRows, Matching!EmitAmbiguous,
         Graph!EmitAmbiguous, Matching!RaiseAmbiguous, Graph!RaiseAmbiguous,
         Matching!NextEntry, Graph!NextEntry, Matching!Taken, Graph!Taken,
         Matching!SkipEntry, Graph!SkipEntry, Matching!ConfirmEntry,
         Graph!ConfirmEntry, Matching!RaiseEntry, Graph!RaiseEntry,
         Matching!OneToOne, Graph!OneToOne, Matching!BuildGraph,
         Graph!BuildGraph, Matching!Ended, Graph!Ended, Matching!Next,
         Graph!Next, Matching!Confirmed, Graph!Confirmed, Matching!InState,
         Graph!InState
<1>2. Matching!SharedUniqueIds(source, target) = Graph!SharedUniqueIds(source, target)
  BY DEF Matching!SharedUniqueIds, Graph!SharedUniqueIds, Matching!UniqueIds, Graph!UniqueIds,
         Matching!Duplicated, Graph!Duplicated
<1>3. Graph!Scale = Scale
  BY SMT DEF Graph!Scale, Scale
<1>4. QED BY <1>1, <1>2, <1>3

(* The trees of a job give the matcher the inputs that it assumes. *)
LEMMA EvidenceType ==
  /\ Sources \subseteq Nat /\ Targets \subseteq Nat /\ Ids \subseteq Nat
  /\ NoValue \notin Ids
  /\ AuthoritativeId \in BOOLEAN
  /\ MatchThreshold \in 0..Graph!Scale
  /\ ProbableThreshold \in 0..MatchThreshold
  /\ AmbiguityMargin \in 0..Graph!Scale
  /\ \A ev \in { EvidenceOf(tree) : tree \in SourceTrees } :
       DOMAIN ev = Sources /\ \A n \in Sources : ev[n].pid \in Ids \cup {NoValue}
  /\ \A ev \in { EvidenceOf(tree) : tree \in TargetTrees } :
       DOMAIN ev = Targets /\ \A n \in Targets : ev[n].pid \in Ids \cup {NoValue}
<1>1. ASSUME NEW nodes, NEW tree, IsTree(tree, nodes)
      PROVE  /\ DOMAIN EvidenceOf(tree) = nodes
             /\ \A n \in nodes : EvidenceOf(tree)[n].pid \in Ids \cup {NoValue}
  BY <1>1 DEF IsTree, EvidenceOf, Nodes
<1>2. QED BY <1>1, SameMatcher, EngineAssumption

(* The matcher's invariant holds when reconcile() starts. *)
LEMMA GraphInit == Init => Graph!IInv
<1> SUFFICES ASSUME Init PROVE Graph!IInv
  OBVIOUS
<1>1. Graph!Init
  BY SameMatcher DEF Init, Graph!Init
<1>2. QED BY <1>1, Graph!InitInv, EvidenceType, WeightAssumption, SMT

(* Every step of reconcile() is one of the matcher, or leaves it alone. *)
LEMMA GraphMoves == [Next]_vars => [Graph!Next]_(Graph!vars)
<1> SUFFICES ASSUME [Next]_vars PROVE [Graph!Next]_(Graph!vars)
  OBVIOUS
<1>1. CASE Match
  BY <1>1, SameMatcher DEF Match
<1>2. CASE UNCHANGED matching
  BY <1>2 DEF matching, Graph!vars
<1>3. QED
  BY <1>1, <1>2 DEF Next, vars, Refuse, ReturnIncomplete, Accept, MatchRaised, Align, Classify,
     ClassifyMatchUpdate, ClassifyInsertDelete, ClassifyMove, ClassifyReorder,
     AnalyseRootCause, Suppress, Ended

(* So every step keeps the matcher's invariant. *)
LEMMA GraphStep == Graph!IInv /\ [Next]_vars => Graph!IInv'
BY GraphMoves, Graph!StepInv, EvidenceType, WeightAssumption, SMT

(* What the later stages rely on: a node has at most one counterpart, the  *)
(* ambiguous nodes have none, and counterparts keep the hard constraint.   *)
GraphOK ==
  /\ Confirmed \subseteq Sources \X Targets
  /\ \A p, q \in Confirmed : (p[1] = q[1] \/ p[2] = q[2]) => p = q
  /\ \A c \in Ambiguous : /\ c.source \in Sources /\ c.target \in Targets
                          /\ \A p \in Confirmed : p[1] # c.source /\ p[2] # c.target
  /\ \A p \in Confirmed : HardNodeType => source[p[1]].type = target[p[2]].type
  /\ \A p \in Confirmed : Confidence(p[1], p[2]) \in 0..Scale

(* The matcher's invariant, read as the engine reads the match graph. *)
LEMMA GraphFacts == Graph!IInv => GraphOK
<1> SUFFICES ASSUME Graph!IInv PROVE GraphOK
  OBVIOUS
<1>1. /\ Graph!ConfirmedOneToOne /\ Graph!AmbiguousNeverConfirmed
      /\ \A p \in Graph!Confirmed : Graph!Admissible(p[1], p[2])
  BY Graph!InvOneToOne, Graph!InvDisjoint, Graph!InvAdmissible, EvidenceType, WeightAssumption, SMT
<1>2. /\ Confirmed = Graph!Confirmed
      /\ Ambiguous = Graph!InState("AMBIGUOUS")
      /\ Matching!InState("CONFIRMED") = Graph!InState("CONFIRMED")
  BY DEF Confirmed, Matching!Confirmed, Graph!Confirmed, Ambiguous, Matching!InState, Graph!InState
<1>3. \A c \in candidates : /\ c.source \in Sources /\ c.target \in Targets
                            /\ c.confidence \in 0..Scale
  BY SameMatcher DEF Graph!IInv, Graph!TypeOK
<1>4. Confirmed \subseteq Sources \X Targets
  BY <1>2, <1>3 DEF Graph!Confirmed, Graph!InState
<1>5. \A p, q \in Confirmed : (p[1] = q[1] \/ p[2] = q[2]) => p = q
  BY <1>1, <1>2 DEF Graph!ConfirmedOneToOne, Graph!OneToOne
<1>6. \A c \in Ambiguous : /\ c.source \in Sources /\ c.target \in Targets
                          /\ \A p \in Confirmed : p[1] # c.source /\ p[2] # c.target
  <2>1. \A c \in Ambiguous : c \in candidates
    BY DEF Ambiguous, Matching!InState
  <2>2. QED BY <1>1, <1>2, <1>3, <2>1
       DEF Graph!AmbiguousNeverConfirmed, Graph!MatchedSources, Graph!MatchedTargets
<1>7. \A p \in Confirmed : HardNodeType => source[p[1]].type = target[p[2]].type
  BY <1>1, <1>2 DEF Graph!Admissible, Graph!HardViolation
<1>8. ASSUME NEW p \in Confirmed PROVE Confidence(p[1], p[2]) \in 0..Scale
  <2>1. \E c \in Matching!InState("CONFIRMED") : c.source = p[1] /\ c.target = p[2]
    BY DEF Confirmed, Matching!Confirmed
  <2>2. PICK c \in Matching!InState("CONFIRMED") : Confidence(p[1], p[2]) = c.confidence
    BY <2>1 DEF Confidence
  <2>3. QED BY <1>3, <2>2 DEF Matching!InState
<1>9. QED BY <1>4, <1>5, <1>6, <1>7, <1>8 DEF GraphOK

-----------------------------------------------------------------------------
(* The inductive invariant.  Each conjunct says what one stage leaves      *)
(* behind for the stages after it.                                         *)

(* The job never changes. *)
JobInv ==
  /\ command \in Commands
  /\ sourceTree \in SourceTrees /\ targetTree \in TargetTrees
  /\ source = EvidenceOf(sourceTree) /\ target = EvidenceOf(targetTree)

Classifying == {"match_update", "insert_delete", "move", "reorder"}
Explaining  == {"root_cause", "suppression", "complete"}

(* There is one region for each two corresponding parents, and it shares   *)
(* out their children: aligned, or left on one side, the ambiguous ones    *)
(* apart.                                                                  *)
LeftSources(p) == Children(sourceTree, p[1]) \ { q[1] : q \in Aligned(p[1], p[2]) }
LeftTargets(p) == Children(targetTree, p[2]) \ { q[2] : q \in Aligned(p[1], p[2]) }

Describes(r, p) ==
  /\ r.parents = p
  /\ r.aligned = Aligned(p[1], p[2])
  /\ r.sourceOnly = LeftSources(p) \ AmbiguousSources
  /\ r.unresolvedSource = LeftSources(p) \cap AmbiguousSources
  /\ r.targetOnly = LeftTargets(p) \ AmbiguousTargets
  /\ r.unresolvedTarget = LeftTargets(p) \cap AmbiguousTargets
  /\ r.ordered = IsOrdered(p[1])
  /\ r.orderChanged = OrderChanged(p[1], p[2])

RegionInv ==
  /\ stage \notin Classifying \cup Explaining => regions = {}
  /\ regions \subseteq RegionSet
  /\ stage \in Classifying \cup Explaining =>
       /\ \A p \in ParentPairs : \E r \in regions : Describes(r, p)
       /\ \A r \in regions : \E p \in ParentPairs : Describes(r, p)

(* The operations are what the classifiers have found so far. *)
OperationInv ==
  /\ stage \notin Classifying \cup Explaining => operations = {}
  /\ operations \subseteq MatchUpdates \cup Presences \cup Moves \cup Reorders
  /\ stage \in {"insert_delete", "move", "reorder"} \cup Explaining => MatchUpdates \subseteq operations
  /\ stage \in {"move", "reorder"} \cup Explaining => Presences \subseteq operations
  /\ stage \in {"reorder"} \cup Explaining => Moves \subseteq operations
  /\ stage \in Explaining => Reorders \subseteq operations

(* What the explanation and the suppression say is about the operations,   *)
(* and a move never hides the root.                                        *)
EffectInv ==
  /\ roots \subseteq operations /\ ambiguousCause \in BOOLEAN
  /\ stage \in Stages
  /\ stage # "complete" => effects = {} /\ retained = {}
  /\ effects \subseteq [root : operations, affected : SUBSET (Sources \cup Targets)]
  /\ retained \subseteq Sources
  /\ \A e \in effects : e.root.type = "MOVE" =>
       Root \notin e.affected /\ IndependentDefects(e.affected) \subseteq retained

IInv == Graph!IInv /\ JobInv /\ RegionInv /\ OperationInv /\ EffectInv
-----------------------------------------------------------------------------
(* What the invariant says of trees, regions and operations. *)

(* The trees of a job are trees, and its command is one. *)
LEMMA JobFacts ==
  ASSUME JobInv
  PROVE  /\ IsTree(sourceTree, Sources) /\ IsTree(targetTree, Targets)
         /\ Nodes(sourceTree) = Sources /\ Nodes(targetTree) = Targets
         /\ IsCommand(command)
         /\ Root \in Sources /\ Root \in Targets /\ NoNode \notin Sources \cup Targets
BY EngineAssumption DEF JobInv, IsTree, Nodes

(* A child has a parent, and only the root has none. *)
LEMMA ParentFacts ==
  ASSUME JobInv
  PROVE  /\ \A s \in Sources : /\ sourceTree.parent[s] \in Sources \cup {NoNode}
                                /\ sourceTree.parent[s] = NoNode <=> s = Root
         /\ \A t \in Targets : /\ targetTree.parent[t] \in Targets \cup {NoNode}
                                /\ targetTree.parent[t] = NoNode <=> t = Root
         /\ \A n, s : s \in Children(sourceTree, n) <=> s \in Sources /\ sourceTree.parent[s] = n
         /\ \A n, t : t \in Children(targetTree, n) <=> t \in Targets /\ targetTree.parent[t] = n
<1>1. \A tree, nodes : IsTree(tree, nodes) =>
        \A n \in nodes : /\ tree.parent[n] \in nodes \cup {NoNode}
                         /\ tree.parent[n] = NoNode <=> n = Root
  BY DEF IsTree
<1>2. QED BY <1>1, JobFacts DEF Children

(* Corresponding parents are a source and a target. *)
LEMMA ParentPairsType ==
  ASSUME JobInv, GraphOK
  PROVE  ParentPairs \subseteq Sources \X Targets
BY JobFacts DEF ParentPairs, GraphOK

(* The aligner builds a region that describes its two parents. *)
LEMMA RegionFacts ==
  ASSUME JobInv, GraphOK, NEW p \in ParentPairs
  PROVE  Region(p[1], p[2]) \in RegionSet /\ Describes(Region(p[1], p[2]), p)
<1>1. p \in Sources \X Targets /\ p = <<p[1], p[2]>>
  BY ParentPairsType
<1>2. Aligned(p[1], p[2]) \in SUBSET (Sources \X Targets)
  BY DEF Aligned, GraphOK
<1>3. LeftSources(p) \subseteq Sources /\ LeftTargets(p) \subseteq Targets
  BY ParentFacts DEF LeftSources, LeftTargets
<1>4. IsOrdered(p[1]) \in BOOLEAN /\ OrderChanged(p[1], p[2]) \in BOOLEAN
  BY DEF IsOrdered, OrderChanged
<1>5. QED
  BY <1>1, <1>2, <1>3, <1>4 DEF Region, RegionSet, Describes, LeftSources, LeftTargets

(* Where a match or an update was found: a confirmed pair whose parents    *)
(* correspond.                                                             *)
Over(p) == <<sourceTree.parent[p[1]], targetTree.parent[p[2]]>>

IsAlignment(op, p) ==
  /\ p \in Confirmed /\ Over(p) \in ParentPairs /\ p[1] \in Sources /\ p[2] \in Targets
  /\ op = Operation(PairType(p), {p[1]}, {p[2]}, Confidence(p[1], p[2]), Over(p))

(* Every match and every update is one of these.                           *)
LEMMA AlignmentFacts ==
  ASSUME JobInv, GraphOK, RegionInv, NEW op \in MatchUpdates
  PROVE  \E p : IsAlignment(op, p)
<1>1. PICK r \in regions : \E p \in r.aligned :
        op = Operation(PairType(p), {p[1]}, {p[2]}, Confidence(p[1], p[2]), r.parents)
  BY DEF MatchUpdates
<1>2. PICK p \in r.aligned :
        op = Operation(PairType(p), {p[1]}, {p[2]}, Confidence(p[1], p[2]), r.parents)
  BY <1>1
<1>3. PICK q \in ParentPairs : Describes(r, q)
  BY <1>1 DEF RegionInv
<1>4. /\ p \in Confirmed /\ p[1] \in Sources /\ p[2] \in Targets
      /\ sourceTree.parent[p[1]] = q[1] /\ targetTree.parent[p[2]] = q[2]
  BY <1>3, ParentFacts DEF Describes, Aligned
<1>5. q = <<q[1], q[2]>>
  BY ParentPairsType
<1>6. QED BY <1>2, <1>3, <1>4, <1>5 DEF Describes, IsAlignment, Over

(* Where the absence of a node was found. *)
IsDeletion(op, s, q) ==
  /\ q \in ParentPairs /\ s \in LeftSources(q) \ MovedSources
  /\ s \in Sources /\ sourceTree.parent[s] = q[1]
  /\ command.presence # "EMIT_ALL" => s \notin AmbiguousSources
  /\ op = Operation("DELETE", {s}, {}, Scale, q)

IsInsertion(op, t, q) ==
  /\ q \in ParentPairs /\ t \in LeftTargets(q) \ MovedTargets
  /\ t \in Targets /\ targetTree.parent[t] = q[2]
  /\ command.presence # "EMIT_ALL" => t \notin AmbiguousTargets
  /\ op = Operation("INSERT", {}, {t}, Scale, q)

(* An absence is one of these two.                                         *)
LEMMA PresenceFacts ==
  ASSUME JobInv, RegionInv, NEW op \in Presences
  PROVE  \/ \E s, q : IsDeletion(op, s, q)
         \/ \E t, q : IsInsertion(op, t, q)
<1>1. PICK r \in regions :
        \/ \E s \in AbsentSources(r) : op = Operation("DELETE", {s}, {}, Scale, r.parents)
        \/ \E t \in AbsentTargets(r) : op = Operation("INSERT", {}, {t}, Scale, r.parents)
  BY DEF Presences
<1>2. PICK q \in ParentPairs : Describes(r, q)
  BY <1>1 DEF RegionInv
<1>3. ASSUME NEW s \in AbsentSources(r), op = Operation("DELETE", {s}, {}, Scale, r.parents)
      PROVE  IsDeletion(op, s, q)
  <2>1. s \in LeftSources(q) \ MovedSources
    BY <1>2 DEF AbsentSources, Describes
  <2>2. command.presence # "EMIT_ALL" => s \notin AmbiguousSources
    BY DEF AbsentSources, WithheldSource
  <2>3. s \in Sources /\ sourceTree.parent[s] = q[1]
    BY <2>1, ParentFacts DEF LeftSources
  <2>4. QED BY <1>2, <1>3, <2>1, <2>2, <2>3 DEF IsDeletion, Describes
<1>4. ASSUME NEW t \in AbsentTargets(r), op = Operation("INSERT", {}, {t}, Scale, r.parents)
      PROVE  IsInsertion(op, t, q)
  <2>1. t \in LeftTargets(q) \ MovedTargets
    BY <1>2 DEF AbsentTargets, Describes
  <2>2. command.presence # "EMIT_ALL" => t \notin AmbiguousTargets
    BY DEF AbsentTargets, WithheldTarget
  <2>3. t \in Targets /\ targetTree.parent[t] = q[2]
    BY <2>1, ParentFacts DEF LeftTargets
  <2>4. QED BY <1>2, <1>4, <2>1, <2>2, <2>3 DEF IsInsertion, Describes
<1>5. QED BY <1>1, <1>3, <1>4

(* A move is the move of a pair, between two parents that do not correspond. *)
IsMove(op, p) ==
  /\ p \in MovePairs /\ p \in Confirmed /\ CrossParent(p)
  /\ p[1] \in Sources /\ p[2] \in Targets
  /\ FromParent(p) \in Targets \cup {NoNode} /\ ToParent(p) \in Targets
  /\ op = Operation("MOVE", {p[1]}, {p[2]}, Confidence(p[1], p[2]), <<FromParent(p), ToParent(p)>>)

(* Every operation of the move classifier is one of these.                 *)
LEMMA MoveFacts ==
  ASSUME JobInv, GraphOK, NEW op \in Moves
  PROVE  \E p : IsMove(op, p)
<1>1. PICK p \in MovePairs :
        op = Operation("MOVE", {p[1]}, {p[2]}, Confidence(p[1], p[2]), <<FromParent(p), ToParent(p)>>)
  BY DEF Moves
<1>2. p \in Confirmed /\ CrossParent(p) /\ p[1] \in Sources /\ p[2] \in Targets
  BY <1>1 DEF MovePairs, GraphOK
<1>3. ToParent(p) \in Targets
  <2>1. targetTree.parent[p[2]] # NoNode
    BY <1>2 DEF CrossParent
  <2>2. \A t \in Targets : targetTree.parent[t] \in Targets \cup {NoNode}
    <3>1. TAKE t \in Targets
    <3>2. QED BY JobFacts DEF IsTree
  <2>3. targetTree.parent[p[2]] \in Targets \cup {NoNode}
    BY <1>2, <2>2
  <2>4. QED BY <2>1, <2>3 DEF ToParent
<1>4. FromParent(p) \in Targets \cup {NoNode}
  BY DEF FromParent
<1>5. QED BY <1>1, <1>2, <1>3, <1>4 DEF IsMove
-----------------------------------------------------------------------------
(* Type correctness of what the stages produce. *)

(* Every operation a classifier finds is an operation. *)
LEMMA OperationTypeHolds ==
  ASSUME JobInv, GraphOK, RegionInv
  PROVE  MatchUpdates \cup Presences \cup Moves \cup Reorders \subseteq OperationSet
<1>1. Scale \in 0..Scale
  BY Graph!MarginType, EvidenceType, WeightAssumption, SameMatcher, SMT
<1>2. ASSUME NEW op \in MatchUpdates PROVE op \in OperationSet
  <2>1. PICK p : IsAlignment(op, p)
    BY AlignmentFacts
  <2>2. /\ PairType(p) \in OperationTypes /\ Confidence(p[1], p[2]) \in 0..Scale
        /\ Over(p) \in Sources \X Targets
    BY <2>1, ParentPairsType DEF PairType, OperationTypes, GraphOK, IsAlignment
  <2>3. QED BY <2>1, <2>2 DEF IsAlignment, Operation, OperationSet
<1>3. ASSUME NEW op \in Presences PROVE op \in OperationSet
  <2>1. CASE \E s, q : IsDeletion(op, s, q)
    <3>1. PICK s, q : IsDeletion(op, s, q)
      BY <2>1
    <3>2. QED BY <1>1, <3>1, ParentPairsType DEF IsDeletion, Operation, OperationSet, OperationTypes
  <2>2. CASE \E t, q : IsInsertion(op, t, q)
    <3>1. PICK t, q : IsInsertion(op, t, q)
      BY <2>2
    <3>2. QED BY <1>1, <3>1, ParentPairsType DEF IsInsertion, Operation, OperationSet, OperationTypes
  <2>3. QED BY <2>1, <2>2, PresenceFacts
<1>4. ASSUME NEW op \in Moves PROVE op \in OperationSet
  <2>1. PICK p : IsMove(op, p)
    BY MoveFacts
  <2>2. Confidence(p[1], p[2]) \in 0..Scale
    BY <2>1 DEF IsMove, GraphOK
  <2>3. QED BY <2>1, <2>2 DEF IsMove, Operation, OperationSet, OperationTypes
<1>5. ASSUME NEW op \in Reorders PROVE op \in OperationSet
  <2>1. PICK r \in regions :
          op = Operation("REORDER", { p[1] : p \in r.aligned }, { p[2] : p \in r.aligned },
                         Scale, r.parents)
    BY DEF Reorders
  <2>2. r \in RegionSet
    BY DEF RegionInv
  <2>3. /\ { p[1] : p \in r.aligned } \subseteq Sources
        /\ { p[2] : p \in r.aligned } \subseteq Targets
        /\ r.parents \in Sources \X Targets
    BY <2>2 DEF RegionSet
  <2>4. QED BY <1>1, <2>1, <2>3 DEF Operation, OperationSet, OperationTypes
<1>6. QED BY <1>2, <1>3, <1>4, <1>5

(* A root is below no node, and an update inside the subtree of a move is  *)
(* the update of a source node.                                            *)
LEMMA EffectFacts ==
  ASSUME JobInv, GraphOK, RegionInv, OperationInv, NEW e \in Effects
  PROVE  /\ e \in [root : operations, affected : SUBSET (Sources \cup Targets)]
         /\ e.root.type = "MOVE" => Root \notin e.affected
         /\ IndependentDefects(e.affected) \subseteq Sources
<1>1. /\ e.root \in operations /\ e.affected = Affected(e.root)
      /\ e = [root |-> e.root, affected |-> e.affected]
  BY DEF Effects
<1>2. operations \subseteq OperationSet
  BY OperationTypeHolds DEF OperationInv
<1>3. \A s : Descendants(sourceTree, s) \subseteq Sources
  BY JobFacts DEF Descendants
<1>4. DownstreamSiblings(e.root) \subseteq Targets
  <2>1. \A r \in regions : r.aligned \subseteq Sources \X Targets
    BY DEF RegionInv, RegionSet
  <2>2. QED BY <2>1 DEF DownstreamSiblings
<1>5. e.affected \subseteq Sources \cup Targets
  BY <1>1, <1>3, <1>4 DEF Affected
<1>6. \A s : Root \notin Descendants(sourceTree, s)
  <2>1. sourceTree.parent[Root] = NoNode
    BY ParentFacts, JobFacts
  <2>2. Ancestors(sourceTree, Root) = {}
    <3>1. ASSUME NEW m \in Ancestors(sourceTree, Root) PROVE FALSE
      <4>1. m \in {NoNode}
        BY <2>1 DEF Ancestors
      <4>2. QED BY <4>1, JobFacts DEF Ancestors
    <3>2. QED BY <3>1
  <2>3. QED BY <2>2 DEF Descendants
<1>7. e.root.type = "MOVE" => Root \notin e.affected
  BY <1>1, <1>6 DEF Affected
<1>8. IndependentDefects(e.affected) \subseteq Sources
  BY <1>2 DEF IndependentDefects, OperationSet
<1>9. QED BY <1>1, <1>5, <1>7, <1>8
-----------------------------------------------------------------------------
(* The invariant is inductive. *)

(* TargetsInSourceOrder, of the children and the aligned pairs it reads.   *)
InSourceOrder(kids, aligned) ==
  LET matched == Filter(kids, { p[1] : p \in aligned })
  IN  [i \in DOMAIN matched |-> (CHOOSE p \in aligned : p[1] = matched[i])[2]]

(* What the stages read off the trees and the match graph changes with     *)
(* them only.                                                              *)
LEMMA Frame ==
  ASSUME UNCHANGED <<command, sourceTree, targetTree, candidates>>
  PROVE  /\ ParentPairs' = ParentPairs
         /\ \A r, p : Describes(r, p)' <=> Describes(r, p)
<1>1. Confirmed' = Confirmed /\ Ambiguous' = Ambiguous
  BY DEF Confirmed, Matching!Confirmed, Ambiguous, Matching!InState
<1>2. /\ ParentPairs' = ParentPairs
      /\ AmbiguousSources' = AmbiguousSources /\ AmbiguousTargets' = AmbiguousTargets
  BY <1>1 DEF ParentPairs, AmbiguousSources, AmbiguousTargets
<1>3. \A s, t : Aligned(s, t)' = Aligned(s, t)
  BY <1>1 DEF Aligned, Children, Nodes
<1>4. \A p : LeftSources(p)' = LeftSources(p) /\ LeftTargets(p)' = LeftTargets(p)
  BY <1>3 DEF LeftSources, LeftTargets, Children, Nodes
<1>5. \A a, b : IsOrdered(a)' = IsOrdered(a) /\ OrderChanged(a, b)' = OrderChanged(a, b)
  <2>1. ASSUME NEW a, NEW b PROVE IsOrdered(a)' = IsOrdered(a)
    BY DEF IsOrdered
  <2>2. ASSUME NEW a, NEW b PROVE TargetsInSourceOrder(a, b)' = TargetsInSourceOrder(a, b)
    <3>1. Aligned(a, b)' = Aligned(a, b) /\ sourceTree.kids[a]' = sourceTree.kids[a]
      BY <1>3
    <3>2. TargetsInSourceOrder(a, b) = InSourceOrder(sourceTree.kids[a], Aligned(a, b))
      BY Zenon DEF TargetsInSourceOrder, InSourceOrder
    <3>3. TargetsInSourceOrder(a, b)' = InSourceOrder(sourceTree.kids[a]', Aligned(a, b)')
      BY Zenon DEF TargetsInSourceOrder, InSourceOrder
    <3>4. QED BY <3>1, <3>2, <3>3
  <2>3. ASSUME NEW a, NEW b PROVE TargetsInTargetOrder(a, b)' = TargetsInTargetOrder(a, b)
    BY <1>3 DEF TargetsInTargetOrder
  <2>4. QED BY <1>3, <2>1, <2>2, <2>3 DEF OrderChanged
<1>6. QED BY <1>2, <1>3, <1>4, <1>5 DEF Describes

(* So does what the classifiers find, given the regions.                   *)
LEMMA FoundFrame ==
  ASSUME UNCHANGED <<command, sourceTree, targetTree, candidates, regions>>
  PROVE  /\ MatchUpdates' = MatchUpdates /\ Presences' = Presences
         /\ Moves' = Moves /\ Reorders' = Reorders
<1>1. Confirmed' = Confirmed /\ Ambiguous' = Ambiguous
  BY DEF Confirmed, Matching!Confirmed, Ambiguous, Matching!InState
<1>2. MatchUpdates' = MatchUpdates
  BY DEF MatchUpdates, Operation, PairType, Content, Confidence, Enabled, Matching!InState
<1>3. MovePairs' = MovePairs
  BY <1>1 DEF MovePairs, CrossParent, ParentsCorrespond, Confidence, Matching!InState
<1>4. Moves' = Moves
  BY <1>1, <1>3
     DEF Moves, Operation, FromParent, ToParent, Confidence, Enabled, Matching!InState
<1>5. /\ \A r : AbsentSources(r)' = AbsentSources(r)
      /\ \A r : AbsentTargets(r)' = AbsentTargets(r)
      /\ \A r : WithheldRegion(r)' <=> WithheldRegion(r)
  BY <1>1, <1>3
     DEF AbsentSources, AbsentTargets, MovedSources, MovedTargets, WithheldSource, WithheldTarget,
         AmbiguousSources, AmbiguousTargets, WithheldRegion, Unresolved
<1>6. Presences' = Presences
  BY <1>5 DEF Presences, Operation, Enabled
<1>7. Reorders' = Reorders
  BY DEF Reorders, Operation, Enabled
<1>8. QED BY <1>2, <1>4, <1>6, <1>7

(* The stages that classify and explain find the job and the match graph   *)
(* as the aligner did.                                                     *)
LEMMA JobStep == Graph!IInv /\ JobInv /\ [Next]_vars => JobInv'
<1> SUFFICES ASSUME JobInv, [Next]_vars PROVE JobInv'
  OBVIOUS
<1>1. UNCHANGED job
  BY DEF Next, vars, Refuse, ReturnIncomplete, Accept, Match, MatchRaised, Align, Classify,
         ClassifyMatchUpdate, ClassifyInsertDelete, ClassifyMove, ClassifyReorder,
         AnalyseRootCause, Suppress, Ended
<1>2. UNCHANGED <<source, target>>
  <2>1. CASE Match
    BY <2>1 DEF Match, Matching!Next, Matching!RejectId, Matching!ConfirmId, Matching!RaiseId,
       Matching!ScoreRows, Matching!EmitAmbiguous, Matching!RaiseAmbiguous, Matching!SkipEntry,
       Matching!ConfirmEntry, Matching!RaiseEntry, Matching!BuildGraph, Matching!Ended,
       Matching!inputs, Matching!vars
  <2>2. CASE UNCHANGED matching
    BY <2>2 DEF matching
  <2>3. QED
    BY <2>1, <2>2 DEF Next, vars, Refuse, ReturnIncomplete, Accept, MatchRaised, Align, Classify,
       ClassifyMatchUpdate, ClassifyInsertDelete, ClassifyMove, ClassifyReorder,
       AnalyseRootCause, Suppress, Ended
<1>3. QED BY <1>1, <1>2 DEF JobInv, job, EvidenceOf, Nodes

(* The stages before the aligner leave the report empty; those after it    *)
(* keep the job and the match graph that it was drawn up from.             *)
Early == /\ \/ stage = "limits" /\ stage' \in {"failed", "incomplete", "matching"}
            \/ stage = "matching" /\ stage' \in {"matching", "failed"}
         /\ UNCHANGED report

Later == /\ stage \in Classifying \cup Explaining /\ stage' \in Classifying \cup Explaining
         /\ UNCHANGED <<command, sourceTree, targetTree, candidates, regions>>

(* Every step is of one of these kinds.                                    *)
LEMMA StepCases ==
  ASSUME [Next]_vars
  PROVE  Early \/ Align \/ Later \/ UNCHANGED vars
<1>1. CASE Refuse \/ ReturnIncomplete \/ Accept \/ Match \/ MatchRaised
  BY <1>1 DEF Refuse, ReturnIncomplete, Accept, Match, MatchRaised, Early
<1>2. CASE ClassifyMatchUpdate \/ ClassifyInsertDelete \/ ClassifyMove \/ ClassifyReorder
  BY <1>2 DEF ClassifyMatchUpdate, ClassifyInsertDelete, ClassifyMove, ClassifyReorder, Classify,
     Later, Classifying, Explaining, job, matching
<1>3. CASE AnalyseRootCause \/ Suppress
  BY <1>3 DEF AnalyseRootCause, Suppress, Later, Classifying, Explaining, job, matching
<1>4. QED BY <1>1, <1>2, <1>3 DEF Next, Ended

(* The aligner establishes the regions, and no other stage touches them.   *)
LEMMA RegionStep ==
  ASSUME GraphOK, JobInv, RegionInv, [Next]_vars
  PROVE  RegionInv'
<1>1. CASE Early
  BY <1>1 DEF Early, RegionInv, Classifying, Explaining, report
<1>2. CASE Align
  <2>1. /\ UNCHANGED <<command, sourceTree, targetTree, candidates>>
        /\ regions' = { Region(p[1], p[2]) : p \in ParentPairs }
        /\ stage' = "match_update"
    BY <1>2 DEF Align, job, matching
  <2>2. regions' \subseteq RegionSet
    BY <2>1, RegionFacts
  <2>3. \A p \in ParentPairs' : \E r \in regions' : Describes(r, p)'
    BY <2>1, RegionFacts, Frame
  <2>4. \A r \in regions' : \E p \in ParentPairs' : Describes(r, p)'
    BY <2>1, RegionFacts, Frame
  <2>5. QED BY <2>1, <2>2, <2>3, <2>4 DEF RegionInv, Classifying, RegionSet
<1>3. CASE Later
  BY <1>3, Frame DEF Later, RegionInv, RegionSet
<1>4. CASE UNCHANGED vars
  BY <1>4, Frame DEF vars, job, matching, report, RegionInv, RegionSet
<1>5. QED BY <1>1, <1>2, <1>3, <1>4, StepCases

(* Each classifier adds what it finds, and all of it.                      *)
LEMMA OperationStep ==
  ASSUME OperationInv, [Next]_vars
  PROVE  OperationInv'
<1>1. CASE Early \/ Align
  BY <1>1 DEF Early, Align, OperationInv, Classifying, Explaining, report
<1>2. CASE Later
  <2>1. /\ MatchUpdates' = MatchUpdates /\ Presences' = Presences
        /\ Moves' = Moves /\ Reorders' = Reorders
    BY <1>2, FoundFrame DEF Later
  <2>2. CASE ClassifyMatchUpdate
    BY <2>1, <2>2 DEF ClassifyMatchUpdate, Classify, OperationInv, Classifying, Explaining
  <2>3. CASE ClassifyInsertDelete
    BY <2>1, <2>3 DEF ClassifyInsertDelete, Classify, OperationInv, Classifying, Explaining
  <2>4. CASE ClassifyMove
    BY <2>1, <2>4 DEF ClassifyMove, Classify, OperationInv, Classifying, Explaining
  <2>5. CASE ClassifyReorder
    BY <2>1, <2>5 DEF ClassifyReorder, Classify, OperationInv, Classifying, Explaining
  <2>6. CASE AnalyseRootCause \/ Suppress
    BY <2>1, <2>6 DEF AnalyseRootCause, Suppress, OperationInv, Classifying, Explaining
  <2>7. CASE UNCHANGED vars
    BY <2>1, <2>7 DEF vars, report, OperationInv, Classifying, Explaining
  <2>8. QED
    BY <1>2, <2>2, <2>3, <2>4, <2>5, <2>6, <2>7
       DEF Next, Ended, Later, Refuse, ReturnIncomplete, Accept, Match, MatchRaised, Align,
           Classifying, Explaining
<1>3. CASE UNCHANGED vars
  <2>1. UNCHANGED <<command, sourceTree, targetTree, candidates, regions, stage, operations>>
    BY <1>3 DEF vars, job, matching, report
  <2>2. QED BY <2>1, FoundFrame DEF OperationInv
<1>4. QED BY <1>1, <1>2, <1>3, StepCases

(* Suppression looks at the operations once they are complete.             *)
LEMMA EffectStep ==
  ASSUME GraphOK, JobInv, RegionInv, OperationInv, EffectInv, [Next]_vars
  PROVE  EffectInv'
<1>1. CASE Early \/ Align
  BY <1>1 DEF Early, Align, EffectInv, report, Stages
<1>2. CASE \E at, found, next : stage # "complete" /\ next \in Stages \ {"complete"} /\ Classify(at, found, next)
  BY <1>2 DEF Classify, EffectInv
<1>3. CASE AnalyseRootCause
  BY <1>3 DEF AnalyseRootCause, EffectInv, Stages
<1>4. CASE Suppress
  <2>1. /\ stage' = "complete" /\ effects' = Effects
        /\ retained' = UNION { IndependentDefects(e.affected) : e \in { f \in Effects : f.root.type = "MOVE" } }
        /\ UNCHANGED <<operations, roots, ambiguousCause>>
    BY <1>4 DEF Suppress
  <2>2. \A e \in Effects :
          /\ e \in [root : operations, affected : SUBSET (Sources \cup Targets)]
          /\ e.root.type = "MOVE" => Root \notin e.affected
          /\ IndependentDefects(e.affected) \subseteq Sources
    BY EffectFacts
  <2>3. \A x : IndependentDefects(x)' = IndependentDefects(x)
    BY <2>1 DEF IndependentDefects
  <2>4. \A e \in effects' : e.root.type = "MOVE" =>
          Root \notin e.affected /\ IndependentDefects(e.affected)' \subseteq retained'
    BY <2>1, <2>2, <2>3
  <2>5. /\ effects' \subseteq [root : operations', affected : SUBSET (Sources \cup Targets)]
        /\ retained' \subseteq Sources
    BY <2>1, <2>2
  <2>6. QED BY <2>1, <2>4, <2>5 DEF EffectInv, Stages
<1>5. CASE UNCHANGED vars
  <2>1. UNCHANGED <<stage, operations, roots, ambiguousCause, effects, retained>>
    BY <1>5 DEF vars, report
  <2>2. \A x : IndependentDefects(x)' = IndependentDefects(x)
    BY <2>1 DEF IndependentDefects
  <2>3. QED BY <2>1, <2>2 DEF EffectInv
<1>6. QED
  BY <1>1, <1>2, <1>3, <1>4, <1>5, StepCases
     DEF Later, Next, Ended, Early, ClassifyMatchUpdate, ClassifyInsertDelete, ClassifyMove,
         ClassifyReorder, Classify, Refuse, ReturnIncomplete, Accept, Match, MatchRaised, Stages,
         Classifying, Explaining, report

(* The invariant holds when reconcile() starts.                            *)
LEMMA InitInv == Init => IInv
<1> SUFFICES ASSUME Init PROVE IInv
  OBVIOUS
<1>1. Graph!IInv
  BY GraphInit
<1>2. JobInv
  BY DEF Init, JobInv
<1>3. RegionInv /\ OperationInv
  BY DEF Init, RegionInv, OperationInv, Classifying, Explaining
<1>4. EffectInv
  BY DEF Init, EffectInv, Stages
<1>5. QED BY <1>1, <1>2, <1>3, <1>4 DEF IInv

(* Every step keeps it.                                                    *)
LEMMA StepInv == IInv /\ [Next]_vars => IInv'
<1> SUFFICES ASSUME IInv, [Next]_vars PROVE IInv'
  OBVIOUS
<1>1. /\ Graph!IInv' /\ JobInv' /\ GraphOK
  BY GraphStep, JobStep, GraphFacts DEF IInv
<1>2. RegionInv' /\ OperationInv' /\ EffectInv'
  BY <1>1, RegionStep, OperationStep, EffectStep DEF IInv
<1>3. QED BY <1>1, <1>2 DEF IInv

(* Every state of reconcile() satisfies the invariant. *)
THEOREM Invariance == Spec => []IInv
BY InitInv, StepInv, PTL DEF Spec
-----------------------------------------------------------------------------
(* What it gives. *)

(* The types follow from it.                                               *)
LEMMA InvType == IInv => TypeOK
<1> SUFFICES ASSUME IInv PROVE TypeOK
  OBVIOUS
<1>1. GraphOK
  BY GraphFacts DEF IInv
<1>2. phase \in Matching!Phases
  BY DEF IInv, Graph!IInv, Graph!TypeOK, Graph!Phases, Matching!Phases
<1>3. operations \subseteq OperationSet
  BY <1>1, OperationTypeHolds DEF IInv, OperationInv
<1>4. regions \subseteq RegionSet
  BY DEF IInv, RegionInv
<1>5. QED BY <1>2, <1>3, <1>4, JobFacts DEF IInv, EffectInv, TypeOK

(* Every variable of a run of reconcile() has its type: operations name    *)
(* nodes of the trees, and confidences stay on the scale.                  *)
THEOREM TypeCorrect == Spec => []TypeOK
BY Invariance, InvType, PTL

(* Which classifier an operation comes from. *)
LEMMA OperationSources ==
  ASSUME IInv, NEW op \in operations
  PROVE  /\ op.type \in {"MATCH", "UPDATE"} => op \in MatchUpdates
         /\ op.type \in {"DELETE", "INSERT"} => op \in Presences
         /\ op.type = "MOVE" => op \in Moves
         /\ op.type = "REORDER" => op \in Reorders
<1>1. op \in MatchUpdates \cup Presences \cup Moves \cup Reorders
  BY DEF IInv, OperationInv
<1>2. op \in MatchUpdates => op.type \in {"MATCH", "UPDATE"}
  BY DEF MatchUpdates, Operation, PairType
<1>3. op \in Presences => op.type \in {"DELETE", "INSERT"}
  BY DEF Presences, Operation
<1>4. op \in Moves => op.type = "MOVE"
  BY DEF Moves, Operation
<1>5. op \in Reorders => op.type = "REORDER"
  BY DEF Reorders, Operation
<1>6. QED BY <1>1, <1>2, <1>3, <1>4, <1>5

(* The prior and the new parent of a move cannot be a confirmed pair.      *)
LEMMA InvMoves == IInv => MovesChangeParent
<1> SUFFICES ASSUME IInv, NEW op \in operations, op.type = "MOVE"
             PROVE  op.at[1] # op.at[2]
  BY DEF MovesChangeParent, OfType
<1>1. GraphOK
  BY GraphFacts DEF IInv
<1>2. PICK p : IsMove(op, p)
  BY <1>1, OperationSources, MoveFacts DEF IInv
<1>3. op.at = <<FromParent(p), ToParent(p)>>
  BY <1>2 DEF IsMove, Operation
<1>4. ToParent(p) \in Targets /\ ToParent(p) # NoNode
  BY <1>2, JobFacts DEF IsMove, IInv
<1>5. FromParent(p) = ToParent(p) => <<sourceTree.parent[p[1]], ToParent(p)>> \in Confirmed
  <2> DEFINE prior == { t \in Targets : <<sourceTree.parent[p[1]], t>> \in Confirmed }
  <2>1. FromParent(p) # NoNode => FromParent(p) \in prior
    BY DEF FromParent
  <2>2. QED BY <2>1, <1>4
<1>6. <<sourceTree.parent[p[1]], ToParent(p)>> \notin Confirmed
  BY <1>2 DEF IsMove, CrossParent, ParentsCorrespond, ToParent
<1>7. QED BY <1>3, <1>5, <1>6

(* A move is reported between two different parents only.                  *)
THEOREM MovesChangeParentHolds == Spec => []MovesChangeParent
BY Invariance, InvMoves, PTL

(* What each classifier reports of a region that it does not withhold. *)
LEMMA AlignedFound ==
  ASSUME NEW r \in regions, NEW p \in r.aligned, Enabled(PairType(p))
  PROVE  Operation(PairType(p), {p[1]}, {p[2]}, Confidence(p[1], p[2]), r.parents) \in MatchUpdates
<1> DEFINE Found(x) ==
      { Operation(PairType(q), {q[1]}, {q[2]}, Confidence(q[1], q[2]), x.parents)
          : q \in { y \in x.aligned : Enabled(PairType(y)) } }
<1>1. MatchUpdates = UNION { Found(x) : x \in regions }
  BY DEF MatchUpdates
<1>2. Operation(PairType(p), {p[1]}, {p[2]}, Confidence(p[1], p[2]), r.parents) \in Found(r)
  OBVIOUS
<1> HIDE DEF Found
<1>3. QED BY <1>1, <1>2

(* And of the nodes that only one of the trees has.                        *)
LEMMA AbsentFound ==
  ASSUME NEW r \in regions, ~WithheldRegion(r)
  PROVE  /\ \A s \in AbsentSources(r) : Enabled("DELETE") =>
              Operation("DELETE", {s}, {}, Scale, r.parents) \in Presences
         /\ \A t \in AbsentTargets(r) : Enabled("INSERT") =>
              Operation("INSERT", {}, {t}, Scale, r.parents) \in Presences
<1> DEFINE Deletions(x) ==
             IF Enabled("DELETE")
             THEN { Operation("DELETE", {s}, {}, Scale, x.parents) : s \in AbsentSources(x) }
             ELSE {}
           Insertions(x) ==
             IF Enabled("INSERT")
             THEN { Operation("INSERT", {}, {t}, Scale, x.parents) : t \in AbsentTargets(x) }
             ELSE {}
<1>1. Presences = UNION { Deletions(x) \cup Insertions(x)
                           : x \in { q \in regions : ~WithheldRegion(q) } }
  BY DEF Presences
<1>2. \A s \in AbsentSources(r) : Enabled("DELETE") =>
        Operation("DELETE", {s}, {}, Scale, r.parents) \in Deletions(r)
  OBVIOUS
<1>3. \A t \in AbsentTargets(r) : Enabled("INSERT") =>
        Operation("INSERT", {}, {t}, Scale, r.parents) \in Insertions(r)
  OBVIOUS
<1> HIDE DEF Deletions, Insertions
<1>4. QED BY <1>1, <1>2, <1>3

(* The children of corresponding parents: aligned ones are matched or      *)
(* updated, and of the others the moved ones are moved, those that are not *)
(* withheld absent.                                                        *)
LEMMA NoChildLost ==
  ASSUME IInv, Complete, command.enabled = OperationTypes,
         command.presence # "SUPPRESS_UNRESOLVED_REGIONS" \/ Ambiguous = {},
         NEW sp \in Sources, NEW tp \in Targets, <<sp, tp>> \in ParentPairs
  PROVE  /\ \A s \in Children(sourceTree, sp) :
              SourceVerdicts(s) # {} \/ Withheld(s, AmbiguousSources)
         /\ \A t \in Children(targetTree, tp) :
              TargetVerdicts(t) # {} \/ Withheld(t, AmbiguousTargets)
<1>1. /\ MatchUpdates \subseteq operations /\ Presences \subseteq operations
      /\ Moves \subseteq operations
  BY DEF IInv, OperationInv, Complete, Explaining
<1>2. PICK r \in regions : Describes(r, <<sp, tp>>)
  BY DEF IInv, RegionInv, Complete, Explaining
<1>3. /\ r.aligned = Aligned(sp, tp)
      /\ r.sourceOnly \cup r.unresolvedSource
           = Children(sourceTree, sp) \ { q[1] : q \in Aligned(sp, tp) }
      /\ r.targetOnly \cup r.unresolvedTarget
           = Children(targetTree, tp) \ { q[2] : q \in Aligned(sp, tp) }
      /\ r.unresolvedSource \subseteq AmbiguousSources
      /\ r.unresolvedTarget \subseteq AmbiguousTargets
  BY <1>2 DEF Describes, LeftSources, LeftTargets
<1>4. ~WithheldRegion(r)
  <2>1. Ambiguous = {} => AmbiguousSources = {} /\ AmbiguousTargets = {}
    BY DEF AmbiguousSources, AmbiguousTargets
  <2>2. QED BY <1>3, <2>1 DEF WithheldRegion, Unresolved
<1>5. \A type \in OperationTypes : Enabled(type)
  BY DEF Enabled
<1>6. ASSUME NEW q \in r.aligned
      PROVE  \E op \in operations : /\ op.type \in {"MATCH", "UPDATE"}
                                    /\ op.sources = {q[1]} /\ op.targets = {q[2]}
  <2> DEFINE op == Operation(PairType(q), {q[1]}, {q[2]}, Confidence(q[1], q[2]), r.parents)
  <2>1. PairType(q) \in {"MATCH", "UPDATE"} /\ Enabled(PairType(q))
    BY <1>5 DEF PairType, OperationTypes
  <2>2. op \in MatchUpdates
    BY <2>1, AlignedFound
  <2>3. op.type = PairType(q) /\ op.sources = {q[1]} /\ op.targets = {q[2]}
    BY DEF Operation
  <2>4. QED BY <1>1, <2>1, <2>2, <2>3
<1>7. ASSUME NEW p \in MovePairs
      PROVE  \E op \in operations : /\ op.type = "MOVE"
                                    /\ op.sources = {p[1]} /\ op.targets = {p[2]}
  <2> DEFINE op == Operation("MOVE", {p[1]}, {p[2]}, Confidence(p[1], p[2]),
                             <<FromParent(p), ToParent(p)>>)
  <2>1. op \in Moves
    BY <1>5 DEF Moves, OperationTypes
  <2>2. op.type = "MOVE" /\ op.sources = {p[1]} /\ op.targets = {p[2]}
    BY DEF Operation
  <2>3. QED BY <1>1, <2>1, <2>2
<1>8. ASSUME NEW s \in Children(sourceTree, sp)
      PROVE  SourceVerdicts(s) # {} \/ Withheld(s, AmbiguousSources)
  <2>1. CASE \E q \in r.aligned : q[1] = s
    BY <1>6, <2>1 DEF SourceVerdicts, OfType
  <2>2. CASE s \in MovedSources
    BY <1>7, <2>2 DEF MovedSources, SourceVerdicts, OfType
  <2>3. CASE s \in (r.sourceOnly \cup r.unresolvedSource) \ MovedSources
    <3> DEFINE op == Operation("DELETE", {s}, {}, Scale, r.parents)
    <3>1. CASE WithheldSource(r, s)
      BY <1>3, <3>1 DEF WithheldSource, Withheld
    <3>2. CASE ~WithheldSource(r, s)
      <4>1. s \in AbsentSources(r) /\ Enabled("DELETE")
        BY <1>5, <2>3, <3>2 DEF AbsentSources, OperationTypes
      <4>2. op \in Presences
        BY <1>4, <4>1, AbsentFound
      <4>3. op.type = "DELETE" /\ op.sources = {s}
        BY DEF Operation
      <4>4. op \in SourceVerdicts(s)
        BY <1>1, <4>2, <4>3 DEF SourceVerdicts, OfType
      <4>5. QED BY <4>4
    <3>3. QED BY <3>1, <3>2
  <2>4. QED BY <1>3, <2>1, <2>2, <2>3
<1>9. ASSUME NEW t \in Children(targetTree, tp)
      PROVE  TargetVerdicts(t) # {} \/ Withheld(t, AmbiguousTargets)
  <2>1. CASE \E q \in r.aligned : q[2] = t
    BY <1>6, <2>1 DEF TargetVerdicts, OfType
  <2>2. CASE t \in MovedTargets
    BY <1>7, <2>2 DEF MovedTargets, TargetVerdicts, OfType
  <2>3. CASE t \in (r.targetOnly \cup r.unresolvedTarget) \ MovedTargets
    <3> DEFINE op == Operation("INSERT", {}, {t}, Scale, r.parents)
    <3>1. CASE WithheldTarget(r, t)
      BY <1>3, <3>1 DEF WithheldTarget, Withheld
    <3>2. CASE ~WithheldTarget(r, t)
      <4>1. t \in AbsentTargets(r) /\ Enabled("INSERT")
        BY <1>5, <2>3, <3>2 DEF AbsentTargets, OperationTypes
      <4>2. op \in Presences
        BY <1>4, <4>1, AbsentFound
      <4>3. op.type = "INSERT" /\ op.targets = {t}
        BY DEF Operation
      <4>4. op \in TargetVerdicts(t)
        BY <1>1, <4>2, <4>3 DEF TargetVerdicts, OfType
      <4>5. QED BY <4>4
    <3>3. QED BY <3>1, <3>2
  <2>4. QED BY <1>3, <2>1, <2>2, <2>3
<1>10. QED BY <1>8, <1>9

(* No region is withheld under the policies that NothingLost speaks of.    *)
LEMMA InvNothingLost == IInv => NothingLost
BY NoChildLost DEF NothingLost, HasRegion

(* Nothing falls between the aligner and the classifiers: every child of a *)
(* parent with a counterpart is reported, or withheld as ambiguous.        *)
THEOREM NothingLostHolds == Spec => []NothingLost
BY Invariance, InvNothingLost, PTL

-----------------------------------------------------------------------------
(* Reorders. *)

(* A node has its place among the children of its parent, and no other.    *)
LEMMA PlaceOf ==
  ASSUME NEW tree, NEW nodes, IsTree(tree, nodes), NEW n \in nodes,
         NEW i \in 1..Len(tree.kids[n])
  PROVE  /\ tree.parent[tree.kids[n][i]] = n
         /\ Position(tree, tree.kids[n][i]) = i
<1>1. tree.kids[n] \in Seq(nodes) /\ Injective(tree.kids[n]) /\ DOMAIN tree.kids[n] = 1..Len(tree.kids[n])
  BY DEF IsTree, Injective
<1>2. tree.parent[tree.kids[n][i]] = n
  BY <1>1 DEF IsTree
<1>3. \A k \in 1..Len(tree.kids[n]) : tree.kids[n][k] = tree.kids[n][i] <=> k = i
  BY <1>1 DEF Injective
<1>4. Position(tree, tree.kids[n][i]) = i
  BY <1>1, <1>2, <1>3 DEF Position
<1>5. QED BY <1>2, <1>4

(* Every child has one.                                                    *)
LEMMA ChildHasPlace ==
  ASSUME NEW tree, NEW nodes, IsTree(tree, nodes), NEW n \in nodes,
         NEW m \in nodes, tree.parent[m] = n
  PROVE  \E i \in 1..Len(tree.kids[n]) : m = tree.kids[n][i]
<1>1. DOMAIN tree.kids[n] = 1..Len(tree.kids[n])
  BY DEF IsTree
<1>2. m \in { tree.kids[n][i] : i \in DOMAIN tree.kids[n] }
  BY DEF IsTree
<1>3. QED BY <1>1, <1>2

(* What is compared to find a reorder: the partners of the aligned sources *)
(* in their order, and the aligned targets in theirs.                      *)
LEMMA AlignedOrder ==
  ASSUME JobInv, GraphOK, NEW sp \in Sources, NEW tp \in Targets
  PROVE  TargetsInSourceOrder(sp, tp) # TargetsInTargetOrder(sp, tp) <=>
           \E x, y \in Aligned(sp, tp) : Crossing(sourceTree.kids[sp], targetTree.kids[tp], x, y)
<1> DEFINE al == Aligned(sp, tp)
           s == sourceTree.kids[sp]
           t == targetTree.kids[tp]
           matched == Filter(s, Firsts(al))
           a == TargetsInSourceOrder(sp, tp)
<1>1. /\ s \in Seq(Sources) /\ Injective(s) /\ t \in Seq(Targets) /\ Injective(t)
      /\ IsTree(sourceTree, Sources) /\ IsTree(targetTree, Targets)
  <2>1. IsTree(sourceTree, Sources) /\ IsTree(targetTree, Targets)
    BY JobFacts
  <2>2. ASSUME NEW tree, NEW nodes, NEW n \in nodes, IsTree(tree, nodes)
        PROVE  tree.kids[n] \in Seq(nodes) /\ Injective(tree.kids[n])
    BY <2>2 DEF IsTree, Injective
  <2>3. s \in Seq(Sources) /\ Injective(s)
    BY <2>1, <2>2
  <2>4. t \in Seq(Targets) /\ Injective(t)
    BY <2>1, <2>2
  <2>5. QED BY <2>1, <2>3, <2>4
<1>2. \A p \in al : /\ p \in Confirmed /\ p = <<p[1], p[2]>> /\ p[1] \in Sources /\ p[2] \in Targets
                    /\ sourceTree.parent[p[1]] = sp /\ targetTree.parent[p[2]] = tp
  BY ParentFacts DEF Aligned, GraphOK
<1>3. ASSUME NEW p \in al PROVE \E i \in 1..Len(s), k \in 1..Len(t) : p = <<s[i], t[k]>>
  <2>1. PICK i \in 1..Len(s) : p[1] = s[i]
    BY <1>1, <1>2, ChildHasPlace
  <2>2. PICK k \in 1..Len(t) : p[2] = t[k]
    BY <1>1, <1>2, ChildHasPlace
  <2>3. QED BY <1>2, <2>1, <2>2
<1>4. \A p, q \in al : (p[1] = q[1] \/ p[2] = q[2]) => p = q
  BY <1>2 DEF GraphOK
<1>5. /\ DOMAIN matched = 1..Len(matched)
      /\ \A i \in 1..Len(matched) : matched[i] \in Firsts(al)
  <2>1. PICK h : KeptFrom(Sources, s, Firsts(al), matched, h, Len(s))
    BY <1>1, FilterFacts
  <2>2. matched \in Seq(Sources) /\ h \in [1..Len(matched) -> 1..Len(s)]
    BY <2>1 DEF KeptFrom
  <2>3. \A i \in 1..Len(matched) : matched[i] = s[h[i]] /\ h[i] \in 1..Len(s)
    BY <2>1, <2>2 DEF KeptFrom
  <2>4. \A i \in 1..Len(matched) : s[h[i]] \in Firsts(al)
    BY <2>1, <2>3 DEF KeptFrom
  <2>5. QED BY <2>2, <2>3, <2>4
<1>6. a = [i \in 1..Len(matched) |-> (CHOOSE p \in al : p[1] = matched[i])[2]]
  BY <1>5 DEF TargetsInSourceOrder, Firsts
<1>7. Partners(s, al, a)
  <2>1. ASSUME NEW i \in 1..Len(matched)
        PROVE  <<matched[i], a[i]>> \in al /\ a[i] \in Seconds(al)
    <3>1. \E p \in al : p[1] = matched[i]
      BY <1>5 DEF Firsts
    <3>2. PICK p \in al : p[1] = matched[i] /\ a[i] = p[2]
      BY <1>6, <3>1
    <3>3. <<matched[i], a[i]>> = p
      BY <1>2, <3>2
    <3>4. QED BY <3>2, <3>3 DEF Seconds
  <2>2. a \in [1..Len(matched) -> Seconds(al)]
    BY <1>6, <2>1
  <2>3. QED BY <2>1, <2>2 DEF Partners
<1>8. TargetsInTargetOrder(sp, tp) = Filter(t, Seconds(al))
  BY DEF TargetsInTargetOrder, Seconds
<1> HIDE DEF al, s, t, a
<1>9. a # Filter(t, Seconds(al)) <=> \E x, y \in al : Crossing(s, t, x, y)
  BY <1>1, <1>3, <1>4, <1>7, SameOrder
<1>10. QED BY <1>8, <1>9 DEF al, s, t, a

(* Two aligned pairs cross exactly when they are inverted.                 *)
LEMMA CrossingInverts ==
  ASSUME JobInv, GraphOK, NEW sp \in Sources, NEW tp \in Targets,
         NEW x \in Aligned(sp, tp), NEW y \in Aligned(sp, tp)
  PROVE  Crossing(sourceTree.kids[sp], targetTree.kids[tp], x, y) <=> Inverted(x, y)
<1> DEFINE s == sourceTree.kids[sp]
           t == targetTree.kids[tp]
<1>1. IsTree(sourceTree, Sources) /\ IsTree(targetTree, Targets)
  BY JobFacts
<1>2. \A p \in {x, y} : /\ p = <<p[1], p[2]>> /\ p[1] \in Sources /\ p[2] \in Targets
                        /\ sourceTree.parent[p[1]] = sp /\ targetTree.parent[p[2]] = tp
  BY ParentFacts DEF Aligned, GraphOK
<1>3. /\ \A i \in 1..Len(s) : Position(sourceTree, s[i]) = i
      /\ \A k \in 1..Len(t) : Position(targetTree, t[k]) = k
  BY <1>1, PlaceOf
<1>4. ASSUME NEW p \in {x, y}
      PROVE  \E i \in 1..Len(s), k \in 1..Len(t) : p[1] = s[i] /\ p[2] = t[k]
  <2>1. PICK i \in 1..Len(s) : p[1] = s[i]
    BY <1>1, <1>2, ChildHasPlace
  <2>2. PICK k \in 1..Len(t) : p[2] = t[k]
    BY <1>1, <1>2, ChildHasPlace
  <2>3. QED BY <2>1, <2>2
<1> HIDE DEF s, t
<1>5. ASSUME Crossing(s, t, x, y) PROVE Inverted(x, y)
  <2>1. PICK i \in 1..Len(s), j \in 1..Len(s) : \E k, l \in 1..Len(t) :
          x = <<s[i], t[k]>> /\ y = <<s[j], t[l]>> /\ i < j /\ l < k
    BY <1>5 DEF Crossing
  <2>2. PICK k \in 1..Len(t), l \in 1..Len(t) :
          x = <<s[i], t[k]>> /\ y = <<s[j], t[l]>> /\ i < j /\ l < k
    BY <2>1
  <2>3. x[1] = s[i] /\ x[2] = t[k] /\ y[1] = s[j] /\ y[2] = t[l]
    BY <2>2
  <2>4. QED BY <1>3, <2>2, <2>3 DEF Inverted
<1>6. ASSUME Inverted(x, y) PROVE Crossing(s, t, x, y)
  <2>1. PICK i \in 1..Len(s), k \in 1..Len(t) : x[1] = s[i] /\ x[2] = t[k]
    BY <1>4
  <2>2. PICK j \in 1..Len(s), l \in 1..Len(t) : y[1] = s[j] /\ y[2] = t[l]
    BY <1>4
  <2>3. i < j /\ l < k
    BY <1>3, <1>6, <2>1, <2>2 DEF Inverted
  <2>4. x = <<s[i], t[k]>> /\ y = <<s[j], t[l]>>
    BY <1>2, <2>1, <2>2
  <2>5. QED BY <2>3, <2>4 DEF Crossing
<1>7. QED BY <1>5, <1>6 DEF s, t

(* An aligned source has a position, and does not come before itself.      *)
LEMMA AlignedPlace ==
  ASSUME JobInv, GraphOK, NEW sp \in Sources, NEW tp \in Targets,
         NEW x \in Aligned(sp, tp)
  PROVE  Position(sourceTree, x[1]) \in Nat /\ ~Inverted(x, x)
<1>1. IsTree(sourceTree, Sources) /\ x[1] \in Sources /\ sourceTree.parent[x[1]] = sp
  BY JobFacts, ParentFacts DEF Aligned
<1>2. PICK i \in 1..Len(sourceTree.kids[sp]) : x[1] = sourceTree.kids[sp][i]
  BY <1>1, ChildHasPlace
<1>3. Position(sourceTree, x[1]) \in Nat
  BY <1>1, <1>2, PlaceOf
<1>4. QED BY <1>3 DEF Inverted

(* The aligner finds the order changed exactly when a pair is inverted.    *)
LEMMA OrderFacts ==
  ASSUME JobInv, GraphOK, NEW p \in ParentPairs
  PROVE  OrderChanged(p[1], p[2]) <=>
           IsOrdered(p[1]) /\ \E x, y \in Aligned(p[1], p[2]) : Inverted(x, y)
<1> DEFINE al == Aligned(p[1], p[2])
<1>1. p[1] \in Sources /\ p[2] \in Targets
  BY ParentPairsType
<1>2. TargetsInSourceOrder(p[1], p[2]) # TargetsInTargetOrder(p[1], p[2]) <=>
        \E x, y \in al : Inverted(x, y)
  BY <1>1, AlignedOrder, CrossingInverts
<1>3. ASSUME NEW x \in al, NEW y \in al, Inverted(x, y) PROVE Cardinality(al) >= 2
  <2>1. al \in SUBSET (Sources \X Targets)
    BY DEF Aligned, GraphOK
  <2>2. IsFiniteSet(al)
    BY <2>1, EngineAssumption, FS_Product, FS_Subset
  <2>3. x # y
    BY <1>1, <1>3, AlignedPlace
  <2>4. IsFiniteSet({x}) /\ Cardinality({x}) = 1
    BY FS_Singleton
  <2>5. Cardinality({x} \cup {y}) = 2
    <3>1. y \notin {x}
      BY <2>3
    <3>2. Cardinality({x} \cup {y}) = Cardinality({x}) + 1
      BY <2>4, <3>1, FS_AddElement
    <3>3. QED BY <2>4, <3>2
  <2>6. {x} \cup {y} \in SUBSET al
    OBVIOUS
  <2>7. Cardinality({x} \cup {y}) <= Cardinality(al) /\ Cardinality(al) \in Nat
    BY <2>2, <2>6, FS_Subset, FS_CardinalityType
  <2>8. QED BY <2>5, <2>7
<1>4. QED BY <1>2, <1>3 DEF OrderChanged

(* So a reorder is reported for these regions, and for no others.          *)
LEMMA InvReorders == IInv => ReorderMeansInversion
<1> SUFFICES ASSUME IInv, Complete, Enabled("REORDER"), NEW r \in regions
             PROVE  (\E op \in OfType({"REORDER"}) : op.at = r.parents)
                      <=> /\ sourceTree.node[r.parents[1]].type \notin command.unordered
                          /\ \E p, q \in r.aligned : Inverted(p, q)
  BY DEF ReorderMeansInversion
<1>1. GraphOK /\ JobInv /\ RegionInv /\ Reorders \subseteq operations
  BY GraphFacts DEF IInv, OperationInv, Complete, Explaining
<1>2. PICK q \in ParentPairs : Describes(r, q)
  BY <1>1 DEF RegionInv, Complete, Explaining
<1>3. /\ r.parents = q /\ r.aligned = Aligned(q[1], q[2])
      /\ r.ordered = IsOrdered(q[1]) /\ r.orderChanged = OrderChanged(q[1], q[2])
  BY <1>2 DEF Describes
<1>4. ASSUME NEW op \in OfType({"REORDER"}), op.at = r.parents PROVE OrderChanged(q[1], q[2])
  <2>1. op \in Reorders
    BY OperationSources DEF OfType
  <2>2. PICK o \in regions :
          /\ o.orderChanged
          /\ op = Operation("REORDER", { p[1] : p \in o.aligned }, { p[2] : p \in o.aligned },
                            Scale, o.parents)
    BY <2>1 DEF Reorders
  <2>3. PICK k \in ParentPairs : Describes(o, k)
    BY <1>1 DEF RegionInv, Complete, Explaining
  <2>4. op.at = o.parents
    BY <2>2 DEF Operation
  <2>5. k = q
    BY <1>3, <1>4, <2>3, <2>4 DEF Describes
  <2>6. QED BY <2>2, <2>3, <2>5 DEF Describes
<1>5. ASSUME OrderChanged(q[1], q[2])
      PROVE  \E op \in OfType({"REORDER"}) : op.at = r.parents
  <2> DEFINE op == Operation("REORDER", { p[1] : p \in r.aligned }, { p[2] : p \in r.aligned },
                             Scale, r.parents)
  <2>1. r.ordered /\ r.orderChanged
    BY <1>3, <1>5 DEF OrderChanged
  <2>2. op \in Reorders
    BY <2>1 DEF Reorders
  <2>3. op.type = "REORDER" /\ op.at = r.parents
    BY DEF Operation
  <2>4. QED BY <1>1, <2>2, <2>3 DEF OfType
<1>6. QED BY <1>1, <1>3, <1>4, <1>5, OrderFacts DEF IsOrdered

(* AC-006, AC-007: reorders are the inversions of aligned siblings, for    *)
(* families of any size.                                                   *)
THEOREM ReorderMeansInversionHolds == Spec => []ReorderMeansInversion
BY Invariance, InvReorders, PTL
-----------------------------------------------------------------------------
(* When roots correspond to roots only.  parents_correspond takes the two  *)
(* roots for a pair whatever the matcher says, so a root that is confirmed *)
(* with an inner node has two counterparts (the wrapped_root run shows     *)
(* what becomes of its children then).                                     *)
RootsMatchRoots == \A p \in Confirmed : p[1] = Root <=> p[2] = Root

(* Then corresponding parents are one to one.                              *)
LEMMA ParentsOneToOne ==
  ASSUME GraphOK, RootsMatchRoots, NEW p \in ParentPairs, NEW q \in ParentPairs,
         p[1] = q[1] \/ p[2] = q[2]
  PROVE  p = q
<1>1. CASE p \in Confirmed /\ q \in Confirmed
  BY <1>1 DEF GraphOK
<1>2. ASSUME NEW r \in Confirmed, r[1] = Root \/ r[2] = Root PROVE r = <<Root, Root>>
  BY <1>2 DEF GraphOK, RootsMatchRoots
<1>3. QED BY <1>1, <1>2 DEF ParentPairs

(* A pair over corresponding parents is aligned there, and does not cross. *)
LEMMA OverFacts ==
  ASSUME JobInv, GraphOK, NEW p \in Confirmed, Over(p) \in ParentPairs
  PROVE  /\ ~CrossParent(p)
         /\ p \in Aligned(Over(p)[1], Over(p)[2])
         /\ p[1] \notin LeftSources(Over(p)) /\ p[2] \notin LeftTargets(Over(p))
<1>1. ParentsCorrespond(sourceTree.parent[p[1]], targetTree.parent[p[2]])
  BY DEF Over, ParentPairs, ParentsCorrespond
<1>2. ~CrossParent(p)
  BY <1>1 DEF CrossParent
<1>3. p[1] \in Sources /\ p[2] \in Targets
  BY DEF GraphOK
<1>4. p \in Aligned(Over(p)[1], Over(p)[2])
  BY <1>3, ParentFacts DEF Aligned, Over
<1>5. QED BY <1>2, <1>4 DEF LeftSources, LeftTargets

(* A pair that does not cross and is not a root's is over corresponding    *)
(* parents.                                                                *)
LEMMA StaysOver ==
  ASSUME JobInv, GraphOK, RootsMatchRoots, NEW p \in Confirmed, ~CrossParent(p),
         p[1] # Root \/ p[2] # Root
  PROVE  Over(p) \in ParentPairs
<1>1. p[1] \in Sources /\ p[2] \in Targets /\ p[1] # Root /\ p[2] # Root
  BY DEF GraphOK, RootsMatchRoots
<1>2. /\ \A s \in Sources : sourceTree.parent[s] = NoNode <=> s = Root
      /\ \A t \in Targets : targetTree.parent[t] = NoNode <=> t = Root
  BY JobFacts DEF IsTree
<1>3. ParentsCorrespond(sourceTree.parent[p[1]], targetTree.parent[p[2]])
  BY <1>1, <1>2 DEF CrossParent
<1>4. QED BY <1>3 DEF ParentsCorrespond, ParentPairs, Over

(* What is said of the identity of a node. *)
LEMMA VerdictCases ==
  ASSUME IInv, NEW op \in operations
  PROVE  /\ \A s : op \in SourceVerdicts(s) =>
              \/ \E p : IsAlignment(op, p) /\ p[1] = s
              \/ \E q : IsDeletion(op, s, q)
              \/ \E p : IsMove(op, p) /\ p[1] = s
         /\ \A t : op \in TargetVerdicts(t) =>
              \/ \E p : IsAlignment(op, p) /\ p[2] = t
              \/ \E q : IsInsertion(op, t, q)
              \/ \E p : IsMove(op, p) /\ p[2] = t
<1>1. GraphOK /\ JobInv /\ RegionInv
  BY GraphFacts DEF IInv
<1>2. CASE op.type \in {"MATCH", "UPDATE"}
  <2>1. PICK p : IsAlignment(op, p)
    BY <1>1, <1>2, OperationSources, AlignmentFacts
  <2>2. op.sources = {p[1]} /\ op.targets = {p[2]}
    BY <2>1 DEF IsAlignment, Operation
  <2>3. QED BY <2>1, <2>2 DEF SourceVerdicts, TargetVerdicts, OfType
<1>3. CASE op.type \in {"DELETE", "INSERT"}
  <2>1. CASE \E s, q : IsDeletion(op, s, q)
    <3>1. PICK s, q : IsDeletion(op, s, q)
      BY <2>1
    <3>2. op.sources = {s} /\ op.targets = {}
      BY <3>1 DEF IsDeletion, Operation
    <3>3. QED BY <3>1, <3>2 DEF SourceVerdicts, TargetVerdicts, OfType
  <2>2. CASE \E t, q : IsInsertion(op, t, q)
    <3>1. PICK t, q : IsInsertion(op, t, q)
      BY <2>2
    <3>2. op.sources = {} /\ op.targets = {t}
      BY <3>1 DEF IsInsertion, Operation
    <3>3. QED BY <3>1, <3>2 DEF SourceVerdicts, TargetVerdicts, OfType
  <2>3. QED BY <1>1, <1>3, <2>1, <2>2, OperationSources, PresenceFacts
<1>4. CASE op.type = "MOVE"
  <2>1. PICK p : IsMove(op, p)
    BY <1>1, <1>4, OperationSources, MoveFacts
  <2>2. op.sources = {p[1]} /\ op.targets = {p[2]}
    BY <2>1 DEF IsMove, Operation
  <2>3. QED BY <2>1, <2>2 DEF SourceVerdicts, TargetVerdicts, OfType
<1>5. QED BY <1>2, <1>3, <1>4 DEF SourceVerdicts, TargetVerdicts, OfType

(* A set whose elements are all equal has at most one.                     *)
LEMMA AtMostOne ==
  ASSUME NEW S, \A a, b \in S : a = b
  PROVE  Cardinality(S) <= 1
<1>1. CASE S = {}
  BY <1>1, FS_EmptySet
<1>2. CASE S # {}
  <2>1. PICK a \in S : TRUE
    BY <1>2
  <2>2. S = {a}
    BY <2>1
  <2>3. QED BY <2>2, FS_Singleton
<1>3. QED BY <1>1, <1>2

(* An alignment, a deletion and a move exclude each other, and each of     *)
(* them is determined by the node.                                         *)
LEMMA OneOperation ==
  ASSUME IInv, RootsMatchRoots
  PROVE  /\ \A s \in Sources : \A a, b \in SourceVerdicts(s) : a = b
         /\ \A t \in Targets : \A a, b \in TargetVerdicts(t) : a = b
<1>1. GraphOK /\ JobInv /\ RegionInv
  BY GraphFacts DEF IInv
<1>2. ASSUME NEW s \in Sources, NEW a \in SourceVerdicts(s), NEW b \in SourceVerdicts(s)
      PROVE  a = b
  <2>1. a \in operations /\ b \in operations
    BY DEF SourceVerdicts, OfType
  <2>2. \A op \in {a, b} : \/ \E p : IsAlignment(op, p) /\ p[1] = s
                           \/ \E q : IsDeletion(op, s, q)
                           \/ \E p : IsMove(op, p) /\ p[1] = s
    BY <2>1, VerdictCases
  <2>3. ASSUME NEW p, NEW q, p[1] = q[1], p \in Confirmed, q \in Confirmed PROVE p = q
    BY <1>1, <2>3 DEF GraphOK
  <2>4. ASSUME NEW p, NEW q, IsAlignment(a, p), p[1] = s, IsAlignment(b, q), q[1] = s
        PROVE  a = b
    BY <2>3, <2>4 DEF IsAlignment
  <2>5. ASSUME NEW p, NEW q, IsMove(a, p), p[1] = s, IsMove(b, q), q[1] = s
        PROVE  a = b
    BY <2>3, <2>5 DEF IsMove
  <2>6. ASSUME NEW p, NEW q, IsDeletion(a, s, p), IsDeletion(b, s, q)
        PROVE  a = b
    BY <1>1, <2>6, ParentsOneToOne DEF IsDeletion
  <2>7. ASSUME NEW x, NEW y, NEW p, NEW q, IsAlignment(x, p), p[1] = s, IsDeletion(y, s, q)
        PROVE  FALSE
    <3>1. Over(p) = q
      BY <1>1, <2>7, ParentsOneToOne DEF IsAlignment, IsDeletion, Over
    <3>2. QED BY <1>1, <2>7, <3>1, OverFacts DEF IsAlignment, IsDeletion
  <2>8. ASSUME NEW x, NEW y, NEW p, NEW q, IsAlignment(x, p), p[1] = s, IsMove(y, q), q[1] = s
        PROVE  FALSE
    BY <1>1, <2>3, <2>8, OverFacts DEF IsAlignment, IsMove
  <2>9. ASSUME NEW x, NEW y, NEW p, NEW q, IsMove(x, p), p[1] = s, IsDeletion(y, s, q)
        PROVE  FALSE
    BY <2>9 DEF IsMove, IsDeletion, MovedSources
  <2>10. QED BY <2>2, <2>4, <2>5, <2>6, <2>7, <2>8, <2>9
<1>3. ASSUME NEW t \in Targets, NEW a \in TargetVerdicts(t), NEW b \in TargetVerdicts(t)
      PROVE  a = b
  <2>1. a \in operations /\ b \in operations
    BY DEF TargetVerdicts, OfType
  <2>2. \A op \in {a, b} : \/ \E p : IsAlignment(op, p) /\ p[2] = t
                           \/ \E q : IsInsertion(op, t, q)
                           \/ \E p : IsMove(op, p) /\ p[2] = t
    BY <2>1, VerdictCases
  <2>3. ASSUME NEW p, NEW q, p[2] = q[2], p \in Confirmed, q \in Confirmed PROVE p = q
    BY <1>1, <2>3 DEF GraphOK
  <2>4. ASSUME NEW p, NEW q, IsAlignment(a, p), p[2] = t, IsAlignment(b, q), q[2] = t
        PROVE  a = b
    BY <2>3, <2>4 DEF IsAlignment
  <2>5. ASSUME NEW p, NEW q, IsMove(a, p), p[2] = t, IsMove(b, q), q[2] = t
        PROVE  a = b
    BY <2>3, <2>5 DEF IsMove
  <2>6. ASSUME NEW p, NEW q, IsInsertion(a, t, p), IsInsertion(b, t, q)
        PROVE  a = b
    BY <1>1, <2>6, ParentsOneToOne DEF IsInsertion
  <2>7. ASSUME NEW x, NEW y, NEW p, NEW q, IsAlignment(x, p), p[2] = t, IsInsertion(y, t, q)
        PROVE  FALSE
    <3>1. Over(p) = q
      BY <1>1, <2>7, ParentsOneToOne DEF IsAlignment, IsInsertion, Over
    <3>2. QED BY <1>1, <2>7, <3>1, OverFacts DEF IsAlignment, IsInsertion
  <2>8. ASSUME NEW x, NEW y, NEW p, NEW q, IsAlignment(x, p), p[2] = t, IsMove(y, q), q[2] = t
        PROVE  FALSE
    BY <1>1, <2>3, <2>8, OverFacts DEF IsAlignment, IsMove
  <2>9. ASSUME NEW x, NEW y, NEW p, NEW q, IsMove(x, p), p[2] = t, IsInsertion(y, t, q)
        PROVE  FALSE
    BY <2>9 DEF IsMove, IsInsertion, MovedTargets
  <2>10. QED BY <2>2, <2>4, <2>5, <2>6, <2>7, <2>8, <2>9
<1>4. QED BY <1>2, <1>3

(* So no node has two verdicts.                                            *)
LEMMA InvOneVerdict == IInv /\ RootsMatchRoots => OneVerdict
BY OneOperation, AtMostOne DEF OneVerdict

(* The four classifiers never report a node twice.                         *)
THEOREM OneVerdictHolds == Spec => [](RootsMatchRoots => OneVerdict)
BY Invariance, InvOneVerdict, PTL

(* A pair that is accounted for is aligned or moved, never left over.      *)
LEMMA InvAbsent == IInv /\ RootsMatchRoots => AbsentMeansUnmatched
<1> SUFFICES ASSUME IInv, RootsMatchRoots,
                    NEW op \in operations, op.type \in {"DELETE", "INSERT"}
             PROVE  /\ \A p \in Confirmed : Accounted(p) => p[1] \notin op.sources /\ p[2] \notin op.targets
                    /\ command.presence # "EMIT_ALL" =>
                         \A c \in Ambiguous : c.source \notin op.sources /\ c.target \notin op.targets
  BY DEF AbsentMeansUnmatched, OfType
<1>1. GraphOK /\ JobInv /\ RegionInv
  BY GraphFacts DEF IInv
<1>2. \A c \in Ambiguous : c.source \in AmbiguousSources /\ c.target \in AmbiguousTargets
  BY <1>1 DEF GraphOK, AmbiguousSources, AmbiguousTargets
<1>3. ASSUME NEW p \in Confirmed, CrossParent(p), Accounted(p)
      PROVE  p[1] \in MovedSources /\ p[2] \in MovedTargets
  BY <1>3 DEF Accounted, MovePairs, MovedSources, MovedTargets
<1>4. CASE \E s, q : IsDeletion(op, s, q)
  <2>1. PICK s, q : IsDeletion(op, s, q)
    BY <1>4
  <2>2. op.sources = {s} /\ op.targets = {}
    BY <2>1 DEF IsDeletion, Operation
  <2>3. ASSUME NEW p \in Confirmed, Accounted(p), p[1] = s PROVE FALSE
    <3>1. ~CrossParent(p)
      BY <1>3, <2>1, <2>3 DEF IsDeletion
    <3>2. s # Root
      <4>1. s \in Sources /\ sourceTree.parent[s] \in Sources
        BY <1>1, <2>1, ParentPairsType DEF IsDeletion
      <4>2. QED BY <1>1, <4>1, JobFacts DEF IsTree
    <3>3. Over(p) \in ParentPairs
      BY <1>1, <2>3, <3>1, <3>2, StaysOver
    <3>4. Over(p) = q
      BY <1>1, <2>1, <2>3, <3>3, ParentsOneToOne DEF IsDeletion, Over
    <3>5. QED BY <1>1, <2>1, <2>3, <3>3, <3>4, OverFacts DEF IsDeletion
  <2>4. QED BY <1>2, <2>1, <2>2, <2>3 DEF IsDeletion
<1>5. CASE \E t, q : IsInsertion(op, t, q)
  <2>1. PICK t, q : IsInsertion(op, t, q)
    BY <1>5
  <2>2. op.sources = {} /\ op.targets = {t}
    BY <2>1 DEF IsInsertion, Operation
  <2>3. ASSUME NEW p \in Confirmed, Accounted(p), p[2] = t PROVE FALSE
    <3>1. ~CrossParent(p)
      BY <1>3, <2>1, <2>3 DEF IsInsertion
    <3>2. t # Root
      <4>1. t \in Targets /\ targetTree.parent[t] \in Targets
        BY <1>1, <2>1, ParentPairsType DEF IsInsertion
      <4>2. QED BY <1>1, <4>1, JobFacts DEF IsTree
    <3>3. Over(p) \in ParentPairs
      BY <1>1, <2>3, <3>1, <3>2, StaysOver
    <3>4. Over(p) = q
      BY <1>1, <2>1, <2>3, <3>3, ParentsOneToOne DEF IsInsertion, Over
    <3>5. QED BY <1>1, <2>1, <2>3, <3>3, <3>4, OverFacts DEF IsInsertion
  <2>4. QED BY <1>2, <2>1, <2>2, <2>3 DEF IsInsertion
<1>6. QED BY <1>1, <1>4, <1>5, OperationSources, PresenceFacts

(* A deletion or an insertion means that the node has no counterpart.      *)
THEOREM AbsentMeansUnmatchedHolds == Spec => [](RootsMatchRoots => AbsentMeansUnmatched)
BY Invariance, InvAbsent, PTL

(* A node inside a moved subtree that did not move itself is aligned, so   *)
(* its update is among the operations.                                     *)
LEMMA InvDefectsKept == IInv /\ RootsMatchRoots => MovedDefectsKept
<1> SUFFICES ASSUME IInv, RootsMatchRoots, Complete,
                    NEW e \in effects, e.root.type = "MOVE",
                    NEW p \in Confirmed, p[1] \in e.affected, ~CrossParent(p), Enabled("UPDATE"),
                    Content(sourceTree.node[p[1]]) # Content(targetTree.node[p[2]])
             PROVE  p[1] \in retained
  BY DEF MovedDefectsKept
<1>1. GraphOK /\ JobInv /\ RegionInv
  BY GraphFacts DEF IInv
<1>2. Root \notin e.affected /\ IndependentDefects(e.affected) \subseteq retained
  BY DEF IInv, EffectInv
<1>3. Over(p) \in ParentPairs
  BY <1>1, <1>2, StaysOver
<1>4. PICK r \in regions : Describes(r, Over(p))
  BY <1>3 DEF IInv, RegionInv, Complete, Explaining
<1>5. p \in r.aligned
  BY <1>1, <1>3, <1>4, OverFacts DEF Describes
<1> DEFINE op == Operation(PairType(p), {p[1]}, {p[2]}, Confidence(p[1], p[2]), r.parents)
<1>6. PairType(p) = "UPDATE"
  BY DEF PairType
<1>7. op \in operations
  BY <1>5, <1>6, AlignedFound DEF IInv, OperationInv, Complete, Explaining
<1>8. op.type = "UPDATE" /\ op.sources = {p[1]}
  BY <1>6 DEF Operation
<1> HIDE DEF op
<1>9. p[1] \in IndependentDefects(e.affected)
  BY <1>7, <1>8 DEF IndependentDefects
<1>10. QED BY <1>2, <1>9

(* Suppressing what a move explains keeps the content changes inside the   *)
(* moved subtree.                                                          *)
THEOREM MovedDefectsKeptHolds == Spec => [](RootsMatchRoots => MovedDefectsKept)
BY Invariance, InvDefectsKept, PTL
-----------------------------------------------------------------------------
(* The premise holds whenever node types are a hard constraint and no      *)
(* other node of the trees has the type of their roots.                    *)
RootsApart ==
  /\ HardNodeType
  /\ \A src \in SourceTrees, tgt \in TargetTrees : \A s \in Sources, t \in Targets :
       src.node[s].type = tgt.node[t].type => (s = Root <=> t = Root)

(* Pairs keep the hard constraint, so a root is paired with a root.        *)
LEMMA InvRoots == RootsApart /\ IInv => RootsMatchRoots
<1> SUFFICES ASSUME RootsApart, IInv, NEW p \in Confirmed
             PROVE  p[1] = Root <=> p[2] = Root
  BY DEF RootsMatchRoots
<1>1. /\ p[1] \in Sources /\ p[2] \in Targets
      /\ source[p[1]].type = target[p[2]].type
  BY GraphFacts DEF IInv, GraphOK, RootsApart
<1>2. /\ sourceTree \in SourceTrees /\ source = EvidenceOf(sourceTree)
      /\ targetTree \in TargetTrees /\ target = EvidenceOf(targetTree)
      /\ Nodes(sourceTree) = Sources /\ Nodes(targetTree) = Targets
  BY JobFacts DEF IInv, JobInv
<1>3. /\ source[p[1]].type = sourceTree.node[p[1]].type
      /\ target[p[2]].type = targetTree.node[p[2]].type
  BY <1>1, <1>2 DEF EvidenceOf
<1>4. QED BY <1>1, <1>2, <1>3 DEF RootsApart

(* For such trees the report of a run never contradicts itself: one        *)
(* verdict for a node, absence only without a counterpart, and no defect   *)
(* lost in a move.                                                         *)
THEOREM ReportsAreSound ==
  ASSUME RootsApart
  PROVE  Spec => [](OneVerdict /\ AbsentMeansUnmatched /\ MovedDefectsKept)
<1>1. IInv => OneVerdict /\ AbsentMeansUnmatched /\ MovedDefectsKept
  BY InvRoots, InvOneVerdict, InvAbsent, InvDefectsKept
<1>2. QED BY <1>1, Invariance, PTL
-----------------------------------------------------------------------------
(* Silence. *)

(* A match says that its nodes have the same content and that their        *)
(* parents correspond.                                                     *)
LEMMA MatchFacts ==
  ASSUME IInv, NEW op \in operations, op.type = "MATCH"
  PROVE  \E p \in Confirmed : /\ op.sources = {p[1]} /\ op.targets = {p[2]}
                              /\ ~CrossParent(p)
                              /\ Content(sourceTree.node[p[1]]) = Content(targetTree.node[p[2]])
<1>1. GraphOK /\ JobInv /\ RegionInv /\ op \in MatchUpdates
  BY GraphFacts, OperationSources DEF IInv
<1>2. PICK p : IsAlignment(op, p)
  BY <1>1, AlignmentFacts
<1>3. op.sources = {p[1]} /\ op.targets = {p[2]} /\ op.type = PairType(p) /\ p \in Confirmed
  BY <1>2 DEF IsAlignment, Operation
<1>4. ~CrossParent(p)
  BY <1>1, <1>2, <1>3, OverFacts DEF IsAlignment
<1>5. Content(sourceTree.node[p[1]]) = Content(targetTree.node[p[2]])
  BY <1>3 DEF PairType
<1>6. QED BY <1>3, <1>4, <1>5

(* Every node but the root is a child of its parent.                       *)
LEMMA HasParent ==
  ASSUME JobInv
  PROVE  /\ \A s \in Sources :
              /\ sourceTree.parent[s] # NoNode <=> s # Root
              /\ s # Root => /\ sourceTree.parent[s] \in Sources
                            /\ s \in Children(sourceTree, sourceTree.parent[s])
         /\ \A t \in Targets :
              /\ targetTree.parent[t] # NoNode <=> t # Root
              /\ t # Root => /\ targetTree.parent[t] \in Targets
                            /\ t \in Children(targetTree, targetTree.parent[t])
<1>1. ASSUME NEW nodes, NEW tree, IsTree(tree, nodes), NEW n \in nodes
      PROVE  /\ tree.parent[n] # NoNode <=> n # Root
             /\ n # Root => tree.parent[n] \in nodes /\ n \in Children(tree, tree.parent[n])
  <2>1. tree.parent[n] \in nodes \cup {NoNode} /\ (tree.parent[n] = NoNode <=> n = Root)
        /\ DOMAIN tree.parent = nodes
    BY <1>1 DEF IsTree
  <2>2. QED BY <2>1 DEF Children, Nodes
<1>2. IsTree(sourceTree, Sources) /\ IsTree(targetTree, Targets)
  BY JobFacts
<1>3. QED BY <1>1, <1>2

(* Going up from a node without a counterpart, the first one that has one, *)
(* or the root, has a child without: no classifier passes over that child. *)
LEMMA InvSilence == IInv => SilenceMeansIdentity
<1> DEFINE Kept(s) == \E p \in Confirmed :
             /\ p[1] = s /\ ~CrossParent(p)
             /\ Content(sourceTree.node[s]) = Content(targetTree.node[p[2]])
           Found(t) == \E p \in Confirmed : p[2] = t
<1> SUFFICES ASSUME IInv, Complete, command.enabled = OperationTypes, Ambiguous = {},
                    operations = OfType({"MATCH"})
             PROVE  /\ \A s \in Sources \ {Root} : Kept(s)
                    /\ \A t \in Targets \ {Root} : Found(t)
                    /\ \A r \in regions : r.ordered => ~\E p, q \in r.aligned : Inverted(p, q)
  BY DEF SilenceMeansIdentity
<1>1. GraphOK /\ JobInv /\ RegionInv
  BY GraphFacts DEF IInv
<1>2. \A op \in operations : op.type = "MATCH"
  BY DEF OfType
<1>3. AmbiguousSources = {} /\ AmbiguousTargets = {}
  BY DEF AmbiguousSources, AmbiguousTargets
<1>4. ASSUME NEW sp \in Sources, NEW tp \in Targets, <<sp, tp>> \in ParentPairs
      PROVE  /\ \A s \in Children(sourceTree, sp) : Kept(s)
             /\ \A t \in Children(targetTree, tp) : Found(t)
  <2>1. ASSUME NEW s \in Children(sourceTree, sp) PROVE Kept(s)
    <3>1. PICK op \in operations : s \in op.sources
      BY <1>3, <1>4, NoChildLost DEF Withheld, SourceVerdicts, OfType
    <3>2. QED BY <1>2, <3>1, MatchFacts
  <2>2. ASSUME NEW t \in Children(targetTree, tp) PROVE Found(t)
    <3>1. PICK op \in operations : t \in op.targets
      BY <1>3, <1>4, NoChildLost DEF Withheld, TargetVerdicts, OfType
    <3>2. QED BY <1>2, <3>1, MatchFacts
  <2>3. QED BY <2>1, <2>2
<1>5. /\ <<Root, Root>> \in ParentPairs /\ Root \in Sources /\ Root \in Targets
      /\ \A p \in Confirmed : p \in ParentPairs /\ p = <<p[1], p[2]>>
                              /\ p[1] \in Sources /\ p[2] \in Targets
  BY <1>1, JobFacts DEF ParentPairs, GraphOK
<1>6. /\ \A S \in SUBSET Sources : S # {} => \E n \in S : sourceTree.parent[n] \notin S
      /\ \A T \in SUBSET Targets : T # {} => \E n \in T : targetTree.parent[n] \notin T
  BY <1>1, JobFacts DEF IsTree
<1> HIDE DEF Kept, Found
<1>7. \A s \in Sources \ {Root} : Kept(s)
  <2> DEFINE Lost == { s \in Sources \ {Root} : ~Kept(s) }
  <2>1. SUFFICES ASSUME Lost # {} PROVE FALSE
    OBVIOUS
  <2>2. PICK n \in Lost : sourceTree.parent[n] \notin Lost
    BY <1>6, <2>1
  <2> DEFINE sp == sourceTree.parent[n]
  <2>3. sp \in Sources /\ n \in Children(sourceTree, sp)
    <3>1. n \in Sources /\ n # Root
      BY <2>2
    <3>2. QED BY <1>1, <3>1, HasParent
  <2>4. \E tp \in Targets : <<sp, tp>> \in ParentPairs
    <3>1. CASE sp = Root
      BY <1>5, <3>1
    <3>2. CASE sp # Root
      <4>1. Kept(sp)
        BY <2>2, <2>3, <3>2
      <4>2. QED BY <1>5, <4>1 DEF Kept
    <3>3. QED BY <3>1, <3>2
  <2>5. QED BY <1>4, <2>2, <2>3, <2>4
<1>8. \A t \in Targets \ {Root} : Found(t)
  <2> DEFINE Lost == { t \in Targets \ {Root} : ~Found(t) }
  <2>1. SUFFICES ASSUME Lost # {} PROVE FALSE
    OBVIOUS
  <2>2. PICK n \in Lost : targetTree.parent[n] \notin Lost
    BY <1>6, <2>1
  <2> DEFINE tp == targetTree.parent[n]
  <2>3. tp \in Targets /\ n \in Children(targetTree, tp)
    <3>1. n \in Targets /\ n # Root
      BY <2>2
    <3>2. QED BY <1>1, <3>1, HasParent
  <2>4. \E sp \in Sources : <<sp, tp>> \in ParentPairs
    <3>1. CASE tp = Root
      BY <1>5, <3>1
    <3>2. CASE tp # Root
      <4>1. Found(tp)
        BY <2>2, <2>3, <3>2
      <4>2. QED BY <1>5, <4>1 DEF Found
    <3>3. QED BY <3>1, <3>2
  <2>5. QED BY <1>4, <2>2, <2>3, <2>4
<1>9. ASSUME NEW r \in regions, r.ordered PROVE ~\E p, q \in r.aligned : Inverted(p, q)
  <2>1. PICK q \in ParentPairs : Describes(r, q)
    BY <1>1 DEF RegionInv, Complete, Explaining
  <2>2. sourceTree.node[r.parents[1]].type \notin command.unordered
    BY <1>9, <2>1 DEF Describes, IsOrdered
  <2>3. ReorderMeansInversion /\ Enabled("REORDER")
    BY InvReorders DEF Enabled, OperationTypes
  <2>4. ~\E op \in OfType({"REORDER"}) : op.at = r.parents
    BY <1>2 DEF OfType
  <2>5. QED BY <2>2, <2>3, <2>4 DEF ReorderMeansInversion
<1>10. QED BY <1>7, <1>8, <1>9

(* Whatever the trees: when nothing is ambiguous and nothing but matches   *)
(* is reported, every node below the root has its counterpart, unchanged   *)
(* and in its place.                                                       *)
THEOREM SilenceMeansIdentityHolds == Spec => []SilenceMeansIdentity
BY Invariance, InvSilence, PTL

-----------------------------------------------------------------------------
(* A tree compared with itself. *)

(* What the matcher has returned is what the policy says.                  *)
MatchedInv ==
  /\ Graph!ExactInv /\ Graph!OutcomeInv
  /\ stage \in Classifying \cup Explaining => phase = "returned"

(* The matcher has not returned when reconcile() starts.                   *)
LEMMA MatchedInit == Init => MatchedInv
<1> SUFFICES ASSUME Init PROVE MatchedInv
  OBVIOUS
<1>1. Graph!Init
  BY SameMatcher DEF Init, Graph!Init
<1>2. Graph!ExactInv
  BY <1>1, Graph!ExactInit, EvidenceType, WeightAssumption, SMT
<1>3. Graph!OutcomeInv
  BY <1>1, Graph!OutcomeInit, EvidenceType, WeightAssumption, SMT
<1>4. QED BY <1>2, <1>3 DEF MatchedInv, Init, Classifying, Explaining

(* Alignment waits for it, and the later stages leave the match graph      *)
(* alone.                                                                  *)
LEMMA MatchedStep == IInv /\ MatchedInv /\ [Next]_vars => MatchedInv'
<1> SUFFICES ASSUME IInv, MatchedInv, [Next]_vars PROVE MatchedInv'
  OBVIOUS
<1>1. Graph!IInv /\ Graph!ExactInv /\ Graph!OutcomeInv /\ [Graph!Next]_(Graph!vars)
  BY GraphMoves DEF IInv, MatchedInv
<1>2. Graph!ExactInv'
  BY <1>1, Graph!ExactStep, EvidenceType, WeightAssumption, SMT
<1>3. Graph!OutcomeInv'
  BY <1>1, Graph!OutcomeStep, EvidenceType, WeightAssumption, SMT
<1>4. ASSUME stage' \in Classifying \cup Explaining PROVE phase' = "returned"
  BY <1>4 DEF MatchedInv, Next, vars, matching, Refuse, ReturnIncomplete, Accept, Match, MatchRaised,
     Align, Classify, ClassifyMatchUpdate, ClassifyInsertDelete, ClassifyMove, ClassifyReorder,
     AnalyseRootCause, Suppress, Ended, Classifying, Explaining
<1>5. QED BY <1>2, <1>3, <1>4 DEF MatchedInv

(* Signature or children carry weight, as they do in every packaged        *)
(* profile: a node without id and label is still like itself.              *)
SelfScored == WeightSignature + WeightChildren > 0

(* Every node is confirmed with itself or ambiguous.                       *)
LEMMA SelfPairs ==
  ASSUME IInv, MatchedInv, SelfScored, Complete, sourceTree = targetTree
  PROVE  /\ Sources = Targets
         /\ \A p \in Confirmed : p[1] = p[2] /\ p[1] \in Sources /\ p = <<p[1], p[1]>>
         /\ \A n \in Sources :
              <<n, n>> \in Confirmed \/ (n \in AmbiguousSources /\ n \in AmbiguousTargets)
<1>1. GraphOK /\ JobInv /\ Graph!IInv /\ Graph!ExactInv /\ Graph!OutcomeInv
  BY GraphFacts DEF IInv, MatchedInv
<1>2. phase = "returned" /\ source = target /\ Sources = Targets
  BY <1>1, JobFacts DEF MatchedInv, Complete, Explaining, JobInv
<1>3. Graph!SelfScored
  BY DEF SelfScored, Graph!SelfScored
<1>4. /\ \A p \in Graph!Confirmed : p[1] = p[2]
      /\ \A n \in Sources :
           \/ <<n, n>> \in Graph!Confirmed
           \/ \E c \in Graph!InState("AMBIGUOUS") : c.source = n /\ c.target = n
  BY <1>1, <1>2, <1>3, Graph!SelfMatched, EvidenceType, WeightAssumption, SMT
<1>5. Confirmed = Graph!Confirmed /\ Ambiguous = Graph!InState("AMBIGUOUS")
  BY DEF Confirmed, Matching!Confirmed, Graph!Confirmed, Ambiguous, Matching!InState, Graph!InState
<1>6. ASSUME NEW p \in Confirmed PROVE p[1] = p[2] /\ p[1] \in Sources /\ p = <<p[1], p[1]>>
  BY <1>1, <1>4, <1>5 DEF GraphOK
<1>7. ASSUME NEW n \in Sources, <<n, n>> \notin Confirmed
      PROVE  n \in AmbiguousSources /\ n \in AmbiguousTargets
  <2>1. PICK c \in Ambiguous : c.source = n /\ c.target = n
    BY <1>4, <1>5, <1>7
  <2>2. \A p \in Confirmed : p[1] # n /\ p[2] # n
    BY <1>1, <2>1 DEF GraphOK
  <2>3. QED BY <2>1, <2>2 DEF AmbiguousSources, AmbiguousTargets
<1>8. QED BY <1>2, <1>6, <1>7

(* So nothing is changed, absent or out of order, and a move can only be   *)
(* due to a parent that is ambiguous.                                      *)
LEMMA InvSelf == SelfScored /\ IInv /\ MatchedInv => SelfComparison
<1> SUFFICES ASSUME SelfScored, IInv, MatchedInv, Complete, sourceTree = targetTree,
                    command.presence # "EMIT_ALL"
             PROVE  /\ \A p \in Confirmed : p[1] = p[2]
                    /\ \A op \in operations : op.type # "MATCH" =>
                         /\ op.type = "MOVE"
                         /\ \A s \in op.sources : sourceTree.parent[s] \in AmbiguousSources
  BY DEF SelfComparison
<1>1. GraphOK /\ JobInv /\ RegionInv
  BY GraphFacts DEF IInv
<1>2. /\ Sources = Targets
      /\ \A p \in Confirmed : p[1] = p[2] /\ p[1] \in Sources /\ p = <<p[1], p[1]>>
      /\ \A n \in Sources :
           <<n, n>> \in Confirmed \/ (n \in AmbiguousSources /\ n \in AmbiguousTargets)
  BY SelfPairs
<1>3. \A q \in ParentPairs : q[1] = q[2] /\ q[1] \in Sources
  BY <1>2, JobFacts, <1>1 DEF ParentPairs
<1>4. ASSUME NEW op \in MatchUpdates PROVE op.type = "MATCH"
  <2>1. PICK p : IsAlignment(op, p)
    BY <1>1, AlignmentFacts
  <2>2. p[1] = p[2] /\ op.type = PairType(p)
    BY <1>2, <2>1 DEF IsAlignment, Operation
  <2>3. QED BY <2>2 DEF PairType
<1>5. ASSUME NEW q \in ParentPairs, NEW n \in Sources, sourceTree.parent[n] = q[1],
             <<n, n>> \in Confirmed
      PROVE  n \notin LeftSources(q) /\ n \notin LeftTargets(q)
  <2>1. n \in Children(sourceTree, q[1]) /\ n \in Children(targetTree, q[2])
    BY <1>1, <1>2, <1>3, <1>5, ParentFacts
  <2>2. <<n, n>> \in Aligned(q[1], q[2])
    BY <1>5, <2>1 DEF Aligned
  <2>3. QED BY <2>2 DEF LeftSources, LeftTargets
<1>6. ASSUME NEW op \in Presences PROVE FALSE
  <2>1. ASSUME NEW s, NEW q, IsDeletion(op, s, q) PROVE FALSE
    BY <1>2, <1>5, <2>1 DEF IsDeletion
  <2>2. ASSUME NEW t, NEW q, IsInsertion(op, t, q) PROVE FALSE
    BY <1>2, <1>3, <1>5, <2>2 DEF IsInsertion
  <2>3. QED BY <1>1, <2>1, <2>2, PresenceFacts
<1>7. ASSUME NEW op \in Moves
      PROVE  \A s \in op.sources : sourceTree.parent[s] \in AmbiguousSources
  <2>1. PICK p : IsMove(op, p)
    BY <1>1, MoveFacts
  <2>2. op.sources = {p[1]} /\ p[1] = p[2] /\ p[1] \in Sources
    BY <1>2, <2>1 DEF IsMove, Operation
  <2> DEFINE m == sourceTree.parent[p[1]]
  <2>3. m # NoNode /\ <<m, m>> \notin Confirmed
    BY <2>1, <2>2 DEF IsMove, CrossParent, ParentsCorrespond
  <2>4. m \in Sources
    BY <1>1, <2>2, <2>3, HasParent
  <2>5. QED BY <1>2, <2>2, <2>3, <2>4
<1>8. ASSUME NEW op \in Reorders PROVE FALSE
  <2>1. PICK r \in regions : r.orderChanged
    BY DEF Reorders
  <2>2. PICK q \in ParentPairs : Describes(r, q)
    BY <1>1 DEF RegionInv, Complete, Explaining
  <2>3. PICK x \in Aligned(q[1], q[2]), y \in Aligned(q[1], q[2]) : Inverted(x, y)
    BY <1>1, <2>1, <2>2, OrderFacts DEF Describes
  <2>4. x[1] = x[2] /\ y[1] = y[2]
    BY <1>2 DEF Aligned
  <2>5. Position(sourceTree, x[1]) \in Nat /\ Position(sourceTree, y[1]) \in Nat
    BY <1>1, ParentPairsType, AlignedPlace
  <2>6. QED BY <2>3, <2>4, <2>5 DEF Inverted
<1>9. ASSUME NEW op \in operations, op.type # "MATCH"
      PROVE  op.type = "MOVE" /\ \A s \in op.sources : sourceTree.parent[s] \in AmbiguousSources
  <2>1. op \in MatchUpdates \cup Presences \cup Moves \cup Reorders
    BY DEF IInv, OperationInv
  <2>2. op \in Moves
    BY <1>4, <1>6, <1>8, <1>9, <2>1
  <2>3. op.type = "MOVE"
    BY <2>2 DEF Moves, Operation
  <2>4. QED BY <1>7, <2>2, <2>3
<1>10. QED BY <1>2, <1>9

(* A tree compared with itself, of any size and with any repetition in it: *)
(* no node is taken for another, and nothing is reported but the moves of  *)
(* nodes whose parents are ambiguous.                                      *)
THEOREM SelfComparisonHolds ==
  ASSUME SelfScored
  PROVE  Spec => []SelfComparison
<1>1. IInv /\ MatchedInv => SelfComparison
  BY InvSelf
<1>2. QED BY <1>1, Invariance, MatchedInit, MatchedStep, PTL DEF Spec
=============================================================================

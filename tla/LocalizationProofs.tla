------------------------- MODULE LocalizationProofs -------------------------
(***************************************************************************)
(* What the issues, the repairs and the exit code say of the match graph   *)
(* and the operations, for all trees, profiles and policies.               *)
(***************************************************************************)
EXTENDS Localization, EngineProofs, Inductions

-----------------------------------------------------------------------------
(* The core inside the job. *)

(* A step of the job is a step of reconcile() or leaves its state alone.   *)
LEMMA CoreStep == [JobNext]_jobVars => [Next]_vars
BY DEF JobNext, jobVars, Reconcile, Fail, Interpret, Recommend, Summarise, Report, JobEnded

(* The invariant of reconcile() holds all through the job. *)
THEOREM CoreInvariance == JobSpec => []IInv
<1>1. JobInit => IInv
  BY InitInv DEF JobInit
<1>2. IInv /\ [JobNext]_jobVars => IInv'
  BY CoreStep, StepInv
<1>3. QED BY <1>1, <1>2, PTL DEF JobSpec

-----------------------------------------------------------------------------
(* The issues are those of the match graph and the operations that the     *)
(* core ended with.                                                        *)

Attached == step \in {"recommended", "summarised", "ended"}

IssueInv ==
  /\ step \in Steps
  /\ step = "core" => issues = {} /\ repairs = {}
  /\ step = "interpreted" => issues = Issues(validation) /\ repairs = {}
  /\ (Attached /\ stage = "complete") =>
       /\ issues = { Attach(i) : i \in Issues(validation) }
       /\ repairs = { Repair(validation, i) : i \in { j \in Issues(validation) : Repairable(j) } }
  /\ step \in {"interpreted", "recommended", "summarised"} => stage = "complete"
  /\ step # "core" /\ stage = "complete" => validation \in Validations
  /\ step = "ended" /\ stage = "complete" =>
       /\ exitCode = Success => BlockingFindings = {}
       /\ \E includeSuppressed \in BOOLEAN : table = Table(includeSuppressed)
  /\ step \in {"summarised", "ended"} /\ stage = "complete" => summary = Summary

(* Issues change with the core and the arguments of validate() only. *)
LEMMA IssuesFrame ==
  ASSUME UNCHANGED vars
  PROVE  \A v : Issues(v)' = Issues(v)
<1>1. UNCHANGED <<command, sourceTree, targetTree, stage, source, target, candidates, regions, operations>>
  BY DEF vars, job, matching, report
<1>2. Confirmed' = Confirmed /\ Ambiguous' = Ambiguous
  BY <1>1 DEF Confirmed, Matching!Confirmed, Ambiguous, Matching!InState
<1>3. \A s : MoveOf(s)' = MoveOf(s)
  BY <1>1 DEF MoveOf, OfType
<1>4. \A s, t : Confidence(s, t)' = Confidence(s, t)
  BY <1>1 DEF Confidence, Matching!InState
<1>5. ASSUME NEW v, NEW p PROVE PairIssue(v, p)' = PairIssue(v, p)
  <2>1. MoveOf(p[1])' = MoveOf(p[1]) /\ Confidence(p[1], p[2])' = Confidence(p[1], p[2])
    BY <1>3, <1>4
  <2>2. PairStatus(v, p)' = PairStatus(v, p)
    BY <2>1 DEF PairStatus, TranslationState
  <2>3. QED BY <2>1, <2>2 DEF PairIssue, TranslationState, NewIssue
<1>6. \A v : PairIssues(v)' = PairIssues(v)
  BY <1>1, <1>2, <1>5 DEF PairIssues
<1>7. AmbiguousIssues' = AmbiguousIssues
  BY <1>2 DEF AmbiguousIssues, AmbiguousIssue, NewIssue
<1>8. OrderIssues' = OrderIssues
  BY <1>1 DEF OrderIssues, OrderIssue, FirstSibling, NewIssue, OfType
<1>9. \A v : PresenceIssues(v)' = PresenceIssues(v)
  BY <1>1 DEF PresenceIssues, PresenceIssue, Exempt, NewIssue, OfType
<1>10. ConflictIssues' = ConflictIssues
  BY <1>1 DEF ConflictIssues, NewIssue
<1>11. \A i : Contradicted(i)' <=> Contradicted(i)
  BY <1>1, <1>2 DEF Contradicted
<1>12. QED BY <1>6, <1>7, <1>8, <1>9, <1>10, <1>11 DEF Issues

(* It holds before the core has ended.                                     *)
LEMMA IssueInit == JobInit => IssueInv
BY DEF JobInit, IssueInv, Steps, Attached

(* Every step of the job keeps it.                                         *)
LEMMA IssueStep == IssueInv /\ [JobNext]_jobVars => IssueInv'
<1> SUFFICES ASSUME IssueInv, [JobNext]_jobVars PROVE IssueInv'
  OBVIOUS
<1>1. CASE Reconcile
  BY <1>1 DEF Reconcile, outcome, IssueInv, Steps, Attached
<1>2. CASE Fail
  <2>1. stage' = "failed" /\ step' = "ended"
    BY <1>2 DEF Fail, vars
  <2>2. QED BY <2>1 DEF IssueInv, Steps, Attached
<1>3. ASSUME UNCHANGED vars
      PROVE  UNCHANGED stage /\ \A v : Issues(v)' = Issues(v)
  BY <1>3, IssuesFrame DEF vars
<1>4. CASE Interpret
  BY <1>3, <1>4 DEF Interpret, IssueInv, Steps, Attached
<1>5. CASE Recommend
  <2>1. Issues(validation)' = Issues(validation)
    BY <1>3, <1>5 DEF Recommend
  <2>2. issues = Issues(validation)
    BY <1>5 DEF Recommend, IssueInv
  <2>3. QED BY <1>3, <1>5, <2>1, <2>2 DEF Recommend, IssueInv, Steps, Attached
<1>6. CASE Summarise \/ Report \/ JobEnded \/ UNCHANGED jobVars
  <2>1. UNCHANGED <<vars, validation, issues, repairs>>
    BY <1>6 DEF Summarise, Report, JobEnded, jobVars, outcome
  <2>2. Issues(validation)' = Issues(validation) /\ stage' = stage
    BY <1>3, <2>1
  <2>3. /\ BlockingFindings' = BlockingFindings /\ Summary' = Summary
        /\ \A b \in BOOLEAN : Table(b)' = Table(b)
    <3>1. UNCHANGED <<issues, effects, regions>>
      BY <2>1 DEF vars, report
    <3>2. \A S : CountOf(S)' = CountOf(S)
      BY <3>1 DEF CountOf
    <3>3. QED BY <3>1, <3>2 DEF BlockingFindings, Table, Summary, Unresolved
  <2>4. CASE Summarise
    BY <2>1, <2>2, <2>3, <2>4 DEF Summarise, IssueInv, Steps, Attached
  <2>5. CASE Report
    <3>1. exitCode' = Success => BlockingFindings = {}
      BY <2>5 DEF Report, Success, ContentFindings
    <3>2. QED BY <2>1, <2>2, <2>3, <2>5, <3>1 DEF Report, IssueInv, Steps, Attached
  <2>6. CASE UNCHANGED <<step, summary, exitCode, table>>
    BY <2>1, <2>2, <2>3, <2>6 DEF IssueInv, Attached
  <2>7. QED BY <1>6, <2>4, <2>5, <2>6 DEF JobEnded, jobVars, outcome
<1>7. QED BY <1>1, <1>2, <1>4, <1>5, <1>6 DEF JobNext

(* Every state of a job satisfies both invariants. *)
THEOREM JobInvariance == JobSpec => [](IInv /\ IssueInv)
<1>1. JobSpec => []IssueInv
  BY IssueInit, IssueStep, PTL DEF JobSpec
<1>2. QED BY <1>1, CoreInvariance, PTL

-----------------------------------------------------------------------------
(* What an issue is about. *)

About(i, status, s, t, ops) ==
  i.status = status /\ i.source = s /\ i.locale = t /\ i.operations = ops

(* The pair, the operation or the id that an issue was made of. *)
OfPair(v, i, p) ==
  /\ p \in Confirmed /\ sourceTree.parent[p[1]] # NoNode
  /\ i = PairIssue(v, p)
  /\ About(i, PairStatus(v, p), p[1], p[2], MoveOf(p[1]))
  /\ i.translation = TranslationState(v, p)

OfAmbiguity(i, c) ==
  /\ c \in Ambiguous
  /\ i = AmbiguousIssue(c.source)
  /\ About(i, "AMBIGUOUS_MATCH", c.source, NoNode, {})

OfOrder(i, op) ==
  /\ op \in OfType({"REORDER"}) /\ i = OrderIssue(op)
  /\ About(i, "WRONG_ORDER", FirstSibling(op), NoNode, {op})

OfPresence(v, i, op) ==
  /\ i = PresenceIssue(v, op)
  /\ \/ /\ op \in OfType({"DELETE"})
        /\ \E s \in op.sources :
             About(i, IF Exempt(v, op, sourceTree.node[s].type) THEN "EXEMPT_LOCALE_VARIATION"
                      ELSE "MISSING_IN_LOCALE", s, NoNode, {op})
     \/ /\ op \in OfType({"INSERT"})
        /\ \E t \in op.targets :
             About(i, IF Exempt(v, op, targetTree.node[t].type) THEN "EXEMPT_LOCALE_VARIATION"
                      ELSE "EXTRA_IN_LOCALE", NoNode, t, {op})

OfConflict(i) == About(i, "IDENTIFIER_CONFLICT", NoNode, NoNode, {})

(* Each issue says what it was made of: that of a pair,                    *)
LEMMA PairIssueIs ==
  ASSUME NEW v, NEW p \in Confirmed, sourceTree.parent[p[1]] # NoNode
  PROVE  OfPair(v, PairIssue(v, p), p)
<1>1. /\ PairIssue(v, p).status = PairStatus(v, p)
      /\ PairIssue(v, p).source = p[1]
      /\ PairIssue(v, p).locale = p[2]
      /\ PairIssue(v, p).operations = MoveOf(p[1])
      /\ PairIssue(v, p).translation = TranslationState(v, p)
  BY DEF PairIssue, NewIssue
<1>2. QED BY <1>1 DEF OfPair, About

(* of an ambiguous node,                                                   *)
LEMMA AmbiguousIssueIs ==
  ASSUME NEW c \in Ambiguous
  PROVE  OfAmbiguity(AmbiguousIssue(c.source), c)
BY DEF AmbiguousIssue, NewIssue, OfAmbiguity, About

(* of a reorder,                                                           *)
LEMMA OrderIssueIs ==
  ASSUME NEW op \in OfType({"REORDER"})
  PROVE  OfOrder(OrderIssue(op), op)
BY DEF OrderIssue, NewIssue, OfOrder, About

(* of an id that is used twice,                                            *)
LEMMA ConflictIssueIs ==
  ASSUME NEW i \in ConflictIssues
  PROVE  OfConflict(i)
BY DEF ConflictIssues, NewIssue, OfConflict, About

(* The node of a deletion and of an insertion. *)
LEMMA PresenceOperation ==
  ASSUME IInv, NEW op \in OfType({"DELETE", "INSERT"})
  PROVE  \/ op.type = "DELETE" /\ \E s \in Sources : op.sources = {s} /\ op.targets = {}
         \/ op.type = "INSERT" /\ \E t \in Targets : op.sources = {} /\ op.targets = {t}
<1>1. op \in Presences /\ JobInv /\ RegionInv
  BY OperationSources DEF OfType, IInv
<1>2. CASE \E s, q : IsDeletion(op, s, q)
  BY <1>2 DEF IsDeletion, Operation
<1>3. CASE \E t, q : IsInsertion(op, t, q)
  BY <1>3 DEF IsInsertion, Operation
<1>4. QED BY <1>1, <1>2, <1>3, PresenceFacts

(* and of a deletion or an insertion.                                      *)
LEMMA PresenceIssueIs ==
  ASSUME IInv, NEW v, NEW op \in OfType({"DELETE", "INSERT"})
  PROVE  OfPresence(v, PresenceIssue(v, op), op)
<1>1. CASE op.type = "DELETE"
  <2>1. PICK s \in Sources : op.sources = {s}
    BY <1>1, PresenceOperation
  <2>2. (CHOOSE n \in op.sources : TRUE) = s
    BY <2>1
  <2>3. PresenceIssue(v, op)
          = [NewIssue(IF Exempt(v, op, sourceTree.node[s].type) THEN "EXEMPT_LOCALE_VARIATION"
                      ELSE "MISSING_IN_LOCALE", s, NoNode)
               EXCEPT !.operations = {op}, !.operation = op.confidence]
    BY <1>1, <2>2 DEF PresenceIssue
  <2>4. About(PresenceIssue(v, op),
              IF Exempt(v, op, sourceTree.node[s].type) THEN "EXEMPT_LOCALE_VARIATION"
              ELSE "MISSING_IN_LOCALE", s, NoNode, {op})
    BY <2>3 DEF NewIssue, About
  <2>5. QED BY <1>1, <2>1, <2>4 DEF OfPresence, OfType
<1>2. CASE op.type = "INSERT"
  <2>1. PICK t \in Targets : op.targets = {t}
    BY <1>2, PresenceOperation
  <2>2. (CHOOSE n \in op.targets : TRUE) = t
    BY <2>1
  <2>3. PresenceIssue(v, op)
          = [NewIssue(IF Exempt(v, op, targetTree.node[t].type) THEN "EXEMPT_LOCALE_VARIATION"
                      ELSE "EXTRA_IN_LOCALE", NoNode, t)
               EXCEPT !.operations = {op}, !.operation = op.confidence]
    BY <1>2, <2>2 DEF PresenceIssue
  <2>4. About(PresenceIssue(v, op),
              IF Exempt(v, op, targetTree.node[t].type) THEN "EXEMPT_LOCALE_VARIATION"
              ELSE "EXTRA_IN_LOCALE", NoNode, t, {op})
    BY <2>3 DEF NewIssue, About
  <2>5. QED BY <1>2, <2>1, <2>4 DEF OfPresence, OfType
<1>3. QED BY <1>1, <1>2, PresenceOperation

(* Where an issue comes from. *)
LEMMA IssueCases ==
  ASSUME IInv, NEW v, NEW i \in Issues(v)
  PROVE  /\ ~Contradicted(i)
         /\ \/ \E p : OfPair(v, i, p)
            \/ \E c : OfAmbiguity(i, c)
            \/ \E op : OfOrder(i, op)
            \/ \E op : OfPresence(v, i, op)
            \/ OfConflict(i)
<1>1. ~Contradicted(i) /\ i \in PairIssues(v) \cup AmbiguousIssues \cup OrderIssues
                                  \cup PresenceIssues(v) \cup ConflictIssues
  BY DEF Issues
<1>2. CASE i \in PairIssues(v)
  <2>1. PICK p \in Confirmed : sourceTree.parent[p[1]] # NoNode /\ i = PairIssue(v, p)
    BY <1>2 DEF PairIssues
  <2>2. QED BY <1>1, <2>1, PairIssueIs
<1>3. CASE i \in AmbiguousIssues
  <2>1. PICK c \in Ambiguous : i = AmbiguousIssue(c.source)
    BY <1>3 DEF AmbiguousIssues
  <2>2. QED BY <1>1, <2>1, AmbiguousIssueIs
<1>4. CASE i \in PresenceIssues(v)
  <2>1. PICK op \in OfType({"DELETE", "INSERT"}) : i = PresenceIssue(v, op)
    BY <1>4 DEF PresenceIssues
  <2>2. QED BY <1>1, <2>1, PresenceIssueIs
<1>5. CASE i \in OrderIssues
  BY <1>1, <1>5, OrderIssueIs DEF OrderIssues
<1>6. QED BY <1>1, <1>2, <1>3, <1>4, <1>5, ConflictIssueIs

(* What stays of an issue once its repair is attached. *)
LEMMA AttachKeeps ==
  ASSUME IInv, NEW v, NEW i \in Issues(v)
  PROVE  /\ Attach(i).status = i.status /\ Attach(i).source = i.source
         /\ Attach(i).locale = i.locale /\ Attach(i).operations = i.operations
         /\ Attach(i).translation = i.translation
<1>1. CASE ~Repairable(i)
  BY <1>1 DEF Attach
<1>2. CASE Repairable(i)
  BY <1>2 DEF Attach
<1>3. QED BY <1>1, <1>2


(* An issue, as the result has it. *)
Reported(i) == IF step = "interpreted" THEN i ELSE Attach(i)

(* What the result holds, whether repairs are attached yet or not.         *)
LEMMA ReportedIssues ==
  ASSUME IInv, IssueInv, Interpreted
  PROVE  /\ issues = { Reported(i) : i \in Issues(validation) }
         /\ \A i \in Issues(validation) :
              /\ Reported(i).status = i.status /\ Reported(i).source = i.source
              /\ Reported(i).locale = i.locale /\ Reported(i).operations = i.operations
              /\ Reported(i).translation = i.translation
         /\ \A r \in repairs : \E i \in Issues(validation) : Repairable(i) /\ r = Repair(validation, i)
         /\ validation \in Validations
<1>1. step = "interpreted" \/ Attached
  BY DEF IssueInv, Interpreted, Steps, Attached
<1>2. stage = "complete" /\ step # "core"
  BY DEF Interpreted
<1>3. CASE step = "interpreted"
  BY <1>2, <1>3 DEF IssueInv, Reported
<1>4. CASE step # "interpreted"
  <2>1. issues = { Attach(i) : i \in Issues(validation) }
    BY <1>1, <1>2, <1>4 DEF IssueInv
  <2>2. \A i : Reported(i) = Attach(i)
    BY <1>4 DEF Reported
  <2>3. \A r \in repairs : \E i \in Issues(validation) : Repairable(i) /\ r = Repair(validation, i)
    BY <1>1, <1>2, <1>4 DEF IssueInv
  <2>4. validation \in Validations
    BY <1>2 DEF IssueInv
  <2>5. QED BY <2>1, <2>2, <2>3, <2>4, AttachKeeps
<1>5. QED BY <1>3, <1>4

-----------------------------------------------------------------------------
(* Matches are placed. *)

(* A pair across parents that is sure enough has its move among the        *)
(* operations.                                                             *)
LEMMA InvPlaced == IInv /\ IssueInv => MatchMeansPlaced
<1> SUFFICES ASSUME IInv, IssueInv, Interpreted,
                    NEW i \in Issues(validation),
                    Reported(i).status \in PairStatuses \ {"WRONG_PARENT"},
                    CrossParent(<<Reported(i).source, Reported(i).locale>>),
                    Enabled("MOVE"), Accounted(<<Reported(i).source, Reported(i).locale>>)
             PROVE  FALSE
  BY ReportedIssues DEF MatchMeansPlaced, WithStatus
<1>1. GraphOK /\ Moves \subseteq operations
  BY GraphFacts DEF IInv, OperationInv, Interpreted, Explaining
<1>2. i.status \in PairStatuses \ {"WRONG_PARENT"} /\ Reported(i).source = i.source
      /\ Reported(i).locale = i.locale
  BY ReportedIssues
<1>3. PICK p : OfPair(validation, i, p)
  BY <1>2, IssueCases DEF OfAmbiguity, OfOrder, OfPresence, OfConflict, About, PairStatuses
<1>4. p \in Confirmed /\ p = <<i.source, i.locale>> /\ MoveOf(p[1]) = {}
  BY <1>1, <1>2, <1>3 DEF OfPair, About, GraphOK, PairStatus
<1>5. p \in MovePairs
  BY <1>2, <1>4 DEF MovePairs, Accounted
<1> DEFINE op == Operation("MOVE", {p[1]}, {p[2]}, Confidence(p[1], p[2]), <<FromParent(p), ToParent(p)>>)
<1>6. op \in operations
  BY <1>1, <1>5 DEF Moves
<1>7. op.type = "MOVE" /\ op.sources = {p[1]}
  BY DEF Operation
<1>8. QED BY <1>4, <1>6, <1>7 DEF MoveOf, OfType

(* A pair is only called a match when its parents are compatible.          *)
THEOREM MatchMeansPlacedHolds == JobSpec => []MatchMeansPlaced
BY JobInvariance, InvPlaced, PTL

-----------------------------------------------------------------------------
(* Ambiguity outranks absence. *)

(* The node a reorder points at is one of the siblings that it is about,   *)
(* so it has a counterpart.                                                *)
LEMMA FirstSiblingFacts ==
  ASSUME IInv, NEW op \in OfType({"REORDER"})
  PROVE  FirstSibling(op) \in op.sources /\ \A s \in op.sources : \E p \in Confirmed : p[1] = s
<1>1. op \in Reorders /\ JobInv /\ RegionInv /\ GraphOK
  BY OperationSources, GraphFacts DEF OfType, IInv
<1>2. PICK r \in regions :
        /\ r.orderChanged
        /\ op = Operation("REORDER", { p[1] : p \in r.aligned }, { p[2] : p \in r.aligned },
                          Scale, r.parents)
  BY <1>1 DEF Reorders
<1>3. op.sources = { p[1] : p \in r.aligned } /\ op.at = r.parents
  BY <1>2 DEF Operation
<1>4. PICK q \in ParentPairs : Describes(r, q)
  BY <1>1 DEF RegionInv
<1>5. r.parents = q /\ r.aligned = Aligned(q[1], q[2]) /\ r.aligned # {}
  <2>1. OrderChanged(q[1], q[2])
    BY <1>2, <1>4 DEF Describes
  <2>2. Cardinality(Aligned(q[1], q[2])) >= 2
    BY <2>1 DEF OrderChanged
  <2>3. Aligned(q[1], q[2]) # {}
    BY <2>2, FS_EmptySet
  <2>4. QED BY <1>4, <2>3 DEF Describes
<1>6. PICK p \in r.aligned : TRUE
  BY <1>5
<1> DEFINE kids == sourceTree.kids[q[1]]
           places == { i \in DOMAIN kids : kids[i] \in op.sources }
<1>7. p[1] \in Sources /\ sourceTree.parent[p[1]] = q[1]
  BY <1>1, <1>5, <1>6, ParentFacts DEF Aligned
<1>8. q[1] \in Sources
  BY <1>1, <1>4, ParentPairsType
<1>9. /\ kids \in Seq(Sources)
      /\ { kids[i] : i \in DOMAIN kids } = { m \in Sources : sourceTree.parent[m] = q[1] }
  BY <1>1, <1>8, JobFacts DEF IsTree
<1>10. \E i \in DOMAIN kids : kids[i] = p[1]
  BY <1>7, <1>9
<1>11. places \in SUBSET Nat /\ places # {}
  BY <1>3, <1>6, <1>9, <1>10
<1>12. Sets!Min(places) \in places
  BY <1>11, LeastNumber DEF Sets!Min
<1>13. FirstSibling(op) \in op.sources
  BY <1>3, <1>5, <1>12 DEF FirstSibling
<1>14. \A s \in op.sources : \E c \in Confirmed : c[1] = s
  BY <1>3, <1>5 DEF Aligned
<1>15. QED BY <1>13, <1>14

(* Neither an issue of absence nor a repair is about an ambiguous node.    *)
LEMMA InvAmbiguity == IInv /\ IssueInv => AmbiguityDominates
<1> SUFFICES ASSUME IInv, IssueInv, Interpreted, NEW c \in Ambiguous
             PROVE  /\ \A i \in WithStatus({"MISSING_IN_LOCALE", "EXTRA_IN_LOCALE"}) :
                         i.source # c.source /\ i.locale # c.target
                    /\ \A r \in repairs : r.at \notin {<<"SOURCE", c.source>>, <<"LOCALE", c.target>>}
  BY DEF AmbiguityDominates
<1>1. /\ GraphOK /\ c.source \in Sources /\ c.target \in Targets
      /\ \A p \in Confirmed : p[1] # c.source /\ p[2] # c.target
  BY GraphFacts DEF IInv, GraphOK
<1>2. NoNode \notin Sources \cup Targets
  BY JobFacts DEF IInv
<1>3. ASSUME NEW i \in Issues(validation), i.status \in {"MISSING_IN_LOCALE", "EXTRA_IN_LOCALE"}
      PROVE  i.source # c.source /\ i.locale # c.target
  <2>1. PICK op : OfPresence(validation, i, op)
    BY <1>3, IssueCases DEF OfPair, OfAmbiguity, OfOrder, OfConflict, About, PairStatus
  <2>2. ~Contradicted(i)
    BY IssueCases
  <2>3. CASE i.status = "MISSING_IN_LOCALE"
    <3>1. i.locale = NoNode
      BY <2>1, <2>3 DEF OfPresence, About
    <3>2. i.source # c.source
      BY <2>2, <2>3 DEF Contradicted
    <3>3. QED BY <1>1, <1>2, <3>1, <3>2
  <2>4. CASE i.status = "EXTRA_IN_LOCALE"
    <3>1. i.source = NoNode
      BY <2>1, <2>4 DEF OfPresence, About
    <3>2. i.locale # c.target
      BY <2>2, <2>4 DEF Contradicted
    <3>3. QED BY <1>1, <1>2, <3>1, <3>2
  <2>5. QED BY <1>3, <2>3, <2>4
<1>4. ASSUME NEW i \in Issues(validation), Repairable(i)
      PROVE  i.source # c.source /\ i.locale # c.target
  <2>1. i.status \in {"WRONG_PARENT", "WRONG_ORDER", "MISSING_IN_LOCALE", "EXTRA_IN_LOCALE"}
    BY <1>4 DEF Repairable, RepairOf
  <2>2. CASE \E p : OfPair(validation, i, p)
    BY <1>1, <2>2 DEF OfPair, About
  <2>3. CASE \E op : OfOrder(i, op)
    BY <1>1, <1>2, <2>3, FirstSiblingFacts DEF OfOrder, About
  <2>4. CASE i.status \in {"MISSING_IN_LOCALE", "EXTRA_IN_LOCALE"}
    BY <1>3, <2>4
  <2>5. QED
    BY <2>1, <2>2, <2>3, <2>4, IssueCases DEF OfAmbiguity, OfPresence, OfConflict, About
<1>5. \A i \in WithStatus({"MISSING_IN_LOCALE", "EXTRA_IN_LOCALE"}) :
        i.source # c.source /\ i.locale # c.target
  BY <1>3, ReportedIssues DEF WithStatus
<1>6. ASSUME NEW r \in repairs PROVE r.at \notin {<<"SOURCE", c.source>>, <<"LOCALE", c.target>>}
  <2>1. PICK i \in Issues(validation) : Repairable(i) /\ r = Repair(validation, i)
    BY ReportedIssues
  <2>2. r.at = IF i.locale # NoNode THEN <<"LOCALE", i.locale>> ELSE <<"SOURCE", i.source>>
    BY <2>1 DEF Repair
  <2>3. QED BY <1>4, <2>1, <2>2
<1>7. QED BY <1>5, <1>6

(* No node with an ambiguous candidate is called missing or extra, and no  *)
(* recommendation would correct it, whatever the presence policy.          *)
THEOREM AmbiguityDominatesHolds == JobSpec => []AmbiguityDominates
BY JobInvariance, InvAmbiguity, PTL

-----------------------------------------------------------------------------
(* One status for a node. *)

Judged == PairStatuses \cup PresenceStatuses \cup {"AMBIGUOUS_MATCH"}

(* Where the status of a source node comes from. *)
LEMMA JudgedCases ==
  ASSUME IInv, NEW v, NEW i \in Issues(v), i.status \in Judged, i.source # NoNode
  PROVE  \/ \E p : OfPair(v, i, p) /\ p[1] = i.source
         \/ \E c : OfAmbiguity(i, c) /\ c.source = i.source
         \/ \E op \in OfType({"DELETE"}) : /\ i = PresenceIssue(v, op) /\ i.source \in op.sources
                                           /\ i.status \in PresenceStatuses
BY IssueCases DEF OfPair, OfAmbiguity, OfOrder, OfPresence, OfConflict, About, Judged,
   PairStatuses, PresenceStatuses

(* The two cases in which a node has two of them. *)
Excused(i, j) ==
  \/ \E p \in Confirmed : p[1] = i.source /\ ~Accounted(p)
  \/ /\ command.presence = "EMIT_ALL"
     /\ {i.status, j.status} = {"AMBIGUOUS_MATCH", "EXEMPT_LOCALE_VARIATION"}

(* Two issues that judge one node are excused.                             *)
LEMMA JudgedTwice ==
  ASSUME IInv, RootsMatchRoots, Complete, NEW v,
         NEW i \in Issues(v), NEW j \in Issues(v), i.status \in Judged, j.status \in Judged,
         i # j, i.source = j.source, i.source # NoNode
  PROVE  Excused(i, j)
<1>1. GraphOK /\ AbsentMeansUnmatched
  BY GraphFacts, InvAbsent DEF IInv
<1>2. ASSUME NEW x, NEW p, OfPair(v, x, p), p[1] = i.source,
             NEW op \in OfType({"DELETE"}), i.source \in op.sources
      PROVE  Excused(i, j)
  <2>1. op \in OfType({"DELETE", "INSERT"}) /\ p \in Confirmed
    BY <1>2 DEF OfType, OfPair
  <2>2. ~Accounted(p)
    BY <1>1, <1>2, <2>1 DEF AbsentMeansUnmatched
  <2>3. QED BY <1>2, <2>1, <2>2 DEF Excused
<1>3. ASSUME NEW x \in Issues(v), NEW y \in Issues(v), {x, y} = {i, j},
             NEW c, OfAmbiguity(x, c), c.source = i.source,
             NEW op \in OfType({"DELETE"}), i.source \in op.sources,
             y = PresenceIssue(v, op), y.status \in PresenceStatuses
      PROVE  Excused(i, j)
  <2>1. op \in OfType({"DELETE", "INSERT"}) /\ c \in Ambiguous /\ x.status = "AMBIGUOUS_MATCH"
    BY <1>3 DEF OfType, OfAmbiguity, About
  <2>2. command.presence = "EMIT_ALL"
    BY <1>1, <1>3, <2>1 DEF AbsentMeansUnmatched
  <2>3. y.status # "MISSING_IN_LOCALE"
    BY <1>3, <2>1, IssueCases DEF Contradicted
  <2>4. y.status # "EXTRA_IN_LOCALE"
    <3>1. PICK o : OfPresence(v, y, o)
      BY <1>3, <2>1, PresenceIssueIs
    <3>2. y.source # NoNode
      BY <1>3
    <3>3. QED BY <3>1, <3>2 DEF OfPresence, About
  <2>5. y.status = "EXEMPT_LOCALE_VARIATION"
    BY <1>3, <2>3, <2>4 DEF PresenceStatuses
  <2>6. QED BY <1>3, <2>1, <2>2, <2>5 DEF Excused
<1>4. ASSUME NEW p, NEW q, OfPair(v, i, p), OfPair(v, j, q), p[1] = q[1]
      PROVE  FALSE
  BY <1>1, <1>4 DEF OfPair, GraphOK
<1>5. ASSUME NEW p, NEW c, NEW x, NEW y, OfPair(v, x, p), OfAmbiguity(y, c), p[1] = c.source
      PROVE  FALSE
  BY <1>1, <1>5 DEF OfPair, OfAmbiguity, GraphOK
<1>6. ASSUME NEW c, NEW d, OfAmbiguity(i, c), OfAmbiguity(j, d), c.source = d.source
      PROVE  FALSE
  BY <1>6 DEF OfAmbiguity
<1>7. ASSUME NEW a \in OfType({"DELETE"}), NEW b \in OfType({"DELETE"}),
             i.source \in a.sources, i.source \in b.sources,
             i = PresenceIssue(v, a), j = PresenceIssue(v, b)
      PROVE  FALSE
  <2>1. a \in SourceVerdicts(i.source) /\ b \in SourceVerdicts(i.source)
    BY <1>7 DEF SourceVerdicts, OfType
  <2>2. i.source \in Sources
    BY <1>7, PresenceOperation DEF OfType
  <2>3. a = b
    BY <2>1, <2>2, OneOperation
  <2>4. QED BY <1>7, <2>3
<1>8. QED BY <1>2, <1>3, <1>4, <1>5, <1>6, <1>7, JudgedCases

(* And so they are once repairs are attached.                              *)
LEMMA InvOneStatus == IInv /\ IssueInv /\ RootsMatchRoots => OneStatus
<1> SUFFICES ASSUME IInv, IssueInv, RootsMatchRoots, Interpreted,
                    NEW a \in issues, NEW b \in issues, a.status \in Judged, b.status \in Judged,
                    a # b, a.source = b.source, a.source # NoNode
             PROVE  Excused(a, b)
  BY DEF OneStatus, WithStatus, Judged, Excused
<1>1. PICK i \in Issues(validation) : a = Reported(i)
  BY ReportedIssues
<1>2. PICK j \in Issues(validation) : b = Reported(j)
  BY ReportedIssues
<1>3. /\ a.status = i.status /\ a.source = i.source
      /\ b.status = j.status /\ b.source = j.source
  BY <1>1, <1>2, ReportedIssues
<1>4. Excused(i, j)
  BY <1>1, <1>2, <1>3, JudgedTwice DEF Interpreted, Complete
<1>5. QED BY <1>3, <1>4 DEF Excused

(* A source node has one status, but for the two cases in which the core   *)
(* gives two answers.                                                      *)
THEOREM OneStatusHolds == JobSpec => [](RootsMatchRoots => OneStatus)
BY JobInvariance, InvOneStatus, PTL

-----------------------------------------------------------------------------
(* Stale translations. *)

(* A pair has an issue, and it is the only one about both of its nodes.    *)
LEMMA PairIssueAlone ==
  ASSUME IInv, NEW v, NEW p \in Confirmed, sourceTree.parent[p[1]] # NoNode
  PROVE  /\ PairIssue(v, p) \in Issues(v) /\ OfPair(v, PairIssue(v, p), p)
         /\ \A i \in Issues(v) : i.source = p[1] /\ i.locale = p[2] => i = PairIssue(v, p)
<1>1. OfPair(v, PairIssue(v, p), p)
  BY PairIssueIs
<1>2. PairIssue(v, p) \in PairIssues(v)
  BY DEF PairIssues
<1>3. ~Contradicted(PairIssue(v, p))
  BY <1>1 DEF OfPair, About, PairStatus, Contradicted
<1>4. GraphOK /\ p[1] # NoNode /\ p[2] # NoNode
  BY GraphFacts, JobFacts DEF IInv, GraphOK
<1>5. ASSUME NEW i \in Issues(v), i.source = p[1], i.locale = p[2]
      PROVE  i = PairIssue(v, p)
  <2>1. PICK q : OfPair(v, i, q)
    BY <1>4, <1>5, IssueCases DEF OfAmbiguity, OfOrder, OfPresence, OfConflict, About
  <2>2. q = p
    BY <1>4, <1>5, <2>1 DEF OfPair, About, GraphOK
  <2>3. QED BY <2>1, <2>2 DEF OfPair
<1>6. QED BY <1>1, <1>2, <1>3, <1>5 DEF Issues

(* The one issue of a pair says what its revisions say.                    *)
LEMMA InvStaleness == IInv /\ IssueInv => StalenessVisible
<1> SUFFICES ASSUME IInv, IssueInv, Interpreted,
                    NEW p \in Confirmed, sourceTree.parent[p[1]] # NoNode
             PROVE  LET about == { i \in issues : i.source = p[1] /\ i.locale = p[2] }
                        known == NoValue \notin {validation.revision[p[1]], validation.synced[p[2]]}
                        stale == known /\ validation.revision[p[1]] # validation.synced[p[2]]
                        moved == Enabled("MOVE") /\ p \in MovePairs
                    IN  /\ Cardinality(about) = 1
                        /\ \A i \in about :
                             /\ stale <=> i.translation = "STALE"
                             /\ (i.translation = "CURRENT") => known
                             /\ (i.status = "SOURCE_UPDATED") <=> (stale /\ ~moved)
  BY DEF StalenessVisible
<1> DEFINE k == PairIssue(validation, p)
           about == { i \in issues : i.source = p[1] /\ i.locale = p[2] }
<1>1. /\ k \in Issues(validation) /\ OfPair(validation, k, p)
      /\ \A i \in Issues(validation) : i.source = p[1] /\ i.locale = p[2] => i = k
  BY PairIssueAlone
<1>2. about = {Reported(k)}
  <2>1. Reported(k) \in about
    BY <1>1, ReportedIssues DEF OfPair, About
  <2>2. ASSUME NEW i \in about PROVE i = Reported(k)
    <3>1. PICK j \in Issues(validation) : i = Reported(j)
      BY ReportedIssues
    <3>2. j.source = p[1] /\ j.locale = p[2]
      BY <3>1, ReportedIssues
    <3>3. QED BY <1>1, <3>1, <3>2
  <2>3. QED BY <2>1, <2>2
<1>3. Cardinality(about) = 1
  BY <1>2, FS_Singleton
<1>4. /\ Reported(k).status = PairStatus(validation, p)
      /\ Reported(k).translation = TranslationState(validation, p)
  BY <1>1, ReportedIssues DEF OfPair, About
<1>5. ASSUME NEW op \in MoveOf(p[1])
      PROVE  Enabled("MOVE") /\ p \in MovePairs
  <2>1. GraphOK /\ op \in operations /\ op.type = "MOVE" /\ p[1] \in op.sources
    BY GraphFacts DEF IInv, MoveOf, OfType
  <2>2. PICK q : IsMove(op, q)
    BY <2>1, OperationSources, MoveFacts DEF IInv
  <2>3. op.sources = {q[1]} /\ q \in Confirmed /\ q \in MovePairs
    BY <2>2 DEF IsMove, Operation
  <2>4. q = p
    BY <2>1, <2>3 DEF GraphOK
  <2>5. Enabled("MOVE")
    BY <2>1, OperationSources DEF IInv, Moves
  <2>6. QED BY <2>3, <2>4, <2>5
<1>6. ASSUME Enabled("MOVE"), p \in MovePairs
      PROVE  MoveOf(p[1]) # {}
  <2> DEFINE op == Operation("MOVE", {p[1]}, {p[2]}, Confidence(p[1], p[2]), <<FromParent(p), ToParent(p)>>)
  <2>1. Moves \subseteq operations
    BY DEF IInv, OperationInv, Interpreted, Explaining
  <2>2. op \in operations
    BY <1>6, <2>1 DEF Moves
  <2>3. op.type = "MOVE" /\ p[1] \in op.sources
    BY DEF Operation
  <2>4. QED BY <2>2, <2>3 DEF MoveOf, OfType
<1>7. QED BY <1>2, <1>3, <1>4, <1>5, <1>6 DEF PairStatus, TranslationState

(* A pair has one issue, which says that the translation is stale exactly  *)
(* when both revisions are known and differ, and is SOURCE_UPDATED exactly *)
(* if it is stale and no move of it is reported.                           *)
THEOREM StalenessVisibleHolds == JobSpec => []StalenessVisible
BY JobInvariance, InvStaleness, PTL

-----------------------------------------------------------------------------
(* Exit code 0. *)

(* No issue of a job that ended with exit code 0 blocks. *)
LEMMA NothingBlocks ==
  ASSUME IInv, IssueInv, Finished, exitCode = Success, NEW i \in Issues(validation)
  PROVE  i.status \notin {"MISSING_IN_LOCALE", "WRONG_PARENT", "IDENTIFIER_CONFLICT"}
<1>1. Reported(i) \in issues /\ Reported(i).status = i.status
  BY ReportedIssues DEF Finished, Interpreted
<1>2. Severity(Reported(i).status) # "ERROR"
  BY <1>1 DEF IssueInv, Finished, BlockingFindings
<1>3. QED BY <1>1, <1>2 DEF Severity

(* Then every child of a corresponding parent has a counterpart under the  *)
(* corresponding parent, or is ambiguous.                                  *)
LEMMA CleanChild ==
  ASSUME IInv, IssueInv, Finished, exitCode = Success, command.enabled = OperationTypes,
         command.presence = "SUPPRESS_AMBIGUOUS_NODES", validation.rules = {},
         NEW q \in ParentPairs, NEW s \in Sources, sourceTree.parent[s] = q[1],
         s \notin AmbiguousSources
  PROVE  \E p \in Confirmed : p[1] = s /\ ~CrossParent(p)
<1>1. GraphOK /\ JobInv /\ RegionInv /\ NothingLost
  BY GraphFacts, InvNothingLost DEF IInv
<1>2. q[1] \in Sources /\ q[2] \in Targets /\ q = <<q[1], q[2]>>
  BY <1>1, ParentPairsType
<1>3. s \in Children(sourceTree, q[1])
  BY <1>1, ParentFacts
<1>4. PICK op \in SourceVerdicts(s) : TRUE
  BY <1>1, <1>2, <1>3 DEF NothingLost, Finished, Complete, HasRegion, Withheld
<1>5. op \in operations
  BY DEF SourceVerdicts, OfType
<1>6. CASE \E p : IsAlignment(op, p) /\ p[1] = s
  BY <1>1, <1>6, OverFacts DEF IsAlignment
<1>7. ASSUME NEW p, IsMove(op, p), p[1] = s PROVE FALSE
  <2>1. p \in Confirmed /\ sourceTree.parent[p[1]] # NoNode
    BY <1>7 DEF IsMove, CrossParent
  <2>2. op \in MoveOf(p[1])
    BY <1>5, <1>7 DEF IsMove, Operation, MoveOf, OfType
  <2>3. PairIssue(validation, p) \in Issues(validation) /\ PairIssue(validation, p).status = "WRONG_PARENT"
    BY <2>1, <2>2, PairIssueAlone DEF OfPair, About, PairStatus
  <2>4. QED BY <2>3, NothingBlocks
<1>8. ASSUME NEW d, IsDeletion(op, s, d) PROVE FALSE
  <2>1. op \in OfType({"DELETE"}) /\ op.sources = {s} /\ op \in OfType({"DELETE", "INSERT"})
    BY <1>5, <1>8 DEF IsDeletion, Operation, OfType
  <2> DEFINE i == PresenceIssue(validation, op)
  <2>2. i.status = "MISSING_IN_LOCALE" /\ i.source = s
    BY <2>1, PresenceIssueIs DEF OfPresence, About, Exempt, OfType
  <2>3. \A r \in regions : r.unresolvedSource \subseteq AmbiguousSources
    BY <1>1 DEF RegionInv, Describes, Explaining, Classifying
  <2>4. \A c \in Ambiguous : c.source \in AmbiguousSources
    BY <1>1 DEF GraphOK, AmbiguousSources
  <2>5. ~Contradicted(i)
    BY <2>2, <2>3, <2>4 DEF Contradicted
  <2>6. i \in Issues(validation)
    BY <2>1, <2>5 DEF Issues, PresenceIssues
  <2>7. QED BY <2>2, <2>6, NothingBlocks
<1>9. QED BY <1>4, <1>5, <1>6, <1>7, <1>8, VerdictCases

(* The path from a node to the root is closed. *)
LEMMA PathUp ==
  ASSUME NEW tree, NEW s \in Nodes(tree),
         NEW n \in Ancestors(tree, s) \cup {s}, tree.parent[n] \in Nodes(tree), NoNode \notin Nodes(tree)
  PROVE  tree.parent[n] \in Ancestors(tree, s)
<1>1. CASE n = s
  BY <1>1 DEF Ancestors
<1>2. CASE n \in Ancestors(tree, s)
  <2>1. n \in Nodes(tree)
    BY <1>2 DEF Ancestors
  <2>2. ASSUME NEW up \in SUBSET (Nodes(tree) \cup {NoNode}),
               tree.parent[s] \in up, \A k \in up \ {NoNode} : tree.parent[k] \in up
        PROVE  tree.parent[n] \in up
    <3>1. n \in up
      BY <1>2, <2>2 DEF Ancestors
    <3>2. QED BY <2>1, <2>2, <3>1
  <2>3. QED BY <2>2 DEF Ancestors
<1>3. QED BY <1>1, <1>2

(* Going up from a node that is out of place, the first node in its place  *)
(* has a child that is not, which CleanChild excludes.                     *)
LEMMA InvCleanExit == IInv /\ IssueInv => CleanExit
<1> SUFFICES ASSUME IInv, IssueInv, Finished, exitCode = Success, command.enabled = OperationTypes,
                    command.presence = "SUPPRESS_AMBIGUOUS_NODES", validation.rules = {}
             PROVE  /\ Duplicated(source) = {} /\ Duplicated(target) = {}
                    /\ \A s \in Sources \ {Root} :
                         \/ (Ancestors(sourceTree, s) \cup {s}) \cap AmbiguousSources # {}
                         \/ \E p \in Confirmed : p[1] = s /\ ~CrossParent(p)
  BY DEF CleanExit
<1>1. Duplicated(source) = {} /\ Duplicated(target) = {}
  <2>1. ASSUME NEW c \in ({"SOURCE"} \X Duplicated(source)) \cup ({"TARGET"} \X Duplicated(target))
        PROVE  FALSE
    <3> DEFINE i == [NewIssue("IDENTIFIER_CONFLICT", NoNode, NoNode) EXCEPT !.conflict = c]
    <3>1. i \in ConflictIssues
      BY DEF ConflictIssues
    <3>2. i.status = "IDENTIFIER_CONFLICT"
      BY DEF NewIssue
    <3>3. i \in Issues(validation)
      BY <3>1, <3>2 DEF Issues, Contradicted
    <3>4. QED BY <3>2, <3>3, NothingBlocks
  <2>2. \A c : c \notin {"SOURCE"} \X Duplicated(source) /\ c \notin {"TARGET"} \X Duplicated(target)
    BY <2>1
  <2>3. ASSUME NEW id \in Duplicated(source) PROVE FALSE
    <3>1. <<"SOURCE", id>> \in {"SOURCE"} \X Duplicated(source)
      OBVIOUS
    <3>2. QED BY <2>2, <3>1
  <2>4. ASSUME NEW id \in Duplicated(target) PROVE FALSE
    <3>1. <<"TARGET", id>> \in {"TARGET"} \X Duplicated(target)
      OBVIOUS
    <3>2. QED BY <2>2, <3>1
  <2>5. QED BY <2>3, <2>4
<1>2. ASSUME NEW s \in Sources \ {Root},
             (Ancestors(sourceTree, s) \cup {s}) \cap AmbiguousSources = {}
      PROVE  \E p \in Confirmed : p[1] = s /\ ~CrossParent(p)
  <2> DEFINE path == Ancestors(sourceTree, s) \cup {s}
             Placed(n) == \E p \in Confirmed : p[1] = n /\ ~CrossParent(p)
             lost == { n \in path \ {Root} : ~Placed(n) }
  <2>1. /\ Nodes(sourceTree) = Sources /\ NoNode \notin Sources
        /\ \A n \in Sources \ {Root} : sourceTree.parent[n] \in Sources
        /\ \A S \in SUBSET Sources : S # {} => \E n \in S : sourceTree.parent[n] \notin S
    BY JobFacts DEF IInv, IsTree
  <2>2. path \subseteq Sources
    BY <2>1 DEF Ancestors
  <2>3. SUFFICES ASSUME ~Placed(s) PROVE FALSE
    OBVIOUS
  <2>4. s \in lost
    BY <2>3
  <2>5. lost \in SUBSET Sources /\ lost # {}
    BY <2>2, <2>4
  <2>6. PICK n \in lost : sourceTree.parent[n] \notin lost
    BY <2>1, <2>5
  <2> DEFINE up == sourceTree.parent[n]
  <2>7. n \in path /\ n \in Sources /\ n # Root /\ up \in Sources /\ ~Placed(n)
    BY <2>1, <2>2, <2>6
  <2>8. up \in path
    BY <2>1, <2>7, PathUp
  <2>9. \E q \in ParentPairs : q[1] = up
    <3>1. CASE up = Root
      <4>1. <<Root, Root>> \in ParentPairs
        BY DEF ParentPairs
      <4>2. QED BY <3>1, <4>1
    <3>2. CASE up # Root
      <4>1. Placed(up)
        BY <2>6, <2>8, <3>2
      <4>2. QED BY <4>1 DEF ParentPairs
    <3>3. QED BY <3>1, <3>2
  <2>10. n \notin AmbiguousSources
    BY <1>2, <2>7
  <2>11. QED BY <2>7, <2>9, <2>10, CleanChild
<1>3. QED BY <1>1, <1>2

(* Exit code 0 says that the locale document has every source node in its  *)
(* place, ambiguity aside.                                                 *)
THEOREM CleanExitHolds == JobSpec => []CleanExit
BY JobInvariance, InvCleanExit, PTL

-----------------------------------------------------------------------------
(* The recommended moves, made together. *)

(* A recommended move is that of a pair which the core reported moved.     *)
LEMMA MoveRepairIs ==
  ASSUME IInv, IssueInv, Finished, NEW r \in MoveRepairs
  PROVE  \E p \in Confirmed : /\ r = Repair(validation, PairIssue(validation, p))
                              /\ MoveOf(p[1]) # {} /\ r.at = <<"LOCALE", p[2]>>
<1>1. PICK i \in Issues(validation) : Repairable(i) /\ r = Repair(validation, i)
  BY ReportedIssues DEF MoveRepairs, Finished, Interpreted
<1>2. RepairOf[i.status] = "MOVE_NODE"
  BY <1>1 DEF MoveRepairs, Repair
<1>3. i.status = "WRONG_PARENT"
  BY <1>1, <1>2 DEF Repairable, RepairOf
<1>4. PICK p : OfPair(validation, i, p)
  BY <1>3, IssueCases DEF OfAmbiguity, OfOrder, OfPresence, OfConflict, About
<1>5. p[2] # NoNode
  BY <1>4, GraphFacts, JobFacts DEF IInv, GraphOK, OfPair
<1>6. r.at = <<"LOCALE", p[2]>>
  BY <1>1, <1>4, <1>5 DEF Repair, OfPair, About
<1>7. MoveOf(p[1]) # {}
  BY <1>3, <1>4 DEF OfPair, About, PairStatus
<1>8. QED BY <1>1, <1>4, <1>6, <1>7 DEF OfPair

(* And every such pair has one, towards the prior parent.                  *)
LEMMA MoveRepairOf ==
  ASSUME IInv, IssueInv, RootsMatchRoots, Finished,
         NEW p \in Confirmed, NEW op \in operations, IsMove(op, p)
  PROVE  \E r \in MoveRepairs : r.at = <<"LOCALE", p[2]>> /\ r.destination = FromParent(p)
<1> DEFINE i == PairIssue(validation, p)
           r == Repair(validation, i)
<1>1. sourceTree.parent[p[1]] # NoNode /\ p[1] \in Sources /\ p[2] \in Targets
  BY DEF IsMove, CrossParent
<1>2. op.type = "MOVE" /\ op.sources = {p[1]} /\ op.at[1] = FromParent(p)
  BY DEF IsMove, Operation
<1>3. MoveOf(p[1]) = {op}
  <2>1. op \in MoveOf(p[1])
    BY <1>2 DEF MoveOf, OfType
  <2>2. MoveOf(p[1]) \subseteq SourceVerdicts(p[1])
    BY DEF MoveOf, SourceVerdicts, OfType
  <2>3. \A o \in MoveOf(p[1]) : o = op
    BY <1>1, <2>1, <2>2, OneOperation
  <2>4. QED BY <2>1, <2>3
<1>4. i \in Issues(validation) /\ About(i, "WRONG_PARENT", p[1], p[2], {op})
  BY <1>1, <1>3, PairIssueAlone DEF OfPair, About, PairStatus
<1>5. Repairable(i) /\ RepairOf[i.status] = "MOVE_NODE"
  BY <1>4 DEF Repairable, RepairOf, About
<1>6. r \in repairs
  BY <1>4, <1>5 DEF IssueInv, Finished, Attached
<1>7. p[2] # NoNode
  BY <1>1, JobFacts DEF IInv
<1>8. r.operation = "MOVE_NODE" /\ r.at = <<"LOCALE", p[2]>> /\ r.destination = Destination(i)
  BY <1>4, <1>5, <1>7 DEF Repair, About
<1>9. Destination(i) = op.at[1]
  BY <1>4 DEF Destination, About
<1>10. QED BY <1>2, <1>6, <1>8, <1>9 DEF MoveRepairs

(* No other recommended move is about the same node. *)
LEMMA MoveRepairAlone ==
  ASSUME IInv, IssueInv, Finished, NEW r \in MoveRepairs, NEW x \in MoveRepairs, r.at = x.at
  PROVE  r = x
<1>1. PICK p \in Confirmed : r = Repair(validation, PairIssue(validation, p)) /\ r.at = <<"LOCALE", p[2]>>
  BY MoveRepairIs
<1>2. PICK q \in Confirmed : x = Repair(validation, PairIssue(validation, q)) /\ x.at = <<"LOCALE", q[2]>>
  BY MoveRepairIs
<1>3. p[2] = q[2]
  BY <1>1, <1>2
<1>4. p = q
  BY <1>3, GraphFacts DEF IInv, GraphOK
<1>5. QED BY <1>1, <1>2, <1>4

(* After the moves the parents of a pair correspond.                       *)
LEMMA RepairedPair ==
  ASSUME IInv, IssueInv, RootsMatchRoots, Finished, Enabled("MOVE"),
         \A r \in MoveRepairs : r.destination # NoNode,
         NEW p \in Confirmed, Accounted(p), p[1] # Root
  PROVE  <<sourceTree.parent[p[1]], RepairedParent(p[2])>> \in ParentPairs
<1>1. GraphOK /\ JobInv /\ RegionInv /\ Moves \subseteq operations
  BY GraphFacts DEF IInv, OperationInv, Finished, Explaining
<1>2. p[1] \in Sources /\ p[2] \in Targets
  BY <1>1 DEF GraphOK
<1>3. CASE CrossParent(p)
  <2> DEFINE op == Operation("MOVE", {p[1]}, {p[2]}, Confidence(p[1], p[2]), <<FromParent(p), ToParent(p)>>)
  <2>1. p \in MovePairs
    BY <1>3 DEF MovePairs, Accounted
  <2>2. op \in Moves
    BY <2>1 DEF Moves
  <2>3. op.sources = {p[1]}
    BY DEF Operation
  <2> HIDE DEF op
  <2>4. PICK q : IsMove(op, q)
    BY <1>1, <2>2, MoveFacts
  <2>5. q[1] = p[1] /\ q \in Confirmed
    BY <2>3, <2>4 DEF IsMove, Operation
  <2>6. q = p
    BY <1>1, <2>5 DEF GraphOK
  <2>7. PICK r \in MoveRepairs : r.at = <<"LOCALE", p[2]>> /\ r.destination = FromParent(p)
    BY <1>1, <2>2, <2>4, <2>6, MoveRepairOf
  <2>8. \A x \in MoveRepairs : x.at = <<"LOCALE", p[2]>> => x = r
    BY <2>7, MoveRepairAlone
  <2>9. RepairedParent(p[2]) = FromParent(p)
    BY <2>7, <2>8 DEF RepairedParent
  <2>10. <<sourceTree.parent[p[1]], FromParent(p)>> \in Confirmed
    <3> DEFINE prior == { t \in Targets : <<sourceTree.parent[p[1]], t>> \in Confirmed }
    <3>1. FromParent(p) \in prior
      BY <2>7 DEF FromParent
    <3>2. QED BY <3>1
  <2>11. QED BY <2>9, <2>10 DEF ParentPairs
<1>4. CASE ~CrossParent(p)
  <2>1. ASSUME NEW r \in MoveRepairs, r.at = <<"LOCALE", p[2]>> PROVE FALSE
    <3>1. PICK q \in Confirmed : MoveOf(q[1]) # {} /\ r.at = <<"LOCALE", q[2]>>
      BY MoveRepairIs
    <3>2. q = p
      BY <1>1, <2>1, <3>1 DEF GraphOK
    <3>3. PICK op \in operations : op.type = "MOVE" /\ p[1] \in op.sources
      BY <3>1, <3>2 DEF MoveOf, OfType
    <3>4. PICK x : IsMove(op, x)
      BY <1>1, <3>3, OperationSources, MoveFacts
    <3>5. x = p
      BY <1>1, <3>3, <3>4 DEF IsMove, Operation, GraphOK
    <3>6. QED BY <1>4, <3>4, <3>5 DEF IsMove
  <2>2. RepairedParent(p[2]) = targetTree.parent[p[2]]
    BY <2>1 DEF RepairedParent
  <2>3. QED BY <1>1, <1>4, <2>2, StaysOver DEF Over
<1>5. QED BY <1>3, <1>4

(* In a set of target nodes, take the counterpart of a source node whose   *)
(* parent has none there, or, if none is matched, use the target tree.     *)
LEMMA InvRestored == IInv /\ IssueInv => RepairsRestoreStructure
<1> SUFFICES ASSUME IInv, IssueInv, Finished, Enabled("MOVE"),
                    \A r \in MoveRepairs : r.destination # NoNode,
                    \A p \in Confirmed : Accounted(p) /\ (p[1] = Root <=> p[2] = Root)
             PROVE  /\ \A S \in SUBSET (Targets \ {Root}) :
                         S # {} => \E t \in S : RepairedParent(t) \notin S
                    /\ \A p \in Confirmed : p[1] # Root =>
                         ParentsCorrespond(sourceTree.parent[p[1]], RepairedParent(p[2]))
  BY DEF RepairsRestoreStructure
<1>1. RootsMatchRoots /\ GraphOK
  BY GraphFacts DEF RootsMatchRoots, IInv
<1>2. \A p \in Confirmed : p[1] # Root =>
        <<sourceTree.parent[p[1]], RepairedParent(p[2])>> \in ParentPairs
  BY <1>1, RepairedPair
<1>3. /\ \A S \in SUBSET Sources : S # {} => \E s \in S : sourceTree.parent[s] \notin S
      /\ \A S \in SUBSET Targets : S # {} => \E t \in S : targetTree.parent[t] \notin S
  BY JobFacts DEF IInv, IsTree
<1>4. ASSUME NEW S \in SUBSET (Targets \ {Root}), S # {}
      PROVE  \E t \in S : RepairedParent(t) \notin S
  <2> DEFINE matched == { s \in Sources : \E p \in Confirmed : p[1] = s /\ p[2] \in S }
  <2>1. CASE matched # {}
    <3>1. PICK s \in matched : sourceTree.parent[s] \notin matched
      BY <1>3, <2>1
    <3>2. PICK p \in Confirmed : p[1] = s /\ p[2] \in S
      BY <3>1
    <3>3. <<sourceTree.parent[s], RepairedParent(p[2])>> \in ParentPairs
      BY <1>1, <1>2, <1>4, <3>2 DEF RootsMatchRoots
    <3>4. ASSUME RepairedParent(p[2]) \in S PROVE FALSE
      <4>1. <<sourceTree.parent[s], RepairedParent(p[2])>> \in Confirmed
        BY <1>4, <3>3, <3>4 DEF ParentPairs
      <4>2. sourceTree.parent[s] \in Sources
        BY <1>1, <4>1 DEF GraphOK
      <4>3. sourceTree.parent[s] \in matched
        BY <3>4, <4>1, <4>2
      <4>4. QED BY <3>1, <4>3
    <3>5. QED BY <3>2, <3>4
  <2>2. CASE matched = {}
    <3>1. PICK t \in S : targetTree.parent[t] \notin S
      BY <1>3, <1>4
    <3>2. ASSUME NEW r \in MoveRepairs, r.at = <<"LOCALE", t>> PROVE FALSE
      <4>1. PICK p \in Confirmed : r.at = <<"LOCALE", p[2]>>
        BY MoveRepairIs
      <4>2. p[2] = t /\ p[1] \in Sources
        BY <1>1, <3>2, <4>1 DEF GraphOK
      <4>3. QED BY <2>2, <4>2
    <3>3. RepairedParent(t) = targetTree.parent[t]
      BY <3>2 DEF RepairedParent
    <3>4. QED BY <3>1, <3>3
  <2>3. QED BY <2>1, <2>2
<1>5. \A p \in Confirmed : p[1] # Root =>
        ParentsCorrespond(sourceTree.parent[p[1]], RepairedParent(p[2]))
  BY <1>2 DEF ParentPairs, ParentsCorrespond
<1>6. QED BY <1>4, <1>5

(* Made together, the recommended moves leave a tree in which every        *)
(* counterpart is below the counterpart of its parent.                     *)
THEOREM RepairsRestoreStructureHolds == JobSpec => []RepairsRestoreStructure
BY JobInvariance, InvRestored, PTL

-----------------------------------------------------------------------------
(* Every defect surfaces. *)

(* The image of a finite set is finite.                                    *)
LEMMA FiniteImage ==
  ASSUME NEW S, IsFiniteSet(S), NEW f, f = [x \in S |-> f[x]]
  PROVE  IsFiniteSet({ f[x] : x \in S })
<1> DEFINE T == { f[x] : x \in S }
<1>1. f \in Surjection(S, T)
  BY DEF Surjection
<1>2. QED BY <1>1, FS_Surjection

(* So are the records over finite sets.                                    *)
LEMMA FiniteRecords ==
  ASSUME NEW A, NEW B, NEW C, NEW D, NEW E, IsFiniteSet(A), IsFiniteSet(B), IsFiniteSet(C),
         IsFiniteSet(D), IsFiniteSet(E)
  PROVE  IsFiniteSet([type : A, sources : B, targets : C, confidence : D, at : E])
<1> DEFINE Parts == ((A \X B) \X (C \X D)) \X E
           f == [x \in Parts |-> [type |-> x[1][1][1], sources |-> x[1][1][2],
                                  targets |-> x[1][2][1], confidence |-> x[1][2][2], at |-> x[2]]]
<1>1. IsFiniteSet(Parts)
  <2>1. \A X, Y : IsFiniteSet(X) /\ IsFiniteSet(Y) => IsFiniteSet(X \X Y)
    BY FS_Product
  <2>2. QED BY <2>1, Zenon
<1>2. f = [x \in Parts |-> f[x]]
  OBVIOUS
<1>3. ASSUME NEW op \in [type : A, sources : B, targets : C, confidence : D, at : E]
      PROVE  op \in { f[x] : x \in Parts }
  <2> DEFINE x == <<<<<<op.type, op.sources>>, <<op.targets, op.confidence>>>>, op.at>>
  <2>1. x \in Parts
    OBVIOUS
  <2>2. f[x] = op
    BY <2>1
  <2>3. QED BY <2>1, <2>2
<1> HIDE DEF f, Parts
<1>4. IsFiniteSet({ f[x] : x \in Parts })
  BY <1>1, <1>2, FiniteImage
<1>5. QED BY <1>3, <1>4, FS_Subset

(* Finite trees give finitely many operations, *)
LEMMA OperationsFinite ==
  ASSUME IInv
  PROVE  IsFiniteSet(operations)
<1>1. IsFiniteSet(Sources) /\ IsFiniteSet(Targets)
  BY EngineAssumption
<1>2. IsFiniteSet(OperationTypes) /\ IsFiniteSet({NoNode})
  <2>1. /\ IsFiniteSet({"MATCH"}) /\ IsFiniteSet({"UPDATE"}) /\ IsFiniteSet({"INSERT"})
        /\ IsFiniteSet({"DELETE"}) /\ IsFiniteSet({"MOVE"}) /\ IsFiniteSet({"REORDER"})
        /\ IsFiniteSet({NoNode})
    BY FS_Singleton
  <2>2. OperationTypes = {"MATCH"} \cup {"UPDATE"} \cup {"INSERT"} \cup {"DELETE"}
                           \cup {"MOVE"} \cup {"REORDER"}
    BY DEF OperationTypes
  <2>3. QED BY <2>1, <2>2, FS_Union
<1>3. IsFiniteSet(0..Scale)
  <2>1. 0 \in Int /\ Scale \in Int
    BY SMT DEF Scale
  <2>2. QED BY <2>1, FS_Interval
<1>4. IsFiniteSet(SUBSET Sources) /\ IsFiniteSet(SUBSET Targets)
      /\ IsFiniteSet(SUBSET (Sources \cup Targets))
  BY <1>1, FS_SUBSET, FS_Union
<1>5. IsFiniteSet((Sources \cup Targets \cup {NoNode}) \X Targets)
  BY <1>1, <1>2, FS_Union, FS_Product
<1>6. IsFiniteSet(OperationSet)
  BY <1>2, <1>3, <1>4, <1>5, FiniteRecords DEF OperationSet
<1>7. QED
  BY <1>6, InvType, FS_Subset DEF TypeOK

(* and effects,                                                            *)
LEMMA EffectsFinite ==
  ASSUME IInv
  PROVE  IsFiniteSet(effects)
<1> DEFINE Parts == operations \X SUBSET (Sources \cup Targets)
           f == [x \in Parts |-> [root |-> x[1], affected |-> x[2]]]
<1>1. IsFiniteSet(Sources \cup Targets)
  BY EngineAssumption, FS_Union
<1>2. IsFiniteSet(Parts)
  BY <1>1, OperationsFinite, FS_SUBSET, FS_Product
<1>3. f = [x \in Parts |-> f[x]]
  OBVIOUS
<1>4. ASSUME NEW e \in effects PROVE e \in { f[x] : x \in Parts }
  <2>1. e \in [root : operations, affected : SUBSET (Sources \cup Targets)]
    BY InvType DEF TypeOK
  <2>2. <<e.root, e.affected>> \in Parts /\ f[<<e.root, e.affected>>] = e
    BY <2>1
  <2>3. QED BY <2>2
<1> HIDE DEF f, Parts
<1>5. IsFiniteSet({ f[x] : x \in Parts })
  BY <1>2, <1>3, FiniteImage
<1>6. QED BY <1>4, <1>5, FS_Subset

(* and issues.                                                             *)
LEMMA IssuesFinite ==
  ASSUME IInv, NEW v, Interpreted
  PROVE  IsFiniteSet(Issues(v))
<1>1. GraphOK /\ JobInv
  BY GraphFacts DEF IInv
<1>2. IsFiniteSet(Sources) /\ IsFiniteSet(Targets) /\ IsFiniteSet(operations)
  BY EngineAssumption, OperationsFinite
<1>3. IsFiniteSet(PairIssues(v))
  <2> DEFINE Pairs == { q \in Confirmed : sourceTree.parent[q[1]] # NoNode }
             f == [p \in Pairs |-> PairIssue(v, p)]
  <2>1. IsFiniteSet(Sources \X Targets)
    BY <1>2, FS_Product
  <2>2. IsFiniteSet(Pairs)
    BY <1>1, <2>1, FS_Subset DEF GraphOK
  <2>3. f = [p \in Pairs |-> f[p]] /\ PairIssues(v) = { f[p] : p \in Pairs }
    BY DEF PairIssues
  <2> HIDE DEF f, Pairs
  <2>4. QED BY <2>2, <2>3, FiniteImage
<1>4. IsFiniteSet(AmbiguousIssues)
  <2> DEFINE Open == { c.source : c \in Ambiguous }
             f == [s \in Open |-> AmbiguousIssue(s)]
  <2>1. IsFiniteSet(Open)
    BY <1>1, <1>2, FS_Subset DEF GraphOK
  <2>2. f = [s \in Open |-> f[s]] /\ AmbiguousIssues = { f[s] : s \in Open }
    BY DEF AmbiguousIssues
  <2> HIDE DEF f, Open
  <2>3. QED BY <2>1, <2>2, FiniteImage
<1>5. IsFiniteSet(OrderIssues)
  <2> DEFINE Some == OfType({"REORDER"})
             f == [op \in Some |-> OrderIssue(op)]
  <2>1. IsFiniteSet(Some)
    BY <1>2, FS_Subset DEF OfType
  <2>2. f = [op \in Some |-> f[op]] /\ OrderIssues = { f[op] : op \in Some }
    BY DEF OrderIssues
  <2> HIDE DEF f, Some
  <2>3. QED BY <2>1, <2>2, FiniteImage
<1>6. IsFiniteSet(PresenceIssues(v))
  <2> DEFINE Some == OfType({"DELETE", "INSERT"})
             f == [op \in Some |-> PresenceIssue(v, op)]
  <2>1. IsFiniteSet(Some)
    BY <1>2, FS_Subset DEF OfType
  <2>2. f = [op \in Some |-> f[op]] /\ PresenceIssues(v) = { f[op] : op \in Some }
    BY DEF PresenceIssues
  <2> HIDE DEF f, Some
  <2>3. QED BY <2>1, <2>2, FiniteImage
<1>7. IsFiniteSet(ConflictIssues)
  <2> DEFINE Twice == ({"SOURCE"} \X Duplicated(source)) \cup ({"TARGET"} \X Duplicated(target))
             f == [c \in Twice |-> [NewIssue("IDENTIFIER_CONFLICT", NoNode, NoNode) EXCEPT !.conflict = c]]
  <2>1. IsFiniteSet(DOMAIN source) /\ IsFiniteSet(DOMAIN target)
    BY <1>1, <1>2, EngineAssumption, FS_Subset DEF JobInv, EvidenceOf, IsTree, Nodes
  <2>2. ASSUME NEW ev, IsFiniteSet(DOMAIN ev) PROVE IsFiniteSet(Duplicated(ev))
    <3> DEFINE S == { m \in DOMAIN ev : /\ ev[m].pid # NoValue
                                       /\ \E other \in DOMAIN ev \ {m} : ev[other].pid = ev[m].pid }
               g == [n \in S |-> ev[n].pid]
    <3>1. IsFiniteSet(S)
      BY <2>2, FS_Subset
    <3>2. g = [n \in S |-> g[n]] /\ Duplicated(ev) = { g[n] : n \in S }
      BY DEF Duplicated
    <3> HIDE DEF g, S
    <3>3. QED BY <3>1, <3>2, FiniteImage
  <2>3. IsFiniteSet({"SOURCE"} \X Duplicated(source)) /\ IsFiniteSet({"TARGET"} \X Duplicated(target))
    BY <2>1, <2>2, FS_Singleton, FS_Product
  <2>4. IsFiniteSet(Twice)
    BY <2>3, FS_Union
  <2>5. f = [c \in Twice |-> f[c]] /\ ConflictIssues = { f[c] : c \in Twice }
    BY DEF ConflictIssues
  <2> HIDE DEF f, Twice
  <2>6. QED BY <2>4, <2>5, FiniteImage
<1>8. IsFiniteSet(PairIssues(v) \cup AmbiguousIssues \cup OrderIssues \cup PresenceIssues(v)
                    \cup ConflictIssues)
  BY <1>3, <1>4, <1>5, <1>6, <1>7, FS_Union
<1>9. QED BY <1>8, FS_Subset DEF Issues

(* An operation that changes something has one issue, or it is the absence *)
(* of an ambiguous node.                                                   *)
LEMMA CarrierCases ==
  ASSUME IInv, NEW v, NEW op \in OfType({"MOVE", "REORDER", "DELETE", "INSERT"})
  PROVE  \E k : /\ op \in k.operations
                /\ \A i \in Issues(v) : op \in i.operations => i = k
                /\ \/ k \in Issues(v)
                   \/ op.sources \cap { c.source : c \in Ambiguous } # {}
                   \/ op.targets \cap { c.target : c \in Ambiguous } # {}
<1>1. GraphOK /\ JobInv /\ RegionInv /\ op \in operations
  BY GraphFacts DEF IInv, OfType
<1>2. CASE op.type = "MOVE"
  <2>1. PICK p : IsMove(op, p)
    BY <1>1, <1>2, OperationSources, MoveFacts
  <2>2. op.sources = {p[1]} /\ p \in Confirmed /\ sourceTree.parent[p[1]] # NoNode
    BY <2>1 DEF IsMove, Operation, CrossParent
  <2> DEFINE k == PairIssue(v, p)
  <2>3. k \in Issues(v) /\ OfPair(v, k, p)
    BY <2>2, PairIssueAlone
  <2>4. op \in k.operations
    BY <1>1, <1>2, <2>2, <2>3 DEF OfPair, About, MoveOf, OfType
  <2>5. ASSUME NEW i \in Issues(v), op \in i.operations PROVE i = k
    <3>1. PICK q : OfPair(v, i, q)
      BY <1>2, <2>5, IssueCases DEF OfAmbiguity, OfOrder, OfPresence, OfConflict, About, OfType
    <3>2. q[1] \in op.sources /\ q \in Confirmed
      BY <2>5, <3>1 DEF OfPair, About, MoveOf
    <3>3. q = p
      BY <1>1, <2>2, <3>2 DEF GraphOK
    <3>4. QED BY <3>1, <3>3 DEF OfPair
  <2>6. QED BY <2>3, <2>4, <2>5
<1>3. CASE op.type = "REORDER"
  <2> DEFINE k == OrderIssue(op)
  <2>1. OfOrder(k, op) /\ k \in OrderIssues
    BY <1>1, <1>3, OrderIssueIs DEF OrderIssues, OfType
  <2>2. k \in Issues(v) /\ op \in k.operations
    BY <2>1 DEF OfOrder, About, Contradicted, Issues
  <2>3. ASSUME NEW i \in Issues(v), op \in i.operations PROVE i = k
    BY <1>3, <2>3, IssueCases
       DEF OfPair, MoveOf, OfAmbiguity, OfOrder, OfPresence, OfConflict, About, OfType
  <2>4. QED BY <2>2, <2>3
<1>4. CASE op.type \in {"DELETE", "INSERT"}
  <2> DEFINE k == PresenceIssue(v, op)
  <2>1. op \in OfType({"DELETE", "INSERT"})
    BY <1>1, <1>4 DEF OfType
  <2>2. OfPresence(v, k, op)
    BY <2>1, PresenceIssueIs
  <2>3. op \in k.operations
    BY <2>2 DEF OfPresence, About
  <2>4. ASSUME NEW i \in Issues(v), op \in i.operations PROVE i = k
    BY <1>4, <2>4, IssueCases
       DEF OfPair, MoveOf, OfAmbiguity, OfOrder, OfPresence, OfConflict, About, OfType
  <2>5. CASE ~Contradicted(k)
    BY <2>1, <2>3, <2>4, <2>5 DEF Issues, PresenceIssues
  <2>6. CASE Contradicted(k)
    <3>1. \A r \in regions : /\ r.unresolvedSource \subseteq { c.source : c \in Ambiguous }
                             /\ r.unresolvedTarget \subseteq { c.target : c \in Ambiguous }
      BY <1>1 DEF RegionInv, Describes, AmbiguousSources, AmbiguousTargets, Classifying, Explaining
    <3>2. CASE k.status = "MISSING_IN_LOCALE"
      BY <2>2, <2>3, <2>4, <2>6, <3>1, <3>2 DEF Contradicted, OfPresence, About
    <3>3. CASE k.status = "EXTRA_IN_LOCALE"
      BY <2>2, <2>3, <2>4, <2>6, <3>1, <3>3 DEF Contradicted, OfPresence, About
    <3>4. QED BY <2>6, <3>2, <3>3 DEF Contradicted
  <2>7. QED BY <2>5, <2>6
<1>5. QED BY <1>2, <1>3, <1>4 DEF OfType

(* The row of that issue counts the effects that its operation hides.      *)
LEMMA InvSurface == IInv /\ IssueInv => DefectsSurface
<1> SUFFICES ASSUME IInv, IssueInv, Finished,
                    NEW op \in OfType({"MOVE", "REORDER", "DELETE", "INSERT"})
             PROVE  LET carriers == { i \in issues : op \in i.operations }
                        hidden   == { e \in effects : e.root = op }
                    IN  \/ /\ Cardinality(carriers) = 1
                           /\ hidden # {} => \E row \in table : row.issue \in carriers /\ row.hidden > 0
                        \/ /\ carriers = {}
                           /\ op.sources \cap { c.source : c \in Ambiguous } # {}
                              \/ op.targets \cap { c.target : c \in Ambiguous } # {}
  BY DEF DefectsSurface
<1> DEFINE carriers == { i \in issues : op \in i.operations }
           hidden   == { e \in effects : e.root = op }
<1>1. PICK k : /\ op \in k.operations
               /\ \A i \in Issues(validation) : op \in i.operations => i = k
               /\ \/ k \in Issues(validation)
                  \/ op.sources \cap { c.source : c \in Ambiguous } # {}
                  \/ op.targets \cap { c.target : c \in Ambiguous } # {}
  BY CarrierCases
<1>2. /\ issues = { Reported(i) : i \in Issues(validation) }
      /\ \A i \in Issues(validation) : Reported(i).operations = i.operations
  BY ReportedIssues DEF Finished, Interpreted
<1>3. CASE k \in Issues(validation)
  <2>1. carriers = {Reported(k)}
    BY <1>1, <1>2, <1>3
  <2>2. Cardinality(carriers) = 1
    BY <2>1, FS_Singleton
  <2>3. ASSUME hidden # {} PROVE \E row \in table : row.issue \in carriers /\ row.hidden > 0
    <3> DEFINE caused == { e \in effects : e.root \in Reported(k).operations }
               row == [issue |-> Reported(k), operations |-> Reported(k).operations,
                       hidden |-> Cardinality(caused)]
    <3>1. caused # {}
      BY <1>1, <1>2, <1>3, <2>3
    <3>2. IsFiniteSet(caused)
      BY EffectsFinite, FS_Subset
    <3>3. Cardinality(caused) \in Nat /\ Cardinality(caused) # 0
      BY <3>1, <3>2, FS_CardinalityType, FS_EmptySet
    <3>4. \A b \in BOOLEAN : row \in Table(b)
      BY <1>2, <1>3 DEF Table
    <3>5. \E b \in BOOLEAN : table = Table(b)
      BY DEF IssueInv, Finished
    <3>6. row.issue \in carriers /\ row.hidden > 0
      BY <2>1, <3>3
    <3>7. QED BY <3>4, <3>5, <3>6
  <2>4. QED BY <2>2, <2>3
<1>4. CASE k \notin Issues(validation)
  <2>1. carriers = {}
    BY <1>1, <1>2, <1>4
  <2>2. QED BY <1>1, <1>4, <2>1
<1>5. QED BY <1>3, <1>4

(* Every defect of the core surfaces in one issue, with what it hides.     *)
THEOREM DefectsSurfaceHolds == JobSpec => []DefectsSurface
BY JobInvariance, InvSurface, PTL

-----------------------------------------------------------------------------
(* Findings are priced once. *)

(* The statuses that an issue can have: those of a category, and two that  *)
(* no category prices.                                                     *)
Unpriced == {"SOURCE_UPDATED", "IDENTIFIER_CONFLICT"}

LEMMA StatusCases ==
  ASSUME IInv, NEW v, NEW i \in Issues(v)
  PROVE  \/ i.status \in {"CONFIRMED_MATCH", "PROBABLE_MATCH", "AMBIGUOUS_MATCH"}
         \/ i.status \in {"MISSING_IN_LOCALE", "EXTRA_IN_LOCALE", "EXEMPT_LOCALE_VARIATION"}
         \/ i.status \in Divergent
         \/ i.status \in Unpriced
<1>1. CASE \E p : OfPair(v, i, p)
  BY <1>1 DEF OfPair, About, PairStatus, Divergent, Unpriced
<1>2. CASE \E op : OfPresence(v, i, op)
  BY <1>2 DEF OfPresence, About
<1>3. QED BY <1>1, <1>2, IssueCases DEF OfAmbiguity, OfOrder, OfConflict, About, Divergent, Unpriced

(* Counts of statuses that exclude each other add up. *)
LEMMA CountsAdd ==
  ASSUME IsFiniteSet(issues), NEW A, NEW B, A \cap B = {}
  PROVE  /\ CountOf(A \cup B) = CountOf(A) + CountOf(B)
         /\ CountOf(A) \in Nat /\ CountOf(B) \in Nat
<1> DEFINE S == { i \in issues : i.status \in A }
           T == { i \in issues : i.status \in B }
<1>1. IsFiniteSet(S) /\ IsFiniteSet(T)
  BY FS_Subset
<1>2. S \cap T = {} /\ { i \in issues : i.status \in A \cup B } = S \cup T
  OBVIOUS
<1>3. Cardinality(S \cap T) = 0 /\ Cardinality(S) \in Nat /\ Cardinality(T) \in Nat
  BY <1>1, <1>2, FS_EmptySet, FS_CardinalityType
<1>4. Cardinality(S \cup T) = Cardinality(S) + Cardinality(T) - Cardinality(S \cap T)
  BY <1>1, FS_Union
<1>5. CountOf(A) = Cardinality(S) /\ CountOf(B) = Cardinality(T)
  BY DEF CountOf
<1>6. CountOf(A \cup B) = Cardinality(S \cup T)
  BY <1>2 DEF CountOf
<1> HIDE DEF S, T
<1>7. QED BY <1>3, <1>4, <1>5, <1>6

(* Every issue has one status, each status is in one category or in none.  *)
LEMMA InvPriced == IInv /\ IssueInv => FindingsPricedOnce
<1> SUFFICES ASSUME IInv, IssueInv, Finished PROVE FindingsPricedOnce
  BY DEF FindingsPricedOnce
<1> DEFINE unit == [c \in DOMAIN summary.nodes |-> 1]
           nodes == summary.nodes
<1>1. /\ issues = { Reported(i) : i \in Issues(validation) }
      /\ \A i \in Issues(validation) : Reported(i).status = i.status
  BY ReportedIssues DEF Finished, Interpreted
<1>2. IsFiniteSet(issues)
  <2> DEFINE f == [i \in Issues(validation) |-> Reported(i)]
  <2>1. f = [i \in Issues(validation) |-> f[i]] /\ issues = { f[i] : i \in Issues(validation) }
    BY <1>1
  <2>2. IsFiniteSet(Issues(validation))
    BY IssuesFinite DEF Finished, Interpreted
  <2> HIDE DEF f
  <2>3. QED BY <2>1, <2>2, FiniteImage
<1>3. summary = Summary
  BY DEF IssueInv, Finished
<1>4. /\ nodes.confirmed = CountOf({"CONFIRMED_MATCH"})
      /\ nodes.probable = CountOf({"PROBABLE_MATCH"})
      /\ nodes.ambiguous = CountOf({"AMBIGUOUS_MATCH"})
      /\ nodes.missing = CountOf({"MISSING_IN_LOCALE"})
      /\ nodes.extra = CountOf({"EXTRA_IN_LOCALE"})
      /\ nodes.structurally_divergent = CountOf(Divergent)
      /\ nodes.exempt = CountOf({"EXEMPT_LOCALE_VARIATION"})
      /\ summary.direct = Cardinality(issues)
  BY <1>3 DEF Summary
<1>5. DOMAIN nodes = {"confirmed", "probable", "ambiguous", "missing", "extra",
                      "structurally_divergent", "exempt"}
  BY <1>3 DEF Summary
<1> DEFINE A1 == {"CONFIRMED_MATCH"}
           A2 == A1 \cup {"PROBABLE_MATCH"}
           A3 == A2 \cup {"AMBIGUOUS_MATCH"}
           A4 == A3 \cup {"MISSING_IN_LOCALE"}
           A5 == A4 \cup {"EXTRA_IN_LOCALE"}
           A6 == A5 \cup Divergent
           A7 == A6 \cup {"EXEMPT_LOCALE_VARIATION"}
           A8 == A7 \cup Unpriced
<1>6. Cardinality(issues) = CountOf(A8)
  <2>1. \A i \in issues : i.status \in A8
    BY <1>1, StatusCases
  <2>2. { i \in issues : i.status \in A8 } = issues
    BY <2>1
  <2> HIDE DEF A8
  <2>3. QED BY <2>2 DEF CountOf
<1>7. /\ A1 \cap {"PROBABLE_MATCH"} = {} /\ A2 \cap {"AMBIGUOUS_MATCH"} = {}
      /\ A3 \cap {"MISSING_IN_LOCALE"} = {} /\ A4 \cap {"EXTRA_IN_LOCALE"} = {}
      /\ A5 \cap Divergent = {} /\ A6 \cap {"EXEMPT_LOCALE_VARIATION"} = {}
      /\ A7 \cap Unpriced = {}
  BY DEF Divergent, Unpriced
<1>8. \A A, B : A \cap B = {} => /\ CountOf(A \cup B) = CountOf(A) + CountOf(B)
                                 /\ CountOf(A) \in Nat /\ CountOf(B) \in Nat
  BY <1>2, CountsAdd
<1> HIDE DEF A1, A2, A3, A4, A5, A6, A7, A8
<1>9. /\ CountOf(A2) = CountOf(A1) + CountOf({"PROBABLE_MATCH"})
      /\ CountOf(A3) = CountOf(A2) + CountOf({"AMBIGUOUS_MATCH"})
      /\ CountOf(A4) = CountOf(A3) + CountOf({"MISSING_IN_LOCALE"})
      /\ CountOf(A5) = CountOf(A4) + CountOf({"EXTRA_IN_LOCALE"})
      /\ CountOf(A6) = CountOf(A5) + CountOf(Divergent)
      /\ CountOf(A7) = CountOf(A6) + CountOf({"EXEMPT_LOCALE_VARIATION"})
      /\ CountOf(A8) = CountOf(A7) + CountOf(Unpriced)
  BY <1>7, <1>8, Zenon DEF A2, A3, A4, A5, A6, A7, A8
<1>10. /\ CountOf(A1) \in Nat /\ CountOf({"PROBABLE_MATCH"}) \in Nat
       /\ CountOf({"AMBIGUOUS_MATCH"}) \in Nat /\ CountOf({"MISSING_IN_LOCALE"}) \in Nat
       /\ CountOf({"EXTRA_IN_LOCALE"}) \in Nat /\ CountOf(Divergent) \in Nat
       /\ CountOf({"EXEMPT_LOCALE_VARIATION"}) \in Nat /\ CountOf(Unpriced) \in Nat
  BY <1>7, <1>8, Zenon
<1>11. CountOf(A1) = nodes.confirmed
  BY <1>4 DEF A1
<1>12. \A c \in DOMAIN nodes : nodes[c] \in Nat => Charge(unit, c) = nodes[c]
  BY DEF Charge
<1> HIDE DEF nodes, unit
<1>13. Price(unit) = nodes.confirmed + nodes.probable + nodes.ambiguous + nodes.missing
                       + nodes.extra + nodes.structurally_divergent + nodes.exempt
  BY <1>4, <1>5, <1>10, <1>11, <1>12 DEF Price
<1>14. Price(unit) = summary.direct - CountOf(Unpriced)
  BY <1>4, <1>6, <1>9, <1>10, <1>11, <1>13, SMT
<1>15. QED BY <1>14 DEF FindingsPricedOnce, unit, nodes, Unpriced

(* What is priced is each finding, once. *)
THEOREM FindingsPricedOnceHolds == JobSpec => []FindingsPricedOnce
BY JobInvariance, InvPriced, PTL
=============================================================================

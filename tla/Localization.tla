---------------------------- MODULE Localization ----------------------------
(***************************************************************************)
(* What the job service makes of a reconciliation that returned:           *)
(* LocalizationValidationService.validate (interpret, recommend and        *)
(* attach, summarise), then the rows of the report and the exit code of    *)
(* the command line.  The reconciliation itself runs first, step by step,  *)
(* as module Engine has it.                                                *)
(*                                                                         *)
(* An issue is a record; issue_id and the other generated ids, labels,     *)
(* paths and messages are left out, and an operation stands for its id.    *)
(***************************************************************************)
EXTENDS Engine

Sets == INSTANCE FiniteSetsExt

CONSTANTS
  Revisions,                  \* what revision metadata may say
  Validations                 \* what else validate() is told

(* What else validate() is told: the authoritative side, the threshold and *)
(* the rules of the locale policy (no policy is the default threshold and  *)
(* no rule) and, read from the nodes, the revision of each source node and *)
(* the source revision that each locale node was translated from.          *)
IsValidation(v) ==
  /\ v.authority \in {"SOURCE", "LOCALE"}
  /\ v.threshold \in 0..Scale
  /\ \A rule \in v.rules : rule.permits \in OperationTypes
  /\ v.revision \in [Sources -> Revisions \cup {NoValue}]
  /\ v.synced \in [Targets -> Revisions \cup {NoValue}]

ASSUME LocalizationAssumption ==
  NoValue \notin Revisions /\ \A v \in Validations : IsValidation(v)

VARIABLES
  step,                       \* where the job stands once the core has ended
  validation,                 \* the arguments of validate()
  issues, repairs, summary,   \* LocalizationValidationResult
  table,                      \* ReportTable.rows
  exitCode                    \* of the command line

outcome == <<validation, issues, repairs, summary, table, exitCode>>
jobVars == <<vars, step, outcome>>

Steps == {"core", "interpreted", "recommended", "summarised", "ended"}

Statuses ==
  {"CONFIRMED_MATCH", "PROBABLE_MATCH", "AMBIGUOUS_MATCH", "MISSING_IN_LOCALE",
   "EXTRA_IN_LOCALE", "WRONG_PARENT", "WRONG_ORDER", "SOURCE_UPDATED",
   "IDENTIFIER_CONFLICT", "EXEMPT_LOCALE_VARIATION"}

-----------------------------------------------------------------------------
(* Interpretation. *)

(* A LocalizationIssue and the defaults of its fields. *)
NewIssue(status, s, t) ==
  [status |-> status, source |-> s, locale |-> t, operations |-> {},
   match |-> NoValue, operation |-> NoValue, translation |-> "UNKNOWN",
   conflict |-> NoValue, repair |-> NoValue]

(* Mutant of TranslationState: metadata that is missing counts as stale. *)
MutantTranslationState(v, p) ==
  IF v.revision[p[1]] = v.synced[p[2]] THEN "CURRENT" ELSE "STALE"

TranslationState(v, p) ==
  IF NoValue \in {v.revision[p[1]], v.synced[p[2]]} THEN "UNKNOWN"
  ELSE IF v.revision[p[1]] = v.synced[p[2]] THEN "CURRENT"
  ELSE "STALE"

MoveOf(s) == { op \in OfType({"MOVE"}) : s \in op.sources }

(* Mutant of PairStatus: a stale translation outranks a move. *)
MutantPairStatus(v, p) ==
  IF TranslationState(v, p) = "STALE" THEN "SOURCE_UPDATED"
  ELSE IF MoveOf(p[1]) # {} THEN "WRONG_PARENT"
  ELSE IF Confidence(p[1], p[2]) >= v.threshold THEN "CONFIRMED_MATCH"
  ELSE "PROBABLE_MATCH"

(* A move outranks a stale translation, which outranks the confidence. *)
PairStatus(v, p) ==
  IF MoveOf(p[1]) # {} THEN "WRONG_PARENT"
  ELSE IF TranslationState(v, p) = "STALE" THEN "SOURCE_UPDATED"
  ELSE IF Confidence(p[1], p[2]) >= v.threshold THEN "CONFIRMED_MATCH"
  ELSE "PROBABLE_MATCH"

PairIssue(v, p) ==
  [NewIssue(PairStatus(v, p), p[1], p[2]) EXCEPT
     !.operations  = MoveOf(p[1]),
     !.match       = Confidence(p[1], p[2]),
     !.operation   = IF MoveOf(p[1]) = {} THEN NoValue
                     ELSE (CHOOSE op \in MoveOf(p[1]) : TRUE).confidence,
     !.translation = TranslationState(v, p)]

(* Every confirmed pair but that of the source root. *)
PairIssues(v) ==
  { PairIssue(v, p) : p \in { q \in Confirmed : sourceTree.parent[q[1]] # NoNode } }

AmbiguousIssue(s) ==
  [NewIssue("AMBIGUOUS_MATCH", s, NoNode) EXCEPT
     !.match = Sets!Max({ c.confidence : c \in { d \in Ambiguous : d.source = s } })]

AmbiguousIssues == { AmbiguousIssue(s) : s \in { c.source : c \in Ambiguous } }

(* A reorder is one finding; it points at the first of the siblings. *)
FirstSibling(op) ==
  LET kids == sourceTree.kids[op.at[1]]
  IN  kids[Sets!Min({ i \in DOMAIN kids : kids[i] \in op.sources })]

OrderIssue(op) ==
  [NewIssue("WRONG_ORDER", FirstSibling(op), NoNode) EXCEPT
     !.operations = {op}, !.operation = op.confidence]

OrderIssues == { OrderIssue(op) : op \in OfType({"REORDER"}) }

(* exemption_for: a rule without node types applies to all of them. *)
Exempt(v, op, type) ==
  \E rule \in v.rules : rule.permits = op.type /\ (rule.types = {} \/ type \in rule.types)

PresenceIssue(v, op) ==
  LET absent  == op.type = "DELETE"
      s       == IF absent THEN CHOOSE n \in op.sources : TRUE ELSE NoNode
      t       == IF absent THEN NoNode ELSE CHOOSE n \in op.targets : TRUE
      type    == IF absent THEN sourceTree.node[s].type ELSE targetTree.node[t].type
      default == IF absent THEN "MISSING_IN_LOCALE" ELSE "EXTRA_IN_LOCALE"
  IN  [NewIssue(IF Exempt(v, op, type) THEN "EXEMPT_LOCALE_VARIATION" ELSE default, s, t)
         EXCEPT !.operations = {op}, !.operation = op.confidence]

(* Mutant of PresenceIssues: a permitted difference is left out. *)
MutantPresenceIssues(v) ==
  { i \in { PresenceIssue(v, op) : op \in OfType({"DELETE", "INSERT"}) } :
      i.status # "EXEMPT_LOCALE_VARIATION" }

PresenceIssues(v) == { PresenceIssue(v, op) : op \in OfType({"DELETE", "INSERT"}) }

(* One per DUPLICATE_PERSISTENT_ID diagnostic of the core. *)
ConflictIssues ==
  { [NewIssue("IDENTIFIER_CONFLICT", NoNode, NoNode) EXCEPT !.conflict = c] :
      c \in ({"SOURCE"} \X Duplicated(source)) \cup ({"TARGET"} \X Duplicated(target)) }

(* Mutant of Contradicted: the locale side is forgotten. *)
MutantContradicted(i) ==
  /\ i.status = "MISSING_IN_LOCALE"
  /\ i.source \in { c.source : c \in Ambiguous } \cup UNION { r.unresolvedSource : r \in regions }

(* _without_contradictory_presence: ambiguity outranks absence. *)
Contradicted(i) ==
  \/ /\ i.status = "MISSING_IN_LOCALE"
     /\ i.source \in { c.source : c \in Ambiguous } \cup UNION { r.unresolvedSource : r \in regions }
  \/ /\ i.status = "EXTRA_IN_LOCALE"
     /\ i.locale \in { c.target : c \in Ambiguous } \cup UNION { r.unresolvedTarget : r \in regions }

Issues(v) ==
  { i \in PairIssues(v) \cup AmbiguousIssues \cup OrderIssues \cup PresenceIssues(v)
            \cup ConflictIssues : ~Contradicted(i) }

-----------------------------------------------------------------------------
(* Recommendations. *)

RepairOf ==
  [WRONG_PARENT |-> "MOVE_NODE", WRONG_ORDER |-> "REORDER_NODES",
   MISSING_IN_LOCALE |-> "ADD_NODE", EXTRA_IN_LOCALE |-> "REMOVE_NODE"]

Repairable(i) == i.status \in DOMAIN RepairOf

OtherSide(side) == IF side = "SOURCE" THEN "LOCALE" ELSE "SOURCE"

(* round(min(match, operation) * 0.9, 6), an absent confidence being 1.0. *)
RepairConfidence(i) ==
  (Sets!Min(({i.match, i.operation} \ {NoValue}) \cup {Scale}) * 9 + 5) \div 10

(* Mutant of Destination: where the node is, not where it came from. *)
MutantDestination(i) ==
  IF i.status = "WRONG_PARENT" THEN (CHOOSE op \in i.operations : TRUE).at[2] ELSE NoNode

(* _geometry: only a move knows a prior parent. *)
Destination(i) ==
  IF i.status = "WRONG_PARENT" THEN (CHOOSE op \in i.operations : TRUE).at[1] ELSE NoNode

(* A RepairRecommendation; `at' is target_node_ref with the tree it is in. *)
Repair(v, i) ==
  [operation   |-> RepairOf[i.status],
   side        |-> OtherSide(v.authority),
   operations  |-> i.operations,
   at          |-> IF i.locale # NoNode THEN <<"LOCALE", i.locale>> ELSE <<"SOURCE", i.source>>,
   destination |-> Destination(i),
   confidence  |-> RepairConfidence(i)]

Attach(i) == IF Repairable(i) THEN [i EXCEPT !.repair = RepairConfidence(i)] ELSE i

-----------------------------------------------------------------------------
(* Summary, report rows and exit code. *)

CountOf(statuses) == Cardinality({ i \in issues : i.status \in statuses })

(* Mutant of Divergent: a changed order is not counted. *)
MutantDivergent == {"WRONG_PARENT"}

Divergent == {"WRONG_PARENT", "WRONG_ORDER"}

Summary ==
  [statuses   |-> [status \in { i.status : i \in issues } |-> CountOf({status})],
   nodes      |-> [confirmed  |-> CountOf({"CONFIRMED_MATCH"}),
                   probable   |-> CountOf({"PROBABLE_MATCH"}),
                   ambiguous  |-> CountOf({"AMBIGUOUS_MATCH"}),
                   missing    |-> CountOf({"MISSING_IN_LOCALE"}),
                   extra      |-> CountOf({"EXTRA_IN_LOCALE"}),
                   structurally_divergent |-> CountOf(Divergent),
                   exempt     |-> CountOf({"EXEMPT_LOCALE_VARIATION"})],
   direct     |-> Cardinality(issues),
   suppressed |-> Cardinality(effects),
   unresolved |-> Cardinality({ r \in regions : Unresolved(r) })]

(* assess(): what the counts cost at a rate per category; a category that  *)
(* has no rate is not charged.                                             *)
Charge(rates, c) == IF c \in DOMAIN rates THEN rates[c] * summary.nodes[c] ELSE 0

Price(rates) ==
  Charge(rates, "confirmed") + Charge(rates, "probable") + Charge(rates, "ambiguous")
    + Charge(rates, "missing") + Charge(rates, "extra")
    + Charge(rates, "structurally_divergent") + Charge(rates, "exempt")

(* A row per issue, with the effects that its operation hides, and, unless *)
(* the options leave them out, a row per hidden effect.                    *)
Table(includeSuppressed) ==
  { [issue |-> i, operations |-> i.operations,
     hidden |-> Cardinality({ e \in effects : e.root \in i.operations })] : i \in issues }
  \cup
  { [issue |-> NoValue, operations |-> {e.root}, hidden |-> 0] :
      e \in { f \in effects : includeSuppressed } }

Severity(status) ==
  CASE status \in {"CONFIRMED_MATCH", "PROBABLE_MATCH", "EXEMPT_LOCALE_VARIATION"} -> "INFO"
    [] status \in {"MISSING_IN_LOCALE", "WRONG_PARENT", "IDENTIFIER_CONFLICT"}     -> "ERROR"
    [] OTHER                                                                       -> "WARNING"

Success         == 0
TechnicalError  == 1
ContentFindings == 2

(* Mutant of BlockingFindings: a wrong parent is a warning only. *)
MutantBlockingFindings ==
  { i \in issues : Severity(i.status) = "ERROR" /\ i.status # "WRONG_PARENT" }

(* has_blocking_findings under the default ExitCodePolicy. *)
BlockingFindings == { i \in issues : Severity(i.status) = "ERROR" }

-----------------------------------------------------------------------------
JobInit ==
  /\ Init
  /\ step = "core"
  /\ validation = NoValue
  /\ issues = {} /\ repairs = {} /\ summary = NoValue /\ table = {}
  /\ exitCode = NoValue

Reconcile ==
  /\ step = "core" /\ stage \notin {"complete", "failed"}
  /\ Next
  /\ UNCHANGED <<step, outcome>>

(* The core raised: a FAILED record, or an exception nobody catches; the   *)
(* process ends with the same code.                                        *)
Fail ==
  /\ step = "core" /\ stage = "failed"
  /\ exitCode' = TechnicalError
  /\ step' = "ended"
  /\ UNCHANGED <<vars, validation, issues, repairs, summary, table>>

Interpret ==
  /\ step = "core" /\ stage = "complete"
  /\ \E v \in Validations : validation' = v /\ issues' = Issues(v)
  /\ step' = "interpreted"
  /\ UNCHANGED <<vars, repairs, summary, table, exitCode>>

(* recommend(), and the links from the issues to their recommendations. *)
Recommend ==
  /\ step = "interpreted"
  /\ repairs' = { Repair(validation, i) : i \in { j \in issues : Repairable(j) } }
  /\ issues' = { Attach(i) : i \in issues }
  /\ step' = "recommended"
  /\ UNCHANGED <<vars, validation, summary, table, exitCode>>

Summarise ==
  /\ step = "recommended"
  /\ summary' = Summary
  /\ step' = "summarised"
  /\ UNCHANGED <<vars, validation, issues, repairs, table, exitCode>>

Report ==
  /\ step = "summarised"
  /\ \E includeSuppressed \in BOOLEAN : table' = Table(includeSuppressed)
  /\ exitCode' = IF BlockingFindings # {} THEN ContentFindings ELSE Success
  /\ step' = "ended"
  /\ UNCHANGED <<vars, validation, issues, repairs, summary>>

JobEnded ==
  /\ step = "ended" \/ stage = "incomplete"
  /\ UNCHANGED jobVars

JobNext ==
  \/ Reconcile \/ Fail
  \/ Interpret \/ Recommend \/ Summarise \/ Report
  \/ JobEnded

JobSpec == JobInit /\ [][JobNext]_jobVars

-----------------------------------------------------------------------------
(* Properties. *)

Interpreted == step # "core" /\ stage = "complete"
Finished    == step = "ended" /\ stage = "complete"

WithStatus(statuses) == { i \in issues : i.status \in statuses }

PairStatuses == {"CONFIRMED_MATCH", "PROBABLE_MATCH", "SOURCE_UPDATED", "WRONG_PARENT"}
PresenceStatuses == {"MISSING_IN_LOCALE", "EXTRA_IN_LOCALE", "EXEMPT_LOCALE_VARIATION"}

(* REQ-058, REQ-123: whatever the presence policy makes the core report,   *)
(* no node that has an ambiguous candidate is called missing or extra, and *)
(* none of them is the node that a recommendation would correct.           *)
AmbiguityDominates ==
  Interpreted =>
    \A c \in Ambiguous :
      /\ \A i \in WithStatus({"MISSING_IN_LOCALE", "EXTRA_IN_LOCALE"}) :
           i.source # c.source /\ i.locale # c.target
      /\ \A r \in repairs : r.at \notin {<<"SOURCE", c.source>>, <<"LOCALE", c.target>>}

(* REQ-091, REQ-094: a source node has one verdict.  There are two where   *)
(* the core already gives two answers: a confirmed pair too weak to be a   *)
(* move is a match and an absence, and a policy that exempts what EMIT_ALL *)
(* forced out leaves the exemption beside the ambiguity.                   *)
OneStatus ==
  Interpreted =>
    \A i, j \in WithStatus(PairStatuses \cup PresenceStatuses \cup {"AMBIGUOUS_MATCH"}) :
      (i # j /\ i.source = j.source /\ i.source # NoNode) =>
        \/ \E p \in Confirmed : p[1] = i.source /\ ~Accounted(p)
        \/ /\ command.presence = "EMIT_ALL"
           /\ {i.status, j.status} = {"AMBIGUOUS_MATCH", "EXEMPT_LOCALE_VARIATION"}

(* AC-017, AC-020: a pair is only called a match, or a translation to      *)
(* review, when its parents are compatible; the exceptions are a profile   *)
(* without MOVE and a pair too weak to be a move.                          *)
MatchMeansPlaced ==
  Interpreted =>
    \A i \in WithStatus(PairStatuses \ {"WRONG_PARENT"}) :
      LET p == <<i.source, i.locale>>
      IN  CrossParent(p) => ~Enabled("MOVE") \/ ~Accounted(p)

(* Every defect of the core surfaces in one issue, and in one only; what   *)
(* the second barrier drops is the presence of an ambiguous node.  So each *)
(* effect that suppression hid is counted in the row of what caused it.    *)
DefectsSurface ==
  Finished =>
    \A op \in OfType({"MOVE", "REORDER", "DELETE", "INSERT"}) :
      LET carriers == { i \in issues : op \in i.operations }
          hidden   == { e \in effects : e.root = op }
      IN  \/ /\ Cardinality(carriers) = 1
             /\ hidden # {} => \E row \in table : row.issue \in carriers /\ row.hidden > 0
          \/ /\ carriers = {}
             /\ op.sources \cap { c.source : c \in Ambiguous } # {}
                \/ op.targets \cap { c.target : c \in Ambiguous } # {}

(* A translation is called stale exactly when both revisions are known and *)
(* differ (AC-023), in exactly one issue of that pair.  The issue is a     *)
(* SOURCE_UPDATED finding exactly if the node is stale and no move of it   *)
(* is reported.  AC-022 and REQ-098 ask for SOURCE_UPDATED of a stale node *)
(* that moved as well, and the code gives way to the move: README.md has   *)
(* it among the disagreements.                                             *)
StalenessVisible ==
  Interpreted =>
    \A p \in Confirmed : sourceTree.parent[p[1]] # NoNode =>
      LET about == { i \in issues : i.source = p[1] /\ i.locale = p[2] }
          known == NoValue \notin {validation.revision[p[1]], validation.synced[p[2]]}
          stale == known /\ validation.revision[p[1]] # validation.synced[p[2]]
          moved == Enabled("MOVE") /\ p \in MovePairs
      IN  /\ Cardinality(about) = 1
          /\ \A i \in about :
               /\ stale <=> i.translation = "STALE"
               /\ (i.translation = "CURRENT") => known
               /\ (i.status = "SOURCE_UPDATED") <=> (stale /\ ~moved)

MoveRepairs == { r \in repairs : r.operation = "MOVE_NODE" }

(* The parent of a locale node once every recommended move is made. *)
RepairedParent(t) ==
  IF \E r \in MoveRepairs : r.at = <<"LOCALE", t>>
  THEN (CHOOSE r \in MoveRepairs : r.at = <<"LOCALE", t>>).destination
  ELSE targetTree.parent[t]

(* REQ-273: made together, the recommended moves leave a tree in which the *)
(* parent of every counterpart is the counterpart of its parent, although  *)
(* one of them alone may name a destination below the node it moves.  It   *)
(* takes that moves are reported at all, that each knows its destination   *)
(* (the source parent is confirmed), that no pair was too weak to be       *)
(* moved, and that the roots correspond.                                   *)
RepairsRestoreStructure ==
  (/\ Finished /\ Enabled("MOVE")
   /\ \A r \in MoveRepairs : r.destination # NoNode
   /\ \A p \in Confirmed : Accounted(p) /\ (p[1] = Root <=> p[2] = Root)) =>
    /\ \A S \in SUBSET (Targets \ {Root}) : S # {} => \E t \in S : RepairedParent(t) \notin S
    /\ \A p \in Confirmed : p[1] # Root =>
         ParentsCorrespond(sourceTree.parent[p[1]], RepairedParent(p[2]))

(* REQ-157: the categories that are priced share out the issues: at a unit *)
(* rate the price is the number of issues, stale translations and id       *)
(* conflicts aside, which no category prices.                              *)
FindingsPricedOnce ==
  Finished =>
    Price([c \in DOMAIN summary.nodes |-> 1])
      = summary.direct - CountOf({"SOURCE_UPDATED", "IDENTIFIER_CONFLICT"})

(* REQ-183: exit code 0, with no policy that exempts anything, says *)
(* that every source node is in the locale document under the counterpart  *)
(* of its parent, or that its identity (or that of a node above it) is     *)
(* ambiguous, and that no id is used twice.                                *)
CleanExit ==
  (/\ Finished /\ exitCode = Success
   /\ command.enabled = OperationTypes /\ command.presence = "SUPPRESS_AMBIGUOUS_NODES"
   /\ validation.rules = {}) =>
    /\ Duplicated(source) = {} /\ Duplicated(target) = {}
    /\ \A s \in Sources \ {Root} :
         \/ (Ancestors(sourceTree, s) \cup {s}) \cap AmbiguousSources # {}
         \/ \E p \in Confirmed : p[1] = s /\ ~CrossParent(p)
=============================================================================

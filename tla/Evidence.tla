------------------------------ MODULE Evidence ------------------------------
(***************************************************************************)
(* Identity evidence, hard constraints and pair scoring: what              *)
(* core/evidence/extractor.py, core/matching/constraints.py and            *)
(* core/matching/scorer.py compute for one (source, target) pair.          *)
(*                                                                         *)
(* A node's evidence is the record                                         *)
(*   type   its canonical node type                                        *)
(*   pid    its persistent id, NoValue when it carries none                *)
(*   label  its normalised label, NoValue when it carries none             *)
(*   text   the rest of its identity and content properties                *)
(*   kids   the types of its children, in order                            *)
(* The matching profile is the constants.  Weights are whole hundredths,   *)
(* scores and thresholds whole millionths: the scorer rounds to six        *)
(* decimals, so no packaged score is lost by it.                           *)
(***************************************************************************)
EXTENDS Integers

CONSTANTS
  WeightId,            \* feature_weights[PERSISTENT_ID]
  WeightSignature,     \* feature_weights[SEMANTIC_SIGNATURE]
  WeightLabel,         \* feature_weights[NORMALIZED_LABEL]
  WeightChildren,      \* feature_weights[WEIGHTED_SIMILARITY]
  HardNodeType,        \* hard_constraint_node_type
  NoValue              \* an absent id or label (Python's None)

\* FeatureWeight.weight is declared with ge=0.0 (contracts/profiles.py).
ASSUME WeightAssumption ==
  /\ {WeightId, WeightSignature, WeightLabel, WeightChildren} \subseteq Nat
  /\ HardNodeType \in BOOLEAN

\* Millionths: round(value, 6).
Scale == 1000000

(* The semantic signature: type and properties, without the id keys. *)
Signature(n) == <<n.type, n.label, n.text>>

(* A node type difference disqualifies the pair when the profile says so. *)
HardViolation(s, t) == HardNodeType /\ s.type # t.type

SameId(s, t)    == s.pid # NoValue /\ s.pid = t.pid
SameLabel(s, t) == s.label # NoValue /\ s.label = t.label

(* consider(): a feature counts for the total only when it is applicable. *)
Count(weight, applies) == IF applies THEN weight ELSE 0

Total(s, t) ==
    Count(WeightId, s.pid # NoValue \/ t.pid # NoValue)
  + WeightSignature
  + Count(WeightLabel, s.label # NoValue \/ t.label # NoValue)
  + WeightChildren

Matched(s, t) ==
    Count(WeightId, SameId(s, t))
  + Count(WeightSignature, Signature(s) = Signature(t))
  + Count(WeightLabel, SameLabel(s, t))
  + Count(WeightChildren, s.kids = t.kids)

(* score_pair: matched over applicable weight, rounded to millionths. *)
Value(s, t) ==
  IF Total(s, t) = 0 THEN 0
  ELSE (2 * Scale * Matched(s, t) + Total(s, t)) \div (2 * Total(s, t))

(* A pair with at least one contribution; a candidate without any evidence *)
(* cannot be built as CONFIRMED or AMBIGUOUS.                              *)
HasEvidence(s, t) == Matched(s, t) > 0

(* Ids carried by more than one node of a tree are never authoritative. *)
Duplicated(ev) ==
  { ev[n].pid : n \in { m \in DOMAIN ev :
      /\ ev[m].pid # NoValue
      /\ \E other \in DOMAIN ev \ {m} : ev[other].pid = ev[m].pid } }

(* Mutant of UniqueIds: nodes without an id are not skipped. *)
MutantUniqueIds(ev) == { ev[n].pid : n \in DOMAIN ev } \ Duplicated(ev)

(* _unique_id_index: the ids that name exactly one node of the tree. *)
UniqueIds(ev) == { ev[n].pid : n \in DOMAIN ev } \ (Duplicated(ev) \cup {NoValue})
=============================================================================

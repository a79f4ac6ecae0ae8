------------------------------- MODULE Trees -------------------------------
(***************************************************************************)
(* CanonicalTree and what the core does to one before it reconciles it:    *)
(* the contracts of the two classes, validate_tree, and normalize.         *)
(*                                                                         *)
(* A tree is its root and a function from the references it maps to nodes. *)
(* A node knows its parent (NoRef: none), the sequence of its children and *)
(* its content, a function from keys to tagged values: <<"string", chars>> *)
(* or the same with another tag; a list or a dict is <<"array", f>> or     *)
(* <<"object", f>>, f a function from the paths of the values inside, at   *)
(* any depth, to the tagged values that are not containers (or empty).     *)
(* The key of a node in the map is its own reference.                      *)
(***************************************************************************)
EXTENDS Integers, FiniteSets, SequencesExt, Filtering

CONSTANT NoRef

Refs(t) == DOMAIN t.node

KidsOf(t, ref) == ToSet(t.node[ref].kids)

(* What a tree can be built from: finitely many nodes, each with a list of *)
(* children, and strings for the values that are tagged as strings.        *)
IsList(s) == s \in Seq(ToSet(s))

IsMap(t) ==
  /\ IsFiniteSet(Refs(t)) /\ NoRef \notin Refs(t)
  /\ \A ref \in Refs(t) : IsList(t.node[ref].kids)

Containers == {"object", "array"}

IsText(value) == value[1] = "string" => IsList(value[2])

Strings(content) ==
  \A key \in DOMAIN content :
    /\ IsText(content[key])
    /\ content[key][1] \in Containers =>
         \A path \in DOMAIN content[key][2] : IsText(content[key][2][path])

HasContents(t) ==
  /\ "node" \in DOMAIN t
  /\ \A ref \in Refs(t) :
       LET node == t.node[ref]
       IN  /\ "content" \in DOMAIN node /\ node = [field \in DOMAIN node |-> node[field]]
           /\ Strings(node.content)

-----------------------------------------------------------------------------
(* The contracts: a tree or a node that breaks them cannot be built. *)

NodeContract(t, ref) ==
  /\ Cardinality(KidsOf(t, ref)) = Len(t.node[ref].kids)
  /\ t.node[ref].parent # ref /\ ref \notin KidsOf(t, ref)

TreeContract(t) ==
  /\ t.root \in Refs(t) /\ t.node[t.root].parent = NoRef
  /\ \A ref \in Refs(t) : NodeContract(t, ref)

-----------------------------------------------------------------------------
(* validate_tree *)

ChildViolations(t, ref) ==
  { <<"DANGLING_CHILD_REF", ref>> : kid \in KidsOf(t, ref) \ Refs(t) }
  \cup
  { <<"PARENT_CHILD_DISAGREEMENT", kid>> :
      kid \in { k \in KidsOf(t, ref) \cap Refs(t) : t.node[k].parent # ref } }

ParentViolations(t, ref) ==
  LET up == t.node[ref].parent
  IN  CASE up = NoRef             -> {}
        [] up \notin Refs(t) \cup {NoRef} -> {<<"DANGLING_PARENT_REF", ref>>}
        [] OTHER -> IF ref \in KidsOf(t, up) THEN {}
                    ELSE {<<"MISSING_FROM_PARENT_CHILDREN", ref>>}

RootViolations(t) ==
  { <<"MULTIPLE_ROOTS", ref>> : ref \in { r \in Refs(t) \ {t.root} : t.node[r].parent = NoRef } }

(* The walk along the parents of a node; it stops above a root and at a    *)
(* reference that is not in the map.                                       *)
Walk(t, ref) ==
  LET at[k \in 0..Cardinality(Refs(t))] ==
        IF k = 0 THEN ref
        ELSE IF at[k - 1] \in Refs(t) THEN t.node[at[k - 1]].parent
        ELSE NoRef
  IN  at

Circles(t, ref) ==
  \E j, k \in DOMAIN Walk(t, ref) :
    j < k /\ Walk(t, ref)[j] = Walk(t, ref)[k] /\ Walk(t, ref)[k] # NoRef

(* Mutant of CycleViolations: only a node that comes back to itself after  *)
(* one step, which the contracts exclude already.                          *)
MutantCycleViolations(t) ==
  { <<"CONTAINMENT_CYCLE", ref>> : ref \in { r \in Refs(t) : Walk(t, r)[1] = r } }

CycleViolations(t) ==
  { <<"CONTAINMENT_CYCLE", ref>> : ref \in { r \in Refs(t) : Circles(t, r) } }

Violations(t) ==
  RootViolations(t) \cup CycleViolations(t)
  \cup (UNION { ChildViolations(t, ref) \cup ParentViolations(t, ref) : ref \in Refs(t) })

-----------------------------------------------------------------------------
(* normalize: strings are sequences of characters. *)

Space  == " "
Blanks == {Space, "tab"}

Ink(s) == { i \in DOMAIN s : s[i] \notin Blanks }

(* str.strip *)
Strip(s) == IF Ink(s) = {} THEN <<>> ELSE SubSeq(s, Min(Ink(s)), Max(Ink(s)))

(* The numbers of a set of places of s, in order. *)
InOrder(s, places) == Filter([i \in DOMAIN s |-> i], places)

(* Mutant of Collapse: what is before and after the words stays. *)
MutantCollapse(s) ==
  LET kept == InOrder(s, { i \in DOMAIN s : i \in Ink(s) \/ i = 1 \/ i - 1 \in Ink(s) })
  IN  [k \in DOMAIN kept |-> IF kept[k] \in Ink(s) THEN s[kept[k]] ELSE Space]

(* Runs of white space become one space, and the ends are stripped. *)
Collapse(s) ==
  LET text == Strip(s)
      kept == InOrder(text, { i \in DOMAIN text : i \in Ink(text) \/ i - 1 \in Ink(text) })
  IN  [k \in DOMAIN kept |-> IF kept[k] \in Ink(text) THEN text[kept[k]] ELSE Space]

NormalScalar(value) == IF value[1] = "string" THEN <<"string", Collapse(value[2])>> ELSE value

(* The strings inside of lists and dicts are normalised where they are. *)
NormalValue(value) ==
  IF value[1] \in Containers
  THEN <<value[1], [path \in DOMAIN value[2] |-> NormalScalar(value[2][path])]>>
  ELSE NormalScalar(value)

Collapses(profile, key) == profile.collapse /\ key \notin profile.preserve

NormalContent(content, profile) ==
  [key \in DOMAIN content \ profile.nonsemantic |->
     IF Collapses(profile, key) THEN NormalValue(content[key]) ELSE content[key]]

Normalised(t, profile) ==
  [t EXCEPT !.node = [ref \in Refs(t) |->
     [t.node[ref] EXCEPT !.content = NormalContent(t.node[ref].content, profile)]]]

Dropped(content, profile) == DOMAIN content \cap profile.nonsemantic

Changed(content, profile) ==
  { key \in DOMAIN content \ profile.nonsemantic :
      NormalContent(content, profile)[key] # content[key] }

(* The trace attributes each action to its rule. *)
Trace(t, profile) ==
  UNION { { <<ref, key, "exclude-nonsemantic">> : key \in Dropped(t.node[ref].content, profile) }
          \cup
          { <<ref, key, "collapse-whitespace">> : key \in Changed(t.node[ref].content, profile) } :
            ref \in Refs(t) }
=============================================================================

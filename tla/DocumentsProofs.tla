---- MODULE DocumentsProofs ----
(***************************************************************************)
(* What Documents promises, for every set of documents, trees and          *)
(* sequences that the assumption allows: a tree passes validate_tree       *)
(* exactly when it is rooted, a normalised tree differs from the given one *)
(* only as its trace says, a script of align_sequences is a longest one,   *)
(* and the tree of an adapter reads back as its document.                  *)
(*                                                                         *)
(* The invariant is at the end.  Before it: trees and walks, the table of  *)
(* the longest common subsequence, strings, contents, and then documents - *)
(* the children of a position, what is kept of them, the paths of what     *)
(* survives, and the trees that are made of the paths.                     *)
(***************************************************************************)
EXTENDS Documents, Inductions, FiniteSetTheorems, SequenceTheorems

(* A function on a finite set has finitely many values. *)
LEMMA FiniteImage ==
  ASSUME NEW S, IsFiniteSet(S), NEW f, NEW T, T = { f[x] : x \in S }
  PROVE  IsFiniteSet(T) /\ Cardinality(T) <= Cardinality(S)
<1> DEFINE g == [x \in S |-> f[x]]
<1>1. g \in [S -> T]
  OBVIOUS
<1>2. \A y \in T : \E x \in S : g[x] = y
  OBVIOUS
<1>3. g \in Surjection(S, T)
  BY <1>1, <1>2 DEF Surjection
<1>4. QED BY <1>3, FS_Surjection

(* A list names nobody twice exactly when it has as many members as places. *)
LEMMA NobodyTwice ==
  ASSUME NEW X, NEW s \in Seq(X)
  PROVE  Cardinality(ToSet(s)) = Len(s) <=> Injective(s)
<1> DEFINE g == [i \in 1..Len(s) |-> s[i]]
<1>0. Len(s) \in Nat /\ DOMAIN s = 1..Len(s)
  OBVIOUS
<1>1. g \in Surjection(1..Len(s), ToSet(s))
  BY <1>0 DEF Surjection, ToSet
<1>2. IsFiniteSet(1..Len(s)) /\ Cardinality(1..Len(s)) = Len(s)
  BY <1>0, FS_Interval
<1>3. Cardinality(ToSet(s)) = Len(s) <=> g \in Injection(1..Len(s), ToSet(s))
  BY <1>1, <1>2, FS_Surjection
<1>4. g \in Injection(1..Len(s), ToSet(s)) <=> Injective(s)
  BY <1>1 DEF Injection, Surjection, Injective, IsInjective
<1>5. QED BY <1>3, <1>4

-----------------------------------------------------------------------------
(* Walks. *)

(* The first n steps of a walk upwards from ref: the recursive function that*)
(* Walk is, cut off.                                                        *)
IsWalk(t, ref, at, n) ==
  at = [k \in 0..n |->
          IF k = 0 THEN ref
          ELSE IF at[k - 1] \in Refs(t) THEN t.node[at[k - 1]].parent
          ELSE NoRef]

(* Such a function exists for every n: what the recursion of Walk defines is*)
(* there.                                                                   *)
LEMMA WalkExists ==
  ASSUME NEW t, NEW ref, NEW n \in Nat
  PROVE  \E at : IsWalk(t, ref, at, n)
<1> DEFINE Lacking == { m \in Nat : ~\E at : IsWalk(t, ref, at, m) }
<1>1. SUFFICES ASSUME Lacking # {} PROVE FALSE
  OBVIOUS
<1>2. PICK m \in Lacking : \A k \in Lacking : m <= k
  BY <1>1, LeastNumber
<1>3. CASE m = 0
  <2> DEFINE g == [k \in 0..0 |-> ref]
  <2>1. IsWalk(t, ref, g, m)
    BY <1>3 DEF IsWalk
  <2>2. QED BY <2>1
<1>4. CASE m # 0
  <2>1. m - 1 \in Nat /\ m - 1 \notin Lacking
    BY <1>2, <1>4
  <2>2. PICK at : IsWalk(t, ref, at, m - 1)
    BY <2>1
  <2> DEFINE last == IF at[m - 1] \in Refs(t) THEN t.node[at[m - 1]].parent ELSE NoRef
             g == [k \in 0..m |-> IF k = m THEN last ELSE at[k]]
  <2>3. \A k \in 0..(m - 1) : at[k] = IF k = 0 THEN ref
          ELSE IF at[k - 1] \in Refs(t) THEN t.node[at[k - 1]].parent ELSE NoRef
    BY <2>2, <2>1 DEF IsWalk
  <2>4. ASSUME NEW k \in 0..m
        PROVE  g[k] = IF k = 0 THEN ref
          ELSE IF g[k - 1] \in Refs(t) THEN t.node[g[k - 1]].parent ELSE NoRef
    <3>1. CASE k = m
      BY <3>1, <1>4
    <3>2. CASE k # m
      BY <3>2, <2>3
    <3>3. QED BY <3>1, <3>2
  <2>5. IsWalk(t, ref, g, m)
    BY <2>4 DEF IsWalk
  <2>6. QED BY <2>5
<1>5. QED BY <1>3, <1>4

(* A walk starts at its node and goes up. *)
LEMMA WalkFacts ==
  ASSUME NEW t, NEW ref, IsFiniteSet(Refs(t))
  PROVE  /\ Cardinality(Refs(t)) \in Nat
         /\ DOMAIN Walk(t, ref) = 0..Cardinality(Refs(t))
         /\ Walk(t, ref)[0] = ref
         /\ \A k \in 1..Cardinality(Refs(t)) :
              Walk(t, ref)[k] =
                IF Walk(t, ref)[k - 1] \in Refs(t) THEN t.node[Walk(t, ref)[k - 1]].parent
                ELSE NoRef
<1> DEFINE n == Cardinality(Refs(t))
<1>0. n \in Nat
  BY FS_CardinalityType
<1>1. PICK at : IsWalk(t, ref, at, n)
  BY <1>0, WalkExists
<1> DEFINE F == CHOOSE f : f = [k \in 0..n |->
          IF k = 0 THEN ref
          ELSE IF f[k - 1] \in Refs(t) THEN t.node[f[k - 1]].parent
          ELSE NoRef]
<1>2. IsWalk(t, ref, F, n)
  BY <1>1, Zenon DEF IsWalk
<1>3. Walk(t, ref) = F
  BY Zenon DEF Walk
<1> HIDE DEF F, n
<1>4. IsWalk(t, ref, Walk(t, ref), n)
  BY <1>2, <1>3
<1>5. DOMAIN Walk(t, ref) = 0..n /\ Walk(t, ref)[0] = ref
  BY <1>0, <1>4 DEF IsWalk
<1>6. ASSUME NEW k \in 1..n
      PROVE  Walk(t, ref)[k] = IF Walk(t, ref)[k - 1] \in Refs(t) THEN t.node[Walk(t, ref)[k - 1]].parent
                ELSE NoRef
  BY <1>0, <1>4 DEF IsWalk
<1>7. QED BY <1>0, <1>5, <1>6 DEF n

-----------------------------------------------------------------------------
(* The rules of validate_tree, one by one. *)
KidsKnown(t)     == \A ref \in Refs(t) : KidsOf(t, ref) \subseteq Refs(t)
KidsAgree(t)     == \A ref \in Refs(t) : \A kid \in KidsOf(t, ref) \cap Refs(t) : t.node[kid].parent = ref
ParentsAgree(t)  == \A ref \in Refs(t) :
                      \/ t.node[ref].parent = NoRef
                      \/ t.node[ref].parent \in Refs(t) /\ ref \in KidsOf(t, t.node[ref].parent)
OneRoot(t)       == \A ref \in Refs(t) \ {t.root} : t.node[ref].parent # NoRef
NoCircles(t)     == \A ref \in Refs(t) : ~Circles(t, ref)

(* validate_tree (core/validation/tree_validator.py) reports nothing exactly*)
(* when each of its five rules holds.                                       *)
LEMMA NoViolations ==
  ASSUME NEW t, NoRef \notin Refs(t)
  PROVE  Violations(t) = {} <=>
           KidsKnown(t) /\ KidsAgree(t) /\ ParentsAgree(t) /\ OneRoot(t) /\ NoCircles(t)
<1>1. Violations(t) = {} <=>
        /\ \A ref \in Refs(t) : ChildViolations(t, ref) = {} /\ ParentViolations(t, ref) = {}
        /\ RootViolations(t) = {} /\ CycleViolations(t) = {}
  BY DEF Violations
<1>2. ASSUME NEW ref \in Refs(t)
      PROVE  ChildViolations(t, ref) = {} <=>
               /\ KidsOf(t, ref) \subseteq Refs(t)
               /\ \A kid \in KidsOf(t, ref) \cap Refs(t) : t.node[kid].parent = ref
  BY DEF ChildViolations
<1>3. ASSUME NEW ref \in Refs(t)
      PROVE  ParentViolations(t, ref) = {} <=>
               \/ t.node[ref].parent = NoRef
               \/ t.node[ref].parent \in Refs(t) /\ ref \in KidsOf(t, t.node[ref].parent)
  <2>1. CASE t.node[ref].parent = NoRef
    BY <2>1 DEF ParentViolations
  <2>2. CASE t.node[ref].parent \notin Refs(t) \cup {NoRef}
    BY <2>2 DEF ParentViolations
  <2>3. CASE t.node[ref].parent \in Refs(t)
    BY <2>3 DEF ParentViolations
  <2>4. QED BY <2>1, <2>2, <2>3
<1>4. RootViolations(t) = {} <=> OneRoot(t)
  BY DEF RootViolations, OneRoot
<1>5. CycleViolations(t) = {} <=> NoCircles(t)
  BY DEF CycleViolations, NoCircles
<1>6. QED BY <1>1, <1>2, <1>3, <1>4, <1>5 DEF KidsKnown, KidsAgree, ParentsAgree

-----------------------------------------------------------------------------

(* Where a node is listed as a child: of whom, and at which place.          *)
Places(t, ref) ==
  UNION { { <<up, i>> : i \in { j \in DOMAIN t.node[up].kids : t.node[up].kids[j] = ref } } :
            up \in Refs(t) }

(* A part of the tree that has the root and all children of its members is  *)
(* the whole tree.                                                          *)
ClosedParts(t) ==
  \A S \in SUBSET Refs(t) :
    (t.root \in S /\ \A ref \in S : KidsOf(t, ref) \subseteq S) => S = Refs(t)

(* IsRootedTree, in these words.                                            *)
LEMMA RootedTree ==
  ASSUME NEW t
  PROVE  IsRootedTree(t) <=>
           /\ t.root \in Refs(t) /\ t.node[t.root].parent = NoRef /\ Places(t, t.root) = {}
           /\ KidsKnown(t)
           /\ \A ref \in Refs(t) \ {t.root} :
                \E place \in Places(t, ref) :
                  Places(t, ref) = {place} /\ place[1] = t.node[ref].parent
           /\ ClosedParts(t)
BY Zenon DEF IsRootedTree, Places, KidsKnown, ClosedParts

(* A place is a parent and an index of its children, and every such index is*)
(* a place.                                                                 *)
LEMMA PlacesFacts ==
  ASSUME NEW t, NEW ref
  PROVE  /\ \A place \in Places(t, ref) :
              \E up \in Refs(t) : \E i \in DOMAIN t.node[up].kids :
                place = <<up, i>> /\ t.node[up].kids[i] = ref
         /\ \A up \in Refs(t) : \A i \in DOMAIN t.node[up].kids :
              t.node[up].kids[i] = ref => <<up, i>> \in Places(t, ref)
BY DEF Places

(* If validate_tree finds nothing, a part that holds the root and is       *)
(* closed is the whole: a walk from a node outside never gets in, and      *)
(* would have to go around.                                                *)
LEMMA WalksEnterTheRoot ==
  ASSUME NEW t, IsMap(t), ParentsAgree(t), OneRoot(t), NoCircles(t)
  PROVE  ClosedParts(t)
<1>1. SUFFICES ASSUME NEW S \in SUBSET Refs(t), t.root \in S,
                      \A ref \in S : KidsOf(t, ref) \subseteq S,
                      NEW out \in Refs(t) \ S
               PROVE  FALSE
  BY DEF ClosedParts
<1> DEFINE n == Cardinality(Refs(t))
           w == Walk(t, out)
           Wrong == { k \in 0..n : w[k] \notin Refs(t) \ S }
<1>2. /\ IsFiniteSet(Refs(t)) /\ n \in Nat /\ DOMAIN w = 0..n /\ w[0] = out
      /\ \A k \in 1..n : w[k] = IF w[k - 1] \in Refs(t) THEN t.node[w[k - 1]].parent ELSE NoRef
  BY WalkFacts DEF IsMap, IsList
<1> HIDE DEF n, w
<1>3. Wrong = {}
  <2>1. SUFFICES ASSUME Wrong # {} PROVE FALSE
    OBVIOUS
  <2>2. Wrong \in SUBSET Nat
    BY <1>2
  <2>3. PICK k \in Wrong : \A m \in Wrong : k <= m
    BY <2>1, <2>2, LeastNumber
  <2>4. k # 0 /\ k \in 1..n /\ k - 1 \in 0..n /\ k - 1 \notin Wrong
    BY <1>1, <1>2, <2>3
  <2>5. w[k - 1] \in Refs(t) \ S /\ w[k] = t.node[w[k - 1]].parent
    BY <1>2, <2>4
  <2>6. w[k] \in Refs(t) /\ w[k - 1] \in KidsOf(t, w[k])
    BY <1>1, <2>5 DEF ParentsAgree, OneRoot
  <2>7. w[k] \in S
    BY <2>3, <2>6
  <2>8. QED BY <1>1, <2>5, <2>6, <2>7
<1>4. w \in [0..n -> Refs(t)]
  <2> DEFINE v == [k \in 0..n |-> w[k]]
  <2>1. \A k \in 0..n : w[k] \in Refs(t)
    BY <1>3
  <2>2. w = Walk(t, out)
    BY DEF w
  <2>3. \E at : IsWalk(t, out, at, n)
    BY <1>2, WalkExists
  <2>4. IsWalk(t, out, w, n)
    BY <2>3, Zenon DEF IsWalk, w, Walk, n
  <2>5. w = [k \in 0..n |-> w[k]]
    BY <1>2, <2>4 DEF IsWalk
  <2>6. QED BY <2>1, <2>5
<1>5. IsFiniteSet(0..n) /\ Cardinality(0..n) = n + 1
  BY <1>2, FS_Interval
<1>6. PICK j \in 0..n, k \in 0..n : j # k /\ w[j] = w[k]
  <2>1. Cardinality(Refs(t)) < Cardinality(0..n)
    BY <1>2, <1>5 DEF n
  <2>2. QED BY <1>2, <1>4, <1>5, <2>1, FS_PigeonHole
<1>7. w[j] # NoRef
  BY <1>4 DEF IsMap, IsList
<1>8. \E i, m \in DOMAIN w : i < m /\ w[i] = w[m] /\ w[m] # NoRef
  <2>1. j \in DOMAIN w /\ k \in DOMAIN w
    BY <1>2, <1>6
  <2>2. j \in Nat /\ k \in Nat
    BY <1>6
  <2>3. j < k \/ k < j
    BY <1>6, <2>2
  <2>4. QED BY <1>6, <1>7, <2>1, <2>3, Zenon
<1>9. Circles(t, out)
  BY <1>8 DEF Circles, w
<1>10. QED BY <1>9 DEF NoCircles

(* The walks of a tree that is rooted do not go around: what they would    *)
(* go around in would be outside a closed part.                            *)
LEMMA RootedTreesHaveNoCircles ==
  ASSUME NEW t, IsMap(t), t.root \in Refs(t), t.node[t.root].parent = NoRef,
         KidsKnown(t), KidsAgree(t), ClosedParts(t), NEW ref \in Refs(t)
  PROVE  ~Circles(t, ref)
<1> DEFINE n == Cardinality(Refs(t))
           w == Walk(t, ref)
<1>1. /\ n \in Nat /\ DOMAIN w = 0..n
      /\ \A k \in 1..n : w[k] = IF w[k - 1] \in Refs(t) THEN t.node[w[k - 1]].parent ELSE NoRef
  BY WalkFacts DEF IsMap, IsList
<1> HIDE DEF n, w
<1>2. SUFFICES ASSUME NEW j \in 0..n, NEW k \in 0..n, j < k, w[j] = w[k], w[k] # NoRef
               PROVE  FALSE
  BY <1>1 DEF Circles, w
<1> DEFINE Out == { d \in 1..(k - j) : w[k - d] \notin Refs(t) }
<1>3. Out = {}
  <2>1. SUFFICES ASSUME Out # {} PROVE FALSE
    OBVIOUS
  <2>2. Out \in SUBSET Nat
    BY <1>1
  <2>3. PICK d \in Out : \A e \in Out : d <= e
    BY <2>1, <2>2, LeastNumber
  <2>4. d \in 1..(k - j) /\ w[k - d] \notin Refs(t) /\ (k - d) + 1 \in 1..n
        /\ ((k - d) + 1) - 1 = k - d
    BY <1>1, <1>2, <2>3
  <2>5. w[(k - d) + 1] = NoRef
    BY <1>1, <2>4
  <2>6. CASE d = 1
    BY <1>1, <1>2, <2>4, <2>5, <2>6
  <2>7. CASE d # 1
    <3>0. j \in Int /\ k \in Int /\ d \in Int
      BY <1>1, <2>4
    <3>1. d - 1 \in 1..(k - j) /\ k - (d - 1) = (k - d) + 1 /\ ~(d <= d - 1)
      BY <3>0, <2>4, <2>7
    <3>11. d - 1 \notin Out
      BY <2>3, <3>1
    <3>2. w[(k - d) + 1] \in Refs(t)
      BY <3>1, <3>11
    <3>3. QED BY <2>5, <3>2 DEF IsMap, IsList
  <2>8. QED BY <2>6, <2>7
<1>4. ASSUME NEW m \in j..(k - 1) PROVE w[m] \in Refs(t)
  <2>1. k - m \in 1..(k - j) /\ k - (k - m) = m
    BY <1>1
  <2>2. k - m \notin Out
    BY <1>3
  <2>3. QED BY <2>1, <2>2
<1>5. ASSUME NEW m \in j..(k - 1)
      PROVE  /\ m + 1 \in 1..n /\ w[m + 1] = t.node[w[m]].parent
             /\ \E o \in j..(k - 1) : w[m + 1] = w[o]
  <2>1. m + 1 \in 1..n /\ (m + 1) - 1 = m
    BY <1>1
  <2>2. w[m + 1] = t.node[w[m]].parent
    BY <1>1, <1>4, <2>1
  <2>3. m + 1 \in j..(k - 1) \/ (m + 1 = k /\ j \in j..(k - 1))
    BY <1>1, <1>2
  <2>4. QED BY <1>2, <2>1, <2>2, <2>3
<1> DEFINE C == { w[m] : m \in j..(k - 1) }
           S == Refs(t) \ C
<1>6. t.root \in S
  <2>1. SUFFICES ASSUME NEW m \in j..(k - 1), w[m] = t.root PROVE FALSE
    OBVIOUS
  <2>2. w[m + 1] = NoRef
    BY <1>5, <2>1
  <2>3. QED BY <1>4, <1>5, <2>2 DEF IsMap, IsList
<1>7. ASSUME NEW q \in S, NEW kid \in KidsOf(t, q) PROVE kid \in S
  <2>1. kid \in Refs(t)
    BY DEF KidsKnown
  <2>2. SUFFICES ASSUME NEW m \in j..(k - 1), kid = w[m] PROVE FALSE
    BY <2>1
  <2>3. t.node[kid].parent = q
    BY <2>1 DEF KidsAgree
  <2>4. QED BY <1>5, <2>2, <2>3
<1>8. S = Refs(t)
  <2> HIDE DEF C
  <2>1. QED BY <1>6, <1>7 DEF ClosedParts
<1>9. j \in j..(k - 1)
  BY <1>1, <1>2
<1>10. QED BY <1>4, <1>8, <1>9

(* What contracts and validate_tree let through are rooted trees. *)
LEMMA ValidTreesAreRooted ==
  ASSUME NEW t, IsMap(t), TreeContract(t), Violations(t) = {}
  PROVE  IsRootedTree(t)
<1>1. KidsKnown(t) /\ KidsAgree(t) /\ ParentsAgree(t) /\ OneRoot(t) /\ NoCircles(t)
  BY NoViolations DEF IsMap, IsList
<1>2. t.root \in Refs(t) /\ t.node[t.root].parent = NoRef
  BY DEF TreeContract
<1>3. ASSUME NEW ref \in Refs(t), NEW place \in Places(t, ref)
      PROVE  \E i \in DOMAIN t.node[t.node[ref].parent].kids :
               /\ t.node[ref].parent \in Refs(t)
               /\ place = <<t.node[ref].parent, i>> /\ t.node[t.node[ref].parent].kids[i] = ref
  <2>0. PICK up \in Refs(t) : \E i \in DOMAIN t.node[up].kids :
          place = <<up, i>> /\ t.node[up].kids[i] = ref
    BY PlacesFacts
  <2>1. PICK i \in DOMAIN t.node[up].kids : place = <<up, i>> /\ t.node[up].kids[i] = ref
    BY <2>0
  <2>2. ref \in KidsOf(t, up)
    BY <2>1 DEF KidsOf, ToSet
  <2>3. t.node[ref].parent = up
    BY <1>1, <2>2 DEF KidsAgree
  <2>4. QED BY <2>1, <2>3
<1>4. Places(t, t.root) = {}
  BY <1>2, <1>3 DEF IsMap, IsList
<1>5. ASSUME NEW ref \in Refs(t) \ {t.root}
      PROVE  \E i : Places(t, ref) = {<<t.node[ref].parent, i>>}
  <2> DEFINE up == t.node[ref].parent
             kids == t.node[up].kids
  <2>1. up \in Refs(t) /\ ref \in KidsOf(t, up)
    BY <1>1 DEF ParentsAgree, OneRoot
  <2>2. PICK i \in DOMAIN kids : kids[i] = ref
    BY <2>1 DEF KidsOf, ToSet
  <2>3. <<up, i>> \in Places(t, ref)
    BY <2>1, <2>2, PlacesFacts
  <2>4. kids \in Seq(ToSet(kids)) /\ Cardinality(ToSet(kids)) = Len(kids)
    BY <2>1 DEF IsMap, IsList, TreeContract, NodeContract, KidsOf
  <2> HIDE DEF kids
  <2>5. Injective(kids) /\ DOMAIN kids = 1..Len(kids)
    BY <2>4, NobodyTwice
  <2>6. \A j \in DOMAIN kids : kids[j] = ref => j = i
    BY <2>2, <2>5 DEF Injective
  <2>7. \A place \in Places(t, ref) : place = <<up, i>>
    BY <1>3, <2>6 DEF kids
  <2>8. QED BY <2>3, <2>7
<1>6. ASSUME NEW ref \in Refs(t) \ {t.root}
      PROVE  \E place \in Places(t, ref) :
               Places(t, ref) = {place} /\ place[1] = t.node[ref].parent
  <2>1. PICK i : Places(t, ref) = {<<t.node[ref].parent, i>>}
    BY <1>5
  <2>2. QED BY <2>1
<1>7. ClosedParts(t)
  BY <1>1, WalksEnterTheRoot
<1>8. QED BY <1>1, <1>2, <1>4, <1>6, <1>7, RootedTree

(* All of them: nothing is found in a rooted tree. *)
LEMMA RootedTreesAreValid ==
  ASSUME NEW t, IsMap(t), IsRootedTree(t)
  PROVE  TreeContract(t) /\ Violations(t) = {}
<1>1. /\ t.root \in Refs(t) /\ t.node[t.root].parent = NoRef /\ Places(t, t.root) = {}
      /\ KidsKnown(t) /\ ClosedParts(t)
      /\ \A ref \in Refs(t) \ {t.root} :
                \E place \in Places(t, ref) :
                  Places(t, ref) = {place} /\ place[1] = t.node[ref].parent
  BY RootedTree, Zenon
<1>2. ASSUME NEW up \in Refs(t), NEW i \in DOMAIN t.node[up].kids
      PROVE  /\ t.node[up].kids[i] \in Refs(t) \ {t.root}
             /\ <<up, i>> \in Places(t, t.node[up].kids[i])
  <2> DEFINE ref == t.node[up].kids[i]
  <2>1. <<up, i>> \in Places(t, ref)
    BY PlacesFacts
  <2>2. ref \in Refs(t)
    BY <1>1 DEF KidsKnown, KidsOf, ToSet
  <2>3. QED BY <1>1, <2>1, <2>2
<1>3. ASSUME NEW up \in Refs(t), NEW i \in DOMAIN t.node[up].kids
      PROVE  t.node[t.node[up].kids[i]].parent = up
  <2> DEFINE ref == t.node[up].kids[i]
  <2>1. ref \in Refs(t) \ {t.root} /\ <<up, i>> \in Places(t, ref)
    BY <1>2
  <2>2. PICK place : Places(t, ref) = {place} /\ place[1] = t.node[ref].parent
    BY <1>1, <2>1
  <2>3. QED BY <2>1, <2>2
<1>4. KidsAgree(t)
  BY <1>3 DEF KidsAgree, KidsOf, ToSet
<1>5. ASSUME NEW ref \in Refs(t) \ {t.root}
      PROVE  t.node[ref].parent \in Refs(t) /\ ref \in KidsOf(t, t.node[ref].parent)
  <2>2. PICK place \in Places(t, ref) : place[1] = t.node[ref].parent
    BY <1>1
  <2>3. PICK up \in Refs(t) : \E i \in DOMAIN t.node[up].kids :
          place = <<up, i>> /\ t.node[up].kids[i] = ref
    BY PlacesFacts
  <2>4. QED BY <2>2, <2>3 DEF KidsOf, ToSet
<1>6. ParentsAgree(t) /\ OneRoot(t)
  BY <1>1, <1>5 DEF ParentsAgree, OneRoot, IsMap, IsList
<1>7. NoCircles(t)
  BY <1>1, <1>4, RootedTreesHaveNoCircles DEF NoCircles
<1>8. Violations(t) = {}
  BY <1>1, <1>4, <1>6, <1>7, NoViolations DEF IsMap, IsList
<1>9. ASSUME NEW ref \in Refs(t) PROVE ref \notin KidsOf(t, ref)
  <2>1. SUFFICES ASSUME ref \in KidsOf(t, ref) PROVE FALSE
    OBVIOUS
  <2>7. PICK i \in DOMAIN t.node[ref].kids : t.node[ref].kids[i] = ref
    BY <2>1, Zenon DEF KidsOf, ToSet
  <2>2. ref # t.root /\ t.node[ref].parent = ref
    BY <1>2, <1>3, <2>7
  <2> DEFINE S == Refs(t) \ {ref}
  <2>3. t.root \in S
    BY <1>1, <2>2
  <2>4. \A q \in S : KidsOf(t, q) \subseteq S
    BY <1>1, <1>4, <2>2 DEF KidsKnown, KidsAgree
  <2>5. S = Refs(t)
    BY <1>1, <2>3, <2>4 DEF ClosedParts
  <2>6. QED BY <2>5
<1>10. ASSUME NEW ref \in Refs(t) PROVE t.node[ref].parent # ref
  <2>1. CASE ref = t.root
    BY <1>1, <2>1 DEF IsMap, IsList
  <2>2. CASE ref # t.root
    BY <1>5, <1>9, <2>2
  <2>3. QED BY <2>1, <2>2
<1>11. ASSUME NEW ref \in Refs(t) PROVE Cardinality(KidsOf(t, ref)) = Len(t.node[ref].kids)
  <2> DEFINE kids == t.node[ref].kids
  <2>1. kids \in Seq(ToSet(kids)) /\ DOMAIN kids = 1..Len(kids)
    BY DEF IsMap, IsList
  <2>2. ASSUME NEW i \in 1..Len(kids), NEW j \in 1..Len(kids), kids[i] = kids[j] PROVE i = j
    <3>1. /\ kids[i] \in Refs(t) \ {t.root}
          /\ <<ref, i>> \in Places(t, kids[i]) /\ <<ref, j>> \in Places(t, kids[i])
      BY <1>2, <2>1, <2>2
    <3>2. PICK place : Places(t, kids[i]) = {place}
      BY <1>1, <3>1
    <3>3. <<ref, i>> = <<ref, j>>
      BY <3>1, <3>2
    <3>4. QED BY <3>3
  <2>3. Injective(kids)
    BY <2>2 DEF Injective
  <2>4. QED BY <2>1, <2>3, NobodyTwice DEF KidsOf
<1>12. QED BY <1>1, <1>8, <1>9, <1>10, <1>11 DEF TreeContract, NodeContract

(* The table of align_sequences, on a part of its cells. *)
Cells(l, r) == (1..(Len(l) + 1)) \X (1..(Len(r) + 1))

(* What the table has in a cell, given the cells after it.                  *)
Body(l, r, dp, at) ==
  CASE at[1] > Len(l) \/ at[2] > Len(r) -> 0
    [] OTHER ->
         IF l[at[1]] = r[at[2]] THEN dp[<<at[1] + 1, at[2] + 1>>] + 1
         ELSE Max({dp[<<at[1] + 1, at[2]>>], dp[<<at[1], at[2] + 1>>]})

(* The table restricted to the cells S.                                     *)
IsTable(l, r, dp, S) == dp = [at \in S |-> Body(l, r, dp, at)]

(* The cells from which at most k keys are left. *)
Ending(l, r, k) == { at \in Cells(l, r) : (Len(l) + 1 - at[1]) + (Len(r) + 1 - at[2]) <= k }

(* The cells a cell is computed from have fewer keys left. *)
LEMMA NextCells ==
  ASSUME NEW l, NEW r, Len(l) \in Nat, Len(r) \in Nat, NEW k \in Nat,
         NEW at \in Ending(l, r, k), ~(at[1] > Len(l) \/ at[2] > Len(r))
  PROVE  /\ k # 0
         /\ <<at[1] + 1, at[2] + 1>> \in Ending(l, r, k - 1)
         /\ <<at[1] + 1, at[2]>> \in Ending(l, r, k - 1)
         /\ <<at[1], at[2] + 1>> \in Ending(l, r, k - 1)
<1> DEFINE m == Len(l)
           n == Len(r)
<1>1. at[1] \in 1..(m + 1) /\ at[2] \in 1..(n + 1) /\ (m + 1 - at[1]) + (n + 1 - at[2]) <= k
  BY DEF Ending, Cells
<1>2. PICK i, j : i = at[1] /\ j = at[2]
  OBVIOUS
<1>3. /\ m \in Nat /\ n \in Nat /\ i \in 1..(m + 1) /\ j \in 1..(n + 1)
      /\ i <= m /\ j <= n /\ (m + 1 - i) + (n + 1 - j) <= k
  BY <1>1, <1>2
<1> HIDE DEF m, n
<1>4. /\ k # 0 /\ i + 1 \in 1..(m + 1) /\ j + 1 \in 1..(n + 1)
      /\ (m + 1 - (i + 1)) + (n + 1 - (j + 1)) <= k - 1
      /\ (m + 1 - (i + 1)) + (n + 1 - j) <= k - 1
      /\ (m + 1 - i) + (n + 1 - (j + 1)) <= k - 1
  BY <1>3
<1>5. QED BY <1>2, <1>3, <1>4 DEF Ending, Cells, m, n

(* The table exists: on the cells from which at most n keys are left, for   *)
(* every n.                                                                 *)
LEMMA TableExists ==
  ASSUME NEW l, NEW r, Len(l) \in Nat, Len(r) \in Nat, NEW n \in Nat
  PROVE  \E dp : IsTable(l, r, dp, Ending(l, r, n))
<1> DEFINE Lacking == { k \in Nat : ~\E dp : IsTable(l, r, dp, Ending(l, r, k)) }
<1>1. SUFFICES ASSUME Lacking # {} PROVE FALSE
  OBVIOUS
<1>2. PICK k \in Lacking : \A o \in Lacking : k <= o
  <2> HIDE DEF Lacking
  <2>1. Lacking \in SUBSET Nat
    BY DEF Lacking
  <2>2. QED BY <1>1, <2>1, LeastNumber
<1>3. CASE k = 0
  <2> DEFINE g == [at \in Ending(l, r, 0) |-> 0]
  <2>1. ASSUME NEW at \in Ending(l, r, 0) PROVE Body(l, r, g, at) = 0
    <3>1. at[1] > Len(l) \/ at[2] > Len(r)
      BY NextCells
    <3>2. QED BY <3>1 DEF Body
  <2>2. IsTable(l, r, g, Ending(l, r, 0))
    BY <2>1 DEF IsTable
  <2>3. QED BY <1>2, <1>3, <2>2
<1>4. CASE k # 0
  <2>1. k - 1 \in Nat /\ k - 1 \notin Lacking
    BY <1>2, <1>4
  <2>2. PICK dp : IsTable(l, r, dp, Ending(l, r, k - 1))
    BY <2>1
  <2> DEFINE g == [at \in Ending(l, r, k) |->
                     IF at \in Ending(l, r, k - 1) THEN dp[at] ELSE Body(l, r, dp, at)]
  <2>3. \A at \in Ending(l, r, k - 1) : at \in Ending(l, r, k) /\ g[at] = dp[at]
    <3>1. ASSUME NEW at \in Ending(l, r, k - 1) PROVE at \in Ending(l, r, k)
      <4>1. at \in Cells(l, r) /\ (Len(l) + 1 - at[1]) + (Len(r) + 1 - at[2]) <= k - 1
        BY DEF Ending
      <4>2. at[1] \in Int /\ at[2] \in Int
        BY <4>1 DEF Cells
      <4>3. (Len(l) + 1 - at[1]) + (Len(r) + 1 - at[2]) <= k
        <5>1. (Len(l) + 1 - at[1]) + (Len(r) + 1 - at[2]) \in Int
          <6>1. \A u, v \in Nat : \A x, y \in Int : (u + 1 - x) + (v + 1 - y) \in Int
            OBVIOUS
          <6>2. QED BY <4>2, <6>1, Zenon
        <5>2. \A x \in Int : x <= k - 1 => x <= k
          BY <1>2
        <5>3. QED BY <4>1, <5>1, <5>2
      <4>4. QED BY <4>1, <4>3 DEF Ending
    <3>2. QED BY <3>1
  <2>4. ASSUME NEW at \in Ending(l, r, k) PROVE Body(l, r, g, at) = Body(l, r, dp, at)
    <3>1. CASE at[1] > Len(l) \/ at[2] > Len(r)
      BY <3>1 DEF Body
    <3>2. CASE ~(at[1] > Len(l) \/ at[2] > Len(r))
      <4>1. /\ g[<<at[1] + 1, at[2] + 1>>] = dp[<<at[1] + 1, at[2] + 1>>]
            /\ g[<<at[1] + 1, at[2]>>] = dp[<<at[1] + 1, at[2]>>]
            /\ g[<<at[1], at[2] + 1>>] = dp[<<at[1], at[2] + 1>>]
        <5> HIDE DEF g
        <5>1. QED BY <3>2, <2>1, <2>3, NextCells
      <4> HIDE DEF g
      <4>2. QED BY <4>1 DEF Body
    <3>3. QED BY <3>1, <3>2
  <2>5. ASSUME NEW at \in Ending(l, r, k - 1) PROVE dp[at] = Body(l, r, dp, at)
    BY <2>2 DEF IsTable
  <2>6. ASSUME NEW at \in Ending(l, r, k) PROVE g[at] = Body(l, r, g, at)
    BY <2>4, <2>5
  <2>7. g = [at \in Ending(l, r, k) |-> Body(l, r, g, at)]
    BY <2>6
  <2>8. IsTable(l, r, g, Ending(l, r, k))
    BY <2>7 DEF IsTable
  <2>9. QED BY <1>2, <2>8
<1>5. QED BY <1>3, <1>4

(* The greater of two numbers. *)
LEMMA Greater ==
  ASSUME NEW a \in Nat, NEW b \in Nat
  PROVE  /\ Max({a, b}) \in {a, b} /\ Max({a, b}) >= a /\ Max({a, b}) >= b
<1>1. \E x \in {a, b} : \A y \in {a, b} : x >= y
  OBVIOUS
<1>2. QED BY <1>1 DEF Max

(* What the table says of a cell. *)
Recurs(l, r, i, j) ==
  LET d == Longest(l, r)
  IN  /\ (i > Len(l) \/ j > Len(r)) => d[<<i, j>>] = 0
      /\ (i <= Len(l) /\ j <= Len(r) /\ l[i] = r[j]) =>
           d[<<i, j>>] = d[<<i + 1, j + 1>>] + 1
      /\ (i <= Len(l) /\ j <= Len(r) /\ l[i] # r[j]) =>
           d[<<i, j>>] = Max({d[<<i + 1, j>>], d[<<i, j + 1>>]})

(* The table of align_sequences (core/alignment/lcs.py) satisfies its       *)
(* recurrence in every cell.                                                *)
LEMMA TableFacts ==
  ASSUME NEW l, NEW r, Len(l) \in Nat, Len(r) \in Nat,
         NEW i \in 1..(Len(l) + 1), NEW j \in 1..(Len(r) + 1)
  PROVE  Recurs(l, r, i, j)
<1> DEFINE d == Longest(l, r)
           n == Len(l) + Len(r)
<1>1. n \in Nat /\ Ending(l, r, n) = Cells(l, r)
  BY DEF Ending, Cells
<1>2. PICK dp : IsTable(l, r, dp, Cells(l, r))
  BY <1>1, TableExists
<1> DEFINE F == CHOOSE f : f = [at \in (1..(Len(l) + 1)) \X (1..(Len(r) + 1)) |->
        CASE at[1] > Len(l) \/ at[2] > Len(r) -> 0
          [] OTHER ->
               IF l[at[1]] = r[at[2]] THEN f[<<at[1] + 1, at[2] + 1>>] + 1
               ELSE Max({f[<<at[1] + 1, at[2]>>], f[<<at[1], at[2] + 1>>]})]
<1>3. IsTable(l, r, F, Cells(l, r))
  BY <1>2, Zenon DEF IsTable, Body, Cells
<1>4. d = F
  BY Zenon DEF Longest
<1> HIDE DEF F, d
<1>5. d[<<i, j>>] = Body(l, r, d, <<i, j>>)
  BY <1>3, <1>4 DEF IsTable, Cells
<1>6. /\ i > Len(l) \/ j > Len(r) => d[<<i, j>>] = 0
      /\ ~(i > Len(l) \/ j > Len(r)) => d[<<i, j>>] =
           IF l[i] = r[j] THEN d[<<i + 1, j + 1>>] + 1 ELSE Max({d[<<i + 1, j>>], d[<<i, j + 1>>]})
  BY <1>5 DEF Body
<1>7. QED BY <1>6 DEF d, Recurs

(* An argument by the least number of keys that are left; P is a set of    *)
(* cells here.                                                             *)
LEMMA FromTheEnd ==
  ASSUME NEW l, NEW r, Len(l) \in Nat, Len(r) \in Nat, NEW P \in SUBSET Cells(l, r),
         ASSUME NEW i \in 1..(Len(l) + 1), NEW j \in 1..(Len(r) + 1),
                (i <= Len(l) /\ j <= Len(r)) =>
                  <<i + 1, j + 1>> \in P /\ <<i + 1, j>> \in P /\ <<i, j + 1>> \in P
         PROVE  <<i, j>> \in P
  PROVE  P = Cells(l, r)
<1> DEFINE To(at) == (Len(l) + 1 - at[1]) + (Len(r) + 1 - at[2])
           Lacking == { k \in Nat : \E at \in Cells(l, r) \ P : k = To(at) }
<1>1. SUFFICES ASSUME NEW out \in Cells(l, r) \ P PROVE FALSE
  OBVIOUS
<1>2. ASSUME NEW at \in Cells(l, r) PROVE To(at) \in Nat
  <2>1. at[1] \in 1..(Len(l) + 1) /\ at[2] \in 1..(Len(r) + 1)
    BY DEF Cells
  <2>2. \A m \in Nat : \A x \in 1..(m + 1) : m + 1 - x \in Nat
    OBVIOUS
  <2>3. Len(l) + 1 - at[1] \in Nat /\ Len(r) + 1 - at[2] \in Nat
    BY <2>1, <2>2, Zenon
  <2>4. \A m, n \in Nat : m + n \in Nat
    OBVIOUS
  <2>5. QED BY <2>3, <2>4, Zenon
<1>3. Lacking \in SUBSET Nat /\ Lacking # {}
  BY <1>1, <1>2
<1>4. PICK k \in Lacking : \A o \in Lacking : k <= o
  <2> HIDE DEF Lacking
  <2>1. QED BY <1>3, LeastNumber
<1>5. PICK at \in Cells(l, r) \ P : k = To(at)
  BY <1>4
<1>6. PICK i \in 1..(Len(l) + 1), j \in 1..(Len(r) + 1) : at = <<i, j>>
  <2> DEFINE A == 1..(Len(l) + 1)
             B == 1..(Len(r) + 1)
  <2>1. at \in A \X B
    BY <1>5 DEF Cells
  <2> HIDE DEF A, B
  <2>2. \E i \in A, j \in B : at = <<i, j>>
    BY <2>1
  <2>3. QED BY <2>2 DEF A, B
<1>7. k = (Len(l) + 1 - i) + (Len(r) + 1 - j)
  BY <1>5, <1>6
<1>8. ASSUME NEW x \in 1..(Len(l) + 1), NEW y \in 1..(Len(r) + 1),
             (Len(l) + 1 - x) + (Len(r) + 1 - y) < k
      PROVE  <<x, y>> \in P
  <2>1. SUFFICES ASSUME <<x, y>> \notin P PROVE FALSE
    OBVIOUS
  <2>2. <<x, y>> \in Cells(l, r) \ P /\ To(<<x, y>>) = (Len(l) + 1 - x) + (Len(r) + 1 - y)
    BY <2>1 DEF Cells
  <2>3. To(<<x, y>>) \in Lacking
    BY <1>2, <2>2
  <2>4. k <= To(<<x, y>>)
    BY <1>4, <2>3
  <2> HIDE DEF To
  <2>5. To(<<x, y>>) \in Nat /\ k \in Nat
    BY <1>2, <1>4, <2>2
  <2>6. QED BY <1>8, <2>2, <2>4, <2>5
<1>9. (i <= Len(l) /\ j <= Len(r)) =>
         <<i + 1, j + 1>> \in P /\ <<i + 1, j>> \in P /\ <<i, j + 1>> \in P
  <2>1. SUFFICES ASSUME i <= Len(l), j <= Len(r)
                 PROVE <<i + 1, j + 1>> \in P /\ <<i + 1, j>> \in P /\ <<i, j + 1>> \in P
    OBVIOUS
  <2>2. i + 1 \in 1..(Len(l) + 1) /\ j + 1 \in 1..(Len(r) + 1)
    BY <2>1
  <2>3. /\ (Len(l) + 1 - (i + 1)) + (Len(r) + 1 - (j + 1)) < k
        /\ (Len(l) + 1 - (i + 1)) + (Len(r) + 1 - j) < k
        /\ (Len(l) + 1 - i) + (Len(r) + 1 - (j + 1)) < k
    BY <1>7
  <2> HIDE DEF Lacking, To
  <2>4. QED BY <1>8, <2>2, <2>3
<1>10. <<i, j>> \in P
  BY <1>9
<1>11. QED BY <1>5, <1>6, <1>10

(* Its entries are numbers.                                                 *)
LEMMA LongestIsANumber ==
  ASSUME NEW l, NEW r, Len(l) \in Nat, Len(r) \in Nat,
         NEW i \in 1..(Len(l) + 1), NEW j \in 1..(Len(r) + 1)
  PROVE  Longest(l, r)[<<i, j>>] \in Nat
<1> DEFINE P == { at \in Cells(l, r) : Longest(l, r)[at] \in Nat }
<1>1. ASSUME NEW x \in 1..(Len(l) + 1), NEW y \in 1..(Len(r) + 1),
             (x <= Len(l) /\ y <= Len(r)) =>
               <<x + 1, y + 1>> \in P /\ <<x + 1, y>> \in P /\ <<x, y + 1>> \in P
      PROVE  <<x, y>> \in P
  <2>0. <<x, y>> \in Cells(l, r)
    BY DEF Cells
  <2>3. Recurs(l, r, x, y)
    BY TableFacts
  <2>1. CASE x > Len(l) \/ y > Len(r)
    <3>1. Longest(l, r)[<<x, y>>] = 0
      BY <2>1, <2>3 DEF Recurs
    <3>2. QED BY <2>0, <3>1
  <2>2. CASE x <= Len(l) /\ y <= Len(r)
    <3>1. /\ Longest(l, r)[<<x + 1, y + 1>>] \in Nat
          /\ Longest(l, r)[<<x + 1, y>>] \in Nat /\ Longest(l, r)[<<x, y + 1>>] \in Nat
      BY <1>1, <2>2
    <3>2. CASE l[x] = r[y]
      <4>1. Longest(l, r)[<<x, y>>] = Longest(l, r)[<<x + 1, y + 1>>] + 1
        BY <2>2, <2>3, <3>2 DEF Recurs
      <4>2. \A x0 \in Nat : x0 + 1 \in Nat
        OBVIOUS
      <4>3. Longest(l, r)[<<x, y>>] \in Nat
        BY <3>1, <4>1, <4>2, Zenon
      <4>4. QED BY <2>0, <4>3, Zenon
    <3>3. CASE l[x] # r[y]
      <4>1. Longest(l, r)[<<x, y>>] = Max({Longest(l, r)[<<x + 1, y>>], Longest(l, r)[<<x, y + 1>>]})
        BY <2>2, <2>3, <3>3 DEF Recurs
      <4>2. Longest(l, r)[<<x, y>>] \in Nat
        BY <3>1, <4>1, Greater
      <4>3. QED BY <2>0, <4>2
    <3>4. QED BY <3>2, <3>3
  <2>4. QED BY <2>1, <2>2
<1>2. P = Cells(l, r)
  <2>1. P \in SUBSET Cells(l, r)
    OBVIOUS
  <2> HIDE DEF P
  <2>2. QED BY <1>1, <2>1, FromTheEnd
<1>3. <<i, j>> \in Cells(l, r)
  BY DEF Cells
<1>4. QED BY <1>2, <1>3

(* A common subsequence of what is left on both sides: places on the left, *)
(* and the places of the same keys on the right.                           *)
Common(l, r, i, j, I, f) ==
  /\ I \in SUBSET (i..Len(l)) /\ f \in [I -> j..Len(r)]
  /\ \A x, y \in I : l[x] = r[f[x]] /\ (x < y => f[x] < f[y])

(* The table bounds all of them. *)
LEMMA TableBounds ==
  ASSUME NEW l, NEW r, Len(l) \in Nat, Len(r) \in Nat,
         NEW i \in 1..(Len(l) + 1), NEW j \in 1..(Len(r) + 1),
         NEW I, NEW f, Common(l, r, i, j, I, f)
  PROVE  Cardinality(I) <= Longest(l, r)[<<i, j>>]
<1> DEFINE d == Longest(l, r)
           P == { at \in Cells(l, r) :
                    \A J, g : Common(l, r, at[1], at[2], J, g) => Cardinality(J) <= d[at] }
<1>0. ASSUME NEW x \in 1..(Len(l) + 1), NEW y \in 1..(Len(r) + 1)
      PROVE  <<x, y>> \in P <=>
               \A J, g : Common(l, r, x, y, J, g) => Cardinality(J) <= d[<<x, y>>]
  BY DEF Cells
<1>1. ASSUME NEW x \in 1..(Len(l) + 1), NEW y \in 1..(Len(r) + 1),
             (x <= Len(l) /\ y <= Len(r)) =>
               <<x + 1, y + 1>> \in P /\ <<x + 1, y>> \in P /\ <<x, y + 1>> \in P
      PROVE  <<x, y>> \in P
  <2> HIDE DEF P, d
  <2>1. SUFFICES ASSUME NEW J, NEW g, Common(l, r, x, y, J, g)
                 PROVE  Cardinality(J) <= d[<<x, y>>]
    BY <1>0
  <2>2. /\ J \in SUBSET (x..Len(l)) /\ g \in [J -> y..Len(r)]
        /\ \A u, v \in J : l[u] = r[g[u]] /\ (u < v => g[u] < g[v])
    BY <2>1 DEF Common
  <2>3. IsFiniteSet(J) /\ Cardinality(J) \in Nat
    <3>1. IsFiniteSet(x..Len(l))
      BY FS_Interval
    <3>2. QED BY <2>2, <3>1, FS_Subset, FS_CardinalityType
  <2>4. d[<<x, y>>] \in Nat
    BY LongestIsANumber DEF d
  <2>5. CASE J = {}
    <3>1. Cardinality(J) = 0
      BY <2>5, FS_EmptySet
    <3>2. QED BY <2>4, <3>1
  <2>6. CASE J # {}
    <3>1. x <= Len(l) /\ y <= Len(r)
      <4>1. PICK u : u \in J
        BY <2>6
      <4>2. u \in x..Len(l) /\ g[u] \in y..Len(r)
        BY <2>2, <4>1
      <4>3. QED BY <4>2
    <3>2. x + 1 \in 1..(Len(l) + 1) /\ y + 1 \in 1..(Len(r) + 1)
      BY <3>1
    <3>3. /\ \A K, h : Common(l, r, x + 1, y + 1, K, h) => Cardinality(K) <= d[<<x + 1, y + 1>>]
          /\ \A K, h : Common(l, r, x + 1, y, K, h) => Cardinality(K) <= d[<<x + 1, y>>]
          /\ \A K, h : Common(l, r, x, y + 1, K, h) => Cardinality(K) <= d[<<x, y + 1>>]
      BY <1>0, <1>1, <3>1, <3>2
    <3>4. /\ d[<<x + 1, y + 1>>] \in Nat /\ d[<<x + 1, y>>] \in Nat /\ d[<<x, y + 1>>] \in Nat
      BY <3>2, LongestIsANumber DEF d
    <3>8. Recurs(l, r, x, y)
      BY TableFacts
    <3>5. CASE l[x] = r[y]
      <4>1. d[<<x, y>>] = d[<<x + 1, y + 1>>] + 1
        BY <3>1, <3>5, <3>8 DEF d, Recurs
      <4>2. PICK u \in J : \A v \in J : u <= v
        <5>1. J \in SUBSET Nat
          BY <2>2
        <5>2. QED BY <2>6, <5>1, LeastNumber
      <4> DEFINE K == J \ {u}
                 h == [v \in K |-> g[v]]
      <4>3. ASSUME NEW v \in K PROVE v \in (x + 1)..Len(l) /\ g[v] \in (y + 1)..Len(r)
        <5>1. u \in x..Len(l) /\ v \in x..Len(l) /\ u <= v /\ u # v
          BY <2>2, <4>2
        <5>2. u < v
          BY <5>1
        <5>3. g[u] < g[v] /\ g[u] \in y..Len(r) /\ g[v] \in y..Len(r)
          BY <2>2, <5>2
        <5>4. QED BY <5>1, <5>2, <5>3
      <4>4. Common(l, r, x + 1, y + 1, K, h)
        <5>1. K \in SUBSET ((x + 1)..Len(l)) /\ h \in [K -> (y + 1)..Len(r)]
          BY <4>3
        <5>2. \A p, q \in K : l[p] = r[h[p]] /\ (p < q => h[p] < h[q])
          BY <2>2
        <5> HIDE DEF K, h
        <5>3. QED BY <5>1, <5>2 DEF Common
      <4>5. Cardinality(K) <= d[<<x + 1, y + 1>>]
        <5> HIDE DEF K, h
        <5>1. QED BY <3>3, <4>4
      <4>6. Cardinality(K) = Cardinality(J) - 1
        BY <2>3, <4>2, FS_RemoveElement
      <4>7. \A m, n, o \in Nat : (m - 1 <= n /\ o = n + 1) => m <= o
        OBVIOUS
      <4>8. QED BY <2>3, <2>4, <3>4, <4>1, <4>5, <4>6, <4>7
    <3>6. CASE l[x] # r[y]
      <4>1. d[<<x, y>>] = Max({d[<<x + 1, y>>], d[<<x, y + 1>>]})
        BY <3>1, <3>6, <3>8 DEF d, Recurs
      <4>2. d[<<x, y>>] >= d[<<x + 1, y>>] /\ d[<<x, y>>] >= d[<<x, y + 1>>]
        <5> DEFINE u == d[<<x + 1, y>>]
                   v == d[<<x, y + 1>>]
        <5>1. u \in Nat /\ v \in Nat /\ d[<<x, y>>] = Max({u, v})
          BY <3>4, <4>1, Zenon
        <5> HIDE DEF u, v
        <5>2. Max({u, v}) >= u /\ Max({u, v}) >= v
          BY <5>1, Greater, Zenon
        <5>3. d[<<x, y>>] >= u /\ d[<<x, y>>] >= v
          BY <5>1, <5>2, Zenon
        <5>4. QED BY <5>3, Zenon DEF u, v
      <4>20. \A m, n, o \in Nat : (m <= n /\ o >= n) => m <= o
        OBVIOUS
      <4>3. CASE x \notin J
        <5>1. J \in SUBSET ((x + 1)..Len(l))
          BY <2>2, <4>3
        <5>2. Common(l, r, x + 1, y, J, g)
          BY <2>2, <5>1 DEF Common
        <5>3. Cardinality(J) <= d[<<x + 1, y>>]
          BY <3>3, <5>2, Zenon
        <5>4. QED BY <2>3, <2>4, <3>4, <4>2, <4>20, <5>3, Zenon
      <4>4. CASE x \in J
        <5>1. g[x] \in y..Len(r) /\ g[x] # y
          BY <2>2, <3>6, <4>4
        <5>2. ASSUME NEW v \in J PROVE g[v] \in (y + 1)..Len(r)
          <6>1. g[v] \in y..Len(r) /\ v \in x..Len(l)
            BY <2>2
          <6>2. v = x \/ g[x] < g[v]
            BY <2>2, <4>4, <6>1
          <6>3. QED BY <5>1, <6>1, <6>2
        <5>3. g \in [J -> (y + 1)..Len(r)]
          BY <2>2, <5>2
        <5>4. Common(l, r, x, y + 1, J, g)
          BY <2>2, <5>3 DEF Common
        <5>5. Cardinality(J) <= d[<<x, y + 1>>]
          BY <3>3, <5>4, Zenon
        <5>6. QED BY <2>3, <2>4, <3>4, <4>2, <4>20, <5>5, Zenon
      <4>5. QED BY <4>3, <4>4
    <3>7. QED BY <3>5, <3>6
  <2>7. QED BY <2>5, <2>6
<1>2. P = Cells(l, r)
  <2>1. P \in SUBSET Cells(l, r)
    OBVIOUS
  <2> HIDE DEF P
  <2>2. QED BY <1>1, <2>1, FromTheEnd
<1>3. <<i, j>> \in P
  BY <1>2 DEF Cells
<1> HIDE DEF P
<1>4. QED BY <1>0, <1>3 DEF d

(* The edits that read the left, those that read the right, and what an edit*)
(* is.                                                                      *)
Lefts(s)  == { k \in DOMAIN s : s[k].op # "RIGHT_ONLY" }
Rights(s) == { k \in DOMAIN s : s[k].op # "LEFT_ONLY" }
Edits     == [op : {"ALIGN", "LEFT_ONLY", "RIGHT_ONLY"}, left : Nat, right : Nat]

(* The script s has read l before i and r before j; what it has aligned    *)
(* and what the table promises from there is what the table promised.      *)
AlignedTo(l, r, s, i, j) ==
  /\ i \in 1..(Len(l) + 1) /\ j \in 1..(Len(r) + 1)
  /\ s \in Seq(Edits)
  /\ \A k, m \in Lefts(s) : k < m => s[k].left < s[m].left
  /\ \A k, m \in Rights(s) : k < m => s[k].right < s[m].right
  /\ { s[k].left : k \in Lefts(s) } = 1..(i - 1)
  /\ { s[k].right : k \in Rights(s) } = 1..(j - 1)
  /\ \A k \in Lefts(s) \cap Rights(s) : l[s[k].left] = r[s[k].right]
  /\ Cardinality(Lefts(s) \cap Rights(s)) + Longest(l, r)[<<i, j>>] = Longest(l, r)[<<1, 1>>]

(* An edit that costs nothing keeps it so. *)
LEMMA EditStep ==
  ASSUME NEW l, NEW r, Len(l) \in Nat, Len(r) \in Nat, NEW s, NEW i, NEW j, AlignedTo(l, r, s, i, j),
         NEW op \in {"ALIGN", "LEFT_ONLY", "RIGHT_ONLY"},
         NEW di \in {0, 1}, NEW dj \in {0, 1}, i + di <= Len(l) + 1, j + dj <= Len(r) + 1,
         di = 1 <=> op # "RIGHT_ONLY", dj = 1 <=> op # "LEFT_ONLY",
         op = "ALIGN" => l[i] = r[j],
         Longest(l, r)[<<i, j>>] =
           Longest(l, r)[<<i + di, j + dj>>] + (IF op = "ALIGN" THEN 1 ELSE 0)
  PROVE  AlignedTo(l, r, Append(s, [op |-> op, left |-> i, right |-> j]), i + di, j + dj)
<1> DEFINE e == [op |-> op, left |-> i, right |-> j]
           a == Append(s, e)
           n == Len(s) + 1
<1>1. /\ i \in 1..(Len(l) + 1) /\ j \in 1..(Len(r) + 1) /\ s \in Seq(Edits)
      /\ \A k, m \in Lefts(s) : k < m => s[k].left < s[m].left
      /\ \A k, m \in Rights(s) : k < m => s[k].right < s[m].right
      /\ { s[k].left : k \in Lefts(s) } = 1..(i - 1)
      /\ { s[k].right : k \in Rights(s) } = 1..(j - 1)
      /\ \A k \in Lefts(s) \cap Rights(s) : l[s[k].left] = r[s[k].right]
      /\ Cardinality(Lefts(s) \cap Rights(s)) + Longest(l, r)[<<i, j>>] = Longest(l, r)[<<1, 1>>]
  BY DEF AlignedTo
<1>2. e \in Edits /\ e.op = op /\ e.left = i /\ e.right = j
  <2>1. i \in Nat /\ j \in Nat
    BY <1>1
  <2>2. QED BY <2>1 DEF Edits
<1> HIDE DEF e
<1>3. /\ a \in Seq(Edits) /\ DOMAIN a = 1..n /\ DOMAIN s = 1..(n - 1) /\ n \in Nat \ {0}
      /\ a[n] = e /\ \A k \in 1..(n - 1) : a[k] = s[k]
  BY <1>1, <1>2, AppendProperties
<1> HIDE DEF a, n
<1>4. /\ Lefts(a) = Lefts(s) \cup (IF di = 1 THEN {n} ELSE {})
      /\ Rights(a) = Rights(s) \cup (IF dj = 1 THEN {n} ELSE {})
  <2>1. \A k \in DOMAIN a : k = n \/ (k \in DOMAIN s /\ a[k] = s[k])
    BY <1>3
  <2>0. a[n].op = op
    BY <1>2, <1>3
  <2>2. n \in DOMAIN a /\ n \notin DOMAIN s /\ DOMAIN s \subseteq DOMAIN a /\ a[n].op = op
    <3>1. n \in 1..n /\ n \notin 1..(n - 1) /\ 1..(n - 1) \subseteq 1..n
      BY <1>3
    <3>2. DOMAIN a = 1..n /\ DOMAIN s = 1..(n - 1)
      BY <1>3
    <3>3. QED BY <2>0, <3>1, <3>2, Zenon
  <2>3. \A k \in DOMAIN s : a[k] = s[k]
    BY <1>3
  <2>4. Lefts(a) = Lefts(s) \cup (IF op # "RIGHT_ONLY" THEN {n} ELSE {})
    BY <2>1, <2>2, <2>3 DEF Lefts
  <2>5. Rights(a) = Rights(s) \cup (IF op # "LEFT_ONLY" THEN {n} ELSE {})
    BY <2>1, <2>2, <2>3 DEF Rights
  <2>6. QED BY <2>4, <2>5
<1>5. /\ \A k \in Lefts(s) : k \in 1..(n - 1) /\ a[k] = s[k] /\ s[k].left \in 1..(i - 1)
      /\ \A k \in Rights(s) : k \in 1..(n - 1) /\ a[k] = s[k] /\ s[k].right \in 1..(j - 1)
  BY <1>1, <1>3 DEF Lefts, Rights
<1>6. i \in Int /\ j \in Int /\ i >= 1 /\ j >= 1 /\ a[n].left = i /\ a[n].right = j
  BY <1>1, <1>2, <1>3
<1>7. \A k, m \in Lefts(a) : k < m => a[k].left < a[m].left
  <2>1. SUFFICES ASSUME NEW k \in Lefts(a), NEW m \in Lefts(a), k < m
                 PROVE  a[k].left < a[m].left
    OBVIOUS
  <2>2. k \in Lefts(s)
    BY <1>3, <1>4, <1>5, <2>1
  <2>3. CASE m \in Lefts(s)
    BY <1>1, <1>5, <2>1, <2>2, <2>3
  <2>4. CASE m = n
    <3>1. a[k] = s[k] /\ s[k].left < i
      BY <1>5, <1>6, <2>2
    <3>2. a[m].left = i
      BY <1>6, <2>4
    <3>3. QED BY <3>1, <3>2
  <2>5. QED BY <1>4, <2>3, <2>4
<1>8. \A k, m \in Rights(a) : k < m => a[k].right < a[m].right
  <2>1. SUFFICES ASSUME NEW k \in Rights(a), NEW m \in Rights(a), k < m
                 PROVE  a[k].right < a[m].right
    OBVIOUS
  <2>2. k \in Rights(s)
    BY <1>3, <1>4, <1>5, <2>1
  <2>3. CASE m \in Rights(s)
    BY <1>1, <1>5, <2>1, <2>2, <2>3
  <2>4. CASE m = n
    <3>1. a[k] = s[k] /\ s[k].right < j
      BY <1>5, <1>6, <2>2
    <3>2. a[m].right = j
      BY <1>6, <2>4
    <3>3. QED BY <3>1, <3>2
  <2>5. QED BY <1>4, <2>3, <2>4
<1>9. { a[k].left : k \in Lefts(a) } = 1..((i + di) - 1)
  <2>1. \A k \in Lefts(s) : a[k].left = s[k].left
    BY <1>5
  <2>2. { a[k].left : k \in Lefts(s) } = 1..(i - 1)
    BY <1>1, <2>1
  <2>3. CASE di = 1
    <3>1. { a[k].left : k \in Lefts(a) } = { a[k].left : k \in Lefts(s) } \cup {a[n].left}
      BY <1>4, <2>3
    <3>2. 1..(i - 1) \cup {i} = 1..((i + 1) - 1)
      BY <1>6
    <3>3. QED BY <1>6, <2>2, <2>3, <3>1, <3>2
  <2>4. CASE di = 0
    <3>1. Lefts(a) = Lefts(s) /\ (i + di) - 1 = i - 1
      BY <1>4, <1>6, <2>4
    <3>2. QED BY <2>2, <3>1
  <2>5. QED BY <2>3, <2>4
<1>10. { a[k].right : k \in Rights(a) } = 1..((j + dj) - 1)
  <2>1. \A k \in Rights(s) : a[k].right = s[k].right
    BY <1>5
  <2>2. { a[k].right : k \in Rights(s) } = 1..(j - 1)
    BY <1>1, <2>1
  <2>3. CASE dj = 1
    <3>1. { a[k].right : k \in Rights(a) } = { a[k].right : k \in Rights(s) } \cup {a[n].right}
      BY <1>4, <2>3
    <3>2. 1..(j - 1) \cup {j} = 1..((j + 1) - 1)
      BY <1>6
    <3>3. QED BY <1>6, <2>2, <2>3, <3>1, <3>2
  <2>4. CASE dj = 0
    <3>1. Rights(a) = Rights(s) /\ (j + dj) - 1 = j - 1
      BY <1>4, <1>6, <2>4
    <3>2. QED BY <2>2, <3>1
  <2>5. QED BY <2>3, <2>4
<1>11. /\ Lefts(a) \cap Rights(a) = (Lefts(s) \cap Rights(s)) \cup (IF op = "ALIGN" THEN {n} ELSE {})
       /\ n \notin Lefts(s) \cap Rights(s)
  <2>1. n \notin Lefts(s) /\ n \notin Rights(s)
    BY <1>3, <1>5
  <2>2. op = "ALIGN" <=> di = 1 /\ dj = 1
    OBVIOUS
  <2>3. QED BY <1>4, <2>1, <2>2
<1>12. \A k \in Lefts(a) \cap Rights(a) : l[a[k].left] = r[a[k].right]
  <2>1. SUFFICES ASSUME NEW k \in Lefts(a) \cap Rights(a) PROVE l[a[k].left] = r[a[k].right]
    OBVIOUS
  <2>2. CASE k \in Lefts(s) \cap Rights(s)
    BY <1>1, <1>5, <2>2
  <2>3. CASE k = n /\ op = "ALIGN"
    BY <1>6, <2>3
  <2>4. QED BY <1>11, <2>2, <2>3
<1>13. Cardinality(Lefts(a) \cap Rights(a)) + Longest(l, r)[<<i + di, j + dj>>] = Longest(l, r)[<<1, 1>>]
  <2> DEFINE both == Lefts(s) \cap Rights(s)
  <2>1. IsFiniteSet(both) /\ Cardinality(both) \in Nat
    <3>1. IsFiniteSet(1..(n - 1))
      BY <1>3, FS_Interval
    <3>2. both \in SUBSET (1..(n - 1))
      BY <1>5
    <3>3. QED BY <3>1, <3>2, FS_Subset, FS_CardinalityType
  <2>2. Cardinality(Lefts(a) \cap Rights(a)) = Cardinality(both) + (IF op = "ALIGN" THEN 1 ELSE 0)
    <3> HIDE DEF both
    <3>1. CASE op = "ALIGN"
      <4>1. Lefts(a) \cap Rights(a) = both \cup {n} /\ n \notin both
        BY <1>11, <3>1 DEF both
      <4>2. Cardinality(both \cup {n}) = Cardinality(both) + 1
        BY <2>1, <4>1, FS_AddElement
      <4>3. QED BY <3>1, <4>1, <4>2
    <3>2. CASE op # "ALIGN"
      <4>1. Lefts(a) \cap Rights(a) = both
        BY <1>11, <3>2 DEF both
      <4>2. Cardinality(Lefts(a) \cap Rights(a)) = Cardinality(both)
        BY <4>1, Zenon
      <4>3. QED BY <2>1, <3>2, <4>2
    <3>3. QED BY <3>1, <3>2
  <2>3. i + di \in 1..(Len(l) + 1) /\ j + dj \in 1..(Len(r) + 1)
    BY <1>6
  <2>4. Longest(l, r)[<<i + di, j + dj>>] \in Nat
    BY <2>3, LongestIsANumber
  <2> HIDE DEF both
  <2>5. Cardinality(both) + Longest(l, r)[<<i, j>>] = Longest(l, r)[<<1, 1>>]
    BY <1>1 DEF both
  <2>6. QED BY <2>1, <2>2, <2>4, <2>5
<1>14. i + di \in 1..(Len(l) + 1) /\ j + dj \in 1..(Len(r) + 1)
  BY <1>6
<1>15. AlignedTo(l, r, a, i + di, j + dj)
  BY <1>3, <1>7, <1>8, <1>9, <1>10, <1>12, <1>13, <1>14 DEF AlignedTo
<1>16. QED BY <1>15 DEF a, e

(* The empty script has read nothing and aligned nothing.                   *)
LEMMA NothingAligned ==
  ASSUME NEW l, NEW r, Len(l) \in Nat, Len(r) \in Nat
  PROVE  AlignedTo(l, r, <<>>, 1, 1)
<1>1. Lefts(<<>>) = {} /\ Rights(<<>>) = {} /\ <<>> \in Seq(Edits)
  BY DEF Lefts, Rights
<1>2. 1 \in 1..(Len(l) + 1) /\ 1 \in 1..(Len(r) + 1) /\ 1..(1 - 1) = {}
  OBVIOUS
<1>3. Longest(l, r)[<<1, 1>>] \in Nat
  BY <1>2, LongestIsANumber
<1>4. Cardinality({}) = 0
  BY FS_EmptySet
<1>5. /\ { <<>>[k].left : k \in Lefts(<<>>) } = 1..(1 - 1)
      /\ { <<>>[k].right : k \in Rights(<<>>) } = 1..(1 - 1)
  BY <1>1, <1>2
<1>6. Cardinality(Lefts(<<>>) \cap Rights(<<>>)) = 0
  BY <1>1, <1>4
<1>7. QED BY <1>1, <1>2, <1>3, <1>5, <1>6 DEF AlignedTo

(* A script that has read everything is as long as any. *)
LEMMA EndedScripts ==
  ASSUME NEW l, NEW r, Len(l) \in Nat, Len(r) \in Nat, NEW s,
         AlignedTo(l, r, s, Len(l) + 1, Len(r) + 1),
         NEW I, NEW f, Common(l, r, 1, 1, I, f)
  PROVE  Cardinality(I) <= Cardinality(Lefts(s) \cap Rights(s))
<1>1. Len(l) + 1 \in 1..(Len(l) + 1) /\ Len(r) + 1 \in 1..(Len(r) + 1)
      /\ 1 \in 1..(Len(l) + 1) /\ 1 \in 1..(Len(r) + 1)
  OBVIOUS
<1>2. Recurs(l, r, Len(l) + 1, Len(r) + 1)
  BY <1>1, TableFacts
<1>3. Longest(l, r)[<<Len(l) + 1, Len(r) + 1>>] = 0
  BY <1>2 DEF Recurs
<1>5. Cardinality(I) <= Longest(l, r)[<<1, 1>>]
  BY <1>1, TableBounds
<1>6. IsFiniteSet(Lefts(s) \cap Rights(s))
  <2>1. s \in Seq(Edits)
    BY DEF AlignedTo
  <2>2. IsFiniteSet(1..Len(s)) /\ DOMAIN s = 1..Len(s)
    BY <2>1, FS_Interval
  <2>4. Lefts(s) \cap Rights(s) \in SUBSET (1..Len(s))
    BY <2>2 DEF Lefts
  <2>3. QED BY <2>2, <2>4, FS_Subset
<1>7. Cardinality(Lefts(s) \cap Rights(s)) \in Nat
  BY <1>6, FS_CardinalityType
<1>8. QED BY <1>3, <1>5, <1>7 DEF AlignedTo

(* The least and the greatest place of a set of places of a sequence. *)
LEMMA Extremes ==
  ASSUME NEW n \in Nat, NEW S \in SUBSET (1..n), S # {}
  PROVE  /\ Min(S) \in S /\ \A i \in S : Min(S) <= i
         /\ Max(S) \in S /\ \A i \in S : i <= Max(S)
<1>1. \E a \in S : \A i \in S : a <= i
  <2>1. S \in SUBSET Nat
    OBVIOUS
  <2>2. QED BY <2>1, LeastNumber
<1>2. \E b \in S : \A i \in S : b >= i
  <2> DEFINE T == { k \in Nat : n - k \in S }
  <2>1. \A i \in S : n - i \in T
    OBVIOUS
  <2>2. T # {} /\ T \in SUBSET Nat
    BY <2>1
  <2>3. PICK k \in T : \A m \in T : k <= m
    <3> HIDE DEF T
    <3>1. QED BY <2>2, LeastNumber
  <2>4. n - k \in S /\ \A i \in S : n - k >= i
    BY <2>1, <2>3
  <2>5. QED BY <2>4
<1>3. Min(S) \in S /\ \A i \in S : Min(S) <= i
  BY <1>1 DEF Min
<1>4. Max(S) \in S /\ \A i \in S : Max(S) >= i
  BY <1>2 DEF Max
<1>5. QED BY <1>3, <1>4

(* A sequence without its blank ends. *)
Stripped(s, a, b) ==
  /\ a \in Ink(s) /\ b \in Ink(s) /\ \A i \in Ink(s) : a <= i /\ i <= b
  /\ Strip(s) = SubSeq(s, a, b) /\ Len(Strip(s)) = b - a + 1
  /\ \A k \in 1..(b - a + 1) : Strip(s)[k] = s[k + a - 1]
  /\ \A k : k \in Ink(Strip(s)) <=> k \in 1..(b - a + 1) /\ k + a - 1 \in Ink(s)

(* A text that is not all blank, stripped, is what is between its first and *)
(* its last letter.                                                         *)
LEMMA StripFacts ==
  ASSUME NEW X, NEW s \in Seq(X), Ink(s) # {}
  PROVE  \E a, b \in 1..Len(s) : Strip(s) \in Seq(X) /\ Stripped(s, a, b)
<1> DEFINE a == Min(Ink(s))
           b == Max(Ink(s))
<1>1. Len(s) \in Nat /\ Ink(s) \in SUBSET (1..Len(s))
  BY DEF Ink
<1>2. /\ a \in Ink(s) /\ \A i \in Ink(s) : a <= i
      /\ b \in Ink(s) /\ \A i \in Ink(s) : i <= b
  BY <1>1, Extremes
<1>3. Strip(s) = SubSeq(s, a, b)
  BY DEF Strip
<1> HIDE DEF a, b
<1>4. a \in 1..Len(s) /\ b \in 1..Len(s) /\ a <= b
  BY <1>1, <1>2
<1>5. \A i \in a..b : s[i] \in X
  BY <1>4
<1>6. /\ SubSeq(s, a, b) \in Seq(X) /\ Len(SubSeq(s, a, b)) = b - a + 1
      /\ \A k \in 1..(b - a + 1) : SubSeq(s, a, b)[k] = s[a + k - 1]
  BY <1>4, <1>5, SubSeqProperties
<1>7. \A k \in 1..(b - a + 1) : Strip(s)[k] = s[k + a - 1] /\ k + a - 1 \in 1..Len(s)
  BY <1>3, <1>4, <1>6
<1>8. DOMAIN Strip(s) = 1..(b - a + 1) /\ DOMAIN s = 1..Len(s)
  BY <1>3, <1>6
<1>9. ASSUME NEW k PROVE k \in Ink(Strip(s)) <=> k \in 1..(b - a + 1) /\ k + a - 1 \in Ink(s)
  BY <1>7, <1>8 DEF Ink
<1>10. Stripped(s, a, b)
  BY <1>2, <1>3, <1>6, <1>7, <1>9 DEF Stripped
<1>11. QED BY <1>3, <1>4, <1>6, <1>10

(* The places of a set, in order. *)
Ascending(kept, n, places) ==
  /\ kept \in Seq(1..n)
  /\ \A k, m \in 1..Len(kept) : k < m => kept[k] < kept[m]
  /\ \A i \in 1..n : i \in places <=> \E k \in 1..Len(kept) : kept[k] = i

(* InOrder lists a set of places in ascending order.                        *)
LEMMA OrderFacts ==
  ASSUME NEW X, NEW t \in Seq(X), NEW places
  PROVE  Ascending(InOrder(t, places), Len(t), places)
<1> DEFINE id == [i \in DOMAIN t |-> i]
           kept == Filter(id, places)
           n == Len(t)
<1>1. n \in Nat /\ DOMAIN t = 1..n /\ id \in Seq(1..n) /\ Len(id) = n
  OBVIOUS
<1>2. PICK h : KeptFrom(1..n, id, places, kept, h, n)
  BY <1>1, FilterFacts
<1>4. \A i \in 1..n : id[i] = i
  BY <1>1
<1> HIDE DEF kept, id, n
<1>3. /\ kept \in Seq(1..n) /\ h \in [1..Len(kept) -> 1..n]
      /\ \A i \in 1..Len(kept) : kept[i] = id[h[i]]
      /\ \A i, j \in 1..Len(kept) : i < j => h[i] < h[j]
      /\ \A k \in 1..n : id[k] \in places <=> \E i \in 1..Len(kept) : h[i] = k
  BY <1>2 DEF KeptFrom
<1>5. \A i \in 1..Len(kept) : kept[i] = h[i]
  BY <1>3, <1>4
<1>6. Ascending(kept, n, places)
  BY <1>3, <1>4, <1>5 DEF Ascending
<1>7. QED BY <1>6 DEF InOrder, kept, id, n

(* Larger places come later, and next to each other if there are none      *)
(* between.                                                                *)
LEMMA AscendingFacts ==
  ASSUME NEW n \in Nat, NEW places, NEW kept, Ascending(kept, n, places),
         NEW k \in 1..Len(kept), NEW m \in 1..Len(kept)
  PROVE  /\ kept[k] \in 1..n /\ kept[k] \in places /\ Len(kept) \in Nat
         /\ k < m <=> kept[k] < kept[m]
         /\ kept[k] = kept[m] => k = m
         /\ (k < m /\ \A i \in places : ~(kept[k] < i /\ i < kept[m])) => m = k + 1
<1>1. /\ kept \in Seq(1..n) /\ Len(kept) \in Nat
      /\ \A o, p \in 1..Len(kept) : o < p => kept[o] < kept[p]
      /\ \A i \in 1..n : i \in places <=> \E o \in 1..Len(kept) : kept[o] = i
  BY DEF Ascending
<1>2. ASSUME NEW o \in 1..Len(kept) PROVE kept[o] \in 1..n /\ kept[o] \in places
  <2>1. kept[o] \in 1..n
    BY <1>1
  <2>2. QED BY <1>1, <2>1
<1>3. k < m \/ m < k \/ k = m
  OBVIOUS
<1>4. k < m => kept[k] < kept[m] /\ ~(kept[m] < kept[k]) /\ kept[k] # kept[m]
  BY <1>1, <1>2
<1>5. m < k => kept[m] < kept[k] /\ ~(kept[k] < kept[m]) /\ kept[k] # kept[m]
  BY <1>1, <1>2
<1>6. k = m => ~(kept[k] < kept[m])
  BY <1>2
<1>7. ASSUME k < m, \A i \in places : ~(kept[k] < i /\ i < kept[m]) PROVE m = k + 1
  <2>1. SUFFICES ASSUME m # k + 1 PROVE FALSE
    OBVIOUS
  <2>2. k + 1 \in 1..Len(kept) /\ k < k + 1 /\ k + 1 < m
    BY <1>1, <1>7, <2>1
  <2>3. kept[k] < kept[k + 1] /\ kept[k + 1] < kept[m] /\ kept[k + 1] \in places
    BY <1>1, <1>2, <2>2
  <2>4. QED BY <1>7, <2>3
<1>8. QED BY <1>1, <1>2, <1>3, <1>4, <1>5, <1>6, <1>7

(* All places, in order, are themselves. *)
LEMMA AllPlaces ==
  ASSUME NEW n \in Nat, NEW kept, Ascending(kept, n, 1..n)
  PROVE  Len(kept) = n /\ \A k \in 1..n : kept[k] = k
<1>0. kept \in Seq(1..n) /\ \A o, p \in 1..Len(kept) : o < p => kept[o] < kept[p]
  BY DEF Ascending
<1>1. /\ Len(kept) \in Nat
      /\ \A i \in 1..n : \E o \in 1..Len(kept) : kept[o] = i
      /\ \A o \in 1..Len(kept) : kept[o] \in 1..n
      /\ \A o, p \in 1..Len(kept) : o < p => kept[o] < kept[p]
  <2>1. Len(kept) \in Nat
    BY <1>0
  <2>2. \A o \in 1..Len(kept) : kept[o] \in 1..n
    BY <1>0
  <2>3. \A i \in 1..n : \E o \in 1..Len(kept) : kept[o] = i
    BY DEF Ascending
  <2>4. QED BY <1>0, <2>1, <2>2, <2>3
<1> DEFINE Wrong == { k \in 1..Len(kept) : kept[k] # k }
<1>2. Wrong = {}
  <2>1. SUFFICES ASSUME Wrong # {} PROVE FALSE
    OBVIOUS
  <2>2. Wrong \in SUBSET Nat
    BY <1>1
  <2>3. PICK k \in Wrong : \A m \in Wrong : k <= m
    <3> HIDE DEF Wrong
    <3>1. QED BY <2>1, <2>2, LeastNumber
  <2>4. k \in 1..Len(kept) /\ kept[k] # k /\ kept[k] \in 1..n
    BY <1>1, <2>3
  <2>5. ASSUME NEW o \in 1..Len(kept), o < k PROVE kept[o] = o
    <3>1. ~(k <= o)
      BY <2>4, <2>5
    <3>2. o \notin Wrong
      BY <2>3, <3>1
    <3>3. QED BY <3>2
  <2>6. ~(kept[k] < k)
    <3>1. SUFFICES ASSUME kept[k] < k PROVE FALSE
      OBVIOUS
    <3>0. kept[k] \in 1..Len(kept)
      BY <1>1, <2>4, <3>1
    <3>2. kept[k] \in 1..Len(kept) /\ kept[kept[k]] = kept[k]
      BY <2>5, <3>0, <3>1
    <3>3. kept[kept[k]] < kept[k]
      BY <1>1, <2>4, <3>1, <3>2
    <3>4. QED BY <1>1, <2>4, <3>2, <3>3
  <2>7. k < kept[k] /\ k \in 1..n
    BY <2>4, <2>6
  <2>8. PICK o \in 1..Len(kept) : kept[o] = k
    BY <1>1, <2>7
  <2>9. o < k \/ o = k \/ k < o
    BY <2>4
  <2>10. CASE o < k
    BY <2>5, <2>8, <2>10
  <2>11. CASE o = k
    BY <2>4, <2>8, <2>11
  <2>12. CASE k < o
    <3>1. kept[k] < kept[o]
      BY <1>1, <2>4, <2>12
    <3>2. QED BY <2>4, <2>7, <2>8, <3>1
  <2>13. QED BY <2>9, <2>10, <2>11, <2>12
<1>3. \A k \in 1..Len(kept) : kept[k] = k
  BY <1>2
<1>4. n <= Len(kept)
  <2>1. CASE n = 0
    BY <1>1, <2>1
  <2>2. CASE n # 0
    <3>1. PICK o \in 1..Len(kept) : kept[o] = n
      BY <1>1, <2>2
    <3>2. QED BY <1>3, <3>1
  <2>3. QED BY <2>1, <2>2
<1>5. Len(kept) <= n
  <2>1. CASE Len(kept) = 0
    BY <2>1
  <2>2. CASE Len(kept) # 0
    <3>1. Len(kept) \in 1..Len(kept)
      BY <1>1, <2>2
    <3>2. kept[Len(kept)] = Len(kept) /\ kept[Len(kept)] \in 1..n
      BY <1>1, <1>3, <3>1
    <3>3. QED BY <3>2
  <2>3. QED BY <2>1, <2>2
<1>6. QED BY <1>1, <1>3, <1>4, <1>5

-----------------------------------------------------------------------------
(* What Collapse does to s: kept are the places of the stripped text that  *)
(* are letters or follow one.                                              *)
Collapsed(s, a, b, kept) ==
  LET text == Strip(s)
  IN  /\ Stripped(s, a, b) /\ a \in 1..Len(s) /\ b \in 1..Len(s)
      /\ Ascending(kept, b - a + 1,
                   { i \in 1..(b - a + 1) : i \in Ink(text) \/ i - 1 \in Ink(text) })
      /\ Collapse(s) = [k \in 1..Len(kept) |->
                          IF kept[k] \in Ink(text) THEN text[kept[k]] ELSE Space]

(* Collapse of a blank text is empty; of any other it is the Collapsed of   *)
(* above.                                                                   *)
LEMMA CollapseFacts ==
  ASSUME NEW X, NEW s \in Seq(X)
  PROVE  /\ Ink(s) = {} => Collapse(s) = <<>>
         /\ Ink(s) # {} => \E a, b, kept : Collapsed(s, a, b, kept)
<1> DEFINE text == Strip(s)
           places == { i \in DOMAIN text : i \in Ink(text) \/ i - 1 \in Ink(text) }
           kept == InOrder(text, places)
<1>1. Collapse(s) = [k \in DOMAIN kept |-> IF kept[k] \in Ink(text) THEN text[kept[k]] ELSE Space]
  BY DEF Collapse
<1> HIDE DEF kept
<1>2. ASSUME Ink(s) = {} PROVE Collapse(s) = <<>>
  <2>1. text = <<>> /\ text \in Seq(X)
    BY <1>2 DEF Strip
  <2>2. Ascending(kept, Len(text), places)
    <3> HIDE DEF text, places
    <3>1. QED BY <2>1, OrderFacts DEF kept
  <2>3. kept \in Seq(1..0)
    BY <2>1, <2>2 DEF Ascending
  <2>4. kept = <<>>
    <3>1. Len(kept) \in Nat /\ \A k \in 1..Len(kept) : kept[k] \in {}
      BY <2>3
    <3>2. Len(kept) = 0
      BY <3>1
    <3>3. QED BY <2>3, <3>2
  <2>5. QED BY <1>1, <2>4
<1>3. ASSUME Ink(s) # {} PROVE \E a, b, q : Collapsed(s, a, b, q)
  <2>1. PICK a \in 1..Len(s), b \in 1..Len(s) : text \in Seq(X) /\ Stripped(s, a, b)
    BY <1>3, StripFacts
  <2>2. Len(text) = b - a + 1 /\ DOMAIN text = 1..(b - a + 1)
    BY <2>1 DEF Stripped
  <2>3. Ascending(kept, Len(text), places)
    <3> HIDE DEF text, places
    <3>1. QED BY <2>1, OrderFacts DEF kept
  <2>4. DOMAIN kept = 1..Len(kept)
    BY <2>3 DEF Ascending
  <2>5. places = { i \in 1..(b - a + 1) : i \in Ink(text) \/ i - 1 \in Ink(text) }
    BY <2>2
  <2>6. Ascending(kept, b - a + 1,
                  { i \in 1..(b - a + 1) : i \in Ink(text) \/ i - 1 \in Ink(text) })
    BY <2>2, <2>3, <2>5, Zenon
  <2>7. Collapse(s) = [k \in 1..Len(kept) |-> IF kept[k] \in Ink(text) THEN text[kept[k]] ELSE Space]
    BY <1>1, <2>4
  <2>8. Collapsed(s, a, b, kept)
    BY <2>1, <2>6, <2>7 DEF Collapsed
  <2>9. QED BY <2>8
<1>4. QED BY <1>2, <1>3

(* Collapsed is what the facts about it need: its letters are those of s   *)
(* from a on, and a place is a letter or follows one.                      *)
LEMMA CollapsedPlaces ==
  ASSUME NEW X, NEW s \in Seq(X), NEW a, NEW b, NEW kept, Collapsed(s, a, b, kept)
  PROVE  /\ a \in 1..Len(s) /\ b \in 1..Len(s) /\ a <= b /\ a \in Ink(s) /\ b \in Ink(s)
         /\ Ink(s) \in SUBSET (a..b)
         /\ Len(kept) \in Nat /\ Len(Collapse(s)) = Len(kept) /\ DOMAIN Collapse(s) = 1..Len(kept)
         /\ \A k \in 1..Len(kept) :
              /\ kept[k] \in 1..(b - a + 1)
              /\ kept[k] + a - 1 \in Ink(s) \/ kept[k] + a - 2 \in Ink(s)
              /\ kept[k] + a - 1 \in Ink(s) => Collapse(s)[k] = s[kept[k] + a - 1]
              /\ kept[k] + a - 1 \notin Ink(s) => Collapse(s)[k] = Space
         /\ \A i \in a..b : (i \in Ink(s) \/ i - 1 \in Ink(s)) =>
              \E k \in 1..Len(kept) : kept[k] = i - a + 1
<1> DEFINE text == Strip(s)
           n == b - a + 1
           places == { i \in 1..n : i \in Ink(text) \/ i - 1 \in Ink(text) }
<1>0. Len(s) \in Nat
  OBVIOUS
<1>1. /\ Stripped(s, a, b) /\ a \in 1..Len(s) /\ b \in 1..Len(s) /\ Ascending(kept, n, places)
      /\ Collapse(s) = [k \in 1..Len(kept) |->
                          IF kept[k] \in Ink(text) THEN text[kept[k]] ELSE Space]
  BY Zenon DEF Collapsed
<1>2. /\ a \in Ink(s) /\ b \in Ink(s) /\ \A i \in Ink(s) : a <= i /\ i <= b
      /\ \A k \in 1..n : text[k] = s[k + a - 1]
      /\ \A k : k \in Ink(text) <=> k \in 1..n /\ k + a - 1 \in Ink(s)
  BY <1>1 DEF Stripped
<1>3. a <= b /\ n \in Nat /\ Ink(s) \in SUBSET (a..b)
  <2>1. Ink(s) \in SUBSET (1..Len(s))
    BY DEF Ink
  <2>2. QED BY <1>1, <1>2, <2>1
<1> HIDE DEF text, n, places
<1>4. Len(kept) \in Nat
  BY <1>1 DEF Ascending
<1>5. Len(Collapse(s)) = Len(kept) /\ DOMAIN Collapse(s) = 1..Len(kept)
  BY <1>1, <1>4
<1>6. ASSUME NEW k \in 1..Len(kept)
      PROVE  /\ kept[k] \in 1..(b - a + 1)
             /\ kept[k] + a - 1 \in Ink(s) \/ kept[k] + a - 2 \in Ink(s)
             /\ kept[k] + a - 1 \in Ink(s) => Collapse(s)[k] = s[kept[k] + a - 1]
             /\ kept[k] + a - 1 \notin Ink(s) => Collapse(s)[k] = Space
  <2>1. kept[k] \in 1..n /\ kept[k] \in places
    BY <1>1, <1>3, AscendingFacts
  <2>2. kept[k] \in Ink(text) \/ kept[k] - 1 \in Ink(text)
    BY <2>1 DEF places
  <2>3. kept[k] \in Ink(text) <=> kept[k] + a - 1 \in Ink(s)
    BY <1>2, <2>1
  <2>4. kept[k] - 1 \in Ink(text) => kept[k] + a - 2 \in Ink(s)
    <3>1. kept[k] - 1 \in Ink(text) => (kept[k] - 1) + a - 1 \in Ink(s)
      BY <1>2
    <3>2. (kept[k] - 1) + a - 1 = kept[k] + a - 2
      <4>1. kept[k] \in Int /\ a \in Int
        BY <1>0, <1>1, <1>3, <2>1
      <4>2. QED BY <4>1
    <3>3. QED BY <3>1, <3>2
  <2>5. Collapse(s)[k] = IF kept[k] \in Ink(text) THEN text[kept[k]] ELSE Space
    BY <1>1
  <2>6. text[kept[k]] = s[kept[k] + a - 1]
    BY <1>2, <2>1
  <2>7. kept[k] \in 1..(b - a + 1)
    BY <2>1 DEF n
  <2>8. QED BY <2>2, <2>3, <2>4, <2>5, <2>6, <2>7
<1>7. ASSUME NEW i \in a..b, i \in Ink(s) \/ i - 1 \in Ink(s)
      PROVE  \E k \in 1..Len(kept) : kept[k] = i - a + 1
  <2>1. i - a + 1 \in 1..n /\ (i - a + 1) + a - 1 = i
    BY <1>1, <1>3 DEF n
  <2>2. i \in Ink(s) => i - a + 1 \in Ink(text)
    BY <1>2, <2>1
  <2>3. i - 1 \in Ink(s) => (i - a + 1) - 1 \in Ink(text)
    <3>1. SUFFICES ASSUME i - 1 \in Ink(s) PROVE (i - a + 1) - 1 \in Ink(text)
      OBVIOUS
    <3>2. i - 1 \in a..b
      BY <1>3, <3>1
    <3>3. (i - a + 1) - 1 \in 1..n /\ ((i - a + 1) - 1) + a - 1 = i - 1
      BY <1>1, <1>3, <3>2 DEF n
    <3>4. QED BY <1>2, <3>1, <3>3
  <2>4. i - a + 1 \in places
    BY <1>7, <2>1, <2>2, <2>3 DEF places
  <2>5. QED BY <1>1, <2>1, <2>4 DEF Ascending
<1>8. QED BY <1>1, <1>2, <1>3, <1>4, <1>5, <1>6, <1>7

(* Single-spaced: the ends are letters, and a blank is a space that        *)
(* follows a letter.                                                       *)
Tidied(t) ==
  /\ t \in Seq(ToSet(t))
  /\ t # <<>> => 1 \in Ink(t) /\ Len(t) \in Ink(t)
  /\ \A k \in DOMAIN t : k \notin Ink(t) => t[k] = Space /\ k - 1 \in Ink(t)

(* What Collapse returns is single-spaced and has no blank ends.            *)
LEMMA CollapseTidies ==
  ASSUME NEW X, NEW s \in Seq(X)
  PROVE  Tidied(Collapse(s))
<1>1. CASE Ink(s) = {}
  <2>1. Collapse(s) = <<>>
    BY <1>1, CollapseFacts
  <2>2. QED BY <2>1 DEF Tidied
<1>2. CASE Ink(s) # {}
  <2>1. PICK a, b, kept : Collapsed(s, a, b, kept)
    BY <1>2, CollapseFacts
  <2> DEFINE t == Collapse(s)
             n == Len(kept)
  <2>2. /\ a \in 1..Len(s) /\ b \in 1..Len(s) /\ a <= b /\ a \in Ink(s) /\ b \in Ink(s)
        /\ Ink(s) \in SUBSET (a..b) /\ n \in Nat /\ Len(t) = n /\ DOMAIN t = 1..n
        /\ \A k \in 1..n :
              /\ kept[k] \in 1..(b - a + 1)
              /\ kept[k] + a - 1 \in Ink(s) \/ kept[k] + a - 2 \in Ink(s)
              /\ kept[k] + a - 1 \in Ink(s) => t[k] = s[kept[k] + a - 1]
              /\ kept[k] + a - 1 \notin Ink(s) => t[k] = Space
        /\ \A i \in a..b : (i \in Ink(s) \/ i - 1 \in Ink(s)) =>
              \E k \in 1..n : kept[k] = i - a + 1
    BY <2>1, CollapsedPlaces
  <2>3. \A k, m \in 1..n : k < m <=> kept[k] < kept[m]
    <3>1. b - a + 1 \in Nat
      BY <2>2
    <3>2. \E places : Ascending(kept, b - a + 1, places)
      BY <2>1 DEF Collapsed
    <3>3. QED BY <3>1, <3>2, AscendingFacts
  <2>35. t = [k \in 1..n |-> t[k]]
    <3>1. t = [k \in 1..n |-> IF kept[k] \in Ink(Strip(s)) THEN Strip(s)[kept[k]] ELSE Space]
      BY <2>1 DEF Collapsed
    <3>2. QED BY <3>1
  <2> HIDE DEF t, n
  <2>4. t \in Seq(ToSet(t))
    <3>1. \A k \in 1..n : t[k] \in ToSet(t)
      BY <2>2 DEF ToSet
    <3>2. [k \in 1..n |-> t[k]] \in Seq(ToSet(t))
      BY <2>2, <3>1
    <3>3. QED BY <2>35, <3>2
  <2>5. ASSUME NEW k \in 1..n PROVE k \in Ink(t) <=> kept[k] + a - 1 \in Ink(s)
    <3>1. CASE kept[k] + a - 1 \in Ink(s)
      <4>1. s[kept[k] + a - 1] \notin Blanks
        BY <3>1 DEF Ink
      <4>2. QED BY <2>2, <3>1, <4>1 DEF Ink
    <3>2. CASE kept[k] + a - 1 \notin Ink(s)
      <4>1. t[k] = Space
        BY <2>2, <3>2
      <4>2. QED BY <3>2, <4>1 DEF Ink, Blanks
    <3>3. QED BY <3>1, <3>2
  <2>6. 1 \in Ink(t)
    <3>1. PICK k \in 1..n : kept[k] = a - a + 1
      BY <2>2
    <3>2. kept[k] = 1
      BY <2>2, <3>1
    <3>3. k = 1
      <4>1. SUFFICES ASSUME k # 1 PROVE FALSE
        OBVIOUS
      <4>2. 1 \in 1..n /\ 1 < k
        BY <2>2, <4>1
      <4>3. kept[1] < kept[k] /\ kept[1] \in 1..(b - a + 1)
        BY <2>2, <2>3, <4>2
      <4>4. QED BY <2>2, <3>2, <4>3
    <3>4. 1 \in 1..n /\ kept[1] + a - 1 = a
      BY <2>2, <3>2, <3>3
    <3>5. QED BY <2>2, <2>5, <3>4
  <2>7. n \in Ink(t)
    <3>1. PICK k \in 1..n : kept[k] = b - a + 1
      BY <2>2
    <3>2. k = n
      <4>1. SUFFICES ASSUME k # n PROVE FALSE
        OBVIOUS
      <4>2. n \in 1..n /\ k < n
        BY <2>2, <4>1
      <4>3. kept[k] < kept[n] /\ kept[n] \in 1..(b - a + 1)
        BY <2>2, <2>3, <4>2
      <4>4. QED BY <2>2, <3>1, <4>3
    <3>3. n \in 1..n /\ kept[n] + a - 1 = b
      BY <2>2, <3>1, <3>2
    <3>4. QED BY <2>2, <2>5, <3>3
  <2>8. ASSUME NEW k \in 1..n, k \notin Ink(t) PROVE t[k] = Space /\ k - 1 \in Ink(t)
    <3>1. kept[k] + a - 1 \notin Ink(s) /\ kept[k] + a - 2 \in Ink(s)
      BY <2>2, <2>5, <2>8
    <3>2. kept[k] + a - 2 \in a..b
      BY <2>2, <3>1
    <3>3. PICK m \in 1..n : kept[m] = (kept[k] + a - 2) - a + 1
      BY <2>2, <3>1, <3>2
    <3>4. kept[k] \in 1..(b - a + 1)
      BY <2>2
    <3>5. kept[m] = kept[k] - 1
      <4>1. kept[k] \in Int /\ a \in Int
        BY <2>2, <3>4
      <4>2. QED BY <3>3, <4>1
    <3>6. m < k
      BY <2>3, <3>4, <3>5
    <3>7. m = k - 1
      <4>1. SUFFICES ASSUME m # k - 1 PROVE FALSE
        OBVIOUS
      <4>2. k - 1 \in 1..n /\ m < k - 1 /\ k - 1 < k
        BY <2>2, <3>6, <4>1
      <4>3. kept[m] < kept[k - 1] /\ kept[k - 1] < kept[k] /\ kept[k - 1] \in 1..(b - a + 1)
        BY <2>2, <2>3, <4>2
      <4>4. QED BY <3>4, <3>5, <4>3
    <3>8. kept[m] + a - 1 = kept[k] + a - 2
      <4>1. Len(s) \in Nat
        OBVIOUS
      <4>2. a \in Int /\ kept[k] \in Int
        BY <2>2, <3>4, <4>1
      <4>3. QED BY <3>5, <4>2
    <3>9. m \in Ink(t)
      BY <2>5, <3>1, <3>8
    <3>10. QED BY <2>2, <3>1, <3>7, <3>9
  <2>9. Tidied(t)
    BY <2>2, <2>4, <2>6, <2>7, <2>8 DEF Tidied
  <2>10. QED BY <2>9 DEF t
<1>3. QED BY <1>1, <1>2

(* Once is enough. *)
LEMMA TidyStays ==
  ASSUME NEW t, Tidied(t)
  PROVE  Collapse(t) = t
<1>1. CASE t = <<>>
  <2>1. Ink(t) = {} /\ t \in Seq({})
    BY <1>1 DEF Ink
  <2>2. QED BY <1>1, <2>1, CollapseFacts
<1>2. CASE t # <<>>
  <2> DEFINE n == Len(t)
             id == InOrder(t, { i \in DOMAIN t : i \in Ink(t) \/ i - 1 \in Ink(t) })
  <2>1. t \in Seq(ToSet(t)) /\ n \in Nat /\ DOMAIN t = 1..n /\ 1 \in Ink(t) /\ n \in Ink(t)
    BY <1>2 DEF Tidied
  <2>2. Ink(t) \in SUBSET (1..n)
    BY <2>1 DEF Ink
  <2>3. Min(Ink(t)) = 1 /\ Max(Ink(t)) = n
    <3>1. /\ Min(Ink(t)) \in Ink(t) /\ \A i \in Ink(t) : Min(Ink(t)) <= i
          /\ Max(Ink(t)) \in Ink(t) /\ \A i \in Ink(t) : i <= Max(Ink(t))
      BY <2>1, <2>2, Extremes
    <3>2. QED BY <2>1, <2>2, <3>1
  <2>4. Strip(t) = t
    <3>1. Strip(t) = SubSeq(t, 1, n)
      BY <2>1, <2>3 DEF Strip
    <3>2. QED BY <2>1, <3>1, SubSeqFull
  <2>5. { i \in DOMAIN t : i \in Ink(t) \/ i - 1 \in Ink(t) } = 1..n
    BY <2>1 DEF Tidied
  <2>6. Ascending(id, n, 1..n)
    <3>1. Ascending(InOrder(t, 1..n), n, 1..n)
      BY <2>1, OrderFacts
    <3>2. QED BY <2>5, <3>1, Zenon
  <2> HIDE DEF id
  <2>7. Len(id) = n /\ \A k \in 1..n : id[k] = k
    BY <2>1, <2>6, AllPlaces
  <2>8. DOMAIN id = 1..n
    BY <2>6, <2>7 DEF Ascending
  <2>9. Collapse(t) = [k \in DOMAIN id |-> IF id[k] \in Ink(t) THEN t[id[k]] ELSE Space]
    BY <2>4 DEF Collapse, id
  <2>10. Collapse(t) = [k \in 1..n |-> t[k]]
    BY <2>1, <2>7, <2>8, <2>9 DEF Tidied
  <2>11. QED BY <2>1, <2>10
<1>3. QED BY <1>1, <1>2

(* The words stay, parted by single blanks.                                *)
LEMMA CollapseIsTidy ==
  ASSUME NEW X, NEW s \in Seq(X)
  PROVE  IsTidy(s, Collapse(s))
<1>1. CASE Ink(s) = {}
  <2>1. Collapse(s) = <<>>
    BY <1>1, CollapseFacts
  <2> DEFINE at == [i \in Ink(s) |-> 0]
  <2>2. at \in [Ink(s) -> DOMAIN Collapse(s)]
    BY <1>1
  <2>3. DOMAIN Collapse(s) = {}
    BY <2>1
  <2>4. QED BY <1>1, <2>1, <2>2, <2>3 DEF IsTidy
<1>2. CASE Ink(s) # {}
  <2>1. PICK a, b, kept : Collapsed(s, a, b, kept)
    BY <1>2, CollapseFacts
  <2> DEFINE t == Collapse(s)
             n == Len(kept)
  <2>2. /\ a \in 1..Len(s) /\ b \in 1..Len(s) /\ a <= b /\ a \in Ink(s) /\ b \in Ink(s)
        /\ Ink(s) \in SUBSET (a..b) /\ n \in Nat /\ Len(t) = n /\ DOMAIN t = 1..n
        /\ \A k \in 1..n :
              /\ kept[k] \in 1..(b - a + 1)
              /\ kept[k] + a - 1 \in Ink(s) \/ kept[k] + a - 2 \in Ink(s)
              /\ kept[k] + a - 1 \in Ink(s) => t[k] = s[kept[k] + a - 1]
              /\ kept[k] + a - 1 \notin Ink(s) => t[k] = Space
        /\ \A i \in a..b : (i \in Ink(s) \/ i - 1 \in Ink(s)) =>
              \E k \in 1..n : kept[k] = i - a + 1
    BY <2>1, CollapsedPlaces
  <2>3. a \in Nat /\ b \in Nat /\ b - a + 1 \in Nat
    <3>1. Len(s) \in Nat
      OBVIOUS
    <3>2. QED BY <2>2, <3>1
  <2>4. PICK places : Ascending(kept, b - a + 1, places)
    BY <2>1 DEF Collapsed
  <2>5. \A k, m \in 1..n : k < m <=> kept[k] < kept[m]
    BY <2>3, <2>4, AscendingFacts
  <2>6. \A k, m \in 1..n : kept[k] = kept[m] => k = m
    BY <2>3, <2>4, AscendingFacts
  <2>7. \A k, m \in 1..n : (k < m /\ \A o \in 1..n : ~(kept[k] < kept[o] /\ kept[o] < kept[m])) => m = k + 1
    <3>1. SUFFICES ASSUME NEW k \in 1..n, NEW m \in 1..n, k < m, m # k + 1
                   PROVE  \E o \in 1..n : kept[k] < kept[o] /\ kept[o] < kept[m]
      OBVIOUS
    <3>2. k + 1 \in 1..n /\ k < k + 1 /\ k + 1 < m
      BY <2>2, <3>1
    <3>3. kept[k] < kept[k + 1] /\ kept[k + 1] < kept[m]
      BY <2>5, <3>1, <3>2
    <3>4. QED BY <3>2, <3>3
  <2> HIDE DEF t, n
  <2>70. \A k \in 1..n : kept[k] \in Int
    BY <2>2, <2>3
  <2> DEFINE at == [i \in Ink(s) |-> CHOOSE k \in 1..n : kept[k] = i - a + 1]
  <2>8. ASSUME NEW i \in Ink(s)
        PROVE  /\ at[i] \in 1..n /\ kept[at[i]] = i - a + 1 /\ i \in a..b
               /\ t[at[i]] = s[i]
    <3>1. i \in a..b
      BY <2>2
    <3>2. \E k \in 1..n : kept[k] = i - a + 1
      BY <2>2, <3>1
    <3>3. at[i] \in 1..n /\ kept[at[i]] = i - a + 1
      BY <3>2
    <3>4. kept[at[i]] + a - 1 = i
      BY <2>3, <3>1, <3>3
    <3> HIDE DEF at
    <3>5. t[at[i]] = s[i]
      BY <2>2, <3>3, <3>4
    <3>6. QED BY <3>1, <3>3, <3>5
  <2>9. at \in [Ink(s) -> DOMAIN t]
    BY <2>2, <2>8
  <2> HIDE DEF at
  <2>10. ASSUME NEW i \in Ink(s), \A j \in Ink(s) : i <= j PROVE at[i] = 1
    <3>1. i = a
      BY <2>2, <2>3, <2>8, <2>10
    <3>2. kept[at[i]] = 1
      BY <2>3, <2>8, <3>1
    <3>3. SUFFICES ASSUME at[i] # 1 PROVE FALSE
      OBVIOUS
    <3>4. 1 \in 1..n /\ 1 < at[i]
      <4>1. at[i] \in 1..n
        BY <2>8
      <4>2. \A x \in 1..n : x # 1 => 1 \in 1..n /\ 1 < x
        BY <2>2
      <4>3. QED BY <3>3, <4>1, <4>2, Zenon
    <3>5. kept[1] < kept[at[i]] /\ kept[1] \in 1..(b - a + 1)
      BY <2>2, <2>5, <2>8, <3>4
    <3>6. QED BY <2>3, <3>2, <3>5
  <2>11. ASSUME NEW i \in Ink(s), \A j \in Ink(s) : j <= i PROVE at[i] = Len(t)
    <3>1. i = b
      BY <2>2, <2>3, <2>8, <2>11
    <3>2. kept[at[i]] = b - a + 1
      BY <2>3, <2>8, <3>1
    <3>3. SUFFICES ASSUME at[i] # n PROVE FALSE
      BY <2>2
    <3>4. n \in 1..n /\ at[i] < n
      BY <2>2, <2>8, <3>3
    <3>5. kept[at[i]] < kept[n] /\ kept[n] \in 1..(b - a + 1)
      BY <2>2, <2>5, <2>8, <3>4
    <3>6. QED BY <2>3, <3>2, <3>5
  <2>12. ASSUME NEW i \in Ink(s), NEW j \in Ink(s), i < j, ~\E k \in Ink(s) : i < k /\ k < j
         PROVE  at[j] = at[i] + (IF j = i + 1 THEN 1 ELSE 2)
    <3>1. /\ i \in a..b /\ j \in a..b /\ i \in Int /\ j \in Int
          /\ at[i] \in 1..n /\ at[j] \in 1..n /\ kept[at[i]] = i - a + 1 /\ kept[at[j]] = j - a + 1
      BY <2>3, <2>8
    <3>2. at[i] < at[j]
      BY <2>3, <2>5, <2>12, <3>1
    <3>3. CASE j = i + 1
      <4>1. \A o \in 1..n : ~(kept[at[i]] < kept[o] /\ kept[o] < kept[at[j]])
        BY <2>3, <2>70, <3>1, <3>3
      <4>2. at[j] = at[i] + 1
        BY <2>7, <3>1, <3>2, <4>1
      <4>3. QED BY <3>3, <4>2
    <3>4. CASE j # i + 1
      <4>1. i + 1 \in a..b /\ (i + 1) - 1 = i /\ i + 1 < j
        BY <2>3, <2>12, <3>1, <3>4
      <4>2. PICK m \in 1..n : kept[m] = (i + 1) - a + 1
        BY <2>2, <4>1
      <4>3. kept[at[i]] < kept[m] /\ kept[m] < kept[at[j]]
        BY <2>3, <3>1, <4>1, <4>2
      <4>4. at[i] < m /\ m < at[j]
        BY <2>5, <3>1, <4>3
      <4>5. \A o \in 1..n : ~(kept[at[i]] < kept[o] /\ kept[o] < kept[m])
        BY <2>3, <2>70, <3>1, <4>2
      <4>6. m = at[i] + 1
        BY <2>7, <3>1, <4>4, <4>5
      <4>7. ASSUME NEW o \in 1..n, kept[m] < kept[o], kept[o] < kept[at[j]] PROVE FALSE
        <5> DEFINE v == kept[o] + a - 1
        <5>1. kept[o] \in Int /\ i + 1 < v /\ v < j /\ kept[o] + a - 2 = v - 1
          <6>1. kept[o] \in Int /\ (i + 1) - a + 1 < kept[o] /\ kept[o] < j - a + 1
            BY <2>70, <3>1, <4>2, <4>7
          <6>2. a \in Int /\ i \in Int /\ j \in Int
            BY <2>3, <3>1
          <6>3. QED BY <6>1, <6>2
        <5>2. v \in Ink(s) \/ v - 1 \in Ink(s)
          BY <2>2, <5>1
        <5>3. i < v /\ i < v - 1 /\ v - 1 < j
          <6>1. v \in Int /\ i \in Int /\ j \in Int
            BY <2>3, <3>1, <5>1
          <6> HIDE DEF v
          <6>2. QED BY <5>1, <6>1
        <5> HIDE DEF v
        <5>4. QED BY <2>12, <5>1, <5>2, <5>3
      <4>8. at[j] = m + 1
        BY <2>7, <3>1, <4>4, <4>7
      <4>9. at[i] \in Int
        BY <3>1
      <4>10. QED BY <3>4, <4>6, <4>8, <4>9
    <3>5. QED BY <3>3, <3>4
  <2>13. ASSUME NEW k \in 1..n PROVE t[k] = Space \/ \E i \in Ink(s) : at[i] = k
    <3>1. CASE kept[k] + a - 1 \in Ink(s)
      <4> DEFINE i == kept[k] + a - 1
      <4>1. i - a + 1 = kept[k]
        <5>1. kept[k] \in Int
          BY <2>2, <2>3
        <5>2. QED BY <2>3, <5>1
      <4>2. kept[at[i]] = kept[k] /\ at[i] \in 1..n
        <5>1. i \in Ink(s)
          BY <3>1
        <5> HIDE DEF i
        <5>2. QED BY <2>8, <4>1, <5>1
      <4>3. at[i] = k
        <5> HIDE DEF i
        <5>1. QED BY <2>6, <4>2
      <4>4. QED BY <3>1, <4>3
    <3>2. CASE kept[k] + a - 1 \notin Ink(s)
      BY <2>2, <3>2
    <3>3. QED BY <3>1, <3>2
  <2>14. \A k \in DOMAIN t : t[k] = Space \/ \E i \in Ink(s) : at[i] = k
    BY <2>2, <2>13
  <2>15. \A i \in Ink(s) : /\ t[at[i]] = s[i]
                           /\ (\A j \in Ink(s) : i <= j) => at[i] = 1
                           /\ (\A j \in Ink(s) : j <= i) => at[i] = Len(t)
    BY <2>8, <2>10, <2>11
  <2>16. \A i, j \in Ink(s) : (i < j /\ ~\E k \in Ink(s) : i < k /\ k < j) =>
           at[j] = at[i] + (IF j = i + 1 THEN 1 ELSE 2)
    BY <2>12
  <2>17. IsTidy(s, t)
    BY <1>2, <2>9, <2>14, <2>15, <2>16, Zenon DEF IsTidy
  <2>18. QED BY <2>17 DEF t
<1>3. QED BY <1>1, <1>2

-----------------------------------------------------------------------------
(* A scalar normalised twice is the scalar normalised once; a string is    *)
(* then single-spaced, and anything else is what it was.                   *)
LEMMA NormalScalarTwice ==
  ASSUME NEW value, IsText(value)
  PROVE  /\ NormalScalar(NormalScalar(value)) = NormalScalar(value)
         /\ NormalScalar(value)[1] = value[1]
         /\ TidiedScalar(value, NormalScalar(value))
<1>1. CASE value[1] = "string"
  <2>1. NormalScalar(value) = <<"string", Collapse(value[2])>>
    BY <1>1 DEF NormalScalar
  <2>2. Collapse(Collapse(value[2])) = Collapse(value[2]) /\ IsTidy(value[2], Collapse(value[2]))
    BY <1>1, CollapseTidies, TidyStays, CollapseIsTidy DEF IsText, IsList
  <2>3. NormalScalar(NormalScalar(value)) = <<"string", Collapse(Collapse(value[2]))>>
    BY <2>1 DEF NormalScalar
  <2>4. NormalScalar(value)[1] = "string" /\ NormalScalar(value)[2] = Collapse(value[2])
    BY <2>1
  <2>5. QED BY <1>1, <2>1, <2>2, <2>3, <2>4 DEF TidiedScalar
<1>2. CASE value[1] # "string"
  BY <1>2 DEF NormalScalar, TidiedScalar
<1>3. QED BY <1>1, <1>2

(* The same of any value, with the strings inside of a list or a dict.     *)
LEMMA NormalValueTwice ==
  ASSUME NEW value, IsText(value),
         value[1] \in Containers => \A path \in DOMAIN value[2] : IsText(value[2][path])
  PROVE  /\ NormalValue(NormalValue(value)) = NormalValue(value)
         /\ TidiedValue(value, NormalValue(value))
<1>1. CASE value[1] \in Containers
  <2> DEFINE given == value[2]
             made   == [path \in DOMAIN given |-> NormalScalar(given[path])]
  <2>1. NormalValue(value) = <<value[1], made>>
    BY <1>1 DEF NormalValue
  <2>2. ASSUME NEW path \in DOMAIN given
        PROVE  NormalScalar(made[path]) = made[path] /\ TidiedScalar(given[path], made[path])
    BY <1>1, NormalScalarTwice
  <2>3. [path \in DOMAIN made |-> NormalScalar(made[path])] = made
    BY <2>2
  <2>4. DOMAIN made = DOMAIN given
    OBVIOUS
  <2> HIDE DEF made
  <2>5. NormalValue(value)[1] = value[1] /\ NormalValue(value)[2] = made
    BY <2>1
  <2>6. NormalValue(NormalValue(value)) = <<value[1], made>>
    BY <1>1, <2>3, <2>5 DEF NormalValue
  <2>7. TidiedValue(value, NormalValue(value))
    BY <1>1, <2>2, <2>4, <2>5 DEF TidiedValue
  <2>8. QED BY <2>1, <2>6, <2>7
<1>2. CASE value[1] \notin Containers
  <2>1. NormalValue(value) = NormalScalar(value)
    BY <1>2 DEF NormalValue
  <2>2. NormalScalar(value)[1] \notin Containers
    BY <1>2, NormalScalarTwice
  <2>3. NormalValue(NormalScalar(value)) = NormalScalar(NormalScalar(value))
    BY <2>2 DEF NormalValue
  <2>4. QED BY <1>2, <2>1, <2>3, NormalScalarTwice DEF TidiedValue
<1>3. QED BY <1>1, <1>2

(* The content of a node, normalised: only the nonsemantic keys go, doing it*)
(* again changes nothing, and what changes is the value of a key that is    *)
(* collapsed.                                                               *)
LEMMA NormalContentFacts ==
  ASSUME NEW content, NEW profile, Strings(content)
  PROVE  LET after == NormalContent(content, profile)
         IN  /\ DOMAIN after = DOMAIN content \ profile.nonsemantic
             /\ NormalContent(after, profile) = after
             /\ Dropped(after, profile) = {} /\ Changed(after, profile) = {}
             /\ \A key \in DOMAIN after :
                  /\ Collapses(profile, key) => TidiedValue(content[key], after[key])
                  /\ after[key] # content[key] => Collapses(profile, key)
<1> DEFINE after == NormalContent(content, profile)
           semantic == DOMAIN content \ profile.nonsemantic
<1>1. after = [key \in semantic |->
                 IF Collapses(profile, key) THEN NormalValue(content[key]) ELSE content[key]]
  BY DEF NormalContent
<1>2. DOMAIN after = semantic /\ DOMAIN after \ profile.nonsemantic = semantic
  BY <1>1
<1>3. ASSUME NEW key \in semantic
      PROVE  /\ after[key] = IF Collapses(profile, key) THEN NormalValue(content[key]) ELSE content[key]
             /\ NormalValue(NormalValue(content[key])) = NormalValue(content[key])
             /\ TidiedValue(content[key], NormalValue(content[key]))
  <2>1. /\ IsText(content[key])
        /\ content[key][1] \in Containers =>
             \A path \in DOMAIN content[key][2] : IsText(content[key][2][path])
    BY DEF Strings
  <2>2. QED BY <1>1, <2>1, NormalValueTwice
<1> HIDE DEF after
<1>4. NormalContent(after, profile) =
        [key \in semantic |-> IF Collapses(profile, key) THEN NormalValue(after[key]) ELSE after[key]]
  BY <1>2, Zenon DEF NormalContent
<1>5. NormalContent(after, profile) = after
  <2>1. \A key \in semantic : (IF Collapses(profile, key) THEN NormalValue(after[key]) ELSE after[key]) = after[key]
    BY <1>3
  <2>2. after = [key \in semantic |-> after[key]]
    BY <1>1
  <2> HIDE DEF semantic
  <2>3. QED BY <1>4, <2>1, <2>2
<1>6. Dropped(after, profile) = {}
  BY <1>2 DEF Dropped
<1>7. Changed(after, profile) = {}
  BY <1>5 DEF Changed
<1>8. ASSUME NEW key \in semantic
      PROVE  /\ Collapses(profile, key) => TidiedValue(content[key], after[key])
             /\ after[key] # content[key] => Collapses(profile, key)
  BY <1>3
<1>9. QED BY <1>2, <1>5, <1>6, <1>7, <1>8 DEF after

(* The rules that the trace gives for one key of one node.                 *)
RulesOf(trc, ref, key) == { entry[3] : entry \in { e \in trc : e[1] = ref /\ e[2] = key } }

(* They are those of what is dropped from the node and of what is changed in*)
(* it.                                                                      *)
LEMMA RuleFacts ==
  ASSUME NEW t, NEW profile, NEW ref \in Refs(t), NEW key
  PROVE  RulesOf(Trace(t, profile), ref, key) =
           { rule \in {"exclude-nonsemantic", "collapse-whitespace"} :
               \/ rule = "exclude-nonsemantic" /\ key \in Dropped(t.node[ref].content, profile)
               \/ rule = "collapse-whitespace" /\ key \in Changed(t.node[ref].content, profile) }
<1> DEFINE content(r) == t.node[r].content
           Holds(r, k, rule) ==
             \/ rule = "exclude-nonsemantic" /\ k \in Dropped(content(r), profile)
             \/ rule = "collapse-whitespace" /\ k \in Changed(content(r), profile)
<1>1. ASSUME NEW e
      PROVE  e \in Trace(t, profile) <=>
               \E r \in Refs(t) :
                 \/ \E k \in Dropped(content(r), profile) : e = <<r, k, "exclude-nonsemantic">>
                 \/ \E k \in Changed(content(r), profile) : e = <<r, k, "collapse-whitespace">>
  BY DEF Trace
<1>2. ASSUME NEW rule PROVE rule \in RulesOf(Trace(t, profile), ref, key) <=> Holds(ref, key, rule)
  <2>1. rule \in RulesOf(Trace(t, profile), ref, key) <=>
          \E e \in Trace(t, profile) : e[1] = ref /\ e[2] = key /\ e[3] = rule
    BY DEF RulesOf
  <2>2. ASSUME NEW e \in Trace(t, profile), e[1] = ref, e[2] = key, e[3] = rule
        PROVE  Holds(ref, key, rule)
    BY <1>1, <2>2
  <2>3. ASSUME Holds(ref, key, rule) PROVE <<ref, key, rule>> \in Trace(t, profile)
    BY <1>1, <2>3
  <2> HIDE DEF Holds
  <2>4. <<ref, key, rule>>[1] = ref /\ <<ref, key, rule>>[2] = key /\ <<ref, key, rule>>[3] = rule
    OBVIOUS
  <2>5. QED BY <2>1, <2>2, <2>3, <2>4
<1>3. QED BY <1>2

(* Normalisation is done once, and its trace is of it.                     *)
Attributed(t, profile) ==
  LET after == Normalised(t, profile)
  IN  /\ Normalised(after, profile) = after /\ Trace(after, profile) = {}
      /\ \A ref \in Refs(t) :
           /\ [after.node[ref] EXCEPT !.content = t.node[ref].content] = t.node[ref]
           /\ after.node[ref].content = NormalContent(t.node[ref].content, profile)

(* It is so for every tree with contents and every profile.                 *)
LEMMA NormalisedFacts ==
  ASSUME NEW t, NEW profile, HasContents(t)
  PROVE  Attributed(t, profile)
<1> DEFINE Content(r) == t.node[r].content
           nodes == [ref \in Refs(t) |-> [t.node[ref] EXCEPT !.content = NormalContent(Content(ref), profile)]]
           after == Normalised(t, profile)
<1>1. ASSUME NEW ref \in Refs(t)
      PROVE  /\ "content" \in DOMAIN t.node[ref] /\ t.node[ref] = [field \in DOMAIN t.node[ref] |-> t.node[ref][field]]
             /\ Strings(Content(ref))
  BY DEF HasContents
<1>2. after = [t EXCEPT !.node = nodes]
  BY DEF Normalised
<1>3. after.node = nodes
  BY <1>2 DEF HasContents
<1>4. Refs(after) = Refs(t)
  BY <1>3 DEF Refs
<1>5. ASSUME NEW ref \in Refs(t)
      PROVE  /\ after.node[ref].content = NormalContent(Content(ref), profile)
             /\ [after.node[ref] EXCEPT !.content = Content(ref)] = t.node[ref]
             /\ [after.node[ref] EXCEPT !.content = after.node[ref].content] = after.node[ref]
             /\ NormalContent(after.node[ref].content, profile) = after.node[ref].content
             /\ Dropped(after.node[ref].content, profile) = {}
             /\ Changed(after.node[ref].content, profile) = {}
  <2> DEFINE n == t.node[ref]
             c == NormalContent(Content(ref), profile)
  <2>1. after.node[ref] = [n EXCEPT !.content = c]
    BY <1>3
  <2>2. "content" \in DOMAIN n /\ n = [field \in DOMAIN n |-> n[field]]
    BY <1>1
  <2>3. NormalContent(c, profile) = c /\ Dropped(c, profile) = {} /\ Changed(c, profile) = {}
    BY <1>1, NormalContentFacts
  <2> DEFINE m == after.node[ref]
             d == n.content
  <2>4. d = n.content /\ Content(ref) = d
    OBVIOUS
  <2> HIDE DEF n, c, d, m
  <2>5. DOMAIN m = DOMAIN n /\ m.content = c /\ \A field \in DOMAIN n : field # "content" => m[field] = n[field]
    BY <2>1, <2>2 DEF m
  <2>6. m = [field \in DOMAIN n |-> m[field]]
    BY <2>1 DEF m
  <2>7. [m EXCEPT !.content = d] = n
    <3>1. [m EXCEPT !.content = d] = [field \in DOMAIN n |-> IF field = "content" THEN d ELSE m[field]]
      BY <2>5
    <3>2. \A field \in DOMAIN n : (IF field = "content" THEN d ELSE m[field]) = n[field]
      BY <2>4, <2>5
    <3>3. QED BY <2>2, <3>1, <3>2
  <2>8. [m EXCEPT !.content = c] = m
    BY <2>5, <2>6
  <2>9. QED BY <2>3, <2>4, <2>5, <2>7, <2>8 DEF m, n, c
<1> HIDE DEF nodes, after
<1>6. Normalised(after, profile) = after
  <2>1. Normalised(after, profile) =
          [after EXCEPT !.node = [ref \in Refs(t) |->
             [after.node[ref] EXCEPT !.content = NormalContent(after.node[ref].content, profile)]]]
    BY <1>4, Zenon DEF Normalised
  <2>2. \A ref \in Refs(t) :
          [after.node[ref] EXCEPT !.content = NormalContent(after.node[ref].content, profile)] = after.node[ref]
    BY <1>5
  <2>3. after.node = [ref \in Refs(t) |-> after.node[ref]]
    BY <1>3 DEF nodes
  <2>4. [ref \in Refs(t) |->
             [after.node[ref] EXCEPT !.content = NormalContent(after.node[ref].content, profile)]] = after.node
    BY <2>2, <2>3, Zenon
  <2>5. Normalised(after, profile) = [after EXCEPT !.node = after.node]
    BY <2>1, <2>4, Zenon
  <2>6. [after EXCEPT !.node = after.node] = after
    <3>1. after = [field \in DOMAIN t |-> after[field]]
      BY <1>2
    <3>2. QED BY <3>1
  <2>7. QED BY <2>5, <2>6
<1>7. Trace(after, profile) = {}
  BY <1>4, <1>5 DEF Trace
<1>8. QED BY <1>5, <1>6, <1>7 DEF Attributed, after

(* The same for one node, said as the property says it.                    *)
LEMMA NodeAttributed ==
  ASSUME NEW t, NEW profile, HasContents(t), NEW ref \in Refs(t)
  PROVE  LET before == t.node[ref].content
             after  == NormalContent(before, profile)
             rules(key) == RulesOf(Trace(t, profile), ref, key)
         IN  \A key \in DOMAIN before :
                  CASE key \notin DOMAIN after ->
                         key \in profile.nonsemantic /\ rules(key) = {"exclude-nonsemantic"}
                    [] key \in DOMAIN after /\ after[key] # before[key] ->
                         /\ key \notin profile.preserve
                         /\ rules(key) = {"collapse-whitespace"}
                         /\ TidiedValue(before[key], after[key])
                    [] OTHER ->
                         /\ rules(key) = {} /\ key \notin profile.nonsemantic
                         /\ Collapses(profile, key) => TidiedValue(before[key], before[key])
<1> DEFINE before == t.node[ref].content
           after  == NormalContent(before, profile)
           rules(key) == RulesOf(Trace(t, profile), ref, key)
<1>1. Strings(before)
  BY DEF HasContents
<1>2. /\ DOMAIN after = DOMAIN before \ profile.nonsemantic
      /\ \A key \in DOMAIN after :
           /\ Collapses(profile, key) => TidiedValue(before[key], after[key])
           /\ after[key] # before[key] => Collapses(profile, key)
  BY <1>1, NormalContentFacts
<1>3. \A key : key \in Dropped(before, profile) <=> key \in DOMAIN before /\ key \in profile.nonsemantic
  BY DEF Dropped
<1>4. \A key : key \in Changed(before, profile) <=>
        key \in DOMAIN before \ profile.nonsemantic /\ after[key] # before[key]
  BY DEF Changed
<1>5. ASSUME NEW key \in DOMAIN before
      PROVE  rules(key) = { rule \in {"exclude-nonsemantic", "collapse-whitespace"} :
               \/ rule = "exclude-nonsemantic" /\ key \in Dropped(before, profile)
               \/ rule = "collapse-whitespace" /\ key \in Changed(before, profile) }
  BY RuleFacts
<1> HIDE DEF before, after, rules
<1>6. ASSUME NEW key \in DOMAIN before
      PROVE  CASE key \notin DOMAIN after ->
                         key \in profile.nonsemantic /\ rules(key) = {"exclude-nonsemantic"}
                    [] key \in DOMAIN after /\ after[key] # before[key] ->
                         /\ key \notin profile.preserve
                         /\ rules(key) = {"collapse-whitespace"}
                         /\ TidiedValue(before[key], after[key])
                    [] OTHER ->
                         /\ rules(key) = {} /\ key \notin profile.nonsemantic
                         /\ Collapses(profile, key) => TidiedValue(before[key], before[key])
  <2>1. CASE key \notin DOMAIN after
    <3>1. key \in profile.nonsemantic /\ key \in Dropped(before, profile) /\ key \notin Changed(before, profile)
      BY <1>2, <1>3, <1>4, <2>1
    <3>2. rules(key) = {"exclude-nonsemantic"}
      BY <1>5, <3>1
    <3>3. QED BY <2>1, <3>1, <3>2
  <2>2. CASE key \in DOMAIN after /\ after[key] # before[key]
    <3>1. key \notin Dropped(before, profile) /\ key \in Changed(before, profile)
      BY <1>2, <1>3, <1>4, <2>2
    <3>2. rules(key) = {"collapse-whitespace"}
      BY <1>5, <3>1
    <3>3. key \notin profile.preserve /\ TidiedValue(before[key], after[key])
      BY <1>2, <2>2 DEF Collapses
    <3>4. QED BY <2>2, <3>2, <3>3
  <2>3. CASE key \in DOMAIN after /\ after[key] = before[key]
    <3>1. key \notin Dropped(before, profile) /\ key \notin Changed(before, profile)
      BY <1>2, <1>3, <1>4, <2>3
    <3>2. rules(key) = {}
      BY <1>5, <3>1
    <3>3. key \notin profile.nonsemantic
      BY <1>2, <2>3
    <3>4. Collapses(profile, key) => TidiedValue(before[key], before[key])
      BY <1>2, <2>3
    <3>5. QED BY <2>3, <3>2, <3>3, <3>4
  <2>4. QED BY <2>1, <2>2, <2>3
<1>7. QED BY <1>6 DEF before, after, rules

(* A map that is built from pairs holds what they give.                    *)
LEMMA MapFacts ==
  ASSUME NEW pairs
  PROVE  /\ DOMAIN MapOf(pairs) = { pair[1] : pair \in pairs }
         /\ \A x \in DOMAIN MapOf(pairs) :
              \E pair \in pairs : pair[1] = x /\ MapOf(pairs)[x] = pair[2]
<1>1. DOMAIN MapOf(pairs) = { pair[1] : pair \in pairs }
  BY DEF MapOf
<1>2. ASSUME NEW x \in { pair[1] : pair \in pairs }
      PROVE  \E pair \in pairs : pair[1] = x /\ MapOf(pairs)[x] = pair[2]
  <2> DEFINE chosen == CHOOSE pair \in pairs : pair[1] = x
  <2>1. \E pair \in pairs : pair[1] = x
    BY <1>2
  <2>2. chosen \in pairs /\ chosen[1] = x
    BY <2>1
  <2>3. MapOf(pairs)[x] = chosen[2]
    BY <1>2 DEF MapOf
  <2> HIDE DEF chosen
  <2>4. QED BY <2>2, <2>3
<1>3. QED BY <1>1, <1>2

(* Sequences are lists in the sense of Trees.                               *)
LEMMA SeqIsList ==
  ASSUME NEW X, NEW s \in Seq(X)
  PROVE  IsList(s)
<1>1. s = [i \in 1..Len(s) |-> s[i]] /\ \A i \in 1..Len(s) : s[i] \in ToSet(s)
  BY DEF ToSet
<1> DEFINE Y == ToSet(s)
<1>2. Len(s) \in Nat /\ \A i \in 1..Len(s) : s[i] \in Y
  BY <1>1
<1> HIDE DEF Y
<1>3. s \in Seq(Y)
  BY <1>1, <1>2
<1>4. QED BY <1>3 DEF IsList, Y

(* A stripped list is a list.                                               *)
LEMMA StripIsList ==
  ASSUME NEW s, IsList(s)
  PROVE  IsList(Strip(s))
<1>1. CASE Ink(s) = {}
  BY <1>1 DEF Strip, IsList
<1>2. CASE Ink(s) # {}
  <2>1. s \in Seq(ToSet(s))
    BY DEF IsList
  <2>2. Strip(s) \in Seq(ToSet(s))
    BY <1>2, <2>1, StripFacts, Zenon
  <2>3. QED BY <2>2, SeqIsList
<1>3. QED BY <1>1, <1>2

(* The earliest title. *)
LEMMA FirstTitle ==
  ASSUME NEW titles, titles # {}, NEW n \in Nat, n > 1,
         \A q \in titles : q \in Seq(Nat) /\ Len(q) = n
  PROVE  \E q \in titles : \A r \in titles : Earlier(q, r)
<1> DEFINE S == { q[n - 1] : q \in titles }
<1>1. \A q \in titles : q[n - 1] \in Nat /\ q[n] \in Nat
  OBVIOUS
<1>2. PICK a \in S : \A b \in S : a <= b
  <2>1. S \in SUBSET Nat /\ S # {}
    BY <1>1
  <2> HIDE DEF S
  <2>2. QED BY <2>1, LeastNumber
<1> DEFINE T == { q[n] : q \in { p \in titles : p[n - 1] = a } }
<1>3. PICK d \in T : \A b \in T : d <= b
  <2>1. T \in SUBSET Nat /\ T # {}
    BY <1>1, <1>2
  <2> HIDE DEF T, S
  <2>2. QED BY <2>1, LeastNumber
<1>4. PICK q \in titles : q[n - 1] = a /\ q[n] = d
  BY <1>3
<1>5. ASSUME NEW r \in titles PROVE Earlier(q, r)
  <2>1. a <= r[n - 1] /\ (r[n - 1] = a => d <= r[n])
    BY <1>2, <1>3
  <2>2. a < r[n - 1] \/ (a = r[n - 1] /\ d <= r[n])
    <3>1. a \in Nat /\ r[n - 1] \in Nat
      BY <1>1, <1>4
    <3> HIDE DEF S, T
    <3>2. QED BY <2>1, <3>1
  <2>3. Len(q) = n
    OBVIOUS
  <2>4. QED BY <1>4, <2>2, <2>3 DEF Earlier
<1>6. QED BY <1>5

(* What is written in a document are strings, and so are the contents of   *)
(* the nodes made of it.                                                   *)
IsWritten(c) ==
  c.what = "document" /\ IsCall(c)

(* What DocumentsAssumption says of a document, in the form the proofs use. *)
LEMMA WrittenFacts ==
  ASSUME NEW c, IsWritten(c)
  PROVE  /\ IsFiniteSet(Positions(c)) /\ <<>> \in Positions(c)
         /\ \A p \in Positions(c) : p \in Seq(Nat)
         /\ \A p \in Positions(c) \ {<<>>} :
              /\ Front(p) \in Positions(c)
              /\ Last(p) > 0 => Append(Front(p), Last(p) - 1) \in Positions(c)
         /\ \A p \in Positions(c) : IsList(c.doc[p].text)
         /\ c.format \in DataFormats =>
              \A p \in Positions(c) \ {<<>>} : Kind(c, Front(p)) \in Containers
         /\ c.format \notin DataFormats =>
              /\ c.format \in {"xml", "dita"} /\ Kind(c, <<>>) # "comment"
              /\ \A p \in Positions(c) : IsList(c.doc[p].navtitle)
         /\ c.limits.nodes \in Nat /\ c.limits.depth \in Nat
<1>1. /\ c.format \in DataFormats \cup {"xml", "dita"} /\ IsNumbered(DOMAIN c.doc)
      /\ IF c.format \in DataFormats THEN HasValues(c.doc) ELSE HasElements(c.doc)
      /\ c.limits.nodes \in Nat /\ c.limits.depth \in Nat
  BY DEF IsWritten, IsCall
<1>2. CASE c.format \in DataFormats
  <2>1. HasValues(c.doc)
    BY <1>1, <1>2
  <2>2. \A p \in DOMAIN c.doc : IsList(c.doc[p].text) /\ (p # <<>> => c.doc[Front(p)].kind \in Containers)
    BY <2>1 DEF HasValues
  <2>3. QED BY <1>1, <1>2, <2>2 DEF IsNumbered, Positions, Kind
<1>3. CASE c.format \notin DataFormats
  <2>1. HasElements(c.doc)
    BY <1>1, <1>3
  <2>2. c.doc[<<>>].kind # "comment" /\ \A p \in DOMAIN c.doc : IsList(c.doc[p].text) /\ IsList(c.doc[p].navtitle)
    BY <2>1 DEF HasElements
  <2>3. QED BY <1>1, <1>3, <2>2 DEF IsNumbered, Positions, Kind
<1>4. QED BY <1>2, <1>3

(* The content of a scalar has strings for its string values.               *)
LEMMA ScalarStrings ==
  ASSUME NEW c, NEW p, IsList(c.doc[p].text), Kind(c, p) \notin Containers
  PROVE  Strings(ScalarContent(c, p))
<1>1. "null" \notin Containers /\ "null" # "string" /\ "string" \notin Containers
  BY DEF Containers
<1>2. CASE Kind(c, p) = "null"
  <2>1. ScalarContent(c, p) = [key \in {"value"} |-> <<"null", <<>>>>]
    BY <1>2 DEF ScalarContent
  <2>2. QED BY <1>1, <2>1 DEF Strings, IsText
<1>3. CASE Kind(c, p) # "null"
  <2>1. ScalarContent(c, p) = [value |-> <<Kind(c, p), c.doc[p].text>>, text |-> <<"string", c.doc[p].text>>]
    BY <1>3 DEF ScalarContent
  <2>2. QED BY <1>1, <2>1 DEF Strings, IsText
<1>4. QED BY <1>2, <1>3

(* The navigation title of a DITA element is a list.                        *)
LEMMA NavTitleIsList ==
  ASSUME NEW c, IsWritten(c), c.format \notin DataFormats, NEW p \in Positions(c)
  PROVE  IsList(NavTitle(c, p))
<1>1. IsList(Strip(c.doc[p].navtitle))
  BY WrittenFacts, StripIsList
<1>2. CASE Strip(c.doc[p].navtitle) # <<>> \/ Titles(c, p) = {}
  BY <1>1, <1>2 DEF NavTitle
<1>3. CASE ~(Strip(c.doc[p].navtitle) # <<>> \/ Titles(c, p) = {})
  <2> DEFINE first == CHOOSE q \in Titles(c, p) : \A r \in Titles(c, p) : Earlier(q, r)
  <2>0. p \in Seq(Nat)
    BY WrittenFacts
  <2>1. Len(p) + 2 \in Nat /\ Len(p) + 2 > 1
    BY <2>0
  <2>2. \A q \in Titles(c, p) : q \in Positions(c) /\ q \in Seq(Nat) /\ Len(q) = Len(p) + 2
    BY WrittenFacts DEF Titles
  <2>3. \E q \in Titles(c, p) : \A r \in Titles(c, p) : Earlier(q, r)
    BY <1>3, <2>1, <2>2, FirstTitle
  <2>4. first \in Titles(c, p)
    BY <2>3
  <2>5. NavTitle(c, p) = Strip(c.doc[first].text)
    BY <1>3, Zenon DEF NavTitle
  <2> HIDE DEF first
  <2>6. IsList(c.doc[first].text)
    BY <2>2, <2>4, WrittenFacts
  <2>7. QED BY <2>5, <2>6, StripIsList
<1>4. QED BY <1>2, <1>3

(* The content of an element has strings for its string values.             *)
LEMMA ElementStrings ==
  ASSUME NEW c, IsWritten(c), c.format \notin DataFormats, NEW p \in Positions(c)
  PROVE  Strings(ElementContent(c, p))
<1> DEFINE navtitle == IF c.format = "dita" THEN NavTitle(c, p) ELSE <<>>
           values == [text |-> Strip(c.doc[p].text), navtitle |-> navtitle]
<1>1. IsList(navtitle)
  <2>1. IsList(<<>>)
    BY DEF IsList
  <2>2. QED BY <2>1, NavTitleIsList
<1>2. IsList(Strip(c.doc[p].text))
  BY WrittenFacts, StripIsList
<1>3. ElementContent(c, p) = [key \in { k \in DOMAIN values : values[k] # <<>> } |-> <<"string", values[key]>>]
  BY DEF ElementContent
<1> HIDE DEF navtitle
<1>4. \A key \in DOMAIN values : IsList(values[key])
  BY <1>1, <1>2
<1> HIDE DEF values
<1>5. "string" \notin Containers
  BY DEF Containers
<1>6. QED BY <1>3, <1>4, <1>5 DEF Strings, IsText

(* A node: the fields and the strings of a canonical node. *)
IsNode(n) ==
  /\ n = [parent |-> n.parent, kids |-> n.kids, type |-> n.type, id |-> n.id,
          content |-> n.content, location |-> n.location]
  /\ Strings(n.content)

(* Nothing is content, too.                                                 *)
LEMMA NoStrings == Strings(<<>>)
BY DEF Strings

(* Every node is made from its six fields.                                 *)
NodeOf(parent, kids, type, id, content, location) ==
  [parent |-> parent, kids |-> kids, type |-> type, id |-> id,
   content |-> content, location |-> location]

(* A node without content and id, one with content, and one with both, as   *)
(* NodeOf.                                                                  *)
LEMMA PlainNode ==
  ASSUME NEW u, NEW k, NEW t, NEW l
  PROVE  NewNode(u, k, t, l) = NodeOf(u, k, t, NoId, <<>>, l)
BY DEF NewNode, NodeOf

(* A node that is given a content.                                          *)
LEMMA FilledNode ==
  ASSUME NEW u, NEW k, NEW t, NEW l, NEW s
  PROVE  [NewNode(u, k, t, l) EXCEPT !.content = s] = NodeOf(u, k, t, NoId, s, l)
BY DEF NewNode, NodeOf

(* A node that is given an id and a content.                                *)
LEMMA NamedNode ==
  ASSUME NEW u, NEW k, NEW t, NEW l, NEW i, NEW s
  PROVE  [NewNode(u, k, t, l) EXCEPT !.id = i, !.content = s] = NodeOf(u, k, t, i, s, l)
<1>1. [NewNode(u, k, t, l) EXCEPT !.id = i] = NodeOf(u, k, t, i, <<>>, l)
  BY DEF NewNode, NodeOf
<1>2. [NodeOf(u, k, t, i, <<>>, l) EXCEPT !.content = s] = NodeOf(u, k, t, i, s, l)
  BY DEF NodeOf
<1>3. QED BY <1>1, <1>2, Zenon

(* What NodeOf makes of strings is a node.                                  *)
LEMMA NodeOfIsNode ==
  ASSUME NEW u, NEW k, NEW t, NEW l, NEW i, NEW s, Strings(s)
  PROVE  IsNode(NodeOf(u, k, t, i, s, l))
<1> DEFINE n == NodeOf(u, k, t, i, s, l)
<1>1. n.parent = u /\ n.kids = k /\ n.type = t /\ n.id = i /\ n.content = s /\ n.location = l
  BY DEF NodeOf
<1>2. n = [parent |-> n.parent, kids |-> n.kids, type |-> n.type, id |-> n.id,
           content |-> n.content, location |-> n.location]
  BY <1>1, Zenon DEF NodeOf
<1> HIDE DEF n
<1>3. IsNode(n)
  BY <1>1, <1>2 DEF IsNode
<1>4. QED BY <1>3 DEF n

(* The nodes of the adapters.                                              *)
LEMMA NodesOfData ==
  ASSUME NEW c, NEW p
  PROVE  LET nested  == Kind(c, p) \in Containers
             content == IF nested THEN <<>> ELSE ScalarContent(c, p)
         IN  /\ ValueNode(c, p) =
                  NodeOf(IF p = <<>> THEN <<>> ELSE EntryRef(Path(c, p)),
                         IF nested THEN EntryRefs(c, p) ELSE <<>>,
                         Kind(c, p), NoId, content, p)
             /\ EntryNode(c, p) =
                  NodeOf(ValueRef(Front(Path(c, p))),
                         IF nested THEN <<ValueRef(Path(c, p))>> ELSE <<>>,
                         IF Kind(c, Front(p)) = "object" THEN "data:property" ELSE "data:item",
                         c.doc[p].key, content, p)
<1> DEFINE u == IF p = <<>> THEN <<>> ELSE EntryRef(Path(c, p))
           v == ValueRef(Front(Path(c, p)))
           k == EntryRefs(c, p)
           m == <<ValueRef(Path(c, p))>>
           t == IF Kind(c, Front(p)) = "object" THEN "data:property" ELSE "data:item"
           y == Kind(c, p)
           i == c.doc[p].key
           s == ScalarContent(c, p)
<1>1. ValueNode(c, p) = IF y \in Containers THEN NewNode(u, k, y, p)
                        ELSE [NewNode(u, <<>>, y, p) EXCEPT !.content = s]
  BY Zenon DEF ValueNode
<1>2. EntryNode(c, p) = [NewNode(v, IF y \in Containers THEN m ELSE <<>>, t, p)
                           EXCEPT !.id = i, !.content = IF y \in Containers THEN <<>> ELSE s]
  BY Zenon DEF EntryNode
<1> HIDE DEF u, v, k, m, t, y, i, s
<1>3. CASE y \in Containers
  <2>1. /\ ValueNode(c, p) = NewNode(u, k, y, p)
        /\ EntryNode(c, p) = [NewNode(v, m, t, p) EXCEPT !.id = i, !.content = <<>>]
    BY <1>1, <1>2, <1>3
  <2>2. /\ ValueNode(c, p) = NodeOf(u, k, y, NoId, <<>>, p)
        /\ EntryNode(c, p) = NodeOf(v, m, t, i, <<>>, p)
    <3>1. NewNode(u, k, y, p) = NodeOf(u, k, y, NoId, <<>>, p)
      BY PlainNode
    <3>2. [NewNode(v, m, t, p) EXCEPT !.id = i, !.content = <<>>] = NodeOf(v, m, t, i, <<>>, p)
      BY NamedNode
    <3>3. QED BY <2>1, <3>1, <3>2, Zenon
  <2>3. QED BY <1>3, <2>2 DEF u, v, k, m, t, y, i, s
<1>4. CASE y \notin Containers
  <2>1. /\ ValueNode(c, p) = [NewNode(u, <<>>, y, p) EXCEPT !.content = s]
        /\ EntryNode(c, p) = [NewNode(v, <<>>, t, p) EXCEPT !.id = i, !.content = s]
    BY <1>1, <1>2, <1>4
  <2>2. /\ ValueNode(c, p) = NodeOf(u, <<>>, y, NoId, s, p)
        /\ EntryNode(c, p) = NodeOf(v, <<>>, t, i, s, p)
    <3>1. [NewNode(u, <<>>, y, p) EXCEPT !.content = s] = NodeOf(u, <<>>, y, NoId, s, p)
      BY FilledNode
    <3>2. [NewNode(v, <<>>, t, p) EXCEPT !.id = i, !.content = s] = NodeOf(v, <<>>, t, i, s, p)
      BY NamedNode
    <3>3. QED BY <2>1, <3>1, <3>2, Zenon
  <2>3. QED BY <1>4, <2>2 DEF u, v, k, m, t, y, i, s
<1>5. QED BY <1>3, <1>4

(* The node of an element, as NodeOf.                                       *)
LEMMA NodesOfXml ==
  ASSUME NEW c, NEW p
  PROVE  ElementNode(c, p) =
           NodeOf(IF p = <<>> THEN NoRef ELSE Front(Path(c, p)),
                  [i \in DOMAIN Kept(c, p) |-> Append(Path(c, p), i - 1)], Kind(c, p),
                  IF c.format = "dita" THEN DitaId(c, p) ELSE XmlId(c, p),
                  ElementContent(c, p), p)
<1> DEFINE u == IF p = <<>> THEN NoRef ELSE Front(Path(c, p))
           k == [i \in DOMAIN Kept(c, p) |-> Append(Path(c, p), i - 1)]
           y == Kind(c, p)
           i == IF c.format = "dita" THEN DitaId(c, p) ELSE XmlId(c, p)
           s == ElementContent(c, p)
<1>1. ElementNode(c, p) = [NewNode(u, k, y, p) EXCEPT !.id = i, !.content = s]
  BY Zenon DEF ElementNode
<1> HIDE DEF u, k, y, i, s
<1>2. [NewNode(u, k, y, p) EXCEPT !.id = i, !.content = s] = NodeOf(u, k, y, i, s, p)
  BY NamedNode
<1>3. QED BY <1>1, <1>2, Zenon DEF u, k, y, i, s

(* Every node that an adapter makes has the fields and the strings of a     *)
(* node.                                                                    *)
LEMMA NodesAreNodes ==
  ASSUME NEW c, IsWritten(c), NEW p \in Positions(c)
  PROVE  /\ IsNode(DocumentNode)
         /\ c.format \in DataFormats => IsNode(ValueNode(c, p)) /\ IsNode(EntryNode(c, p))
         /\ c.format \notin DataFormats => IsNode(ElementNode(c, p))
<1>2. IsNode(DocumentNode)
  <2>1. DocumentNode = NodeOf(NoRef, <<ValueRef(<<>>)>>, "data:document", NoId, <<>>, <<>>)
    BY PlainNode DEF DocumentNode
  <2>2. QED BY <2>1, NoStrings, NodeOfIsNode
<1>3. ASSUME c.format \in DataFormats PROVE IsNode(ValueNode(c, p)) /\ IsNode(EntryNode(c, p))
  <2>1. Kind(c, p) \notin Containers => Strings(ScalarContent(c, p))
    BY WrittenFacts, ScalarStrings
  <2> DEFINE content == IF Kind(c, p) \in Containers THEN <<>> ELSE ScalarContent(c, p)
  <2>3. Strings(content)
    BY <2>1, NoStrings
  <2> DEFINE nested == Kind(c, p) \in Containers
             u1 == IF p = <<>> THEN <<>> ELSE EntryRef(Path(c, p))
             k1 == IF nested THEN EntryRefs(c, p) ELSE <<>>
             u2 == ValueRef(Front(Path(c, p)))
             k2 == IF nested THEN <<ValueRef(Path(c, p))>> ELSE <<>>
             t2 == IF Kind(c, Front(p)) = "object" THEN "data:property" ELSE "data:item"
  <2>4. /\ ValueNode(c, p) = NodeOf(u1, k1, Kind(c, p), NoId, content, p)
        /\ EntryNode(c, p) = NodeOf(u2, k2, t2, c.doc[p].key, content, p)
    BY NodesOfData, Zenon
  <2> HIDE DEF content, nested, u1, k1, u2, k2, t2
  <2>6. \A u, k, t, l, i : IsNode(NodeOf(u, k, t, i, content, l))
    BY <2>3, NodeOfIsNode
  <2>7. QED BY <2>4, <2>6, Zenon
<1>4. ASSUME c.format \notin DataFormats PROVE IsNode(ElementNode(c, p))
  <2>1. Strings(ElementContent(c, p))
    BY <1>4, ElementStrings
  <2>2. \E u, k, t, l, i : ElementNode(c, p) = NodeOf(u, k, t, i, ElementContent(c, p), l)
    BY NodesOfXml, Zenon
  <2> DEFINE content == ElementContent(c, p)
  <2> HIDE DEF content
  <2>3. \A u, k, t, l, i : IsNode(NodeOf(u, k, t, i, content, l))
    BY <2>1, NodeOfIsNode DEF content
  <2>4. QED BY <2>2, <2>3 DEF content
<1>5. QED BY <1>2, <1>3, <1>4

(* The tree that an adapter returns is one that Normalised can be asked     *)
(* about.                                                                   *)
LEMMA AdaptedHasContents ==
  ASSUME NEW c, IsWritten(c)
  PROVE  HasContents(Adapted(c))
<1>1. Survivors(c) \in SUBSET Positions(c) /\ <<>> \in Positions(c)
  BY WrittenFacts DEF Survivors
<1>2. ASSUME c.format \in DataFormats, NEW ref \in DOMAIN DataNodes(c) PROVE IsNode(DataNodes(c)[ref])
  <2> DEFINE pairs == {<< <<>>, DocumentNode >>}
        \cup { <<ValueRef(Path(c, p)), ValueNode(c, p)>> :
                 p \in { q \in Survivors(c) : q = <<>> \/ Kind(c, q) \in Containers } }
        \cup { <<EntryRef(Path(c, p)), EntryNode(c, p)>> : p \in Survivors(c) \ {<<>>} }
  <2>1. \A pair \in pairs : IsNode(pair[2])
    BY <1>1, <1>2, NodesAreNodes
  <2>2. DataNodes(c) = MapOf(pairs)
    BY DEF DataNodes
  <2> HIDE DEF pairs
  <2>3. \E pair \in pairs : pair[1] = ref /\ MapOf(pairs)[ref] = pair[2]
    <3>1. ref \in DOMAIN MapOf(pairs)
      BY <2>2
    <3>2. QED BY <3>1, MapFacts, Zenon
  <2>4. QED BY <2>1, <2>2, <2>3
<1>3. ASSUME c.format \notin DataFormats, NEW ref \in DOMAIN XmlNodes(c) PROVE IsNode(XmlNodes(c)[ref])
  <2> DEFINE pairs == { <<Path(c, p), ElementNode(c, p)>> : p \in Survivors(c) }
  <2>1. \A pair \in pairs : IsNode(pair[2])
    BY <1>1, <1>3, NodesAreNodes
  <2>2. XmlNodes(c) = MapOf(pairs)
    BY DEF XmlNodes
  <2> HIDE DEF pairs
  <2>3. \E pair \in pairs : pair[1] = ref /\ MapOf(pairs)[ref] = pair[2]
    <3>1. ref \in DOMAIN MapOf(pairs)
      BY <2>2
    <3>2. QED BY <3>1, MapFacts, Zenon
  <2>4. QED BY <2>1, <2>2, <2>3
<1>4. Adapted(c).node = IF c.format \in DataFormats THEN DataNodes(c) ELSE XmlNodes(c)
  BY DEF Adapted
<1>5. \A ref \in Refs(Adapted(c)) : IsNode(Adapted(c).node[ref])
  BY <1>2, <1>3, <1>4 DEF Refs
<1>6. \A n : IsNode(n) => "content" \in DOMAIN n /\ n = [field \in DOMAIN n |-> n[field]] /\ Strings(n.content)
  BY DEF IsNode
<1>7. "node" \in DOMAIN Adapted(c)
  BY DEF Adapted
<1>8. QED BY <1>5, <1>6, <1>7 DEF HasContents

-----------------------------------------------------------------------------
(* Positions are sequences of numbers. *)

(* All but the last, and the last.                                         *)
LEMMA FrontFacts ==
  ASSUME NEW X, NEW s \in Seq(X), s # <<>>
  PROVE  /\ Len(s) \in Nat \ {0} /\ Front(s) \in Seq(X) /\ Len(Front(s)) = Len(s) - 1
         /\ \A k \in 1..(Len(s) - 1) : Front(s)[k] = s[k]
         /\ Last(s) = s[Len(s)] /\ Last(s) \in X
         /\ s = Append(Front(s), Last(s))
<1>1. Len(s) \in Nat \ {0}
  BY EmptySeq
<1>2. /\ Front(s) \in Seq(X) /\ Len(Front(s)) = Len(s) - 1
      /\ \A k \in 1..(Len(s) - 1) : Front(s)[k] = s[k]
  <2>1. /\ SubSeq(s, 1, Len(s) - 1) \in Seq(X)
        /\ Len(SubSeq(s, 1, Len(s) - 1)) = IF 1 <= Len(s) - 1 THEN (Len(s) - 1) - 1 + 1 ELSE 0
        /\ \A k \in 1..((Len(s) - 1) - 1 + 1) : SubSeq(s, 1, Len(s) - 1)[k] = s[1 + k - 1]
    <3>1. 1 \in Int /\ Len(s) - 1 \in Int /\ \A i \in 1..(Len(s) - 1) : s[i] \in X
      BY <1>1
    <3>2. QED BY <3>1, SubSeqProperties
  <2> DEFINE f == SubSeq(s, 1, Len(s) - 1)
             n == Len(s)
  <2> HIDE DEF f, n
  <2>2. /\ f \in Seq(X) /\ Len(f) = IF 1 <= n - 1 THEN (n - 1) - 1 + 1 ELSE 0
        /\ \A k \in 1..((n - 1) - 1 + 1) : f[k] = s[1 + k - 1]
        /\ n \in Nat \ {0}
    BY <1>1, <2>1 DEF f, n
  <2>3. Len(f) = n - 1 /\ \A k \in 1..(n - 1) : f[k] = s[k]
    BY <2>2
  <2>4. QED BY <2>2, <2>3 DEF Front, f, n
<1>3. Last(s) = s[Len(s)] /\ Last(s) \in X
  BY <1>1 DEF Last
<1>4. s = Append(Front(s), Last(s))
  <2> DEFINE a == Append(Front(s), Last(s))
             f == Front(s)
             l == Last(s)
  <2> HIDE DEF f, l
  <2>1. Append(f, l) \in Seq(X) /\ Len(Append(f, l)) = Len(s)
    BY <1>1, <1>2, <1>3 DEF f, l
  <2>2. \A i \in 1..Len(s) : Append(f, l)[i] = s[i]
    BY <1>1, <1>2, <1>3 DEF f, l
  <2>3. Append(f, l) = s
    BY <2>1, <2>2, SeqEqual
  <2>4. QED BY <2>3 DEF f, l
<1>5. QED BY <1>1, <1>2, <1>3, <1>4

(* One item more: the front is what was there, the last is the item.        *)
LEMMA AppendFacts ==
  ASSUME NEW X, NEW s \in Seq(X), NEW x \in X
  PROVE  /\ Append(s, x) \in Seq(X) /\ Len(Append(s, x)) = Len(s) + 1 /\ Append(s, x) # <<>>
         /\ \A k \in 1..Len(s) : Append(s, x)[k] = s[k]
         /\ Front(Append(s, x)) = s /\ Last(Append(s, x)) = x
<1>1. /\ Append(s, x) \in Seq(X) /\ Len(Append(s, x)) = Len(s) + 1 /\ Append(s, x) # <<>>
      /\ \A k \in 1..Len(s) : Append(s, x)[k] = s[k]
      /\ Append(s, x)[Len(s) + 1] = x /\ Len(s) \in Nat
  OBVIOUS
<1> DEFINE a == Append(s, x)
<1> HIDE DEF a
<1>2. /\ a \in Seq(X) /\ Len(a) = Len(s) + 1 /\ a # <<>>
      /\ \A k \in 1..Len(s) : a[k] = s[k]
      /\ a[Len(s) + 1] = x
  BY <1>1 DEF a
<1>3. Front(a) \in Seq(X) /\ Len(Front(a)) = Len(a) - 1 /\ Last(a) = a[Len(a)]
      /\ \A k \in 1..(Len(a) - 1) : Front(a)[k] = a[k]
  BY <1>2, FrontFacts
<1>4. Len(Front(a)) = Len(s) /\ \A k \in 1..Len(s) : Front(a)[k] = s[k]
  BY <1>1, <1>2, <1>3
<1>5. Front(a) = s
  BY <1>3, <1>4, SeqEqual
<1>6. QED BY <1>1, <1>2, <1>3, <1>5 DEF a

(* What a sequence begins with.                                            *)
LEMMA BeginFacts ==
  ASSUME NEW X, NEW s \in Seq(X), NEW k \in 0..Len(s)
  PROVE  /\ SubSeq(s, 1, k) \in Seq(X) /\ Len(SubSeq(s, 1, k)) = k
         /\ \A i \in 1..k : SubSeq(s, 1, k)[i] = s[i]
<1>1. 1 \in Int /\ k \in Int /\ \A i \in 1..k : s[i] \in X
  OBVIOUS
<1>2. /\ SubSeq(s, 1, k) \in Seq(X) /\ Len(SubSeq(s, 1, k)) = IF 1 <= k THEN k - 1 + 1 ELSE 0
      /\ \A i \in 1..(k - 1 + 1) : SubSeq(s, 1, k)[i] = s[1 + i - 1]
  BY <1>1, SubSeqProperties
<1> DEFINE b == SubSeq(s, 1, k)
<1> HIDE DEF b
<1>3. b \in Seq(X) /\ Len(b) = (IF 1 <= k THEN k - 1 + 1 ELSE 0)
      /\ \A i \in 1..(k - 1 + 1) : b[i] = s[1 + i - 1]
  BY <1>2 DEF b
<1>4. k \in Nat
  OBVIOUS
<1>5. k - 1 + 1 = k /\ (1 <= k \/ k = 0)
  BY <1>4
<1>6. b \in Seq(X) /\ Len(b) = k
  BY <1>3, <1>5
<1>7. ASSUME NEW i \in 1..k
      PROVE  b[i] = s[i]
  <2>1. i \in Nat /\ 1 + i - 1 = i
    BY <1>4
  <2>2. b[i] = s[1 + i - 1]
    BY <1>3, <1>5, <1>7
  <2>3. QED BY <2>1, <2>2
<1>8. QED BY <1>6, <1>7, Zenon DEF b

(* What a beginning begins with.                                            *)
LEMMA BeginOfBegin ==
  ASSUME NEW X, NEW s \in Seq(X), NEW k \in 0..Len(s), NEW m \in 0..k
  PROVE  /\ SubSeq(SubSeq(s, 1, k), 1, m) = SubSeq(s, 1, m)
         /\ SubSeq(s, 1, Len(s)) = s /\ SubSeq(s, 1, 0) = <<>>
<1>0. Len(s) \in Nat /\ m \in 0..Len(s) /\ k \in Nat
  OBVIOUS
<1> DEFINE b == SubSeq(s, 1, k)
           c == SubSeq(s, 1, m)
<1>1. b \in Seq(X) /\ Len(b) = k /\ \A i \in 1..k : b[i] = s[i]
  BY BeginFacts
<1>2. c \in Seq(X) /\ Len(c) = m /\ \A i \in 1..m : c[i] = s[i]
  BY <1>0, BeginFacts
<1>3. SubSeq(s, 1, 0) = <<>>
  BY SubSeqEmpty
<1>4. SubSeq(s, 1, Len(s)) = s
  BY SubSeqFull
<1> HIDE DEF b, c
<1>5. SubSeq(b, 1, m) \in Seq(X) /\ Len(SubSeq(b, 1, m)) = m /\ \A i \in 1..m : SubSeq(b, 1, m)[i] = b[i]
  BY <1>0, <1>1, BeginFacts
<1>6. SubSeq(b, 1, m) = c
  <2> DEFINE d == SubSeq(b, 1, m)
  <2> HIDE DEF d
  <2>1. d \in Seq(X) /\ Len(d) = Len(c) /\ \A i \in 1..Len(d) : d[i] = c[i]
    BY <1>0, <1>1, <1>2, <1>5 DEF d
  <2>2. d = c
    BY <1>2, <2>1, SeqEqual
  <2>3. QED BY <2>2 DEF d
<1>7. QED BY <1>3, <1>4, <1>6 DEF b, c

(* The front of a beginning is the next shorter one.                        *)
LEMMA FrontOfBegin ==
  ASSUME NEW X, NEW s \in Seq(X), NEW k \in 1..Len(s)
  PROVE  Front(SubSeq(s, 1, k)) = SubSeq(s, 1, k - 1) /\ Len(SubSeq(s, 1, k)) = k
<1>1. k \in Nat /\ k \in 0..Len(s) /\ k - 1 \in 0..Len(s)
  OBVIOUS
<1> DEFINE b == SubSeq(s, 1, k)
           d == SubSeq(s, 1, k - 1)
           f == Front(b)
<1>2. b \in Seq(X) /\ Len(b) = k /\ \A i \in 1..k : b[i] = s[i]
  BY <1>1, BeginFacts
<1>3. d \in Seq(X) /\ Len(d) = k - 1 /\ \A i \in 1..(k - 1) : d[i] = s[i]
  BY <1>1, BeginFacts
<1> HIDE DEF b, d
<1>4. b # <<>>
  BY <1>2
<1>5. f \in Seq(X) /\ Len(f) = k - 1 /\ \A i \in 1..(k - 1) : f[i] = b[i]
  BY <1>2, <1>4, FrontFacts
<1> HIDE DEF f
<1>6. Len(f) = Len(d) /\ \A i \in 1..Len(f) : f[i] = d[i]
  BY <1>1, <1>2, <1>3, <1>5
<1>7. f = d
  BY <1>3, <1>5, <1>6, SeqEqual
<1>8. QED BY <1>2, <1>7 DEF b, d, f

(* A finite set of numbers without gaps.                                   *)
LEMMA NoGaps ==
  ASSUME NEW K \in SUBSET Nat, IsFiniteSet(K), \A k \in K : k > 0 => k - 1 \in K
  PROVE  Cardinality(K) \in Nat /\ K = 0..(Cardinality(K) - 1)
<1> DEFINE n == Cardinality(K)
           Missing == { m \in Nat : m \notin K }
<1>1. n \in Nat
  BY FS_CardinalityType
<1>2. Missing # {}
  <2>1. SUFFICES ASSUME Missing = {} PROVE FALSE
    OBVIOUS
  <2>2. 0..n \in SUBSET K
    BY <1>1, <2>1
  <2>3. Cardinality(0..n) <= n
    BY <2>2, FS_Subset
  <2>4. Cardinality(0..n) = n + 1
    BY <1>1, FS_Interval
  <2>5. QED BY <1>1, <2>3, <2>4
<1>3. PICK m \in Missing : \A k \in Missing : m <= k
  <2>1. Missing \in SUBSET Nat
    OBVIOUS
  <2> HIDE DEF Missing
  <2>2. QED BY <1>2, <2>1, LeastNumber
<1>4. m \in Nat /\ m \notin K /\ \A k \in Nat : k < m => k \in K
  BY <1>3
<1> HIDE DEF Missing, n
<1>5. ASSUME NEW x \in K, x > m PROVE FALSE
  <2> DEFINE Above1 == { k \in Nat : k > m /\ k \in K }
  <2>1. Above1 # {} /\ Above1 \in SUBSET Nat
    <3>1. x \in Above1
      BY <1>5
    <3>2. QED BY <3>1
  <2>2. PICK k \in Above1 : \A j \in Above1 : k <= j
    <3> HIDE DEF Above1
    <3>1. QED BY <2>1, LeastNumber
  <2>3. k \in K /\ k > 0 /\ k > m /\ k \in Nat
    BY <1>4, <2>2
  <2>4. k - 1 \in K /\ k - 1 \in Nat
    BY <2>3
  <2>5. k - 1 # m
    BY <1>4, <2>4
  <2>6. k - 1 > m
    BY <1>4, <2>3, <2>5
  <2>7. k - 1 \in Above1
    BY <2>4, <2>6
  <2>8. QED BY <2>2, <2>3, <2>7
<1>6. \A x \in K : x \in Nat /\ x < m
  BY <1>4, <1>5
<1>7. \A x \in Int : x \in 0..(m - 1) <=> x \in Nat /\ x < m
  BY <1>4
<1>8. K = 0..(m - 1)
  <2>1. \A x \in K : x \in 0..(m - 1)
    BY <1>6, <1>7
  <2>2. \A x \in 0..(m - 1) : x \in K
    BY <1>4
  <2>3. QED BY <2>1, <2>2
<1>9. Cardinality(0..(m - 1)) = m
  BY <1>4, FS_Interval
<1>10. QED BY <1>1, <1>8, <1>9 DEF n

-----------------------------------------------------------------------------
(* Children. *)
Kids(c, p) == { q \in Positions(c) : Len(q) = Len(p) + 1 /\ Front(q) = p }

(* A child is its parent with one number more.                              *)
LEMMA KidFacts ==
  ASSUME NEW c, IsWritten(c), NEW p \in Positions(c), NEW q \in Kids(c, p)
  PROVE  /\ p \in Seq(Nat) /\ q \in Seq(Nat) /\ q # <<>> /\ q \in Positions(c)
         /\ Len(p) \in Nat /\ Len(q) = Len(p) + 1 /\ Front(q) = p
         /\ Last(q) \in Nat /\ q = Append(p, Last(q))
         /\ Siblings(c, q) = Kids(c, p)
<1>1. /\ p \in Seq(Nat) /\ q \in Seq(Nat) /\ q \in Positions(c)
      /\ Len(q) = Len(p) + 1 /\ Front(q) = p
  BY WrittenFacts DEF Kids
<1>2. Len(p) \in Nat /\ q # <<>>
  BY <1>1
<1>3. Last(q) \in Nat /\ q = Append(p, Last(q))
  BY <1>1, <1>2, FrontFacts
<1>4. Siblings(c, q) = Kids(c, p)
  BY <1>1 DEF Siblings, Kids
<1>5. QED BY <1>1, <1>2, <1>3, <1>4

(* Every position but the root is a child.                                 *)
LEMMA EveryoneIsAKid ==
  ASSUME NEW c, IsWritten(c), NEW q \in Positions(c) \ {<<>>}
  PROVE  Front(q) \in Positions(c) /\ q \in Kids(c, Front(q))
<1>1. q \in Seq(Nat) /\ Front(q) \in Positions(c)
  BY WrittenFacts
<1>2. Len(q) \in Nat \ {0} /\ Len(Front(q)) = Len(q) - 1
  BY <1>1, FrontFacts
<1>3. QED BY <1>1, <1>2 DEF Kids

(* ChildrenOf lists the children of a position, the one numbered i - 1 at   *)
(* place i.                                                                 *)
LEMMA ChildrenFacts ==
  ASSUME NEW c, IsWritten(c), NEW p \in Positions(c)
  PROVE  /\ ChildrenOf(c, p) \in Seq(Positions(c))
         /\ \A i \in 1..Len(ChildrenOf(c, p)) :
              ChildrenOf(c, p)[i] \in Kids(c, p) /\ Last(ChildrenOf(c, p)[i]) = i - 1
         /\ \A q \in Kids(c, p) : Last(q) + 1 \in 1..Len(ChildrenOf(c, p))
                                  /\ ChildrenOf(c, p)[Last(q) + 1] = q
<1> DEFINE N == Kids(c, p)
           n == Cardinality(N)
           f == [q \in N |-> Last(q)]
           K == { f[q] : q \in N }
<1>0. p \in Seq(Nat) /\ Len(p) \in Nat
  BY WrittenFacts
<1>1. IsFiniteSet(N)
  <2>1. N \in SUBSET Positions(c)
    BY DEF Kids
  <2>2. QED BY <2>1, WrittenFacts, FS_Subset
<1>2. ASSUME NEW q \in N
      PROVE  Last(q) \in Nat /\ q = Append(p, Last(q)) /\ q \in Positions(c) /\ q # <<>> /\ Front(q) = p
  BY KidFacts
<1>3. K \in SUBSET Nat
  BY <1>2
<1>4. f \in Bijection(N, K)
  <2>1. f \in Surjection(N, K)
    BY DEF Surjection
  <2>2. \A x, y \in N : f[x] = f[y] => x = y
    BY <1>2
  <2>3. f \in Injection(N, K)
    BY <2>1, <2>2 DEF Injection, IsInjective, Surjection
  <2>4. QED BY <2>1, <2>3 DEF Bijection
<1>5. IsFiniteSet(K) /\ Cardinality(K) = n
  BY <1>1, <1>4, FS_Bijection DEF ExistsBijection
<1>6. ASSUME NEW k \in Nat PROVE Append(p, k) \in Positions(c) => Append(p, k) \in N /\ Last(Append(p, k)) = k
  BY <1>0, AppendFacts DEF Kids
<1>7. \A k \in K : k > 0 => k - 1 \in K
  <2>1. SUFFICES ASSUME NEW q \in N, Last(q) > 0 PROVE Last(q) - 1 \in K
    OBVIOUS
  <2>2. Append(p, Last(q) - 1) \in Positions(c) /\ Last(q) - 1 \in Nat
    BY <1>2, <2>1, WrittenFacts
  <2>3. Append(p, Last(q) - 1) \in N /\ Last(Append(p, Last(q) - 1)) = Last(q) - 1
    BY <1>6, <2>2
  <2>4. QED BY <2>3
<1>8. n \in Nat /\ K = 0..(n - 1)
  BY <1>3, <1>5, <1>7, NoGaps
<1>9. ChildrenOf(c, p) = [i \in 1..n |-> Append(p, i - 1)]
  BY DEF ChildrenOf, Kids
<1>10. ASSUME NEW i \in 1..n PROVE Append(p, i - 1) \in N /\ Last(Append(p, i - 1)) = i - 1
  <2>1. i - 1 \in K /\ i - 1 \in Nat
    BY <1>8
  <2>2. PICK q \in N : Last(q) = i - 1
    BY <2>1
  <2>3. q = Append(p, i - 1)
    BY <1>2, <2>2
  <2>4. QED BY <2>2, <2>3
<1>11. N \in SUBSET Positions(c)
  BY DEF Kids
<1> HIDE DEF N, n, K, f
<1>12. ChildrenOf(c, p) \in Seq(Positions(c)) /\ Len(ChildrenOf(c, p)) = n
  BY <1>8, <1>9, <1>10, <1>11
<1>13. ASSUME NEW q \in N
       PROVE  Last(q) + 1 \in 1..n /\ Append(p, (Last(q) + 1) - 1) = q
  <2>1. Last(q) \in K
    BY DEF K, f
  <2>2. Last(q) \in Nat /\ Last(q) + 1 \in 1..n /\ (Last(q) + 1) - 1 = Last(q)
    BY <1>2, <1>8, <2>1
  <2>3. QED BY <1>2, <2>2
<1>14. QED BY <1>9, <1>10, <1>12, <1>13 DEF N

(* Some of the children, in their order.                                   *)
LEMMA FilteredKids ==
  ASSUME NEW c, IsWritten(c), NEW p \in Positions(c), NEW keep
  PROVE  LET f == Filter(ChildrenOf(c, p), keep)
         IN  /\ f \in Seq(Positions(c)) /\ Len(f) \in Nat
             /\ \A i \in 1..Len(f) : f[i] \in Kids(c, p) /\ f[i] \in keep
             /\ \A q \in Kids(c, p) : q \in keep => \E i \in 1..Len(f) : f[i] = q
             /\ \A i, j \in 1..Len(f) : i < j => Last(f[i]) < Last(f[j])
<1> DEFINE s == ChildrenOf(c, p)
           f == Filter(s, keep)
<1>1. /\ s \in Seq(Positions(c))
      /\ \A i \in 1..Len(s) : s[i] \in Kids(c, p) /\ Last(s[i]) = i - 1
      /\ \A q \in Kids(c, p) : Last(q) + 1 \in 1..Len(s) /\ s[Last(q) + 1] = q
  BY ChildrenFacts
<1>2. PICK h : KeptFrom(Positions(c), s, keep, f, h, Len(s))
  BY <1>1, FilterFacts
<1> HIDE DEF s, f
<1>3. /\ f \in Seq(Positions(c)) /\ h \in [1..Len(f) -> 1..Len(s)]
      /\ \A i \in 1..Len(f) : f[i] = s[h[i]]
      /\ \A i, j \in 1..Len(f) : i < j => h[i] < h[j]
      /\ \A k \in 1..Len(s) : s[k] \in keep <=> \E i \in 1..Len(f) : h[i] = k
  BY <1>2 DEF KeptFrom
<1>4. Len(f) \in Nat /\ Len(s) \in Nat
  BY <1>1, <1>3
<1>5. \A i \in 1..Len(f) : f[i] \in Kids(c, p) /\ f[i] \in keep
  BY <1>1, <1>3
<1>6. ASSUME NEW q \in Kids(c, p), q \in keep PROVE \E i \in 1..Len(f) : f[i] = q
  <2> DEFINE k == Last(q) + 1
  <2>1. k \in 1..Len(s) /\ s[k] = q
    BY <1>1
  <2> HIDE DEF k
  <2>2. PICK i \in 1..Len(f) : h[i] = k
    BY <1>3, <1>6, <2>1
  <2>3. QED BY <1>3, <2>1, <2>2
<1>7. ASSUME NEW i \in 1..Len(f), NEW j \in 1..Len(f), i < j PROVE Last(f[i]) < Last(f[j])
  <2>1. h[i] < h[j] /\ h[i] \in 1..Len(s) /\ h[j] \in 1..Len(s)
    BY <1>3, <1>7
  <2>2. Last(f[i]) = h[i] - 1 /\ Last(f[j]) = h[j] - 1
    BY <1>1, <1>3, <2>1
  <2>3. QED BY <2>1, <2>2
<1>8. QED BY <1>3, <1>4, <1>5, <1>6, <1>7 DEF f, s

-----------------------------------------------------------------------------
(* What is kept. *)

(* The children that stay.                                                 *)
Stays(c, q) ==
  IF c.format \in DataFormats THEN \A r \in SameEntry(c, q) : Last(r) <= Last(q)
  ELSE IsElement(c, q) /\ (c.format = "dita" => Kind(c, q) # "topicmeta")

(* The list k has the children of p that stay, each once, in the order of   *)
(* PlaceAmong.                                                              *)
AreKept(c, p, k) ==
  /\ k \in Seq(Positions(c)) /\ Len(k) \in Nat
  /\ \A i \in 1..Len(k) : k[i] \in Kids(c, p) /\ Stays(c, k[i]) /\ PlaceAmong(c, k[i]) \in Nat
  /\ \A q \in Kids(c, p) : Stays(c, q) => \E i \in 1..Len(k) : k[i] = q
  /\ \A i, j \in 1..Len(k) : i < j => PlaceAmong(c, k[i]) < PlaceAmong(c, k[j])

(* The first and the last entry with one key.                              *)
LEMMA EntryFacts ==
  ASSUME NEW c, IsWritten(c), NEW p \in Positions(c), NEW q \in Kids(c, p)
  PROVE  /\ q \in SameEntry(c, q) /\ SameEntry(c, q) \in SUBSET Kids(c, p)
         /\ \E f \in SameEntry(c, q) :
              (\A r \in SameEntry(c, q) : Last(f) <= Last(r)) /\ PlaceAmong(c, q) = Last(f)
         /\ \E l \in SameEntry(c, q) : \A r \in SameEntry(c, q) : Last(r) <= Last(l)
<1> DEFINE E == SameEntry(c, q)
           n == Len(ChildrenOf(c, p))
           S == { Last(r) + 1 : r \in E }
           T == { Last(r) : r \in E }
<1>1. q \in E /\ E \in SUBSET Kids(c, p)
  BY KidFacts DEF SameEntry
<1>2. n \in Nat /\ \A r \in E : Last(r) \in Nat /\ Last(r) + 1 \in 1..n
  BY <1>1, KidFacts, ChildrenFacts
<1>3. S \in SUBSET (1..n) /\ S # {}
  BY <1>1, <1>2
<1> HIDE DEF n, E
<1>4. Min(S) \in S /\ (\A i \in S : Min(S) <= i) /\ Max(S) \in S /\ \A i \in S : i <= Max(S)
  <2> HIDE DEF S
  <2>1. QED BY <1>2, <1>3, Extremes
<1>5. PICK f \in E : \A r \in E : Last(f) + 1 <= Last(r) + 1
  BY <1>4
<1>6. PICK l \in E : \A r \in E : Last(r) + 1 <= Last(l) + 1
  BY <1>4
<1>7. \A r \in E : Last(f) <= Last(r) /\ Last(r) <= Last(l)
  BY <1>2, <1>5, <1>6
<1>8. PlaceAmong(c, q) = Last(f)
  <2>1. PlaceAmong(c, q) = Min(T)
    BY Zenon DEF PlaceAmong, E
  <2>2. Last(f) \in T /\ \A t \in T : Last(f) <= t /\ t \in Nat
    BY <1>2, <1>7
  <2> HIDE DEF T
  <2>3. Min(T) \in T /\ \A t \in T : Min(T) <= t
    BY <2>2 DEF Min
  <2>4. Min(T) = Last(f)
    BY <2>2, <2>3
  <2>5. QED BY <2>1, <2>4
<1>9. QED BY <1>1, <1>7, <1>8 DEF E

(* An entry that shares its key with nobody.                               *)
LEMMA LoneEntry ==
  ASSUME NEW c, NEW q, SameEntry(c, q) = {q}, Last(q) \in Nat
  PROVE  PlaceAmong(c, q) = Last(q) /\ (c.format \in DataFormats => Stays(c, q))
<1>1. { Last(r) : r \in SameEntry(c, q) } = {Last(q)}
  OBVIOUS
<1>2. Min({Last(q)}) = Last(q)
  BY DEF Min
<1>3. QED BY <1>1, <1>2 DEF PlaceAmong, Stays

(* Where nobody shares a key, what is kept is a filter of the children.    *)
LEMMA FilterKeeps ==
  ASSUME NEW c, IsWritten(c), NEW p \in Positions(c), NEW keep,
         \A q \in Kids(c, p) : SameEntry(c, q) = {q} /\ (q \in keep <=> Stays(c, q))
  PROVE  AreKept(c, p, Filter(ChildrenOf(c, p), keep))
<1> DEFINE f == Filter(ChildrenOf(c, p), keep)
<1>1. /\ f \in Seq(Positions(c)) /\ Len(f) \in Nat
      /\ \A i \in 1..Len(f) : f[i] \in Kids(c, p) /\ f[i] \in keep
      /\ \A q \in Kids(c, p) : q \in keep => \E i \in 1..Len(f) : f[i] = q
      /\ \A i, j \in 1..Len(f) : i < j => Last(f[i]) < Last(f[j])
  BY FilteredKids
<1>2. \A q \in Kids(c, p) : PlaceAmong(c, q) = Last(q) /\ Last(q) \in Nat
  BY KidFacts, LoneEntry
<1> HIDE DEF f
<1>3. AreKept(c, p, f)
  BY <1>1, <1>2 DEF AreKept
<1>4. QED BY <1>3 DEF f

(* Where all children stay and nobody shares a key, all are kept.           *)
LEMMA AllKept ==
  ASSUME NEW c, IsWritten(c), NEW p \in Positions(c),
         \A q \in Kids(c, p) : SameEntry(c, q) = {q} /\ Stays(c, q)
  PROVE  AreKept(c, p, ChildrenOf(c, p))
<1> DEFINE f == ChildrenOf(c, p)
<1>1. /\ f \in Seq(Positions(c))
      /\ \A i \in 1..Len(f) : f[i] \in Kids(c, p) /\ Last(f[i]) = i - 1
      /\ \A q \in Kids(c, p) : Last(q) + 1 \in 1..Len(f) /\ f[Last(q) + 1] = q
  BY ChildrenFacts
<1>2. \A q \in Kids(c, p) : PlaceAmong(c, q) = Last(q) /\ Last(q) \in Nat
  BY KidFacts, LoneEntry
<1> HIDE DEF f
<1>3. Len(f) \in Nat
  BY <1>1
<1>4. \A q \in Kids(c, p) : Stays(c, q) => \E i \in 1..Len(f) : f[i] = q
  BY <1>1
<1>5. \A i, j \in 1..Len(f) : i < j => PlaceAmong(c, f[i]) < PlaceAmong(c, f[j])
  BY <1>1, <1>2
<1>6. AreKept(c, p, f)
  BY <1>1, <1>2, <1>3, <1>4, <1>5 DEF AreKept
<1>7. QED BY <1>6 DEF f

(* In an object, of the entries of one key the last survives, in the place *)
(* of the first.                                                           *)
LEMMA ObjectKeeps ==
  ASSUME NEW c, IsWritten(c), NEW p \in Positions(c),
         c.format \in DataFormats, Kind(c, p) = "object"
  PROVE  AreKept(c, p, Kept(c, p))
<1> DEFINE ch == ChildrenOf(c, p)
           Key(q) == c.doc[q].key
           f == Filter(ch, { q \in Positions(c) : FirstOfItsKey(c, p, q) })
           k == [i \in DOMAIN f |-> Survivor(c, p, f[i])]
<1>1. Kept(c, p) = k
  <2>1. c.format # "xml" /\ c.format # "dita"
    BY DEF DataFormats
  <2>2. QED BY <2>1, Zenon DEF Kept
<1>2. ToSet(ch) = Kids(c, p)
  <2>1. /\ ch \in Seq(Positions(c)) /\ \A i \in 1..Len(ch) : ch[i] \in Kids(c, p)
        /\ \A q \in Kids(c, p) : Last(q) + 1 \in 1..Len(ch) /\ ch[Last(q) + 1] = q
    BY ChildrenFacts
  <2> HIDE DEF ch
  <2>2. DOMAIN ch = 1..Len(ch)
    BY <2>1
  <2>3. QED BY <2>1, <2>2 DEF ToSet
<1>3. /\ f \in Seq(Positions(c)) /\ Len(f) \in Nat
      /\ \A i \in 1..Len(f) : f[i] \in Kids(c, p) /\ f[i] \in { q \in Positions(c) : FirstOfItsKey(c, p, q) }
      /\ \A q \in Kids(c, p) : q \in { r \in Positions(c) : FirstOfItsKey(c, p, r) } =>
                                 \E i \in 1..Len(f) : f[i] = q
      /\ \A i, j \in 1..Len(f) : i < j => Last(f[i]) < Last(f[j])
  BY FilteredKids
<1>4. DOMAIN f = 1..Len(f)
  BY <1>3
<1>5. ASSUME NEW q \in Kids(c, p)
      PROVE  /\ SameEntry(c, q) = { r \in Kids(c, p) : Key(r) = Key(q) }
             /\ Last(q) \in Nat /\ q \in Positions(c)
             /\ FirstOfItsKey(c, p, q) <=> \A r \in SameEntry(c, q) : Last(q) <= Last(r)
             /\ Survivor(c, p, q) = CHOOSE r \in SameEntry(c, q) : \A s \in SameEntry(c, q) : Last(s) <= Last(r)
  <2>1. SameEntry(c, q) = { r \in Kids(c, p) : Key(r) = Key(q) } /\ Last(q) \in Nat /\ q \in Positions(c)
    BY KidFacts DEF SameEntry
  <2>2. FirstOfItsKey(c, p, q) <=> \A r \in SameEntry(c, q) : Last(q) <= Last(r)
    BY <1>2, <2>1 DEF FirstOfItsKey
  <2>3. { r \in ToSet(ch) : Key(r) = Key(q) } = SameEntry(c, q)
    BY <1>2, <2>1
  <2>4. Survivor(c, p, q) = CHOOSE r \in { s \in ToSet(ch) : Key(s) = Key(q) } :
                               \A s \in { t \in ToSet(ch) : Key(t) = Key(q) } : Last(s) <= Last(r)
    BY Zenon DEF Survivor
  <2>5. QED BY <2>1, <2>2, <2>3, <2>4
<1> HIDE DEF f, ch
<1>6. ASSUME NEW q \in Kids(c, p), NEW r \in SameEntry(c, q)
      PROVE  r \in Kids(c, p) /\ Key(r) = Key(q) /\ SameEntry(c, r) = SameEntry(c, q)
  <2>1. r \in Kids(c, p) /\ Key(r) = Key(q)
    BY <1>5
  <2>2. SameEntry(c, r) = { s \in Kids(c, p) : Key(s) = Key(r) }
    BY <1>5, <2>1
  <2>3. SameEntry(c, q) = { s \in Kids(c, p) : Key(s) = Key(q) }
    BY <1>5
  <2>4. QED BY <2>1, <2>2, <2>3
<1>7. ASSUME NEW q \in Kids(c, p)
      PROVE  /\ Survivor(c, p, q) \in SameEntry(c, q)
             /\ \A s \in SameEntry(c, q) : Last(s) <= Last(Survivor(c, p, q))
             /\ Stays(c, Survivor(c, p, q))
  <2>1. \E l \in SameEntry(c, q) : \A r \in SameEntry(c, q) : Last(r) <= Last(l)
    BY EntryFacts
  <2>2. /\ Survivor(c, p, q) \in SameEntry(c, q)
        /\ \A s \in SameEntry(c, q) : Last(s) <= Last(Survivor(c, p, q))
    BY <1>5, <2>1, Zenon
  <2>3. SameEntry(c, Survivor(c, p, q)) = SameEntry(c, q)
    BY <1>6, <2>2
  <2>4. QED BY <2>2, <2>3 DEF Stays
<1>8. ASSUME NEW i \in 1..Len(f)
      PROVE  /\ k[i] = Survivor(c, p, f[i]) /\ k[i] \in Kids(c, p) /\ Stays(c, k[i])
             /\ PlaceAmong(c, k[i]) = Last(f[i]) /\ Last(f[i]) \in Nat /\ k[i] \in Positions(c)
  <2>1. k[i] = Survivor(c, p, f[i])
    BY <1>4
  <2>2. f[i] \in Kids(c, p) /\ FirstOfItsKey(c, p, f[i])
    BY <1>3
  <2>3. k[i] \in SameEntry(c, f[i]) /\ Stays(c, k[i])
    BY <1>7, <2>1, <2>2
  <2>4. k[i] \in Kids(c, p) /\ SameEntry(c, k[i]) = SameEntry(c, f[i])
    BY <1>6, <2>2, <2>3
  <2>5. PICK g \in SameEntry(c, k[i]) :
          (\A r \in SameEntry(c, k[i]) : Last(g) <= Last(r)) /\ PlaceAmong(c, k[i]) = Last(g)
    BY <2>4, EntryFacts
  <2>6. f[i] \in SameEntry(c, f[i]) /\ \A r \in SameEntry(c, f[i]) : Last(f[i]) <= Last(r)
    BY <1>5, <2>2, EntryFacts
  <2>7. Last(g) \in Nat /\ Last(f[i]) \in Nat /\ Last(g) <= Last(f[i]) /\ Last(f[i]) <= Last(g)
    BY <1>5, <1>6, <2>2, <2>4, <2>5, <2>6
  <2>8. QED BY <1>5, <2>1, <2>3, <2>4, <2>5, <2>7
<1>9. k \in Seq(Positions(c)) /\ Len(k) = Len(f)
  <2>1. k \in [1..Len(f) -> Positions(c)]
    BY <1>4, <1>8
  <2> HIDE DEF k
  <2>2. QED BY <1>3, <2>1
<1>10. ASSUME NEW q \in Kids(c, p), Stays(c, q) PROVE \E i \in 1..Len(f) : k[i] = q
  <2>1. PICK g \in SameEntry(c, q) : \A r \in SameEntry(c, q) : Last(g) <= Last(r)
    BY EntryFacts
  <2>2. g \in Kids(c, p) /\ SameEntry(c, g) = SameEntry(c, q)
    BY <1>6, <2>1
  <2>3. FirstOfItsKey(c, p, g) /\ g \in Positions(c)
    BY <1>5, <2>1, <2>2
  <2>4. PICK i \in 1..Len(f) : f[i] = g
    BY <1>3, <2>2, <2>3
  <2>5. k[i] \in SameEntry(c, q) /\ \A s \in SameEntry(c, q) : Last(s) <= Last(k[i])
    BY <1>7, <1>8, <2>2, <2>4
  <2>6. \A r \in SameEntry(c, q) : Last(r) <= Last(q)
    BY <1>10 DEF Stays
  <2>7. q \in SameEntry(c, q)
    BY EntryFacts
  <2>8. k[i] \in Kids(c, p) /\ Last(k[i]) = Last(q)
    <3>1. k[i] \in Kids(c, p) /\ Last(k[i]) \in Nat /\ Last(q) \in Nat
      BY <1>5, <1>6, <2>5
    <3>2. Last(q) <= Last(k[i]) /\ Last(k[i]) <= Last(q)
      BY <2>5, <2>6, <2>7
    <3>3. QED BY <3>1, <3>2
  <2>9. k[i] = Append(p, Last(k[i])) /\ q = Append(p, Last(q))
    BY <2>8, KidFacts
  <2>10. k[i] = q
    BY <2>8, <2>9
  <2>11. QED BY <2>10
<1> HIDE DEF k
<1>11. \A i, j \in 1..Len(k) : i < j => PlaceAmong(c, k[i]) < PlaceAmong(c, k[j])
  BY <1>3, <1>8, <1>9
<1>12. AreKept(c, p, k)
  BY <1>3, <1>8, <1>9, <1>10, <1>11 DEF AreKept
<1>13. QED BY <1>1, <1>12

(* What is kept, in any document.                                          *)
LEMMA KeptFacts ==
  ASSUME NEW c, IsWritten(c), NEW p \in Positions(c)
  PROVE  AreKept(c, p, Kept(c, p))
<1>0. "object" # "x" /\ "xml" \notin DataFormats /\ "dita" \notin DataFormats
      /\ (c.format \notin DataFormats => c.format \in {"xml", "dita"})
  BY WrittenFacts DEF DataFormats
<1>1. CASE c.format \in DataFormats /\ Kind(c, p) = "object"
  BY <1>1, ObjectKeeps
<1>2. CASE c.format \in DataFormats /\ Kind(c, p) # "object"
  <2>1. Kept(c, p) = ChildrenOf(c, p)
    BY <1>0, <1>2 DEF Kept
  <2>2. \A q \in Kids(c, p) : SameEntry(c, q) = {q} /\ Last(q) \in Nat
    BY <1>2, KidFacts DEF SameEntry
  <2>3. \A q \in Kids(c, p) : Stays(c, q)
    BY <1>2, <2>2, LoneEntry
  <2>4. QED BY <2>1, <2>2, <2>3, AllKept
<1>3. CASE c.format = "xml"
  <2> DEFINE keep == { q \in Positions(c) : IsElement(c, q) }
  <2>1. Kept(c, p) = Filter(ChildrenOf(c, p), keep)
    BY <1>0, <1>3 DEF Kept
  <2>2. \A q \in Kids(c, p) : SameEntry(c, q) = {q} /\ (q \in keep <=> Stays(c, q))
    BY <1>0, <1>3, KidFacts DEF SameEntry, Stays
  <2> HIDE DEF keep
  <2>3. QED BY <2>1, <2>2, FilterKeeps
<1>4. CASE c.format = "dita"
  <2> DEFINE keep == { q \in Positions(c) : IsElement(c, q) /\ Kind(c, q) # "topicmeta" }
  <2>1. Kept(c, p) = Filter(ChildrenOf(c, p), keep)
    BY <1>0, <1>4 DEF Kept
  <2>2. \A q \in Kids(c, p) : SameEntry(c, q) = {q} /\ (q \in keep <=> Stays(c, q))
    BY <1>0, <1>4, KidFacts DEF SameEntry, Stays
  <2> HIDE DEF keep
  <2>3. QED BY <2>1, <2>2, FilterKeeps
<1>5. QED BY <1>0, <1>1, <1>2, <1>3, <1>4

-----------------------------------------------------------------------------
(* Survivors and their paths. *)
Begin(p, k) == SubSeq(p, 1, k)

(* The beginnings of a position: their lengths, their fronts, and what they *)
(* begin with.                                                              *)
LEMMA Begins ==
  ASSUME NEW c, IsWritten(c), NEW p \in Positions(c)
  PROVE  /\ p \in Seq(Nat) /\ Len(p) \in Nat /\ DOMAIN p = 1..Len(p) /\ Begin(p, 0) = <<>> /\ Begin(p, Len(p)) = p
         /\ \A k \in 0..Len(p) :
              Begin(p, k) \in Seq(Nat) /\ Len(Begin(p, k)) = k /\ \A m \in 0..k : Begin(Begin(p, k), m) = Begin(p, m)
         /\ \A k \in 1..Len(p) : Front(Begin(p, k)) = Begin(p, k - 1) /\ Begin(p, k) # <<>>
         /\ p # <<>> => Front(p) = Begin(p, Len(p) - 1)
<1>1. p \in Seq(Nat)
  BY WrittenFacts
<1>2. Len(p) \in Nat /\ DOMAIN p = 1..Len(p) /\ 0 \in 0..Len(p)
  BY <1>1
<1>3. Begin(p, 0) = <<>> /\ Begin(p, Len(p)) = p
  BY <1>1, <1>2, BeginOfBegin DEF Begin
<1>4. ASSUME NEW k \in 0..Len(p)
      PROVE  Begin(p, k) \in Seq(Nat) /\ Len(Begin(p, k)) = k /\ \A m \in 0..k : Begin(Begin(p, k), m) = Begin(p, m)
  BY <1>1, BeginFacts, BeginOfBegin DEF Begin
<1>5. ASSUME NEW k \in 1..Len(p) PROVE Front(Begin(p, k)) = Begin(p, k - 1) /\ Begin(p, k) # <<>>
  <2>1. Front(SubSeq(p, 1, k)) = SubSeq(p, 1, k - 1) /\ Len(SubSeq(p, 1, k)) = k
    BY <1>1, FrontOfBegin, Zenon
  <2> DEFINE b == SubSeq(p, 1, k)
  <2>2. Len(b) = k /\ k # 0
    BY <2>1
  <2> HIDE DEF b
  <2>3. b # <<>>
    BY <2>2
  <2>4. QED BY <2>1, <2>3, Zenon DEF b, Begin
<1>6. p # <<>> => Front(p) = Begin(p, Len(p) - 1)
  BY DEF Front, Begin
<1>7. QED BY <1>1, <1>2, <1>3, <1>4, <1>5, <1>6

(* What a position begins with is a position.                              *)
LEMMA BeginsArePositions ==
  ASSUME NEW c, IsWritten(c), NEW p \in Positions(c), NEW k \in 0..Len(p)
  PROVE  Begin(p, k) \in Positions(c)
<1> DEFINE Out == { m \in Nat : m <= Len(p) /\ Begin(p, Len(p) - m) \notin Positions(c) }
<1>0. Len(p) \in Nat
  BY Begins
<1>1. SUFFICES ASSUME Out # {} PROVE FALSE
  <2>1. SUFFICES ASSUME Begin(p, k) \notin Positions(c) PROVE Out # {}
    OBVIOUS
  <2>2. Len(p) - k \in Nat /\ Len(p) - k <= Len(p) /\ Len(p) - (Len(p) - k) = k
    BY <1>0
  <2>3. Len(p) - k \in Out
    BY <2>1, <2>2
  <2>4. QED BY <2>3
<1>2. PICK m \in Out : \A n \in Out : m <= n
  <2>1. Out \in SUBSET Nat
    OBVIOUS
  <2> HIDE DEF Out
  <2>2. QED BY <1>1, <2>1, LeastNumber
<1>3. m \in Nat /\ m <= Len(p) /\ Begin(p, Len(p) - m) \notin Positions(c)
  BY <1>2
<1>4. m # 0
  <2>1. SUFFICES ASSUME m = 0 PROVE FALSE
    OBVIOUS
  <2>2. Len(p) - m = Len(p)
    BY <1>0, <2>1
  <2>3. QED BY <1>3, <2>2, Begins
<1>5. m - 1 \in Nat /\ m - 1 <= Len(p) /\ m - 1 \notin Out
  BY <1>0, <1>2, <1>3, <1>4
<1>6. Begin(p, Len(p) - (m - 1)) \in Positions(c)
  BY <1>5
<1> HIDE DEF Out
<1> DEFINE j == Len(p) - (m - 1)
<1>7. j \in 1..Len(p) /\ j - 1 = Len(p) - m
  BY <1>0, <1>3, <1>4, <1>5
<1>8. Front(Begin(p, j)) = Begin(p, j - 1) /\ Begin(p, j) # <<>> /\ Begin(p, j) \in Positions(c)
  <2> HIDE DEF j
  <2>1. Front(Begin(p, j)) = Begin(p, j - 1) /\ Begin(p, j) # <<>>
    BY <1>7, Begins
  <2>2. QED BY <1>6, <2>1 DEF j
<1>9. Begin(p, j - 1) \in Positions(c)
  <2> HIDE DEF j
  <2>1. QED BY <1>8, WrittenFacts
<1>10. QED BY <1>3, <1>7, <1>9

(* A position survives when all it begins with stay.                       *)
LEMMA SurvivesFacts ==
  ASSUME NEW c, IsWritten(c), NEW p \in Positions(c)
  PROVE  /\ Survives(c, p) <=> \A k \in 1..Len(p) : Stays(c, Begin(p, k))
         /\ \A k \in 1..Len(p) : Begin(p, k) \in Kids(c, Begin(p, k - 1))
<1>0. Len(p) \in Nat
  BY Begins
<1>1. ASSUME NEW k \in 1..Len(p)
      PROVE  /\ Begin(p, k) \in Kids(c, Begin(p, k - 1)) /\ Begin(p, k - 1) \in Positions(c)
             /\ Begin(p, k) \in ToSet(Kept(c, Begin(p, k - 1))) <=> Stays(c, Begin(p, k))
  <2>1. k \in 0..Len(p) /\ k - 1 \in 0..Len(p)
    BY <1>0
  <2>2. Begin(p, k) \in Positions(c) /\ Begin(p, k - 1) \in Positions(c)
    BY <2>1, BeginsArePositions
  <2>3. Begin(p, k) # <<>> /\ Front(Begin(p, k)) = Begin(p, k - 1)
    BY Begins
  <2> DEFINE b == Begin(p, k)
             a == Begin(p, k - 1)
  <2> HIDE DEF a, b
  <2>4. b \in Kids(c, a)
    BY <2>2, <2>3, EveryoneIsAKid DEF a, b
  <2>5. AreKept(c, a, Kept(c, a))
    BY <2>2, KeptFacts DEF a
  <2>6. /\ \A i \in 1..Len(Kept(c, a)) : Stays(c, Kept(c, a)[i])
        /\ Stays(c, b) => \E i \in 1..Len(Kept(c, a)) : Kept(c, a)[i] = b
        /\ DOMAIN Kept(c, a) = 1..Len(Kept(c, a))
    BY <2>4, <2>5 DEF AreKept
  <2>7. b \in ToSet(Kept(c, a)) <=> Stays(c, b)
    BY <2>6 DEF ToSet
  <2>8. QED BY <2>2, <2>4, <2>7 DEF a, b
<1>2. Survives(c, p) <=> \A k \in 0..(Len(p) - 1) : Begin(p, Len(Begin(p, k)) + 1) \in ToSet(Kept(c, Begin(p, k)))
  BY Zenon DEF Survives, Above, Begin
<1>3. \A k \in 0..(Len(p) - 1) : Len(Begin(p, k)) = k
  <2>1. \A k \in 0..(Len(p) - 1) : k \in 0..Len(p)
    BY <1>0
  <2>2. QED BY <2>1, Begins
<1>4. Survives(c, p) <=> \A k \in 0..(Len(p) - 1) : Begin(p, k + 1) \in ToSet(Kept(c, Begin(p, k)))
  BY <1>2, <1>3
<1>5. (\A k \in 0..(Len(p) - 1) : Begin(p, k + 1) \in ToSet(Kept(c, Begin(p, k))))
        <=> \A k \in 1..Len(p) : Begin(p, k) \in ToSet(Kept(c, Begin(p, k - 1)))
  <2>1. ASSUME \A k \in 0..(Len(p) - 1) : Begin(p, k + 1) \in ToSet(Kept(c, Begin(p, k))), NEW k \in 1..Len(p)
        PROVE  Begin(p, k) \in ToSet(Kept(c, Begin(p, k - 1)))
    <3>1. k - 1 \in 0..(Len(p) - 1) /\ (k - 1) + 1 = k
      BY <1>0
    <3>2. Begin(p, (k - 1) + 1) \in ToSet(Kept(c, Begin(p, k - 1)))
      BY <2>1, <3>1
    <3>3. QED BY <3>1, <3>2
  <2>2. ASSUME \A k \in 1..Len(p) : Begin(p, k) \in ToSet(Kept(c, Begin(p, k - 1))), NEW k \in 0..(Len(p) - 1)
        PROVE  Begin(p, k + 1) \in ToSet(Kept(c, Begin(p, k)))
    <3>1. k + 1 \in 1..Len(p) /\ (k + 1) - 1 = k
      BY <1>0
    <3>2. Begin(p, k + 1) \in ToSet(Kept(c, Begin(p, (k + 1) - 1)))
      BY <2>2, <3>1
    <3>3. QED BY <3>1, <3>2
  <2>3. QED BY <2>1, <2>2
<1>6. QED BY <1>1, <1>4, <1>5

(* The root survives, the parent of a survivor survives, and so does each   *)
(* child that stays.                                                        *)
LEMMA SurvivorFacts ==
  ASSUME NEW c, IsWritten(c)
  PROVE  /\ <<>> \in Survivors(c) /\ Survivors(c) \in SUBSET Positions(c) /\ IsFiniteSet(Survivors(c))
         /\ \A p \in Survivors(c) \ {<<>>} :
              Front(p) \in Survivors(c) /\ p \in Kids(c, Front(p)) /\ Stays(c, p)
         /\ \A p \in Survivors(c) : \A q \in Kids(c, p) : Stays(c, q) => q \in Survivors(c)
<1>1. Survivors(c) \in SUBSET Positions(c) /\ IsFiniteSet(Survivors(c)) /\ <<>> \in Positions(c)
  <2>1. Survivors(c) \in SUBSET Positions(c)
    BY DEF Survivors
  <2>2. QED BY <2>1, WrittenFacts, FS_Subset
<1>2. <<>> \in Survivors(c)
  <2>1. Len(<<>>) = 0 /\ 1..0 = {}
    OBVIOUS
  <2>2. Survives(c, <<>>)
    BY <1>1, <2>1, SurvivesFacts
  <2>3. QED BY <1>1, <2>2 DEF Survivors
<1>3. ASSUME NEW p \in Survivors(c) \ {<<>>}
      PROVE  Front(p) \in Survivors(c) /\ p \in Kids(c, Front(p)) /\ Stays(c, p)
  <2>1. p \in Positions(c) /\ Survives(c, p)
    BY DEF Survivors
  <2>2. \A k \in 1..Len(p) : Stays(c, Begin(p, k))
    BY <2>1, SurvivesFacts
  <2>3. p \in Seq(Nat) /\ Len(p) \in Nat /\ Begin(p, Len(p)) = p /\ Front(p) = Begin(p, Len(p) - 1)
    BY <2>1, Begins
  <2>4. Len(p) # 0
    BY <2>3
  <2>5. Len(p) \in 1..Len(p) /\ Len(p) - 1 \in 0..Len(p)
    BY <2>3, <2>4
  <2>6. Stays(c, p)
    BY <2>2, <2>3, <2>5
  <2>7. Front(p) \in Positions(c) /\ p \in Kids(c, Front(p))
    BY <2>1, EveryoneIsAKid
  <2> DEFINE f == Front(p)
             n == Len(p) - 1
  <2>8. f = Begin(p, n) /\ n \in 0..Len(p) /\ Len(f) = n /\ \A m \in 0..n : Begin(f, m) = Begin(p, m)
    <3>1. f = Begin(p, n) /\ n \in 0..Len(p)
      BY <2>3, <2>5
    <3> HIDE DEF f, n
    <3>2. Len(Begin(p, n)) = n /\ \A m \in 0..n : Begin(Begin(p, n), m) = Begin(p, m)
      BY <2>1, <3>1, Begins, Zenon
    <3>3. QED BY <3>1, <3>2, Zenon
  <2> HIDE DEF f
  <2>9. ASSUME NEW k \in 1..Len(f) PROVE Stays(c, Begin(f, k))
    <3>1. k \in 1..Len(p) /\ k \in 0..n
      BY <2>3, <2>8
    <3>2. Begin(f, k) = Begin(p, k)
      BY <2>8, <3>1
    <3>3. QED BY <2>2, <3>1, <3>2
  <2>10. Survives(c, f)
    BY <2>7, <2>9, SurvivesFacts DEF f
  <2>11. QED BY <2>6, <2>7, <2>10 DEF Survivors, f
<1>4. ASSUME NEW p \in Survivors(c), NEW q \in Kids(c, p), Stays(c, q) PROVE q \in Survivors(c)
  <2>1. p \in Positions(c) /\ Survives(c, p)
    BY DEF Survivors
  <2>2. \A k \in 1..Len(p) : Stays(c, Begin(p, k))
    BY <2>1, SurvivesFacts
  <2>3. q \in Positions(c) /\ q # <<>> /\ Len(p) \in Nat /\ Len(q) = Len(p) + 1 /\ Front(q) = p
    BY <2>1, KidFacts
  <2>4. Begin(q, Len(q)) = q /\ p = Begin(q, Len(q) - 1)
    BY <2>3, Begins
  <2>5. Len(q) - 1 = Len(p) /\ Len(p) \in 0..Len(q)
    BY <2>3
  <2>6. \A m \in 0..Len(p) : Begin(p, m) = Begin(q, m)
    BY <2>3, <2>4, <2>5, Begins
  <2>7. ASSUME NEW k \in 1..Len(q) PROVE Stays(c, Begin(q, k))
    <3>1. CASE k = Len(q)
      BY <1>4, <2>4, <3>1
    <3>2. CASE k # Len(q)
      <4>1. k \in 1..Len(p) /\ k \in 0..Len(p)
        BY <2>3, <3>2
      <4>2. QED BY <2>2, <2>6, <4>1
    <3>3. QED BY <3>1, <3>2
  <2>8. Survives(c, q)
    BY <2>3, <2>7, SurvivesFacts
  <2>9. QED BY <2>3, <2>8 DEF Survivors
<1>5. QED BY <1>1, <1>2, <1>3, <1>4

-----------------------------------------------------------------------------
(* The place of a survivor among what is kept of its siblings. *)
Slot(c, q) ==
  CHOOSE i \in DOMAIN Kept(c, Front(q)) : Kept(c, Front(q))[i] = q

(* What is kept of the children of a survivor are the survivors among them, *)
(* in order and once.                                                       *)
LEMMA KeptSurvive ==
  ASSUME NEW c, IsWritten(c), NEW p \in Survivors(c)
  PROVE  /\ Kept(c, p) \in Seq(Survivors(c) \ {<<>>}) /\ Len(Kept(c, p)) \in Nat
         /\ DOMAIN Kept(c, p) = 1..Len(Kept(c, p))
         /\ \A i \in 1..Len(Kept(c, p)) :
              /\ Kept(c, p)[i] \in Survivors(c) \ {<<>>} /\ Front(Kept(c, p)[i]) = p
              /\ PlaceAmong(c, Kept(c, p)[i]) \in Nat
         /\ \A i, j \in 1..Len(Kept(c, p)) :
              i < j => PlaceAmong(c, Kept(c, p)[i]) < PlaceAmong(c, Kept(c, p)[j])
         /\ \A i, j \in 1..Len(Kept(c, p)) : Kept(c, p)[i] = Kept(c, p)[j] => i = j
         /\ \A q \in Survivors(c) \ {<<>>} : Front(q) = p => \E i \in 1..Len(Kept(c, p)) : Kept(c, p)[i] = q
<1> DEFINE k == Kept(c, p)
<1>0. p \in Positions(c)
  BY SurvivorFacts
<1>1. AreKept(c, p, k)
  BY <1>0, KeptFacts
<1> HIDE DEF k
<1>2. /\ k \in Seq(Positions(c)) /\ Len(k) \in Nat
      /\ \A i \in 1..Len(k) : k[i] \in Kids(c, p) /\ Stays(c, k[i]) /\ PlaceAmong(c, k[i]) \in Nat
      /\ \A q \in Kids(c, p) : Stays(c, q) => \E i \in 1..Len(k) : k[i] = q
      /\ \A i, j \in 1..Len(k) : i < j => PlaceAmong(c, k[i]) < PlaceAmong(c, k[j])
  BY <1>1 DEF AreKept
<1>3. ASSUME NEW i \in 1..Len(k)
      PROVE  k[i] \in Survivors(c) \ {<<>>} /\ Front(k[i]) = p
  <2>1. k[i] \in Kids(c, p) /\ Stays(c, k[i])
    BY <1>2
  <2>2. k[i] # <<>> /\ Front(k[i]) = p
    BY <1>0, <2>1, KidFacts
  <2>3. k[i] \in Survivors(c)
    BY <2>1, SurvivorFacts
  <2>4. QED BY <2>2, <2>3
<1>4. DOMAIN k = 1..Len(k)
  BY <1>2
<1>5. k \in Seq(Survivors(c) \ {<<>>})
  BY <1>2, <1>3, <1>4
<1>6. ASSUME NEW i \in 1..Len(k), NEW j \in 1..Len(k), k[i] = k[j] PROVE i = j
  <2>1. ~(i < j) /\ ~(j < i)
    BY <1>2, <1>6
  <2>2. QED BY <2>1
<1>7. ASSUME NEW q \in Survivors(c) \ {<<>>}, Front(q) = p PROVE \E i \in 1..Len(k) : k[i] = q
  <2>1. q \in Kids(c, p) /\ Stays(c, q)
    BY <1>7, SurvivorFacts
  <2>2. QED BY <1>2, <2>1
<1>8. QED BY <1>2, <1>3, <1>4, <1>5, <1>6, <1>7 DEF k

(* Every survivor but the root has a slot.                                  *)
LEMMA SlotFacts ==
  ASSUME NEW c, IsWritten(c), NEW q \in Survivors(c) \ {<<>>}
  PROVE  /\ Slot(c, q) \in 1..Len(Kept(c, Front(q))) /\ Kept(c, Front(q))[Slot(c, q)] = q
         /\ Slot(c, q) - 1 \in Nat
<1> DEFINE p == Front(q)
           k == Kept(c, p)
<1>1. p \in Survivors(c)
  BY SurvivorFacts
<1>2. /\ Len(k) \in Nat /\ DOMAIN k = 1..Len(k)
      /\ \E i \in 1..Len(k) : k[i] = q
  BY <1>1, KeptSurvive
<1>3. Slot(c, q) = CHOOSE i \in DOMAIN k : k[i] = q
  BY DEF Slot
<1> HIDE DEF k, p
<1>4. Slot(c, q) \in 1..Len(k) /\ k[Slot(c, q)] = q
  BY <1>2, <1>3
<1>5. Slot(c, q) - 1 \in Nat
  BY <1>2, <1>4
<1>6. QED BY <1>4, <1>5 DEF k, p

(* The path of a survivor: as long as the position, and the slots on it.   *)
LEMMA PathIs ==
  ASSUME NEW c, IsWritten(c), NEW p \in Survivors(c)
  PROVE  /\ Path(c, p) \in Seq(Nat) /\ Len(p) \in Nat /\ Len(Path(c, p)) = Len(p)
         /\ \A k \in 1..Len(p) :
              /\ Begin(p, k) \in Survivors(c) \ {<<>>}
              /\ Path(c, p)[k] = Slot(c, Begin(p, k)) - 1
<1>1. p \in Positions(c) /\ Survives(c, p)
  BY DEF Survivors
<1>2. p \in Seq(Nat) /\ Len(p) \in Nat /\ DOMAIN p = 1..Len(p)
  BY <1>1, Begins
<1>3. ASSUME NEW k \in 1..Len(p)
      PROVE  Begin(p, k) \in Survivors(c) \ {<<>>} /\ Front(Begin(p, k)) = Begin(p, k - 1)
  <2>1. k \in 0..Len(p)
    BY <1>2
  <2>2. Begin(p, k) # <<>> /\ Front(Begin(p, k)) = Begin(p, k - 1)
    BY <1>1, Begins
  <2>3. Begin(p, k) \in Positions(c)
    BY <1>1, <2>1, BeginsArePositions
  <2>4. Len(Begin(p, k)) = k /\ \A m \in 0..k : Begin(Begin(p, k), m) = Begin(p, m)
    BY <1>1, <2>1, Begins
  <2>5. \A m \in 1..Len(p) : Stays(c, Begin(p, m))
    BY <1>1, SurvivesFacts
  <2> DEFINE b == Begin(p, k)
  <2> HIDE DEF b
  <2>6. ASSUME NEW m \in 1..Len(b) PROVE Stays(c, Begin(b, m))
    <3>1. m \in 0..k /\ m \in 1..Len(p)
      BY <1>2, <2>4 DEF b
    <3>2. QED BY <2>4, <2>5, <3>1 DEF b
  <2>7. Survives(c, b)
    BY <2>3, <2>6, SurvivesFacts DEF b
  <2>8. QED BY <2>2, <2>3, <2>7 DEF Survivors, b
<1>4. Path(c, p) = [k \in 1..Len(p) |->
        (CHOOSE i \in DOMAIN Kept(c, Begin(p, k - 1)) : Kept(c, Begin(p, k - 1))[i] = Begin(p, k)) - 1]
  BY <1>2, Zenon DEF Path, Begin
<1>5. ASSUME NEW k \in 1..Len(p) PROVE Path(c, p)[k] = Slot(c, Begin(p, k)) - 1
  <2>1. Slot(c, Begin(p, k)) =
          CHOOSE i \in DOMAIN Kept(c, Begin(p, k - 1)) : Kept(c, Begin(p, k - 1))[i] = Begin(p, k)
    BY <1>3, Zenon DEF Slot
  <2>2. Path(c, p)[k] =
          (CHOOSE i \in DOMAIN Kept(c, Begin(p, k - 1)) : Kept(c, Begin(p, k - 1))[i] = Begin(p, k)) - 1
    BY <1>4, Zenon
  <2>3. QED BY <2>1, <2>2, Zenon
<1>6. \A k \in 1..Len(p) : Path(c, p)[k] \in Nat
  BY <1>3, <1>5, SlotFacts
<1>7. Path(c, p) \in Seq(Nat) /\ Len(Path(c, p)) = Len(p)
  <2> DEFINE f == Path(c, p)
  <2>1. DOMAIN f = 1..Len(p) /\ f = [k \in 1..Len(p) |-> f[k]]
    BY <1>4, Zenon
  <2> HIDE DEF f
  <2>2. f \in [1..Len(p) -> Nat]
    BY <1>6, <2>1 DEF f
  <2>3. f \in Seq(Nat) /\ Len(f) = Len(p)
    BY <1>2, <2>2
  <2>4. QED BY <2>3 DEF f
<1>8. QED BY <1>2, <1>3, <1>5, <1>7

(* The path of a survivor goes on where that of its parent ends.           *)
LEMMA PathGoesOn ==
  ASSUME NEW c, IsWritten(c), NEW p \in Survivors(c) \ {<<>>}
  PROVE  /\ Front(p) \in Survivors(c) /\ Path(c, p) # <<>>
         /\ Front(Path(c, p)) = Path(c, Front(p)) /\ Last(Path(c, p)) = Slot(c, p) - 1
         /\ Path(c, p) = Append(Path(c, Front(p)), Slot(c, p) - 1)
<1> DEFINE f == Front(p)
           n == Len(p)
           a == Path(c, p)
           b == Path(c, f)
<1>1. f \in Survivors(c) /\ p \in Positions(c)
  BY SurvivorFacts
<1>2. /\ p \in Seq(Nat) /\ n \in Nat /\ Begin(p, n) = p /\ f = Begin(p, n - 1)
      /\ \A k \in 0..n : Len(Begin(p, k)) = k /\ \A m \in 0..k : Begin(Begin(p, k), m) = Begin(p, m)
  BY <1>1, Begins
<1>3. n # 0
  BY <1>2
<1>4. /\ a \in Seq(Nat) /\ Len(a) = n
      /\ \A k \in 1..n : a[k] = Slot(c, Begin(p, k)) - 1
  BY PathIs
<1>5. /\ b \in Seq(Nat) /\ Len(b) = Len(f)
      /\ \A k \in 1..Len(f) : b[k] = Slot(c, Begin(f, k)) - 1
  BY <1>1, PathIs
<1> HIDE DEF f, a, b, n
<1>6. n - 1 \in 0..n /\ n \in 1..n
  BY <1>2, <1>3
<1>7. Len(f) = n - 1 /\ \A m \in 0..(n - 1) : Begin(f, m) = Begin(p, m)
  BY <1>2, <1>6
<1>8. ASSUME NEW k \in 1..(n - 1) PROVE b[k] = a[k]
  <2>1. k \in 1..n /\ k \in 0..(n - 1)
    BY <1>2
  <2>2. b[k] = Slot(c, Begin(f, k)) - 1 /\ Begin(f, k) = Begin(p, k)
    BY <1>5, <1>7, <2>1
  <2>3. a[k] = Slot(c, Begin(p, k)) - 1
    BY <1>4, <2>1
  <2>4. QED BY <2>2, <2>3, Zenon
<1>9. a # <<>>
  BY <1>3, <1>4
<1>10. /\ Front(a) \in Seq(Nat) /\ Len(Front(a)) = n - 1 /\ Last(a) = a[n] /\ Last(a) \in Nat
       /\ \A k \in 1..(n - 1) : Front(a)[k] = a[k]
       /\ a = Append(Front(a), Last(a))
  BY <1>4, <1>9, FrontFacts
<1>11. Front(a) = b
  <2> DEFINE d == Front(a)
  <2> HIDE DEF d
  <2>1. d \in Seq(Nat) /\ Len(d) = n - 1 /\ \A k \in 1..(n - 1) : d[k] = b[k]
    BY <1>8, <1>10 DEF d
  <2>2. d = b
    BY <1>5, <1>7, <2>1, SeqEqual
  <2>3. QED BY <2>2 DEF d
<1>12. a[n] = Slot(c, p) - 1
  <2>1. a[n] = Slot(c, Begin(p, n)) - 1
    BY <1>4, <1>6
  <2>2. QED BY <1>2, <2>1, Zenon
<1>13. QED BY <1>1, <1>9, <1>10, <1>11, <1>12, Zenon DEF f, a, b

(* The i-th of what is kept is one step further, by the number i - 1.      *)
LEMMA KeptPath ==
  ASSUME NEW c, IsWritten(c), NEW p \in Survivors(c), NEW i \in 1..Len(Kept(c, p))
  PROVE  /\ Kept(c, p)[i] \in Survivors(c) \ {<<>>} /\ Front(Kept(c, p)[i]) = p
         /\ Path(c, Kept(c, p)[i]) = Append(Path(c, p), i - 1)
<1> DEFINE q == Kept(c, p)[i]
           s == Slot(c, q)
<1>1. q \in Survivors(c) \ {<<>>} /\ Front(q) = p
  BY KeptSurvive
<1>2. s \in 1..Len(Kept(c, p)) /\ Kept(c, p)[s] = q
  <2>1. Slot(c, q) \in 1..Len(Kept(c, Front(q))) /\ Kept(c, Front(q))[Slot(c, q)] = q
    BY <1>1, SlotFacts
  <2>2. QED BY <1>1, <2>1, Zenon
<1>3. s = i
  <2>1. \A k, j \in 1..Len(Kept(c, p)) : Kept(c, p)[k] = Kept(c, p)[j] => k = j
    BY KeptSurvive, Zenon
  <2>2. QED BY <1>2, <2>1, Zenon
<1>4. Path(c, q) = Append(Path(c, Front(q)), Slot(c, q) - 1)
  BY <1>1, PathGoesOn
<1>5. Path(c, q) = Append(Path(c, p), i - 1)
  BY <1>1, <1>3, <1>4, Zenon
<1>6. QED BY <1>1, <1>5

(* The path of the root is empty.                                           *)
LEMMA PathOfRoot ==
  ASSUME NEW c, IsWritten(c)
  PROVE  Path(c, <<>>) = <<>>
<1>1. <<>> \in Survivors(c)
  BY SurvivorFacts
<1>2. Path(c, <<>>) \in Seq(Nat) /\ Len(Path(c, <<>>)) = Len(<<>>)
  <2> DEFINE root == <<>>
  <2> HIDE DEF root
  <2>1. root \in Survivors(c)
    BY <1>1 DEF root
  <2>2. Path(c, root) \in Seq(Nat) /\ Len(Path(c, root)) = Len(root)
    BY <2>1, PathIs
  <2>3. QED BY <2>2 DEF root
<1> DEFINE a == Path(c, <<>>)
<1> HIDE DEF a
<1>3. a \in Seq(Nat) /\ Len(a) = 0
  BY <1>2 DEF a
<1>4. a = <<>>
  BY <1>3
<1>5. QED BY <1>4 DEF a

(* Two survivors have different paths.                                     *)
LEMMA PathsDiffer ==
  ASSUME NEW c, IsWritten(c), NEW p \in Survivors(c), NEW q \in Survivors(c), Path(c, p) = Path(c, q)
  PROVE  p = q
<1> DEFINE Alike(x, y) == x \in Survivors(c) /\ y \in Survivors(c) /\ Path(c, x) = Path(c, y) /\ x # y
           L == { n \in Nat : \E x, y \in Survivors(c) : Alike(x, y) /\ Len(x) = n }
<1>1. SUFFICES ASSUME p # q PROVE FALSE
  OBVIOUS
<1>2. L # {} /\ L \in SUBSET Nat
  <2>1. Len(p) \in Nat
    BY PathIs
  <2>2. Len(p) \in L
    BY <1>1, <2>1
  <2>3. QED BY <2>2
<1>3. PICK n \in L : \A m \in L : n <= m
  <2> HIDE DEF L
  <2>1. QED BY <1>2, LeastNumber
<1>4. PICK x \in Survivors(c), y \in Survivors(c) : Alike(x, y) /\ Len(x) = n
  BY <1>3
<1>5. /\ Len(x) \in Nat /\ Len(y) \in Nat /\ Len(Path(c, x)) = Len(x) /\ Len(Path(c, y)) = Len(y)
      /\ x \in Seq(Nat) /\ y \in Seq(Nat)
  BY PathIs, SurvivorFacts, WrittenFacts
<1>6. Len(x) = Len(y)
  BY <1>4, <1>5
<1>7. x # <<>> /\ y # <<>>
  <2>1. x # y
    BY <1>4
  <2>2. QED BY <1>5, <1>6, <2>1
<1>8. /\ Front(x) \in Survivors(c) /\ Front(Path(c, x)) = Path(c, Front(x)) /\ Last(Path(c, x)) = Slot(c, x) - 1
      /\ Front(y) \in Survivors(c) /\ Front(Path(c, y)) = Path(c, Front(y)) /\ Last(Path(c, y)) = Slot(c, y) - 1
  BY <1>7, PathGoesOn
<1>9. Path(c, Front(x)) = Path(c, Front(y)) /\ Slot(c, x) - 1 = Slot(c, y) - 1
  BY <1>4, <1>8, Zenon
<1>10. Slot(c, x) \in 1..Len(Kept(c, Front(x))) /\ Kept(c, Front(x))[Slot(c, x)] = x
       /\ Slot(c, y) \in 1..Len(Kept(c, Front(y))) /\ Kept(c, Front(y))[Slot(c, y)] = y
  BY <1>7, SlotFacts
<1>11. Slot(c, x) = Slot(c, y)
  <2>1. Slot(c, x) \in Int /\ Slot(c, y) \in Int
    <3>1. Len(Kept(c, Front(x))) \in Nat /\ Len(Kept(c, Front(y))) \in Nat
      BY <1>8, KeptSurvive
    <3>2. QED BY <1>10, <3>1
  <2>2. QED BY <1>9, <2>1
<1>12. Front(x) # Front(y)
  <2>1. SUFFICES ASSUME Front(x) = Front(y) PROVE x = y
    BY <1>4
  <2>2. QED BY <1>10, <1>11, <2>1, Zenon
<1>13. Len(Front(x)) = n - 1 /\ n - 1 \in Nat
  <2>1. Len(Front(x)) = Len(x) - 1 /\ Len(x) \in Nat \ {0}
    BY <1>5, <1>7, FrontFacts
  <2>2. QED BY <1>4, <2>1
<1>14. n - 1 \in L
  BY <1>8, <1>9, <1>12, <1>13
<1>15. n <= n - 1
  <2> HIDE DEF L
  <2>1. QED BY <1>3, <1>14
<1>16. QED BY <1>13, <1>15

-----------------------------------------------------------------------------
(* Trees whose references grow with the depth. *)

(* The children that a node lists.                                          *)
NodeKids(t, ref) == t.node[ref].kids

(* A tree whose references are sequences that are longer for a child than   *)
(* for its parent, where lists and parents agree and nobody is listed twice.*)
Grows(t) ==
  /\ t.root \in Refs(t) /\ t.node[t.root].parent = NoRef
  /\ \A ref \in Refs(t) : ref \in Seq(Nat)
  /\ \A ref \in Refs(t) : DOMAIN NodeKids(t, ref) = 1..Len(NodeKids(t, ref))
  /\ \A ref \in Refs(t) : \A i \in 1..Len(NodeKids(t, ref)) :
       NodeKids(t, ref)[i] \in Refs(t) \ {t.root} /\ t.node[NodeKids(t, ref)[i]].parent = ref
  /\ \A ref \in Refs(t) : \A i, j \in 1..Len(NodeKids(t, ref)) :
       NodeKids(t, ref)[i] = NodeKids(t, ref)[j] => i = j
  /\ \A ref \in Refs(t) \ {t.root} :
       /\ t.node[ref].parent \in Refs(t) /\ Len(t.node[ref].parent) < Len(ref)
       /\ \E i \in 1..Len(NodeKids(t, t.node[ref].parent)) : NodeKids(t, t.node[ref].parent)[i] = ref

(* Such a tree is rooted: of a part that is closed and not the whole, a     *)
(* shortest node outside would have its parent inside.                      *)
LEMMA GrownIsRooted ==
  ASSUME NEW t, Grows(t)
  PROVE  IsRootedTree(t)
<1> DEFINE Kid(up) == NodeKids(t, up)
           Up(ref) == t.node[ref].parent
<1>1. /\ t.root \in Refs(t) /\ Up(t.root) = NoRef
      /\ \A ref \in Refs(t) : ref \in Seq(Nat)
      /\ \A ref \in Refs(t) : DOMAIN Kid(ref) = 1..Len(Kid(ref))
      /\ \A ref \in Refs(t) : \A i \in 1..Len(Kid(ref)) : Kid(ref)[i] \in Refs(t) \ {t.root} /\ Up(Kid(ref)[i]) = ref
      /\ \A ref \in Refs(t) : \A i, j \in 1..Len(Kid(ref)) : Kid(ref)[i] = Kid(ref)[j] => i = j
      /\ \A ref \in Refs(t) \ {t.root} :
           Up(ref) \in Refs(t) /\ Len(Up(ref)) < Len(ref) /\ \E i \in 1..Len(Kid(Up(ref))) : Kid(Up(ref))[i] = ref
  BY DEF Grows
<1>2. ASSUME NEW ref, NEW place
      PROVE  /\ place \in Places(t, ref) =>
                  \E up \in Refs(t) : \E i \in DOMAIN Kid(up) : place = <<up, i>> /\ Kid(up)[i] = ref
             /\ \A up \in Refs(t) : \A i \in DOMAIN Kid(up) :
                  Kid(up)[i] = ref => <<up, i>> \in Places(t, ref)
  BY PlacesFacts, Zenon DEF NodeKids
<1>3. \A up : KidsOf(t, up) = { Kid(up)[i] : i \in DOMAIN Kid(up) }
  BY DEF KidsOf, ToSet, NodeKids
<1> HIDE DEF Kid, Up
<1>4. Places(t, t.root) = {}
  <2>1. SUFFICES ASSUME NEW place \in Places(t, t.root) PROVE FALSE
    OBVIOUS
  <2>2. PICK up \in Refs(t) : \E i \in DOMAIN Kid(up) : place = <<up, i>> /\ Kid(up)[i] = t.root
    BY <1>2, <2>1
  <2>3. QED BY <1>1, <2>2
<1>5. ASSUME NEW ref \in Refs(t) PROVE KidsOf(t, ref) \subseteq Refs(t)
  BY <1>1, <1>3
<1>6. ASSUME NEW ref \in Refs(t) \ {t.root}
      PROVE  \E place \in Places(t, ref) : Places(t, ref) = {place} /\ place[1] = Up(ref)
  <2>1. PICK i \in 1..Len(Kid(Up(ref))) : Kid(Up(ref))[i] = ref
    BY <1>1
  <2>2. Up(ref) \in Refs(t) /\ i \in DOMAIN Kid(Up(ref))
    BY <1>1, <2>1
  <2> DEFINE place == <<Up(ref), i>>
  <2>3. place \in Places(t, ref)
    BY <1>2, <2>1, <2>2
  <2>4. ASSUME NEW other \in Places(t, ref) PROVE other = place
    <3>0. PICK up \in Refs(t) : \E j \in DOMAIN Kid(up) : other = <<up, j>> /\ Kid(up)[j] = ref
      BY <1>2
    <3>1. PICK j \in DOMAIN Kid(up) : other = <<up, j>> /\ Kid(up)[j] = ref
      BY <3>0
    <3>2. j \in 1..Len(Kid(up)) /\ Kid(up)[j] = ref
      BY <1>1, <3>1
    <3>3. Up(Kid(up)[j]) = up
      BY <1>1, <3>2
    <3>4. up = Up(ref)
      BY <3>2, <3>3
    <3>5. j = i
      BY <1>1, <2>1, <2>2, <3>2, <3>4
    <3>6. QED BY <3>1, <3>4, <3>5
  <2>5. place[1] = Up(ref)
    OBVIOUS
  <2> HIDE DEF place
  <2>6. Places(t, ref) = {place}
    BY <2>3, <2>4
  <2>7. QED BY <2>3, <2>5, <2>6
<1>7. ASSUME NEW S \in SUBSET Refs(t), t.root \in S, \A ref \in S : KidsOf(t, ref) \subseteq S
      PROVE  S = Refs(t)
  <2> DEFINE L == { Len(ref) : ref \in Refs(t) \ S }
  <2>1. SUFFICES ASSUME L # {} PROVE FALSE
    OBVIOUS
  <2>2. PICK n \in L : \A m \in L : n <= m
    <3>1. L \in SUBSET Nat
      BY <1>1
    <3> HIDE DEF L
    <3>2. QED BY <2>1, <3>1, LeastNumber
  <2>3. PICK ref \in Refs(t) \ S : Len(ref) = n
    BY <2>2
  <2>4. ref \in Refs(t) \ {t.root}
    BY <1>7
  <2>5. Up(ref) \in Refs(t) /\ Len(Up(ref)) < Len(ref) /\ \E i \in 1..Len(Kid(Up(ref))) : Kid(Up(ref))[i] = ref
    BY <1>1, <2>4
  <2>6. Len(Up(ref)) \in Nat /\ Len(ref) \in Nat
    BY <1>1, <2>5
  <2>7. Up(ref) \in S
    <3>1. SUFFICES ASSUME Up(ref) \notin S PROVE FALSE
      OBVIOUS
    <3>2. Len(Up(ref)) \in L
      BY <2>5, <3>1
    <3>3. n <= Len(Up(ref))
      <4> HIDE DEF L
      <4>1. QED BY <2>2, <3>2
    <3>4. QED BY <2>3, <2>5, <2>6, <3>3
  <2>8. ref \in KidsOf(t, Up(ref))
    BY <1>1, <1>3, <2>5
  <2>9. QED BY <1>7, <2>7, <2>8
<1>8. QED BY <1>1, <1>4, <1>5, <1>6, <1>7, RootedTree, Zenon DEF Up, KidsKnown, ClosedParts

-----------------------------------------------------------------------------
(* What is omitted is what does not survive. *)

(* A document that the adapter does not refuse.                             *)
IsTaken(c) == IsWritten(c) /\ ~Refused(c)

(* What it has not been refused for.                                        *)
LEMMA TakenFacts ==
  ASSUME NEW c, IsTaken(c)
  PROVE  /\ IsWritten(c)
         /\ c.format \in DataFormats => \A p \in Survivors(c) : Kind(c, p) \in Containers \cup Scalars
         /\ c.format \notin DataFormats => \A p \in Positions(c) : Kind(c, p) # "entity"
         /\ Cardinality(Counted(c)) <= c.limits.nodes
         /\ \A p \in Counted(c) : Len(p) + 1 <= c.limits.depth
<1>1. IsWritten(c) /\ ~Refused(c)
  BY DEF IsTaken
<1>2. ~OverLimit(c)
  BY <1>1 DEF Refused
<1>3. IsFiniteSet(Counted(c)) /\ \A p \in Counted(c) : Len(p) \in Nat
  <2>1. Counted(c) \in SUBSET Positions(c)
    BY DEF Counted, Survivors
  <2>2. QED BY <1>1, <2>1, WrittenFacts, FS_Subset
<1>4. c.limits.nodes \in Nat /\ c.limits.depth \in Nat /\ Cardinality(Counted(c)) \in Nat
  BY <1>1, <1>3, WrittenFacts, FS_CardinalityType
<1>5. Cardinality(Counted(c)) <= c.limits.nodes /\ \A p \in Counted(c) : Len(p) + 1 <= c.limits.depth
  BY <1>2, <1>3, <1>4 DEF OverLimit
<1>6. c.format \in DataFormats => \A p \in Survivors(c) : Kind(c, p) \in Containers \cup Scalars
  BY <1>1 DEF Refused, UnsupportedValue
<1>7. c.format \notin DataFormats => \A p \in Positions(c) : Kind(c, p) # "entity"
  BY <1>1 DEF Refused
<1>8. QED BY <1>1, <1>5, <1>6, <1>7

(* The reasons for leaving a position out: a later entry with its key, a    *)
(* comment, a topicmeta.                                                    *)
Gone(c, q) ==
  \/ \E r \in SameEntry(c, q) : Last(r) > Last(q)
  \/ Kind(c, q) = "comment"
  \/ c.format = "dita" /\ Kind(c, q) = "topicmeta"

(* A position without such a reason stays, and a survivor has none.         *)
LEMMA GoneOrStays ==
  ASSUME NEW c, IsTaken(c), NEW q \in Positions(c) \ {<<>>}
  PROVE  /\ ~Gone(c, q) => Stays(c, q)
         /\ q \in Survivors(c) => ~Gone(c, q)
<1>0. IsWritten(c)
  BY TakenFacts
<1>1. Front(q) \in Positions(c) /\ q \in Kids(c, Front(q))
  BY <1>0, EveryoneIsAKid
<1>2. SameEntry(c, q) \in SUBSET Kids(c, Front(q))
  BY <1>0, <1>1, EntryFacts
<1>3. Last(q) \in Nat /\ \A r \in SameEntry(c, q) : Last(r) \in Nat
  BY <1>0, <1>1, <1>2, KidFacts
<1>4. (\E r \in SameEntry(c, q) : Last(r) > Last(q)) <=> ~\A r \in SameEntry(c, q) : Last(r) <= Last(q)
  BY <1>3
<1>5. CASE c.format \in DataFormats
  <2>1. c.format # "dita" /\ (Stays(c, q) <=> \A r \in SameEntry(c, q) : Last(r) <= Last(q))
    BY <1>5 DEF Stays, DataFormats
  <2>2. q \in Survivors(c) => Stays(c, q) /\ Kind(c, q) # "comment"
    BY <1>0, <1>5, SurvivorFacts, TakenFacts DEF Containers, Scalars
  <2>3. QED BY <1>4, <2>1, <2>2 DEF Gone
<1>6. CASE c.format \notin DataFormats
  <2>1. SameEntry(c, q) = {q}
    BY <1>6 DEF SameEntry
  <2>2. ~\E r \in SameEntry(c, q) : Last(r) > Last(q)
    BY <1>3, <2>1
  <2>3. Kind(c, q) # "entity"
    BY <1>6, TakenFacts
  <2>4. Stays(c, q) <=> ~Gone(c, q)
    BY <1>6, <2>2, <2>3 DEF Stays, Gone, IsElement
  <2>5. q \in Survivors(c) => Stays(c, q)
    BY <1>0, SurvivorFacts
  <2>6. QED BY <2>4, <2>5
<1>7. QED BY <1>5, <1>6

(* What Omitted says is omitted, there or above, are the positions that do  *)
(* not survive.                                                             *)
LEMMA OmittedFacts ==
  ASSUME NEW c, IsTaken(c), NEW p \in Positions(c)
  PROVE  Omitted(c, p) <=> p \notin Survivors(c)
<1>0. IsWritten(c)
  BY TakenFacts
<1>1. /\ Len(p) \in Nat /\ Begin(p, 0) = <<>> /\ Begin(p, Len(p)) = p
      /\ \A k \in 1..Len(p) : Begin(p, k) # <<>>
  BY <1>0, Begins
<1>2. ASSUME NEW k \in 1..Len(p) PROVE Begin(p, k) \in Positions(c) \ {<<>>}
  <2>1. k \in 0..Len(p)
    BY <1>1
  <2>2. QED BY <1>0, <1>1, <2>1, BeginsArePositions
<1>3. Above(p) = { Begin(p, k) : k \in 0..(Len(p) - 1) }
  BY Zenon DEF Above, Begin
<1>4. (Above(p) \cup {p}) \ {<<>>} = { Begin(p, k) : k \in 1..Len(p) }
  <2>1. ASSUME NEW q \in (Above(p) \cup {p}) \ {<<>>} PROVE \E k \in 1..Len(p) : q = Begin(p, k)
    <3>1. q \in { Begin(p, k) : k \in 0..(Len(p) - 1) } \/ q = Begin(p, Len(p))
      BY <1>1, <1>3, <2>1
    <3>2. PICK k \in 0..Len(p) : q = Begin(p, k)
      BY <1>1, <3>1
    <3>3. k # 0
      BY <1>1, <2>1, <3>2
    <3>4. QED BY <1>1, <3>2, <3>3
  <2>2. ASSUME NEW k \in 1..Len(p) PROVE Begin(p, k) \in (Above(p) \cup {p}) \ {<<>>}
    <3>1. k \in 0..(Len(p) - 1) \/ k = Len(p)
      BY <1>1
    <3>2. QED BY <1>1, <1>3, <3>1
  <2>3. QED BY <2>1, <2>2
<1>5. Omitted(c, p) <=> \E q \in (Above(p) \cup {p}) \ {<<>>} : Gone(c, q)
  BY Zenon DEF Omitted, Gone
<1>6. Omitted(c, p) <=> \E k \in 1..Len(p) : Gone(c, Begin(p, k))
  BY <1>4, <1>5
<1>7. ASSUME p \in Survivors(c) PROVE ~Omitted(c, p)
  <2>1. \A k \in 1..Len(p) : Begin(p, k) \in Survivors(c)
    BY <1>0, <1>7, PathIs
  <2>2. \A k \in 1..Len(p) : ~Gone(c, Begin(p, k))
    BY <1>2, <2>1, GoneOrStays
  <2>3. QED BY <1>6, <2>2
<1>8. ASSUME ~Omitted(c, p) PROVE p \in Survivors(c)
  <2>1. \A k \in 1..Len(p) : Stays(c, Begin(p, k))
    BY <1>2, <1>6, <1>8, GoneOrStays
  <2>2. QED BY <1>0, <2>1, SurvivesFacts DEF Survivors
<1>9. QED BY <1>7, <1>8

-----------------------------------------------------------------------------
(* The tree of an XML document. *)

(* A sequence that has an item for each item of another.                   *)
LEMMA ItemByItem ==
  ASSUME NEW X, NEW n \in Nat, NEW s, s = [i \in 1..n |-> s[i]], \A i \in 1..n : s[i] \in X
  PROVE  s \in Seq(X) /\ Len(s) = n /\ DOMAIN s = 1..n
<1>1. s \in [1..n -> X]
  OBVIOUS
<1>2. QED BY <1>1

(* The references of an XML tree are the paths of the survivors, and each   *)
(* has the node of its element: no two survivors share a reference.         *)
LEMMA XmlNode ==
  ASSUME NEW c, IsWritten(c), c.format \notin DataFormats
  PROVE  /\ Adapted(c).root = <<>>
         /\ Refs(Adapted(c)) = { Path(c, p) : p \in Survivors(c) }
         /\ \A p \in Survivors(c) : Adapted(c).node[Path(c, p)] = ElementNode(c, p)
<1> DEFINE pairs == { <<Path(c, p), ElementNode(c, p)>> : p \in Survivors(c) }
           m == MapOf(pairs)
<1>1. Adapted(c).root = <<>> /\ Adapted(c).node = m
  BY DEF Adapted, XmlNodes
<1>2. DOMAIN m = { pair[1] : pair \in pairs }
  BY MapFacts
<1>3. DOMAIN m = { Path(c, p) : p \in Survivors(c) }
  <2>1. ASSUME NEW p \in Survivors(c) PROVE Path(c, p) \in DOMAIN m
    <3>1. <<Path(c, p), ElementNode(c, p)>> \in pairs
      OBVIOUS
    <3>2. <<Path(c, p), ElementNode(c, p)>>[1] = Path(c, p)
      OBVIOUS
    <3> HIDE DEF pairs
    <3>3. QED BY <1>2, <3>1, <3>2
  <2>2. ASSUME NEW x \in DOMAIN m PROVE \E p \in Survivors(c) : x = Path(c, p)
    <3>1. PICK pair \in pairs : x = pair[1]
      <4> HIDE DEF pairs
      <4>1. QED BY <1>2
    <3>2. PICK p \in Survivors(c) : pair = <<Path(c, p), ElementNode(c, p)>>
      OBVIOUS
    <3>3. QED BY <3>1, <3>2
  <2> HIDE DEF m
  <2>3. QED BY <2>1, <2>2
<1>4. \A x \in DOMAIN m : \E pair \in pairs : pair[1] = x /\ m[x] = pair[2]
  BY MapFacts, Zenon
<1> HIDE DEF m
<1>5. ASSUME NEW p \in Survivors(c) PROVE m[Path(c, p)] = ElementNode(c, p)
  <2>1. PICK pair \in pairs : pair[1] = Path(c, p) /\ m[Path(c, p)] = pair[2]
    BY <1>3, <1>4
  <2>2. PICK q \in Survivors(c) : pair = <<Path(c, q), ElementNode(c, q)>>
    OBVIOUS
  <2>3. Path(c, q) = Path(c, p) /\ m[Path(c, p)] = ElementNode(c, q)
    BY <2>1, <2>2
  <2>4. q = p
    BY <2>3, PathsDiffer
  <2>5. QED BY <2>3, <2>4
<1>6. QED BY <1>1, <1>3, <1>5 DEF Refs

(* The fields of such a node: its parent is the parent's path, its children *)
(* those of what is kept.                                                   *)
LEMMA XmlFields ==
  ASSUME NEW c, IsWritten(c), c.format \notin DataFormats, NEW p \in Survivors(c),
         NEW n, n = Adapted(c).node[Path(c, p)]
  PROVE  /\ p = <<>> => n.parent = NoRef
         /\ p # <<>> => n.parent = Path(c, Front(p))
         /\ Len(n.kids) = Len(Kept(c, p)) /\ DOMAIN n.kids = 1..Len(Kept(c, p))
         /\ \A i \in 1..Len(Kept(c, p)) : n.kids[i] = Path(c, Kept(c, p)[i])
         /\ IsList(n.kids) /\ n.location = p /\ n.content = ElementContent(c, p)
         /\ n.id = IF c.format = "dita" THEN DitaId(c, p) ELSE XmlId(c, p)
<1> DEFINE u == IF p = <<>> THEN NoRef ELSE Front(Path(c, p))
           k == [i \in DOMAIN Kept(c, p) |-> Append(Path(c, p), i - 1)]
           y == IF c.format = "dita" THEN DitaId(c, p) ELSE XmlId(c, p)
<1>1. n = NodeOf(u, k, Kind(c, p), y, ElementContent(c, p), p)
  <2>1. n = ElementNode(c, p)
    BY XmlNode
  <2>2. QED BY <2>1, NodesOfXml, Zenon
<1>2. n.parent = u /\ n.kids = k /\ n.id = y /\ n.content = ElementContent(c, p) /\ n.location = p
  <2> DEFINE s == ElementContent(c, p)
             z == Kind(c, p)
  <2> HIDE DEF u, k, y, s, z
  <2>1. n = NodeOf(u, k, z, y, s, p)
    BY <1>1 DEF s, z
  <2>2. n.parent = u /\ n.kids = k /\ n.id = y /\ n.content = s /\ n.location = p
    BY <2>1 DEF NodeOf
  <2>3. QED BY <2>2 DEF s
<1>3. ASSUME p # <<>> PROVE u = Path(c, Front(p))
  <2>1. Front(Path(c, p)) = Path(c, Front(p))
    BY <1>3, PathGoesOn
  <2>2. QED BY <1>3, <2>1, Zenon
<1>4. DOMAIN Kept(c, p) = 1..Len(Kept(c, p)) /\ Len(Kept(c, p)) \in Nat
  BY KeptSurvive
<1>5. ASSUME NEW i \in 1..Len(Kept(c, p))
      PROVE  k[i] = Path(c, Kept(c, p)[i]) /\ Path(c, Kept(c, p)[i]) \in Seq(Nat)
  <2>1. Path(c, Kept(c, p)[i]) = Append(Path(c, p), i - 1) /\ Kept(c, p)[i] \in Survivors(c)
    BY KeptPath
  <2>2. k[i] = Append(Path(c, p), i - 1)
    BY <1>4
  <2>3. QED BY <2>1, <2>2, PathIs
<1>6. Len(k) = Len(Kept(c, p)) /\ DOMAIN k = 1..Len(Kept(c, p)) /\ IsList(k)
  <2> DEFINE m == Len(Kept(c, p))
  <2>1. k = [i \in 1..m |-> k[i]]
    BY <1>4, Zenon
  <2> HIDE DEF k
  <2>2. \A i \in 1..m : k[i] \in Seq(Nat)
    BY <1>5
  <2>3. m \in Nat
    BY <1>4
  <2> HIDE DEF m
  <2>4. k \in Seq(Seq(Nat)) /\ Len(k) = m /\ DOMAIN k = 1..m
    BY <2>1, <2>2, <2>3, ItemByItem
  <2>5. IsList(k)
    BY <2>4, SeqIsList
  <2>6. QED BY <2>4, <2>5 DEF m
<1> HIDE DEF k, u, y
<1>7. QED BY <1>2, <1>3, <1>5, <1>6 DEF u, y

(* The references of an XML tree grow with the depth.                       *)
LEMMA XmlGrows ==
  ASSUME NEW c, IsWritten(c), c.format \notin DataFormats
  PROVE  Grows(Adapted(c))
<1> DEFINE t == Adapted(c)
           S == Survivors(c)
           K(p) == Kept(c, p)
           P(p) == Path(c, p)
           N(ref) == t.node[ref]
<1>1. t.root = <<>> /\ Refs(t) = { P(p) : p \in S }
  BY XmlNode
<1>2. <<>> \in S /\ P(<<>>) = <<>>
  BY SurvivorFacts, PathOfRoot
<1>3. ASSUME NEW p \in S
      PROVE  /\ p = <<>> => N(P(p)).parent = NoRef
             /\ p # <<>> => N(P(p)).parent = P(Front(p))
             /\ Len(N(P(p)).kids) = Len(K(p)) /\ DOMAIN N(P(p)).kids = 1..Len(K(p))
             /\ \A i \in 1..Len(K(p)) : N(P(p)).kids[i] = P(K(p)[i])
  BY XmlFields
<1>4. ASSUME NEW p \in S
      PROVE  /\ P(p) \in Seq(Nat) /\ Len(P(p)) \in Nat /\ Len(P(p)) = Len(p)
             /\ \A i \in 1..Len(K(p)) : K(p)[i] \in S \ {<<>>} /\ Front(K(p)[i]) = p
             /\ \A i, j \in 1..Len(K(p)) : K(p)[i] = K(p)[j] => i = j
             /\ p # <<>> => /\ Front(p) \in S /\ Len(Front(p)) < Len(p) /\ P(p) # <<>>
                            /\ \E i \in 1..Len(K(Front(p))) : K(Front(p))[i] = p
  <2>1. P(p) \in Seq(Nat) /\ Len(P(p)) \in Nat /\ Len(P(p)) = Len(p)
    BY PathIs
  <2>2. /\ \A i \in 1..Len(K(p)) : K(p)[i] \in S \ {<<>>} /\ Front(K(p)[i]) = p
        /\ \A i, j \in 1..Len(K(p)) : K(p)[i] = K(p)[j] => i = j
    BY KeptSurvive, Zenon
  <2>3. ASSUME p # <<>>
        PROVE  /\ Front(p) \in S /\ Len(Front(p)) < Len(p) /\ P(p) # <<>>
               /\ \E i \in 1..Len(K(Front(p))) : K(Front(p))[i] = p
    <3>1. Front(p) \in S /\ P(p) # <<>>
      BY <2>3, PathGoesOn
    <3>2. \E i \in 1..Len(K(Front(p))) : K(Front(p))[i] = p
      BY <2>3, SlotFacts
    <3>3. p \in Seq(Nat)
      BY SurvivorFacts, WrittenFacts
    <3>4. Len(Front(p)) = Len(p) - 1 /\ Len(p) \in Nat
      BY <2>3, <3>3, FrontFacts
    <3>5. QED BY <3>1, <3>2, <3>4
  <2>4. QED BY <2>1, <2>2, <2>3
<1>5. \A p, q \in S : P(p) = P(q) => p = q
  BY PathsDiffer
<1> HIDE DEF t, S, K, P, N
<1>6. ASSUME NEW p \in S, p # <<>>
      PROVE  P(p) \in Refs(t) \ {t.root}
  BY <1>1, <1>4, <1>6
<1>7. ASSUME NEW ref \in Refs(t) \ {t.root} PROVE \E p \in S : p # <<>> /\ ref = P(p)
  BY <1>1, <1>2
<1>8. t.root \in Refs(t) /\ N(t.root).parent = NoRef
  BY <1>1, <1>2, <1>3
<1>9. \A ref \in Refs(t) : ref \in Seq(Nat)
  BY <1>1, <1>4
<1>10. ASSUME NEW ref \in Refs(t)
       PROVE  /\ DOMAIN N(ref).kids = 1..Len(N(ref).kids)
              /\ \A i \in 1..Len(N(ref).kids) : N(ref).kids[i] \in Refs(t) \ {t.root} /\ N(N(ref).kids[i]).parent = ref
              /\ \A i, j \in 1..Len(N(ref).kids) : N(ref).kids[i] = N(ref).kids[j] => i = j
  <2>1. PICK p \in S : ref = P(p)
    BY <1>1
  <2>2. DOMAIN N(ref).kids = 1..Len(N(ref).kids) /\ Len(N(ref).kids) = Len(K(p))
    BY <1>3, <2>1
  <2>3. ASSUME NEW i \in 1..Len(K(p))
        PROVE  /\ N(ref).kids[i] = P(K(p)[i])
               /\ N(ref).kids[i] \in Refs(t) \ {t.root} /\ N(N(ref).kids[i]).parent = ref
    <3>1. N(ref).kids[i] = P(K(p)[i]) /\ K(p)[i] \in S /\ K(p)[i] # <<>> /\ Front(K(p)[i]) = p
      BY <1>3, <1>4, <2>1
    <3>2. N(P(K(p)[i])).parent = P(Front(K(p)[i]))
      BY <1>3, <3>1
    <3>3. QED BY <1>6, <2>1, <3>1, <3>2
  <2>4. ASSUME NEW i \in 1..Len(K(p)), NEW j \in 1..Len(K(p)), N(ref).kids[i] = N(ref).kids[j] PROVE i = j
    <3>1. P(K(p)[i]) = P(K(p)[j])
      BY <2>3, <2>4
    <3>2. K(p)[i] = K(p)[j]
      BY <1>4, <1>5, <3>1
    <3>3. QED BY <1>4, <3>2
  <2>5. QED BY <2>2, <2>3, <2>4
<1>11. ASSUME NEW ref \in Refs(t) \ {t.root}
       PROVE  /\ N(ref).parent \in Refs(t) /\ Len(N(ref).parent) < Len(ref)
              /\ \E i \in 1..Len(N(N(ref).parent).kids) : N(N(ref).parent).kids[i] = ref
  <2>1. PICK p \in S : p # <<>> /\ ref = P(p)
    BY <1>7
  <2>2. N(ref).parent = P(Front(p)) /\ Front(p) \in S
    BY <1>3, <1>4, <2>1
  <2>3. P(Front(p)) \in Refs(t)
    BY <1>1, <2>2
  <2>4. Len(P(Front(p))) < Len(P(p))
    BY <1>4, <2>1, <2>2
  <2>5. PICK i \in 1..Len(K(Front(p))) : K(Front(p))[i] = p
    BY <1>4, <2>1
  <2>6. Len(N(P(Front(p))).kids) = Len(K(Front(p))) /\ N(P(Front(p))).kids[i] = P(p)
    BY <1>3, <2>2, <2>5
  <2>7. QED BY <2>1, <2>2, <2>3, <2>4, <2>6
<1>12. Grows(t)
  BY <1>8, <1>9, <1>10, <1>11 DEF Grows, NodeKids, N
<1>13. QED BY <1>12 DEF t

-----------------------------------------------------------------------------
(* What ReadsBack and WithinLimits say, part by part. *)
CountsAgree(c, t) ==
  \A p \in Positions(c) :
    Cardinality(NodesAt(t, p)) =
      IF Omitted(c, p) THEN 0
      ELSE IF c.format \in DataFormats /\ (p = <<>> \/ Kind(c, p) \in Containers) THEN 2
      ELSE 1

(* The parent of a node is from the position above, or from the same one.   *)
ParentsAbove(c, t) ==
  \A ref \in Refs(t) \ {t.root} :
    LET at == t.node[ref].location
        up == t.node[t.node[ref].parent].location
    IN  up = at \/ (at # <<>> /\ up = Front(at))

(* The children of a node are in the order of the document.                 *)
KidsInOrder(c, t) ==
  \A ref \in Refs(t) :
    LET kids == t.node[ref].kids
    IN  \A i, j \in DOMAIN kids : i < j =>
          PlaceAmong(c, t.node[kids[i]].location) < PlaceAmong(c, t.node[kids[j]].location)

(* The text of a position is the text of one of its nodes.                  *)
TextsThere(c, t) ==
  \A p \in Positions(c) : (~Omitted(c, p) /\ HasText(c, p)) =>
    \E ref \in NodesAt(t, p) :
      LET content == t.node[ref].content
      IN  "text" \in DOMAIN content /\ content["text"] = <<"string", TextAt(c, p)>>

(* A DITA node is identified by the strongest of its attributes.            *)
IdsStrongest(c, t) ==
  c.format = "dita" =>
    \A ref \in Refs(t) :
      LET given == ToSet(c.doc[t.node[ref].location].attributes)
      IN  CASE \E a \in given : a[1] \in {"id", "xml:id"} -> t.node[ref].id[1] = "id"
            [] OTHER -> \A a \in given : a[1] = "keys" => t.node[ref].id = a

(* A rooted tree of which these are true reads back.                        *)
LEMMA ReadsBackParts ==
  ASSUME NEW c, NEW t, IsRootedTree(t), CountsAgree(c, t), ParentsAbove(c, t), KidsInOrder(c, t),
         TextsThere(c, t), IdsStrongest(c, t)
  PROVE  ReadsBack(c, t)
BY Zenon DEF ReadsBack, CountsAgree, ParentsAbove, KidsInOrder, TextsThere, IdsStrongest

(* An XML document: one node for each position that is not omitted.         *)
LEMMA XmlCounts ==
  ASSUME NEW c, IsTaken(c), c.format \notin DataFormats
  PROVE  CountsAgree(c, Adapted(c))
<1> DEFINE t == Adapted(c)
<1>0. IsWritten(c)
  BY TakenFacts
<1>1. Refs(t) = { Path(c, p) : p \in Survivors(c) }
  BY <1>0, XmlNode
<1>2. \A p \in Survivors(c) : t.node[Path(c, p)].location = p
  BY <1>0, XmlFields
<1> HIDE DEF t
<1>3. ASSUME NEW p \in Positions(c)
      PROVE  Cardinality(NodesAt(t, p)) = IF Omitted(c, p) THEN 0 ELSE 1
  <2>1. CASE p \in Survivors(c)
    <3>1. NodesAt(t, p) = {Path(c, p)}
      BY <1>1, <1>2, <2>1 DEF NodesAt
    <3>2. Cardinality({Path(c, p)}) = 1
      BY FS_Singleton
    <3>3. QED BY <2>1, <3>1, <3>2, OmittedFacts
  <2>2. CASE p \notin Survivors(c)
    <3>1. NodesAt(t, p) = {}
      BY <1>1, <1>2, <2>2 DEF NodesAt
    <3>2. QED BY <2>2, <3>1, FS_EmptySet, OmittedFacts
  <2>3. QED BY <2>1, <2>2
<1>4. CountsAgree(c, t)
  BY <1>3 DEF CountsAgree
<1>5. QED BY <1>4 DEF t

(* An XML document: parents and order are those of the document.            *)
LEMMA XmlShape ==
  ASSUME NEW c, IsWritten(c), c.format \notin DataFormats
  PROVE  ParentsAbove(c, Adapted(c)) /\ KidsInOrder(c, Adapted(c))
<1> DEFINE t == Adapted(c)
           S == Survivors(c)
           K(p) == Kept(c, p)
           P(p) == Path(c, p)
           N(ref) == t.node[ref]
<1>1. t.root = <<>> /\ Refs(t) = { P(p) : p \in S }
  BY XmlNode
<1>2. ASSUME NEW p \in S
      PROVE  /\ p # <<>> => N(P(p)).parent = P(Front(p)) /\ Front(p) \in S
             /\ DOMAIN N(P(p)).kids = 1..Len(K(p)) /\ N(P(p)).location = p
             /\ \A i \in 1..Len(K(p)) : N(P(p)).kids[i] = P(K(p)[i])
  BY XmlFields, PathGoesOn
<1>3. ASSUME NEW p \in S
      PROVE  /\ \A i \in 1..Len(K(p)) : K(p)[i] \in S
             /\ \A i, j \in 1..Len(K(p)) : i < j => PlaceAmong(c, K(p)[i]) < PlaceAmong(c, K(p)[j])
  BY KeptSurvive
<1>4. P(<<>>) = <<>>
  BY PathOfRoot
<1> HIDE DEF t, S, K, P, N
<1>5. ASSUME NEW ref \in Refs(t) \ {t.root}
      PROVE  N(ref).location # <<>> /\ N(N(ref).parent).location = Front(N(ref).location)
  <2>1. PICK p \in S : ref = P(p)
    BY <1>1
  <2>2. p # <<>>
    BY <1>1, <1>4, <2>1
  <2>3. QED BY <1>2, <2>1, <2>2
<1>6. ASSUME NEW ref \in Refs(t), NEW i \in DOMAIN N(ref).kids, NEW j \in DOMAIN N(ref).kids, i < j
      PROVE  PlaceAmong(c, N(N(ref).kids[i]).location) < PlaceAmong(c, N(N(ref).kids[j]).location)
  <2>1. PICK p \in S : ref = P(p)
    BY <1>1
  <2>2. i \in 1..Len(K(p)) /\ j \in 1..Len(K(p)) /\ N(ref).kids[i] = P(K(p)[i]) /\ N(ref).kids[j] = P(K(p)[j])
    BY <1>2, <2>1
  <2>3. N(N(ref).kids[i]).location = K(p)[i] /\ N(N(ref).kids[j]).location = K(p)[j]
    BY <1>2, <1>3, <2>2
  <2>4. QED BY <1>3, <1>6, <2>2, <2>3
<1>7. ParentsAbove(c, t)
  BY <1>5 DEF ParentsAbove, N
<1>8. KidsInOrder(c, t)
  BY <1>6 DEF KidsInOrder, N
<1>9. QED BY <1>7, <1>8 DEF t

(* An XML document: no text is lost.                                        *)
LEMMA XmlTexts ==
  ASSUME NEW c, IsTaken(c), c.format \notin DataFormats
  PROVE  TextsThere(c, Adapted(c))
<1> DEFINE t == Adapted(c)
<1>0. IsWritten(c)
  BY TakenFacts
<1>1. SUFFICES ASSUME NEW p \in Positions(c), ~Omitted(c, p), HasText(c, p)
               PROVE  \E ref \in NodesAt(t, p) :
                        LET content == t.node[ref].content
                        IN  "text" \in DOMAIN content /\ content["text"] = <<"string", TextAt(c, p)>>
  BY DEF TextsThere
<1>2. p \in Survivors(c)
  BY <1>1, OmittedFacts
<1>3. t.node[Path(c, p)].location = p /\ t.node[Path(c, p)].content = ElementContent(c, p)
  BY <1>0, <1>2, XmlFields
<1>4. Path(c, p) \in Refs(t)
  BY <1>0, <1>2, XmlNode
<1>5. Strip(c.doc[p].text) # <<>> /\ TextAt(c, p) = Strip(c.doc[p].text)
  BY <1>1 DEF HasText, TextAt
<1> DEFINE s == Strip(c.doc[p].text)
           v == IF c.format = "dita" THEN NavTitle(c, p) ELSE <<>>
           values == [text |-> s, navtitle |-> v]
           content == ElementContent(c, p)
<1>6. content = [key \in { k \in DOMAIN values : values[k] # <<>> } |-> <<"string", values[key]>>]
  BY DEF ElementContent
<1> HIDE DEF s, v, content, t
<1>7. "text" \in DOMAIN content /\ content["text"] = <<"string", s>>
  BY <1>5, <1>6 DEF s
<1>8. Path(c, p) \in NodesAt(t, p)
  BY <1>3, <1>4 DEF NodesAt, t
<1>9. t.node[Path(c, p)].content = content
  BY <1>3 DEF t, content
<1>10. QED BY <1>5, <1>7, <1>8, <1>9 DEF s

(* An XML document: the tree is within the limits, for every node is one    *)
(* that was counted.                                                        *)
LEMMA XmlLimits ==
  ASSUME NEW c, IsTaken(c), c.format \notin DataFormats
  PROVE  WithinLimits(c, Adapted(c))
<1> DEFINE t == Adapted(c)
           S == Survivors(c)
<1>0. IsWritten(c)
  BY TakenFacts
<1>1. Refs(t) = { Path(c, p) : p \in S }
  BY <1>0, XmlNode
<1>2. S \in SUBSET Counted(c)
  <2>1. ASSUME NEW p \in S PROVE IsElement(c, p)
    <3>1. p \in Positions(c)
      BY <1>0, SurvivorFacts
    <3>2. CASE p = <<>>
      BY <1>0, <3>1, <3>2, TakenFacts, WrittenFacts DEF IsElement
    <3>3. CASE p # <<>>
      <4>1. Stays(c, p)
        BY <1>0, <3>3, SurvivorFacts
      <4>2. QED BY <4>1 DEF Stays
    <3>4. QED BY <3>2, <3>3
  <2>2. QED BY <1>0, <2>1, SurvivorFacts DEF Counted
<1>3. IsFiniteSet(Counted(c))
  <2>1. Counted(c) \in SUBSET Positions(c)
    BY <1>0, SurvivorFacts DEF Counted
  <2>2. QED BY <1>0, <2>1, WrittenFacts, FS_Subset
<1>4. Cardinality(Refs(t)) <= Cardinality(S) /\ IsFiniteSet(Refs(t))
  <2> DEFINE f == [p \in S |-> Path(c, p)]
  <2>1. f \in Surjection(S, Refs(t))
    BY <1>1 DEF Surjection
  <2>2. IsFiniteSet(S)
    BY <1>0, SurvivorFacts
  <2> HIDE DEF f, S, t
  <2>3. QED BY <2>1, <2>2, FS_Surjection
<1>5. Cardinality(S) <= Cardinality(Counted(c)) /\ Cardinality(S) \in Nat /\ Cardinality(Counted(c)) \in Nat
  BY <1>2, <1>3, FS_Subset, FS_CardinalityType
<1>6. Cardinality(Refs(t)) \in Nat
  BY <1>4, FS_CardinalityType
<1>7. Cardinality(Counted(c)) <= c.limits.nodes /\ c.limits.nodes \in Nat /\ c.limits.depth \in Nat
  BY <1>0, TakenFacts, WrittenFacts
<1>8. ASSUME NEW ref \in Refs(t) PROVE Len(ref) + 1 <= c.limits.depth
  <2>1. PICK p \in S : ref = Path(c, p)
    BY <1>1
  <2>2. Len(ref) = Len(p)
    BY <1>0, <2>1, PathIs
  <2>3. Len(p) + 1 <= c.limits.depth
    BY <1>2, TakenFacts
  <2>4. QED BY <2>2, <2>3
<1> HIDE DEF t, S
<1>9. /\ Cardinality(Refs(t)) <= 1 * c.limits.nodes
      /\ \A ref \in Refs(t) : Len(ref) + 1 <= 1 * c.limits.depth
  BY <1>4, <1>5, <1>6, <1>7, <1>8
<1>10. WithinLimits(c, t)
  BY <1>9 DEF WithinLimits
<1>11. QED BY <1>10 DEF t

-----------------------------------------------------------------------------
(* The id of a DITA element. *)

(* An attribute that an element has is found under its name, for names are  *)
(* unique.                                                                  *)
LEMMA AttributeFacts ==
  ASSUME NEW c, IsWritten(c), c.format = "dita", NEW p \in Positions(c)
  PROVE  LET A == c.doc[p].attributes
         IN  /\ ToSet(A) = { A[i] : i \in DOMAIN A }
             /\ \A i \in DOMAIN A :
                  /\ A[i] = <<A[i][1], A[i][2]>>
                  /\ HasAttribute(c, p, A[i][1]) /\ Attribute(c, p, A[i][1]) = A[i][2]
             /\ \A name : HasAttribute(c, p, name) => \E i \in DOMAIN A : A[i][1] = name
<1> DEFINE A == c.doc[p].attributes
<1>1. "dita" \notin DataFormats /\ HasElements(c.doc)
  BY DEF IsWritten, IsCall, DataFormats
<1>2. \A i, j \in DOMAIN A : A[i] = <<A[i][1], A[i][2]>> /\ (A[i][1] = A[j][1] => i = j)
  BY <1>1 DEF HasElements, Positions
<1>3. ToSet(A) = { A[i] : i \in DOMAIN A }
  BY DEF ToSet
<1>4. \A name : HasAttribute(c, p, name) <=> \E i \in DOMAIN A : A[i][1] = name
  BY DEF HasAttribute
<1>5. \A name : Attribute(c, p, name) = A[CHOOSE i \in DOMAIN A : A[i][1] = name][2]
  BY DEF Attribute
<1> HIDE DEF A
<1>6. ASSUME NEW i \in DOMAIN A
      PROVE  HasAttribute(c, p, A[i][1]) /\ Attribute(c, p, A[i][1]) = A[i][2]
  <2> DEFINE j == CHOOSE j \in DOMAIN A : A[j][1] = A[i][1]
  <2>1. j \in DOMAIN A /\ A[j][1] = A[i][1]
    OBVIOUS
  <2>2. Attribute(c, p, A[i][1]) = A[j][2]
    BY <1>5
  <2> HIDE DEF j
  <2>3. j = i
    BY <1>2, <2>1
  <2>4. QED BY <1>4, <2>2, <2>3
<1>7. QED BY <1>2, <1>3, <1>4, <1>6 DEF A

(* An id or xml:id makes an "id" and, where there is none of them, keys make*)
(* a "keys".                                                                *)
LEMMA DitaIdFacts ==
  ASSUME NEW c, NEW p
  PROVE  /\ HasAttribute(c, p, "id") \/ HasAttribute(c, p, "xml:id") => DitaId(c, p)[1] = "id"
         /\ (HasAttribute(c, p, "keys") /\ ~HasAttribute(c, p, "id") /\ ~HasAttribute(c, p, "xml:id")) =>
              DitaId(c, p) = <<"keys", Attribute(c, p, "keys")>>
<1> DEFINE signals == <<"id", "xml:id", "keys", "href">>
           given   == { i \in DOMAIN signals : HasAttribute(c, p, signals[i]) }
           m       == Min(given)
           name    == signals[m]
<1>1. /\ DOMAIN signals = 1..4 /\ signals[1] = "id" /\ signals[2] = "xml:id" /\ signals[3] = "keys"
      /\ "id" # "xml:id" /\ "keys" # "xml:id"
  OBVIOUS
<1>2. given # {} => DitaId(c, p) = <<IF name = "xml:id" THEN "id" ELSE name, Attribute(c, p, name)>>
  BY Zenon DEF DitaId
<1> HIDE DEF signals
<1>3. given \in SUBSET (1..4)
  BY <1>1
<1>4. given # {} => m \in given /\ \A i \in given : m <= i
  <2>1. 4 \in Nat
    OBVIOUS
  <2> HIDE DEF given
  <2>2. QED BY <1>3, <2>1, Extremes
<1>41. \A i \in 1..4 : i \in given <=> HasAttribute(c, p, signals[i])
  BY <1>1
<1>42. given # {} => m \in given /\ m \in Int /\ 0 < m /\ m < 5 /\ \A i \in given : m <= i
  <2>1. \A i \in given : i \in 1..4
    BY <1>3
  <2> HIDE DEF given, m
  <2>2. QED BY <1>4, <2>1
<1> HIDE DEF given, m
<1>5. ASSUME HasAttribute(c, p, "id") \/ HasAttribute(c, p, "xml:id") PROVE DitaId(c, p)[1] = "id"
  <2>1. 1 \in given \/ 2 \in given
    BY <1>1, <1>5, <1>41
  <2>2. given # {} /\ (m = 1 \/ m = 2)
    BY <1>42, <2>1
  <2>3. name = "id" \/ name = "xml:id"
    BY <1>1, <2>2
  <2> DEFINE value == Attribute(c, p, name)
             new   == IF name = "xml:id" THEN "id" ELSE name
  <2>4. DitaId(c, p) = <<new, value>> /\ new = "id"
    BY <1>1, <1>2, <2>2, <2>3
  <2> HIDE DEF value, new
  <2>5. QED BY <2>4
<1>6. ASSUME HasAttribute(c, p, "keys"), ~HasAttribute(c, p, "id"), ~HasAttribute(c, p, "xml:id")
      PROVE  DitaId(c, p) = <<"keys", Attribute(c, p, "keys")>>
  <2>1. 3 \in given /\ 1 \notin given /\ 2 \notin given
    BY <1>1, <1>6, <1>41
  <2>2. given # {} /\ m = 3
    BY <1>42, <2>1
  <2>3. name = "keys"
    BY <1>1, <2>2
  <2>4. (IF name = "xml:id" THEN "id" ELSE name) = "keys"
    BY <1>1, <2>3
  <2>5. DitaId(c, p) = <<IF name = "xml:id" THEN "id" ELSE name, Attribute(c, p, name)>>
    BY <1>2, <2>2
  <2> HIDE DEF name
  <2>6. QED BY <2>3, <2>4, <2>5, Zenon
<1>7. QED BY <1>5, <1>6

(* An XML document: the id of a DITA node is of the strongest attribute.    *)
LEMMA XmlIds ==
  ASSUME NEW c, IsWritten(c), c.format \notin DataFormats
  PROVE  IdsStrongest(c, Adapted(c))
<1> DEFINE t == Adapted(c)
<1>1. SUFFICES ASSUME c.format = "dita", NEW ref \in Refs(t)
               PROVE  LET given == ToSet(c.doc[t.node[ref].location].attributes)
                      IN  CASE \E a \in given : a[1] \in {"id", "xml:id"} -> t.node[ref].id[1] = "id"
                            [] OTHER -> \A a \in given : a[1] = "keys" => t.node[ref].id = a
  BY DEF IdsStrongest
<1>2. PICK p \in Survivors(c) : ref = Path(c, p)
  BY XmlNode
<1>3. t.node[ref].location = p /\ t.node[ref].id = DitaId(c, p)
  BY <1>1, <1>2, XmlFields
<1> DEFINE A == c.doc[p].attributes
           id == t.node[ref].id
           given == ToSet(A)
<1>4. /\ given = { A[i] : i \in DOMAIN A }
      /\ \A i \in DOMAIN A :
           /\ A[i] = <<A[i][1], A[i][2]>>
           /\ HasAttribute(c, p, A[i][1]) /\ Attribute(c, p, A[i][1]) = A[i][2]
      /\ \A name : HasAttribute(c, p, name) => \E i \in DOMAIN A : A[i][1] = name
  <2>1. p \in Positions(c)
    BY SurvivorFacts
  <2>2. QED BY <1>1, <2>1, AttributeFacts
<1>5. /\ HasAttribute(c, p, "id") \/ HasAttribute(c, p, "xml:id") => id[1] = "id"
      /\ (HasAttribute(c, p, "keys") /\ ~HasAttribute(c, p, "id") /\ ~HasAttribute(c, p, "xml:id")) =>
           id = <<"keys", Attribute(c, p, "keys")>>
  BY <1>3, DitaIdFacts
<1> HIDE DEF A, id
<1>6. (\E a \in given : a[1] \in {"id", "xml:id"}) <=> HasAttribute(c, p, "id") \/ HasAttribute(c, p, "xml:id")
  BY <1>4
<1>7. (\E a \in given : a[1] \in {"id", "xml:id"}) => id[1] = "id"
  BY <1>5, <1>6
<1>8. ASSUME ~\E a \in given : a[1] \in {"id", "xml:id"}, NEW a \in given, a[1] = "keys"
      PROVE  id = a
  <2>1. PICK i \in DOMAIN A : a = A[i]
    BY <1>4
  <2>2. HasAttribute(c, p, "keys") /\ Attribute(c, p, "keys") = a[2] /\ a = <<"keys", a[2]>>
    BY <1>4, <1>8, <2>1
  <2>3. QED BY <1>5, <1>6, <1>8, <2>2
<1> HIDE DEF given
<1>9. (CASE \E a \in given : a[1] \in {"id", "xml:id"} -> id[1] = "id"
         [] OTHER -> \A a \in given : a[1] = "keys" => id = a)
  BY <1>7, <1>8
<1>10. QED BY <1>3, <1>9, Zenon DEF given, A, id

(* The tree of an XML or DITA document that is not refused reads back and is*)
(* within the limits.                                                       *)
LEMMA XmlFaithful ==
  ASSUME NEW c, IsTaken(c), c.format \notin DataFormats
  PROVE  ReadsBack(c, Adapted(c)) /\ WithinLimits(c, Adapted(c))
<1>0. IsWritten(c)
  BY TakenFacts
<1>1. IsRootedTree(Adapted(c))
  BY <1>0, XmlGrows, GrownIsRooted
<1>2. CountsAgree(c, Adapted(c)) /\ TextsThere(c, Adapted(c)) /\ WithinLimits(c, Adapted(c))
  BY XmlCounts, XmlTexts, XmlLimits
<1>3. ParentsAbove(c, Adapted(c)) /\ KidsInOrder(c, Adapted(c)) /\ IdsStrongest(c, Adapted(c))
  BY <1>0, XmlShape, XmlIds
<1>4. QED BY <1>1, <1>2, <1>3, ReadsBackParts

-----------------------------------------------------------------------------
(* The references of the nodes of data. *)

(* Half of twice.                                                           *)
LEMMA Doubled ==
  ASSUME NEW k \in Nat
  PROVE  (2 * k) % 2 = 0 /\ (2 * k) \div 2 = k
OBVIOUS

(* The path can be read off a reference, and values have references of odd  *)
(* length and entries of even length.                                       *)
LEMMA RefFacts ==
  ASSUME NEW path \in Seq(Nat)
  PROVE  /\ ValueRef(path) \in Seq(Nat) /\ Len(ValueRef(path)) = 2 * Len(path) + 1
         /\ EntryRef(path) \in Seq(Nat) /\ Len(EntryRef(path)) = 2 * Len(path)
         /\ Len(path) \in Nat
         /\ \A k \in 1..Len(path) : ValueRef(path)[2 * k] = path[k] /\ EntryRef(path)[2 * k] = path[k]
<1> DEFINE n == 2 * Len(path) + 1
           v == ValueRef(path)
<1>1. Len(path) \in Nat /\ n \in Nat /\ n # 0
  OBVIOUS
<1>2. v = [k \in 1..n |-> IF k % 2 = 1 THEN 0 ELSE path[k \div 2]]
  BY DEF ValueRef
<1> HIDE DEF n, v
<1>3. ASSUME NEW k \in 1..n PROVE v[k] \in Nat
  <2>1. v[k] = IF k % 2 = 1 THEN 0 ELSE path[k \div 2]
    BY <1>2
  <2>2. CASE k % 2 = 1
    BY <2>1, <2>2
  <2>3. CASE k % 2 # 1
    <3>1. k \div 2 \in 1..Len(path)
      BY <1>1, <2>3 DEF n
    <3>2. QED BY <2>1, <2>3, <3>1
  <2>4. QED BY <2>2, <2>3
<1>4. v \in Seq(Nat) /\ Len(v) = n
  <2>1. v = [k \in 1..n |-> v[k]]
    BY <1>2
  <2>2. QED BY <1>1, <1>3, <2>1, ItemByItem
<1>5. ASSUME NEW k \in 1..Len(path) PROVE v[2 * k] = path[k] /\ 2 * k \in 1..n /\ 2 * k \in 1..(n - 1)
  <2>1. k \in Nat /\ 2 * k \in 1..n /\ 2 * k \in 1..(n - 1)
    BY <1>1 DEF n
  <2>2. (2 * k) % 2 = 0 /\ (2 * k) \div 2 = k
    BY <2>1, Doubled
  <2> DEFINE d == 2 * k
  <2> HIDE DEF d
  <2>3. d \in 1..n /\ d % 2 = 0 /\ d \div 2 = k
    BY <2>1, <2>2 DEF d
  <2>4. v[d] = path[k]
    BY <1>2, <2>3
  <2>5. QED BY <2>1, <2>4 DEF d
<1>6. v # <<>>
  BY <1>1, <1>4
<1>7. /\ Front(v) \in Seq(Nat) /\ Len(Front(v)) = n - 1
      /\ \A k \in 1..(n - 1) : Front(v)[k] = v[k]
  BY <1>4, <1>6, FrontFacts
<1>8. EntryRef(path) = Front(v)
  BY DEF EntryRef, v
<1>9. Len(EntryRef(path)) = 2 * Len(path)
  <2>1. n - 1 = 2 * Len(path)
    BY <1>1 DEF n
  <2>2. QED BY <1>7, <1>8, <2>1
<1>10. \A k \in 1..Len(path) : EntryRef(path)[2 * k] = path[k]
  BY <1>5, <1>7, <1>8
<1>11. QED BY <1>1, <1>4, <1>5, <1>7, <1>8, <1>9, <1>10 DEF n, v

(* So no two nodes of data share a reference.                               *)
LEMMA RefsDiffer ==
  ASSUME NEW a \in Seq(Nat), NEW b \in Seq(Nat)
  PROVE  /\ ValueRef(a) = ValueRef(b) => a = b
         /\ EntryRef(a) = EntryRef(b) => a = b
         /\ ValueRef(a) # EntryRef(b)
<1>1. /\ Len(a) \in Nat /\ Len(b) \in Nat
      /\ Len(ValueRef(a)) = 2 * Len(a) + 1 /\ Len(ValueRef(b)) = 2 * Len(b) + 1
      /\ Len(EntryRef(a)) = 2 * Len(a) /\ Len(EntryRef(b)) = 2 * Len(b)
      /\ \A k \in 1..Len(a) : ValueRef(a)[2 * k] = a[k] /\ EntryRef(a)[2 * k] = a[k]
      /\ \A k \in 1..Len(b) : ValueRef(b)[2 * k] = b[k] /\ EntryRef(b)[2 * k] = b[k]
  BY RefFacts
<1>2. ASSUME ValueRef(a) = ValueRef(b) PROVE a = b
  <2>1. Len(a) = Len(b)
    BY <1>1, <1>2
  <2>2. \A k \in 1..Len(a) : a[k] = b[k]
    BY <1>1, <1>2, <2>1
  <2>3. QED BY <2>1, <2>2, SeqEqual
<1>3. ASSUME EntryRef(a) = EntryRef(b) PROVE a = b
  <2>1. Len(a) = Len(b)
    BY <1>1, <1>3
  <2>2. \A k \in 1..Len(a) : a[k] = b[k]
    BY <1>1, <1>3, <2>1
  <2>3. QED BY <2>1, <2>2, SeqEqual
<1>4. ASSUME ValueRef(a) = EntryRef(b) PROVE FALSE
  <2>1. 2 * Len(a) + 1 = 2 * Len(b)
    BY <1>1, <1>4
  <2>2. QED BY <1>1, <2>1
<1>5. QED BY <1>2, <1>3, <1>4

(* The references of a survivor.                                           *)
VR(c, p) == ValueRef(Path(c, p))
ER(c, p) == EntryRef(Path(c, p))

(* They are not empty, and survivors do not share them.                     *)
LEMMA SurvivorRefs ==
  ASSUME NEW c, IsWritten(c), NEW p \in Survivors(c)
  PROVE  /\ VR(c, p) \in Seq(Nat) /\ Len(VR(c, p)) = 2 * Len(p) + 1
         /\ ER(c, p) \in Seq(Nat) /\ Len(ER(c, p)) = 2 * Len(p)
         /\ Len(p) \in Nat /\ (p # <<>> => Len(p) > 0)
         /\ VR(c, p) # <<>> /\ (p # <<>> => ER(c, p) # <<>>)
         /\ \A q \in Survivors(c) :
              /\ VR(c, p) = VR(c, q) => p = q
              /\ ER(c, p) = ER(c, q) => p = q
              /\ VR(c, p) # ER(c, q)
<1>1. Path(c, p) \in Seq(Nat) /\ Len(Path(c, p)) = Len(p) /\ Len(p) \in Nat
  BY PathIs
<1>2. p # <<>> => Len(p) > 0
  <2>1. p \in Seq(Nat)
    BY SurvivorFacts, WrittenFacts
  <2>2. QED BY <2>1
<1>3. /\ VR(c, p) \in Seq(Nat) /\ Len(VR(c, p)) = 2 * Len(p) + 1
      /\ ER(c, p) \in Seq(Nat) /\ Len(ER(c, p)) = 2 * Len(p)
  BY <1>1, RefFacts DEF VR, ER
<1>4. VR(c, p) # <<>> /\ (p # <<>> => ER(c, p) # <<>>)
  <2>1. Len(<<>>) = 0
    OBVIOUS
  <2>2. QED BY <1>1, <1>2, <1>3, <2>1
<1>5. ASSUME NEW q \in Survivors(c)
      PROVE  /\ VR(c, p) = VR(c, q) => p = q
             /\ ER(c, p) = ER(c, q) => p = q
             /\ VR(c, p) # ER(c, q)
  <2>1. Path(c, q) \in Seq(Nat)
    BY PathIs
  <2> DEFINE a == Path(c, p)
             b == Path(c, q)
  <2>2. a = b => p = q
    BY PathsDiffer
  <2> HIDE DEF a, b
  <2>3. a \in Seq(Nat) /\ b \in Seq(Nat)
    BY <1>1, <2>1 DEF a, b
  <2>4. (ValueRef(a) = ValueRef(b) => a = b) /\ (EntryRef(a) = EntryRef(b) => a = b) /\ ValueRef(a) # EntryRef(b)
    BY <2>3, RefsDiffer
  <2>5. QED BY <2>2, <2>4 DEF VR, ER, a, b
<1>6. QED BY <1>1, <1>2, <1>3, <1>4, <1>5

-----------------------------------------------------------------------------
(* The nodes of data. *)

(* The survivors that have a node of their own below their entry, and the  *)
(* root.                                                                   *)
Valued(c) == { p \in Survivors(c) : p = <<>> \/ Kind(c, p) \in Containers }

(* The references of a tree of data and the nodes they have.                *)
LEMMA DataNode ==
  ASSUME NEW c, IsWritten(c), c.format \in DataFormats
  PROVE  /\ Adapted(c).root = <<>>
         /\ Refs(Adapted(c)) = {<<>>} \cup { VR(c, p) : p \in Valued(c) }
                                \cup { ER(c, p) : p \in Survivors(c) \ {<<>>} }
         /\ Adapted(c).node[<<>>] = DocumentNode
         /\ \A p \in Valued(c) : Adapted(c).node[VR(c, p)] = ValueNode(c, p)
         /\ \A p \in Survivors(c) \ {<<>>} : Adapted(c).node[ER(c, p)] = EntryNode(c, p)
<1> DEFINE S == Survivors(c)
           W == Valued(c)
           V(p) == VR(c, p)
           E(p) == ER(c, p)
           A(p) == ValueNode(c, p)
           B(p) == EntryNode(c, p)
           D == DocumentNode
           pairs == {<< <<>>, D >>} \cup { <<V(p), A(p)>> : p \in W } \cup { <<E(p), B(p)>> : p \in S \ {<<>>} }
           m == MapOf(pairs)
<1>1. Adapted(c).root = <<>> /\ Adapted(c).node = m
  BY DEF Adapted, DataNodes, VR, ER, Valued
<1>2. DOMAIN m = { pair[1] : pair \in pairs }
  BY MapFacts
<1>3. \A x \in DOMAIN m : \E pair \in pairs : pair[1] = x /\ m[x] = pair[2]
  BY MapFacts, Zenon
<1>4. W \in SUBSET S /\ \A p \in S :
        /\ V(p) # <<>> /\ (p # <<>> => E(p) # <<>>)
        /\ \A q \in S : (V(p) = V(q) => p = q) /\ (E(p) = E(q) => p = q) /\ V(p) # E(q)
  BY SurvivorRefs DEF Valued
<1> HIDE DEF m, S, W, V, E, A, B, D
<1>5. ASSUME NEW pair \in pairs
      PROVE  \/ pair = << <<>>, D >>
             \/ \E p \in W : pair = <<V(p), A(p)>>
             \/ \E p \in S \ {<<>>} : pair = <<E(p), B(p)>>
  OBVIOUS
<1>6. /\ << <<>>, D >> \in pairs
      /\ \A p \in W : <<V(p), A(p)>> \in pairs
      /\ \A p \in S \ {<<>>} : <<E(p), B(p)>> \in pairs
  OBVIOUS
<1> HIDE DEF pairs
<1>7. DOMAIN m = {<<>>} \cup { V(p) : p \in W } \cup { E(p) : p \in S \ {<<>>} }
  <2>1. ASSUME NEW x \in DOMAIN m PROVE x = <<>> \/ (\E p \in W : x = V(p)) \/ \E p \in S \ {<<>>} : x = E(p)
    <3>1. PICK pair \in pairs : x = pair[1]
      BY <1>2
    <3>2. QED BY <1>5, <3>1
  <2>2. <<>> \in DOMAIN m
    <3>1. << <<>>, D >>[1] = <<>>
      OBVIOUS
    <3>2. QED BY <1>2, <1>6, <3>1
  <2>3. ASSUME NEW p \in W PROVE V(p) \in DOMAIN m
    <3>1. <<V(p), A(p)>>[1] = V(p)
      OBVIOUS
    <3>2. QED BY <1>2, <1>6, <3>1
  <2>4. ASSUME NEW p \in S \ {<<>>} PROVE E(p) \in DOMAIN m
    <3>1. <<E(p), B(p)>>[1] = E(p)
      OBVIOUS
    <3>2. QED BY <1>2, <1>6, <3>1
  <2>5. QED BY <2>1, <2>2, <2>3, <2>4
<1>8. m[<<>>] = D
  <2>1. PICK pair \in pairs : pair[1] = <<>> /\ m[<<>>] = pair[2]
    <3>1. <<>> \in DOMAIN m
      BY <1>7
    <3>2. QED BY <1>3, <3>1
  <2>2. pair = << <<>>, D >>
    BY <1>4, <1>5, <2>1
  <2>3. QED BY <2>1, <2>2
<1>9. ASSUME NEW p \in W PROVE m[V(p)] = A(p)
  <2>1. PICK pair \in pairs : pair[1] = V(p) /\ m[V(p)] = pair[2]
    BY <1>3, <1>7
  <2>2. pair[1] # <<>> /\ (\A q \in S \ {<<>>} : pair[1] # E(q)) /\ \A q \in W : pair[1] = V(q) => q = p
    BY <1>4, <2>1
  <2>3. pair = <<V(p), A(p)>>
    BY <1>5, <2>2
  <2>4. QED BY <2>1, <2>3
<1>10. ASSUME NEW p \in S \ {<<>>} PROVE m[E(p)] = B(p)
  <2>1. PICK pair \in pairs : pair[1] = E(p) /\ m[E(p)] = pair[2]
    BY <1>3, <1>7
  <2>2. pair[1] # <<>> /\ (\A q \in S : pair[1] # V(q)) /\ \A q \in S : pair[1] = E(q) => q = p
    BY <1>4, <2>1
  <2>3. pair = <<E(p), B(p)>>
    BY <1>4, <1>5, <2>2
  <2>4. QED BY <2>1, <2>3
<1>11. QED BY <1>1, <1>7, <1>8, <1>9, <1>10 DEF Refs, S, W, V, E, A, B, D

(* The fields of the node of the document.                                  *)
LEMMA DocumentFields ==
  ASSUME NEW c, IsWritten(c), c.format \in DataFormats
  PROVE  LET n == Adapted(c).node[<<>>]
         IN  /\ n.parent = NoRef /\ n.location = <<>>
             /\ Len(n.kids) = 1 /\ DOMAIN n.kids = 1..1 /\ n.kids[1] = VR(c, <<>>)
             /\ IsList(n.kids)
<1> DEFINE n == Adapted(c).node[<<>>]
           v == ValueRef(<<>>)
<1>1. n = NewNode(NoRef, <<v>>, "data:document", <<>>)
  BY DataNode DEF DocumentNode
<1> HIDE DEF n, v
<1>2. n.parent = NoRef /\ n.location = <<>> /\ n.kids = <<v>>
  BY <1>1 DEF NewNode
<1>3. v = VR(c, <<>>)
  BY PathOfRoot DEF VR, v
<1>4. IsList(n.kids)
  BY <1>2 DEF IsList, ToSet
<1>5. QED BY <1>2, <1>3, <1>4 DEF n

(* The fields of the node of a value.                                       *)
LEMMA ValueFields ==
  ASSUME NEW c, IsWritten(c), c.format \in DataFormats, NEW p \in Valued(c),
         NEW n, n = Adapted(c).node[VR(c, p)]
  PROVE  /\ p = <<>> => n.parent = <<>>
         /\ p # <<>> => n.parent = ER(c, p)
         /\ Len(n.kids) \in Nat /\ DOMAIN n.kids = 1..Len(n.kids) /\ Len(n.kids) <= Len(Kept(c, p))
         /\ Kind(c, p) \in Containers => Len(n.kids) = Len(Kept(c, p))
         /\ \A i \in 1..Len(n.kids) : n.kids[i] = ER(c, Kept(c, p)[i])
         /\ IsList(n.kids) /\ n.location = p
         /\ Kind(c, p) \notin Containers => n.content = ScalarContent(c, p)
<1> DEFINE u == IF p = <<>> THEN <<>> ELSE EntryRef(Path(c, p))
           k == EntryRefs(c, p)
           nested == Kind(c, p) \in Containers
           s == IF nested THEN <<>> ELSE ScalarContent(c, p)
           j == IF nested THEN k ELSE <<>>
<1>1. n = NodeOf(u, j, Kind(c, p), NoId, s, p)
  <2>1. n = ValueNode(c, p)
    BY DataNode
  <2>2. ValueNode(c, p) = NodeOf(u, j, Kind(c, p), NoId, s, p)
    BY NodesOfData, Zenon
  <2>3. QED BY <2>1, <2>2, Zenon
<1>2. n.parent = u /\ n.kids = j /\ n.content = s /\ n.location = p
  <2> DEFINE z == Kind(c, p)
  <2> HIDE DEF u, j, s, z
  <2>1. n = NodeOf(u, j, z, NoId, s, p)
    BY <1>1 DEF z
  <2>2. QED BY <2>1 DEF NodeOf
<1>3. /\ p = <<>> => u = <<>>
      /\ p # <<>> => u = ER(c, p)
      /\ ~nested => s = ScalarContent(c, p)
  BY DEF ER
<1>4. p \in Survivors(c)
  BY DEF Valued
<1>5. DOMAIN Kept(c, p) = 1..Len(Kept(c, p)) /\ Len(Kept(c, p)) \in Nat
  BY <1>4, KeptSurvive
<1>6. ASSUME NEW i \in 1..Len(Kept(c, p))
      PROVE  k[i] = ER(c, Kept(c, p)[i]) /\ ER(c, Kept(c, p)[i]) \in Seq(Nat)
  <2>1. Path(c, Kept(c, p)[i]) = Append(Path(c, p), i - 1) /\ Kept(c, p)[i] \in Survivors(c)
    BY <1>4, KeptPath
  <2>2. k[i] = EntryRef(Append(Path(c, p), i - 1))
    BY <1>5 DEF EntryRefs
  <2>3. ER(c, Kept(c, p)[i]) \in Seq(Nat)
    BY <2>1, SurvivorRefs
  <2>4. k[i] = ER(c, Kept(c, p)[i])
    BY <2>1, <2>2, Zenon DEF ER
  <2>5. QED BY <2>3, <2>4
<1>7. Len(k) = Len(Kept(c, p)) /\ DOMAIN k = 1..Len(Kept(c, p)) /\ IsList(k)
  <2> DEFINE m == Len(Kept(c, p))
  <2>1. k = [i \in 1..m |-> k[i]]
    BY <1>5, Zenon DEF EntryRefs
  <2> HIDE DEF k
  <2>2. \A i \in 1..m : k[i] \in Seq(Nat)
    BY <1>6
  <2>3. m \in Nat
    BY <1>5
  <2> HIDE DEF m
  <2>4. k \in Seq(Seq(Nat)) /\ Len(k) = m /\ DOMAIN k = 1..m
    BY <2>1, <2>2, <2>3, ItemByItem
  <2>5. IsList(k)
    BY <2>4, SeqIsList
  <2>6. QED BY <2>4, <2>5 DEF m
<1> HIDE DEF k, u, s
<1>8. /\ Len(j) \in Nat /\ DOMAIN j = 1..Len(j) /\ Len(j) <= Len(Kept(c, p))
      /\ nested => Len(j) = Len(Kept(c, p))
      /\ \A i \in 1..Len(j) : j[i] = ER(c, Kept(c, p)[i])
      /\ IsList(j)
  <2>1. CASE nested
    <3>1. j = k
      BY <2>1
    <3> HIDE DEF j
    <3>2. QED BY <1>5, <1>6, <1>7, <3>1
  <2>2. CASE ~nested
    <3>1. j = <<>> /\ Len(<<>>) = 0 /\ DOMAIN <<>> = 1..0 /\ IsList(<<>>)
      BY <2>2 DEF IsList
    <3> HIDE DEF j
    <3>2. QED BY <1>5, <2>2, <3>1
  <2>3. QED BY <2>1, <2>2
<1> HIDE DEF j
<1>9. QED BY <1>2, <1>3, <1>8

(* The fields of the node of an entry.                                      *)
LEMMA EntryFields ==
  ASSUME NEW c, IsWritten(c), c.format \in DataFormats, NEW p \in Survivors(c) \ {<<>>},
         NEW n, n = Adapted(c).node[ER(c, p)]
  PROVE  /\ n.parent = VR(c, Front(p)) /\ Front(p) \in Valued(c)
         /\ Kind(c, p) \in Containers => Len(n.kids) = 1 /\ DOMAIN n.kids = 1..1 /\ n.kids[1] = VR(c, p) /\ p \in Valued(c)
         /\ Kind(c, p) \notin Containers => Len(n.kids) = 0 /\ DOMAIN n.kids = {} /\ n.content = ScalarContent(c, p)
         /\ IsList(n.kids) /\ n.location = p
<1> DEFINE u == ValueRef(Front(Path(c, p)))
           nested == Kind(c, p) \in Containers
           s == IF nested THEN <<>> ELSE ScalarContent(c, p)
           v == ValueRef(Path(c, p))
           j == IF nested THEN <<v>> ELSE <<>>
           z == IF Kind(c, Front(p)) = "object" THEN "data:property" ELSE "data:item"
           key == c.doc[p].key
<1>1. n = NodeOf(u, j, z, key, s, p)
  <2>1. n = EntryNode(c, p)
    BY DataNode
  <2>2. EntryNode(c, p) = NodeOf(u, j, z, key, s, p)
    BY NodesOfData, Zenon
  <2>3. QED BY <2>1, <2>2, Zenon
<1>2. n.parent = u /\ n.kids = j /\ n.content = s /\ n.location = p
  <2> HIDE DEF u, j, s, z, key
  <2>1. QED BY <1>1 DEF NodeOf
<1>3. u = VR(c, Front(p))
  <2>1. Front(Path(c, p)) = Path(c, Front(p))
    BY PathGoesOn
  <2>2. QED BY <2>1, Zenon DEF VR
<1>4. Front(p) \in Valued(c)
  <2>1. Front(p) \in Survivors(c) /\ p \in Positions(c)
    BY SurvivorFacts
  <2>2. Kind(c, Front(p)) \in Containers
    BY <2>1, WrittenFacts
  <2>3. QED BY <2>1, <2>2 DEF Valued
<1>5. v = VR(c, p)
  BY DEF VR
<1>6. nested => p \in Valued(c)
  BY DEF Valued
<1> HIDE DEF u, v, z, key
<1>7. CASE nested
  <2>1. n.kids = <<v>>
    BY <1>2, <1>7
  <2>2. Len(n.kids) = 1 /\ DOMAIN n.kids = 1..1 /\ n.kids[1] = v /\ IsList(n.kids)
    BY <2>1 DEF IsList, ToSet
  <2>3. QED BY <1>2, <1>3, <1>4, <1>5, <1>6, <1>7, <2>2
<1>8. CASE ~nested
  <2>1. n.kids = <<>> /\ n.content = ScalarContent(c, p)
    BY <1>2, <1>8
  <2>2. Len(n.kids) = 0 /\ DOMAIN n.kids = {} /\ IsList(n.kids)
    BY <2>1 DEF IsList
  <2>3. QED BY <1>2, <1>3, <1>4, <1>8, <2>1, <2>2
<1>9. QED BY <1>7, <1>8

-----------------------------------------------------------------------------
(* The tree of data. *)

(* The references of a tree of data grow with the depth.                    *)
LEMMA DataGrows ==
  ASSUME NEW c, IsWritten(c), c.format \in DataFormats
  PROVE  Grows(Adapted(c))
<1> DEFINE t == Adapted(c)
           S == Survivors(c)
           W == Valued(c)
           K(p) == Kept(c, p)
           V(p) == VR(c, p)
           E(p) == ER(c, p)
           N(ref) == t.node[ref]
           Grouped(p) == Kind(c, p) \in Containers
           Refs1 == Refs(t)
           root == t.root
<1>1. /\ root = <<>>
      /\ Refs1 = {<<>>} \cup { V(p) : p \in W } \cup { E(p) : p \in S \ {<<>>} }
  BY DataNode
<1>2. <<>> \in W /\ W \in SUBSET S
  BY SurvivorFacts DEF Valued
<1>3. /\ N(<<>>).parent = NoRef
      /\ Len(N(<<>>).kids) = 1 /\ DOMAIN N(<<>>).kids = 1..1 /\ N(<<>>).kids[1] = V(<<>>)
  BY DocumentFields
<1>4. ASSUME NEW p \in W
      PROVE  /\ p = <<>> => N(V(p)).parent = <<>>
             /\ p # <<>> => N(V(p)).parent = E(p)
             /\ Len(N(V(p)).kids) \in Nat /\ DOMAIN N(V(p)).kids = 1..Len(N(V(p)).kids)
             /\ Len(N(V(p)).kids) <= Len(K(p))
             /\ Grouped(p) => Len(N(V(p)).kids) = Len(K(p))
             /\ \A i \in 1..Len(N(V(p)).kids) : N(V(p)).kids[i] = E(K(p)[i])
  BY ValueFields
<1>5. ASSUME NEW p \in S \ {<<>>}
      PROVE  /\ N(E(p)).parent = V(Front(p)) /\ Front(p) \in W
             /\ Grouped(p) => Len(N(E(p)).kids) = 1 /\ DOMAIN N(E(p)).kids = 1..1 /\ N(E(p)).kids[1] = V(p) /\ p \in W
             /\ ~Grouped(p) => Len(N(E(p)).kids) = 0 /\ DOMAIN N(E(p)).kids = {}
  BY EntryFields
<1>6. ASSUME NEW p \in S
      PROVE  /\ V(p) \in Seq(Nat) /\ Len(V(p)) = 2 * Len(p) + 1
             /\ E(p) \in Seq(Nat) /\ Len(E(p)) = 2 * Len(p)
             /\ Len(p) \in Nat /\ (p # <<>> => Len(p) > 0)
             /\ V(p) # <<>> /\ (p # <<>> => E(p) # <<>>)
             /\ \A q \in S : (V(p) = V(q) => p = q) /\ (E(p) = E(q) => p = q) /\ V(p) # E(q)
  BY SurvivorRefs
<1>7. ASSUME NEW p \in S
      PROVE  /\ Len(K(p)) \in Nat
             /\ \A i \in 1..Len(K(p)) : K(p)[i] \in S \ {<<>>} /\ Front(K(p)[i]) = p
             /\ \A i, j \in 1..Len(K(p)) : K(p)[i] = K(p)[j] => i = j
  BY KeptSurvive, Zenon
<1>8. ASSUME NEW p \in S, p # <<>>
      PROVE  /\ Front(p) \in S /\ Grouped(Front(p)) /\ Len(Front(p)) = Len(p) - 1
             /\ \E i \in 1..Len(K(Front(p))) : K(Front(p))[i] = p
  <2>1. Front(p) \in S
    BY <1>8, PathGoesOn
  <2>2. \E i \in 1..Len(K(Front(p))) : K(Front(p))[i] = p
    BY <1>8, SlotFacts
  <2>3. p \in Seq(Nat) /\ p \in Positions(c)
    BY SurvivorFacts, WrittenFacts
  <2>4. Len(Front(p)) = Len(p) - 1
    BY <1>8, <2>3, FrontFacts
  <2>5. Grouped(Front(p))
    BY <1>8, <2>3, WrittenFacts
  <2>6. QED BY <2>1, <2>2, <2>4, <2>5
<1>9. \A p \in W : p # <<>> => Grouped(p)
  BY DEF Valued
<1> HIDE DEF S, W, K, V, E, N, Grouped, Refs1, root
<1>10. root \in Refs1 /\ N(root).parent = NoRef
  BY <1>1, <1>3
<1>11. \A ref \in Refs1 : ref \in Seq(Nat)
  <2>1. <<>> \in Seq(Nat)
    OBVIOUS
  <2>2. QED BY <1>1, <1>2, <1>6, <2>1
<1>12. ASSUME NEW ref \in Refs1
       PROVE  \/ ref = root
              \/ \E p \in W : ref = V(p)
              \/ \E p \in S : p # <<>> /\ ref = E(p)
  BY <1>1
<1>13. (\A p \in W : V(p) \in Refs1 \ {root}) /\ \A p \in S : p # <<>> => E(p) \in Refs1 \ {root}
  BY <1>1, <1>2, <1>6
<1> DEFINE Fine(ref) ==
             /\ DOMAIN N(ref).kids = 1..Len(N(ref).kids)
             /\ \A i \in 1..Len(N(ref).kids) : N(ref).kids[i] \in Refs1 \ {root} /\ N(N(ref).kids[i]).parent = ref
             /\ \A i, j \in 1..Len(N(ref).kids) : N(ref).kids[i] = N(ref).kids[j] => i = j
           Hangs(ref) ==
             /\ N(ref).parent \in Refs1 /\ Len(N(ref).parent) < Len(ref)
             /\ \E i \in 1..Len(N(N(ref).parent).kids) : N(N(ref).parent).kids[i] = ref
<1>14. Fine(root)
  <2>1. N(V(<<>>)).parent = root /\ V(<<>>) \in Refs1 \ {root}
    BY <1>1, <1>2, <1>4, <1>13
  <2>2. QED BY <1>1, <1>3, <2>1
<1>15. ASSUME NEW p \in W PROVE Fine(V(p))
  <2>1. p \in S
    BY <1>2
  <2>2. \A i \in 1..Len(N(V(p)).kids) : i \in 1..Len(K(p)) /\ N(V(p)).kids[i] = E(K(p)[i])
    BY <1>4, <1>7, <2>1
  <2>3. ASSUME NEW i \in 1..Len(N(V(p)).kids)
        PROVE  N(V(p)).kids[i] \in Refs1 \ {root} /\ N(N(V(p)).kids[i]).parent = V(p)
    <3>1. K(p)[i] \in S /\ K(p)[i] # <<>> /\ Front(K(p)[i]) = p
      BY <1>7, <2>1, <2>2
    <3>2. N(E(K(p)[i])).parent = V(Front(K(p)[i])) /\ E(K(p)[i]) \in Refs1 \ {root}
      BY <1>5, <1>13, <3>1
    <3>3. QED BY <2>2, <3>1, <3>2
  <2>4. ASSUME NEW i \in 1..Len(N(V(p)).kids), NEW j \in 1..Len(N(V(p)).kids), N(V(p)).kids[i] = N(V(p)).kids[j]
        PROVE  i = j
    <3>1. E(K(p)[i]) = E(K(p)[j]) /\ K(p)[i] \in S /\ K(p)[j] \in S
      BY <1>7, <2>1, <2>2, <2>4
    <3>2. K(p)[i] = K(p)[j]
      BY <1>6, <3>1
    <3>3. QED BY <1>7, <2>1, <2>2, <3>2
  <2>5. QED BY <1>4, <2>3, <2>4
<1>16. ASSUME NEW p \in S, p # <<>> PROVE Fine(E(p))
  <2>1. CASE Grouped(p)
    <3>1. Len(N(E(p)).kids) = 1 /\ DOMAIN N(E(p)).kids = 1..1 /\ N(E(p)).kids[1] = V(p) /\ p \in W
      BY <1>5, <1>16, <2>1
    <3>2. N(V(p)).parent = E(p) /\ V(p) \in Refs1 \ {root}
      BY <1>4, <1>13, <1>16, <3>1
    <3>3. QED BY <3>1, <3>2
  <2>2. CASE ~Grouped(p)
    <3>1. Len(N(E(p)).kids) = 0 /\ DOMAIN N(E(p)).kids = {} /\ 1..0 = {}
      BY <1>5, <1>16, <2>2
    <3>2. QED BY <3>1
  <2>3. QED BY <2>1, <2>2
<1>17. Hangs(V(<<>>))
  <2> DEFINE none == <<>>
  <2>1. N(V(none)).parent = none /\ none \in Refs1
    BY <1>1, <1>2, <1>4
  <2>2. Len(none) = 0 /\ none \in S
    BY <1>2
  <2>3. 1 \in 1..Len(N(none).kids) /\ N(none).kids[1] = V(none)
    BY <1>3
  <2> HIDE DEF none
  <2>4. Len(V(none)) = 2 * Len(none) + 1
    BY <1>6, <2>2
  <2>5. Len(none) < Len(V(none))
    BY <2>2, <2>4
  <2>6. Hangs(V(none))
    BY <2>1, <2>3, <2>5
  <2>7. QED BY <2>6 DEF none
<1>18. ASSUME NEW p \in W, p # <<>> PROVE Hangs(V(p))
  <2>1. p \in S /\ Grouped(p)
    BY <1>2, <1>9, <1>18
  <2>2. N(V(p)).parent = E(p) /\ E(p) \in Refs1
    BY <1>4, <1>13, <1>18, <2>1
  <2>3. Len(E(p)) < Len(V(p))
    BY <1>6, <2>1
  <2>4. 1 \in 1..Len(N(E(p)).kids) /\ N(E(p)).kids[1] = V(p)
    BY <1>5, <1>18, <2>1
  <2>5. QED BY <2>2, <2>3, <2>4
<1>19. ASSUME NEW p \in S, p # <<>> PROVE Hangs(E(p))
  <2>1. N(E(p)).parent = V(Front(p)) /\ Front(p) \in W /\ V(Front(p)) \in Refs1
    BY <1>5, <1>13, <1>19
  <2>2. Front(p) \in S /\ Grouped(Front(p)) /\ Len(Front(p)) = Len(p) - 1
    BY <1>8, <1>19
  <2>3. PICK i \in 1..Len(K(Front(p))) : K(Front(p))[i] = p
    BY <1>8, <1>19
  <2>4. Len(V(Front(p))) < Len(E(p))
    <3>1. Len(V(Front(p))) = 2 * Len(Front(p)) + 1 /\ Len(E(p)) = 2 * Len(p) /\ Len(p) \in Nat
      BY <1>6, <2>2
    <3>2. QED BY <2>2, <3>1
  <2>5. i \in 1..Len(N(V(Front(p))).kids) /\ N(V(Front(p))).kids[i] = E(p)
    BY <1>4, <2>1, <2>2, <2>3
  <2>6. QED BY <2>1, <2>4, <2>5
<1> HIDE DEF Fine, Hangs
<1>20. \A ref \in Refs1 : Fine(ref)
  BY <1>12, <1>14, <1>15, <1>16
<1>21. \A ref \in Refs1 \ {root} : Hangs(ref)
  BY <1>12, <1>17, <1>18, <1>19
<1>22. Grows(t)
  <2>1. Grows(t) <=>
          /\ root \in Refs1 /\ N(root).parent = NoRef
          /\ \A ref \in Refs1 : ref \in Seq(Nat)
          /\ \A ref \in Refs1 : DOMAIN N(ref).kids = 1..Len(N(ref).kids)
          /\ \A ref \in Refs1 : \A i \in 1..Len(N(ref).kids) :
               N(ref).kids[i] \in Refs1 \ {root} /\ N(N(ref).kids[i]).parent = ref
          /\ \A ref \in Refs1 : \A i, j \in 1..Len(N(ref).kids) : N(ref).kids[i] = N(ref).kids[j] => i = j
          /\ \A ref \in Refs1 \ {root} :
               /\ N(ref).parent \in Refs1 /\ Len(N(ref).parent) < Len(ref)
               /\ \E i \in 1..Len(N(N(ref).parent).kids) : N(N(ref).parent).kids[i] = ref
    BY Zenon DEF Grows, NodeKids, N, Refs1, root
  <2>2. QED BY <1>10, <1>11, <1>20, <1>21, <2>1, Zenon DEF Fine, Hangs
<1>23. QED BY <1>22 DEF t

-----------------------------------------------------------------------------

(* Two things that differ are two.                                          *)
LEMMA TwoOfThem ==
  ASSUME NEW a, NEW b, a # b
  PROVE  Cardinality({a, b}) = 2
<1>1. IsFiniteSet({a}) /\ Cardinality({a}) = 1
  BY FS_Singleton
<1>2. b \notin {a} /\ {a} \cup {b} = {a, b}
  OBVIOUS
<1>3. Cardinality({a} \cup {b}) = Cardinality({a}) + 1
  BY <1>1, <1>2, FS_AddElement
<1>4. Cardinality({a, b}) = Cardinality({a}) + 1
  BY <1>2, <1>3, Zenon
<1>5. QED BY <1>1, <1>4

(* Where the nodes of data are from.                                       *)
LEMMA DataPlaces ==
  ASSUME NEW c, IsWritten(c), c.format \in DataFormats
  PROVE  /\ \A ref \in Refs(Adapted(c)) :
              \/ ref = <<>>
              \/ \E p \in Valued(c) : ref = VR(c, p)
              \/ \E p \in Survivors(c) \ {<<>>} : ref = ER(c, p)
         /\ <<>> \in Refs(Adapted(c)) /\ Adapted(c).node[<<>>].location = <<>>
         /\ \A p \in Valued(c) :
              VR(c, p) \in Refs(Adapted(c)) /\ Adapted(c).node[VR(c, p)].location = p /\ p \in Survivors(c)
         /\ \A p \in Survivors(c) \ {<<>>} :
              ER(c, p) \in Refs(Adapted(c)) /\ Adapted(c).node[ER(c, p)].location = p
<1>1. Refs(Adapted(c)) = {<<>>} \cup { VR(c, p) : p \in Valued(c) }
                          \cup { ER(c, p) : p \in Survivors(c) \ {<<>>} }
  BY DataNode
<1>2. Adapted(c).node[<<>>].location = <<>>
  BY DocumentFields
<1>3. \A p \in Valued(c) : Adapted(c).node[VR(c, p)].location = p
  BY ValueFields
<1>4. \A p \in Survivors(c) \ {<<>>} : Adapted(c).node[ER(c, p)].location = p
  BY EntryFields
<1>5. Valued(c) \in SUBSET Survivors(c)
  BY DEF Valued
<1>6. QED BY <1>1, <1>2, <1>3, <1>4, <1>5

(* A data document: two nodes for the root and for a container, one for a   *)
(* scalar entry.                                                            *)
LEMMA DataCounts ==
  ASSUME NEW c, IsTaken(c), c.format \in DataFormats
  PROVE  CountsAgree(c, Adapted(c))
<1> DEFINE t == Adapted(c)
           S == Survivors(c)
           W == Valued(c)
           V(p) == VR(c, p)
           E(p) == ER(c, p)
           L(ref) == t.node[ref].location
           R == Refs(t)
<1>0. IsWritten(c)
  BY TakenFacts
<1>1. /\ \A ref \in R : ref = <<>> \/ (\E p \in W : ref = V(p)) \/ \E p \in S \ {<<>>} : ref = E(p)
      /\ <<>> \in R /\ L(<<>>) = <<>>
      /\ \A p \in W : V(p) \in R /\ L(V(p)) = p /\ p \in S
      /\ \A p \in S \ {<<>>} : E(p) \in R /\ L(E(p)) = p
  BY <1>0, DataPlaces
<1>2. \A p \in S : V(p) # <<>> /\ (p # <<>> => E(p) # <<>> /\ V(p) # E(p))
  BY <1>0, SurvivorRefs
<1>3. <<>> \in W /\ \A p \in S \ {<<>>} : p \in W <=> Kind(c, p) \in Containers
  BY <1>0, SurvivorFacts DEF Valued
<1>4. \A p : NodesAt(t, p) = { ref \in R : L(ref) = p }
  BY DEF NodesAt
<1> HIDE DEF t, S, W, V, E, L, R
<1>5. ASSUME NEW p \in Positions(c)
      PROVE  Cardinality(NodesAt(t, p)) =
               IF Omitted(c, p) THEN 0
               ELSE IF c.format \in DataFormats /\ (p = <<>> \/ Kind(c, p) \in Containers) THEN 2
               ELSE 1
  <2>0. Omitted(c, p) <=> p \notin S
    BY OmittedFacts DEF S
  <2>1. CASE p \notin S
    <3>1. NodesAt(t, p) = {}
      BY <1>1, <1>3, <1>4, <2>1
    <3>2. QED BY <2>0, <2>1, <3>1, FS_EmptySet
  <2>2. CASE p = <<>>
    <3>1. NodesAt(t, p) = {<<>>, V(p)}
      BY <1>1, <1>3, <1>4, <2>2
    <3>2. <<>> # V(p) /\ p \in S
      BY <1>1, <1>2, <1>3, <2>2
    <3>3. Cardinality({<<>>, V(p)}) = 2
      BY <3>2, TwoOfThem
    <3>4. QED BY <2>0, <2>2, <3>1, <3>2, <3>3
  <2>3. CASE p \in S /\ p # <<>> /\ Kind(c, p) \in Containers
    <3>1. p \in W
      BY <1>3, <2>3
    <3>2. NodesAt(t, p) = {E(p), V(p)}
      BY <1>1, <1>4, <2>3, <3>1
    <3>3. E(p) # V(p)
      BY <1>2, <2>3
    <3>4. Cardinality({E(p), V(p)}) = 2
      BY <3>3, TwoOfThem
    <3>5. QED BY <2>0, <2>3, <3>2, <3>4
  <2>4. CASE p \in S /\ p # <<>> /\ Kind(c, p) \notin Containers
    <3>1. p \notin W
      BY <1>3, <2>4
    <3>2. NodesAt(t, p) = {E(p)}
      BY <1>1, <1>4, <2>4, <3>1
    <3>3. Cardinality({E(p)}) = 1
      BY FS_Singleton
    <3>4. QED BY <2>0, <2>4, <3>2, <3>3
  <2>5. QED BY <2>1, <2>2, <2>3, <2>4
<1>6. CountsAgree(c, t)
  BY <1>5 DEF CountsAgree
<1>7. QED BY <1>6 DEF t

(* A data document: parents and order are those of the document.            *)
LEMMA DataShape ==
  ASSUME NEW c, IsWritten(c), c.format \in DataFormats
  PROVE  ParentsAbove(c, Adapted(c)) /\ KidsInOrder(c, Adapted(c))
<1> DEFINE t == Adapted(c)
           S == Survivors(c)
           W == Valued(c)
           K(p) == Kept(c, p)
           V(p) == VR(c, p)
           E(p) == ER(c, p)
           N(ref) == t.node[ref]
           R == Refs(t)
<1>1. /\ \A ref \in R : ref = <<>> \/ (\E p \in W : ref = V(p)) \/ \E p \in S \ {<<>>} : ref = E(p)
      /\ N(<<>>).location = <<>>
      /\ \A p \in W : N(V(p)).location = p /\ p \in S
      /\ \A p \in S \ {<<>>} : N(E(p)).location = p
  BY DataPlaces
<1>2. t.root = <<>>
  BY DataNode
<1>3. DOMAIN N(<<>>).kids = 1..1
  BY DocumentFields
<1>4. ASSUME NEW p \in W
      PROVE  /\ p = <<>> => N(V(p)).parent = <<>>
             /\ p # <<>> => N(V(p)).parent = E(p)
             /\ Len(N(V(p)).kids) \in Nat /\ DOMAIN N(V(p)).kids = 1..Len(N(V(p)).kids)
             /\ Len(N(V(p)).kids) <= Len(K(p))
             /\ \A i \in 1..Len(N(V(p)).kids) : N(V(p)).kids[i] = E(K(p)[i])
  BY ValueFields
<1>5. ASSUME NEW p \in S \ {<<>>}
      PROVE  /\ N(E(p)).parent = V(Front(p)) /\ Front(p) \in W
             /\ DOMAIN N(E(p)).kids = 1..1 \/ DOMAIN N(E(p)).kids = {}
  BY EntryFields
<1>6. ASSUME NEW p \in S
      PROVE  /\ Len(K(p)) \in Nat
             /\ \A i \in 1..Len(K(p)) : K(p)[i] \in S \ {<<>>}
             /\ \A i, j \in 1..Len(K(p)) : i < j => PlaceAmong(c, K(p)[i]) < PlaceAmong(c, K(p)[j])
  BY KeptSurvive, Zenon
<1> HIDE DEF t, S, W, K, V, E, N, R
<1>7. ASSUME NEW ref \in R \ {t.root}
      PROVE  \/ N(N(ref).parent).location = N(ref).location
             \/ N(ref).location # <<>> /\ N(N(ref).parent).location = Front(N(ref).location)
  <2>1. CASE \E p \in W : ref = V(p)
    <3>1. PICK p \in W : ref = V(p)
      BY <2>1
    <3>2. CASE p = <<>>
      BY <1>1, <1>4, <3>1, <3>2
    <3>3. CASE p # <<>>
      BY <1>1, <1>4, <3>1, <3>3
    <3>4. QED BY <3>2, <3>3
  <2>2. CASE \E p \in S \ {<<>>} : ref = E(p)
    BY <1>1, <1>5, <2>2
  <2>3. QED BY <1>1, <1>2, <2>1, <2>2
<1>8. ASSUME NEW ref \in R, NEW i \in DOMAIN N(ref).kids, NEW j \in DOMAIN N(ref).kids, i < j
      PROVE  PlaceAmong(c, N(N(ref).kids[i]).location) < PlaceAmong(c, N(N(ref).kids[j]).location)
  <2>1. CASE ref = <<>>
    BY <1>3, <1>8, <2>1
  <2>2. CASE \E p \in W : ref = V(p)
    <3>1. PICK p \in W : ref = V(p)
      BY <2>2
    <3>2. /\ i \in 1..Len(K(p)) /\ j \in 1..Len(K(p))
          /\ N(ref).kids[i] = E(K(p)[i]) /\ N(ref).kids[j] = E(K(p)[j])
      <4> DEFINE m == Len(N(ref).kids)
      <4>1. /\ m \in Nat /\ DOMAIN N(ref).kids = 1..m /\ m <= Len(K(p))
            /\ \A h \in 1..m : N(ref).kids[h] = E(K(p)[h])
        BY <1>4, <3>1, Zenon
      <4>2. p \in S /\ Len(K(p)) \in Nat
        BY <1>1, <1>6, <3>1
      <4>3. i \in 1..m /\ j \in 1..m
        BY <4>1
      <4> HIDE DEF m
      <4>4. i \in 1..Len(K(p)) /\ j \in 1..Len(K(p))
        BY <4>1, <4>2, <4>3
      <4>5. QED BY <4>1, <4>3, <4>4
    <3>3. N(N(ref).kids[i]).location = K(p)[i] /\ N(N(ref).kids[j]).location = K(p)[j]
      BY <1>1, <1>6, <3>1, <3>2
    <3>4. QED BY <1>1, <1>6, <1>8, <3>1, <3>2, <3>3
  <2>3. CASE \E p \in S \ {<<>>} : ref = E(p)
    <3>1. DOMAIN N(ref).kids = 1..1 \/ DOMAIN N(ref).kids = {}
      BY <1>5, <2>3
    <3>2. QED BY <1>8, <3>1
  <2>4. QED BY <1>1, <2>1, <2>2, <2>3
<1>9. ParentsAbove(c, t)
  BY <1>7 DEF ParentsAbove, N, R
<1>10. KidsInOrder(c, t)
  BY <1>8 DEF KidsInOrder, N, R
<1>11. QED BY <1>9, <1>10 DEF t

-----------------------------------------------------------------------------

(* A data document: no text is lost.                                        *)
LEMMA DataTexts ==
  ASSUME NEW c, IsTaken(c), c.format \in DataFormats
  PROVE  TextsThere(c, Adapted(c))
<1> DEFINE t == Adapted(c)
<1>0. IsWritten(c)
  BY TakenFacts
<1>1. SUFFICES ASSUME NEW p \in Positions(c), ~Omitted(c, p), HasText(c, p)
               PROVE  \E ref \in NodesAt(t, p) :
                        LET content == t.node[ref].content
                        IN  "text" \in DOMAIN content /\ content["text"] = <<"string", TextAt(c, p)>>
  BY DEF TextsThere
<1>2. p \in Survivors(c)
  BY <1>1, OmittedFacts
<1>3. Kind(c, p) \notin Containers /\ Kind(c, p) # "null" /\ TextAt(c, p) = c.doc[p].text
  BY <1>1 DEF HasText, TextAt
<1> DEFINE s == c.doc[p].text
           content == ScalarContent(c, p)
<1>4. content = [value |-> <<Kind(c, p), s>>, text |-> <<"string", s>>]
  BY <1>3 DEF ScalarContent
<1> HIDE DEF s, content
<1>5. "text" \in DOMAIN content /\ content["text"] = <<"string", s>>
  BY <1>4
<1>6. PICK ref \in NodesAt(t, p) : t.node[ref].content = content
  <2>1. CASE p = <<>>
    <3>1. p \in Valued(c)
      BY <1>2, <2>1 DEF Valued
    <3>2. VR(c, p) \in Refs(t) /\ t.node[VR(c, p)].location = p
      BY <1>0, <3>1, DataPlaces
    <3>3. t.node[VR(c, p)].content = content
      BY <1>0, <1>3, <3>1, ValueFields DEF content
    <3>4. QED BY <3>2, <3>3 DEF NodesAt
  <2>2. CASE p # <<>>
    <3>1. p \in Survivors(c) \ {<<>>}
      BY <1>2, <2>2
    <3>2. ER(c, p) \in Refs(t) /\ t.node[ER(c, p)].location = p
      BY <1>0, <3>1, DataPlaces
    <3>3. t.node[ER(c, p)].content = content
      BY <1>0, <1>3, <3>1, EntryFields DEF content
    <3>4. QED BY <3>2, <3>3 DEF NodesAt
  <2>3. QED BY <2>1, <2>2
<1> HIDE DEF t
<1>7. QED BY <1>3, <1>5, <1>6 DEF s

(* A data document: the tree is within the limits, for every node is one    *)
(* that was counted.                                                        *)
LEMMA DataLimits ==
  ASSUME NEW c, IsTaken(c), c.format \in DataFormats
  PROVE  WithinLimits(c, Adapted(c))
<1> DEFINE t == Adapted(c)
           S == Survivors(c)
           W == Valued(c)
           V(p) == VR(c, p)
           E(p) == ER(c, p)
           R == Refs(t)
           f == [p \in S |-> IF p = <<>> THEN <<>> ELSE E(p)]
           g == [p \in S |-> V(p)]
           A == { f[p] : p \in S }
           B == { g[p] : p \in S }
<1>0. IsWritten(c)
  BY TakenFacts
<1>1. \A ref \in R : ref = <<>> \/ (\E p \in W : ref = V(p) /\ p \in S) \/ \E p \in S \ {<<>>} : ref = E(p)
  BY <1>0, DataPlaces
<1>2. <<>> \in S /\ IsFiniteSet(S)
  BY <1>0, SurvivorFacts
<1>3. Counted(c) = S
  BY DEF Counted
<1>4. /\ Cardinality(S) <= c.limits.nodes /\ c.limits.nodes \in Nat /\ c.limits.depth \in Nat
      /\ \A p \in S : Len(p) + 1 <= c.limits.depth
  BY <1>0, <1>3, TakenFacts, WrittenFacts
<1>5. ASSUME NEW p \in S
      PROVE  Len(V(p)) = 2 * Len(p) + 1 /\ Len(E(p)) = 2 * Len(p) /\ Len(p) \in Nat
  BY <1>0, SurvivorRefs
<1> HIDE DEF t, S, W, V, E, R
<1>6. R \in SUBSET (A \cup B)
  <2>1. ASSUME NEW ref \in R PROVE ref \in A \cup B
    <3>1. CASE ref = <<>>
      <4>1. f[<<>>] = <<>>
        BY <1>2
      <4>2. QED BY <1>2, <3>1, <4>1
    <3>2. CASE \E p \in W : ref = V(p) /\ p \in S
      BY <3>2
    <3>3. CASE \E p \in S \ {<<>>} : ref = E(p)
      <4>1. PICK p \in S \ {<<>>} : ref = E(p)
        BY <3>3
      <4>2. f[p] = ref
        BY <4>1
      <4>3. QED BY <4>2
    <3>4. QED BY <1>1, <3>1, <3>2, <3>3
  <2>2. QED BY <2>1
<1>7. f \in Surjection(S, A) /\ g \in Surjection(S, B)
  BY DEF Surjection
<1> HIDE DEF f, g, A, B
<1>8. /\ IsFiniteSet(A) /\ Cardinality(A) <= Cardinality(S)
      /\ IsFiniteSet(B) /\ Cardinality(B) <= Cardinality(S)
  BY <1>2, <1>7, FS_Surjection
<1>9. /\ IsFiniteSet(A \cup B) /\ IsFiniteSet(A \cap B)
      /\ Cardinality(A \cup B) = Cardinality(A) + Cardinality(B) - Cardinality(A \cap B)
  <2>1. A \cap B \in SUBSET A
    OBVIOUS
  <2>2. QED BY <1>8, <2>1, FS_Union, FS_Subset
<1>10. IsFiniteSet(R) /\ Cardinality(R) <= Cardinality(A \cup B)
  BY <1>6, <1>9, FS_Subset
<1>11. /\ Cardinality(R) \in Nat /\ Cardinality(A) \in Nat /\ Cardinality(B) \in Nat /\ Cardinality(S) \in Nat
       /\ Cardinality(A \cup B) \in Nat /\ Cardinality(A \cap B) \in Nat
  BY <1>2, <1>8, <1>9, <1>10, FS_CardinalityType
<1>12. Cardinality(R) <= 2 * c.limits.nodes
  <2>1. \A r, u, i, a, b, m, n \in Nat :
          (r <= u /\ u = a + b - i /\ a <= m /\ b <= m /\ m <= n) => r <= 2 * n
    OBVIOUS
  <2>2. QED BY <1>4, <1>8, <1>9, <1>10, <1>11, <2>1, Zenon
<1>13. ASSUME NEW ref \in R PROVE Len(ref) + 1 <= 2 * c.limits.depth
  <2>1. CASE ref = <<>>
    <3> DEFINE none == <<>>
    <3>1. Len(none) = 0 /\ none \in S /\ ref = none
      BY <1>2, <2>1
    <3> HIDE DEF none
    <3>2. QED BY <1>4, <3>1
  <2>2. CASE \E p \in W : ref = V(p) /\ p \in S
    <3>1. PICK p \in S : ref = V(p)
      BY <2>2
    <3>2. Len(ref) = 2 * Len(p) + 1 /\ Len(p) \in Nat /\ Len(p) + 1 <= c.limits.depth
      BY <1>4, <1>5, <3>1
    <3>3. QED BY <1>4, <3>2
  <2>3. CASE \E p \in S \ {<<>>} : ref = E(p)
    <3>1. PICK p \in S : ref = E(p)
      BY <2>3
    <3>2. Len(ref) = 2 * Len(p) /\ Len(p) \in Nat /\ Len(p) + 1 <= c.limits.depth
      BY <1>4, <1>5, <3>1
    <3>3. QED BY <1>4, <3>2
  <2>4. QED BY <1>1, <2>1, <2>2, <2>3
<1>14. WithinLimits(c, t)
  BY <1>12, <1>13 DEF WithinLimits, R
<1>15. QED BY <1>14 DEF t

(* The tree of a data document that is not refused reads back and is within *)
(* the limits.                                                              *)
LEMMA DataFaithful ==
  ASSUME NEW c, IsTaken(c), c.format \in DataFormats
  PROVE  ReadsBack(c, Adapted(c)) /\ WithinLimits(c, Adapted(c))
<1>0. IsWritten(c)
  BY TakenFacts
<1>1. IsRootedTree(Adapted(c))
  BY <1>0, DataGrows, GrownIsRooted
<1>2. CountsAgree(c, Adapted(c)) /\ TextsThere(c, Adapted(c)) /\ WithinLimits(c, Adapted(c))
  BY DataCounts, DataTexts, DataLimits
<1>3. ParentsAbove(c, Adapted(c)) /\ KidsInOrder(c, Adapted(c))
  BY <1>0, DataShape
<1>4. IdsStrongest(c, Adapted(c))
  BY DEF IdsStrongest, DataFormats
<1>5. QED BY <1>1, <1>2, <1>3, <1>4, ReadsBackParts

(* The tree of an adapter is finite, and its nodes list their children.    *)
LEMMA AdaptedIsMap ==
  ASSUME NEW c, IsWritten(c)
  PROVE  IsMap(Adapted(c))
<1> DEFINE t == Adapted(c)
           S == Survivors(c)
           N(ref) == t.node[ref]
<1>0. IsFiniteSet(S) /\ \A p \in S : Path(c, p) \in Seq(Nat)
  BY SurvivorFacts, PathIs
<1>1. CASE c.format \notin DataFormats
  <2> DEFINE f == [p \in S |-> Path(c, p)]
  <2>1. Refs(t) = { Path(c, p) : p \in S }
    BY <1>1, XmlNode
  <2>2. \A p \in S : IsList(N(Path(c, p)).kids)
    BY <1>1, XmlFields
  <2>3. f \in Surjection(S, Refs(t))
    BY <2>1 DEF Surjection
  <2> HIDE DEF f, S, t, N
  <2>4. IsFiniteSet(Refs(t))
    BY <1>0, <2>3, FS_Surjection
  <2>5. (\A ref \in Refs(t) : IsList(N(ref).kids)) /\ NoRef \notin Refs(t)
    BY <1>0, <2>1, <2>2, DocumentsAssumption
  <2>6. IsMap(t)
    BY <2>4, <2>5 DEF IsMap, N
  <2>7. QED BY <2>6 DEF t
<1>2. CASE c.format \in DataFormats
  <2> DEFINE W == Valued(c)
             V(p) == VR(c, p)
             E(p) == ER(c, p)
             Q == S \ {<<>>}
             f == [p \in W |-> V(p)]
             g == [p \in Q |-> E(p)]
             A == { f[p] : p \in W }
             B == { g[p] : p \in Q }
  <2>1. Refs(t) = {<<>>} \cup A \cup B
    BY <1>2, DataNode
  <2>2. /\ IsList(N(<<>>).kids)
        /\ \A p \in W : IsList(N(V(p)).kids)
        /\ \A p \in Q : IsList(N(E(p)).kids)
    BY <1>2, DocumentFields, ValueFields, EntryFields
  <2>3. f \in Surjection(W, A) /\ g \in Surjection(Q, B)
    BY DEF Surjection
  <2>4. W \in SUBSET S /\ Q \in SUBSET S
    BY DEF Valued
  <2>5. \A p \in S : V(p) \in Seq(Nat) /\ E(p) \in Seq(Nat)
    BY SurvivorRefs
  <2>6. (\A ref \in A : \E p \in W : ref = V(p)) /\ (\A ref \in B : \E p \in Q : ref = E(p))
    OBVIOUS
  <2> HIDE DEF f, g, A, B, S, W, V, E, Q, t, N
  <2>7. IsFiniteSet(A) /\ IsFiniteSet(B) /\ IsFiniteSet({<<>>})
    BY <1>0, <2>3, <2>4, FS_Surjection, FS_Subset, FS_Singleton
  <2>8. IsFiniteSet(Refs(t))
    BY <2>1, <2>7, FS_Union
  <2>9. \A ref \in Refs(t) : IsList(N(ref).kids)
    BY <2>1, <2>2, <2>6
  <2>10. NoRef \notin Refs(t)
    <3>1. <<>> \in Seq(Nat)
      OBVIOUS
    <3>2. QED BY <2>1, <2>4, <2>5, <2>6, <3>1, DocumentsAssumption
  <2>11. IsMap(t)
    BY <2>8, <2>9, <2>10 DEF IsMap, N
  <2>12. QED BY <2>11 DEF t
<1>3. QED BY <1>1, <1>2

(* validate_tree has nothing to say of the tree of an adapter.              *)
LEMMA AdaptedAreValid ==
  ASSUME NEW c, IsTaken(c)
  PROVE  Violations(Adapted(c)) = {}
<1>1. IsWritten(c)
  BY TakenFacts
<1>2. IsMap(Adapted(c))
  BY <1>1, AdaptedIsMap
<1>3. IsRootedTree(Adapted(c))
  BY <1>1, XmlGrows, DataGrows, GrownIsRooted
<1>4. QED BY <1>2, <1>3, RootedTreesAreValid

-----------------------------------------------------------------------------
(* The inductive invariant. *)

(* A tree that was given: what the stage says of it.                       *)
GivenTree ==
  call.what = "tree" =>
    /\ stage \in {"called", "built", "raised", "valid", "invalid", "normalised"}
    /\ stage = "raised" => ~TreeContract(call.tree)
    /\ stage \in {"built", "valid", "invalid", "normalised"} =>
         tree = call.tree /\ TreeContract(call.tree)
    /\ stage \in {"valid", "normalised"} => Violations(call.tree) = {}
    /\ stage = "invalid" => Violations(call.tree) # {}

(* A document: the only tree there is is that of its adapter.              *)
AdaptedTree ==
  call.what = "document" =>
    \/ stage \in {"called", "rejected", "raised"} /\ tree = NoTree
    \/ /\ stage \in {"built", "valid", "normalised"}
       /\ tree = Adapted(call) /\ ~Refused(call)

(* A normalised tree is that of the tree before, and so is its trace.       *)
NormalTree ==
  stage = "normalised" =>
    normal = Normalised(tree, call.profile) /\ trace = Trace(tree, call.profile)

(* Two sequences: the script is one that costs nothing, as far as it has    *)
(* come.                                                                    *)
AlignedSoFar ==
  call.what = "align" =>
    /\ stage \in {"called", "aligned"}
    /\ cursor = <<cursor[1], cursor[2]>>
    /\ AlignedTo(left, right, script, cursor[1], cursor[2])
    /\ stage = "aligned" => cursor = <<Len(left) + 1, Len(right) + 1>>

(* The inductive invariant: where a call is, and what it has by then.       *)
DocumentsInv == call \in Calls /\ GivenTree /\ AdaptedTree /\ NormalTree /\ AlignedSoFar

(* What DocumentsAssumption says of the call.                               *)
LEMMA CallFacts ==
  ASSUME call \in Calls
  PROVE  /\ call.what \in {"document", "tree", "align"}
         /\ call.what = "document" => IsWritten(call)
         /\ call.what = "tree" => IsMap(call.tree) /\ HasContents(call.tree)
         /\ call.what = "align" => IsList(left) /\ IsList(right) /\ Len(left) \in Nat /\ Len(right) \in Nat
<1>1. IsCall(call)
  BY DocumentsAssumption
<1>2. call.what \in {"document", "tree", "align"}
  BY <1>1 DEF IsCall
<1>3. call.what = "document" => IsWritten(call)
  BY <1>1 DEF IsWritten
<1>4. call.what = "tree" => IsMap(call.tree) /\ HasContents(call.tree)
  BY <1>1 DEF IsCall
<1>5. call.what = "align" => IsList(call.left) /\ IsList(call.right)
  BY <1>1 DEF IsCall
<1>6. \A s : IsList(s) => Len(s) \in Nat
  BY DEF IsList
<1>7. QED BY <1>2, <1>3, <1>4, <1>5, <1>6 DEF left, right

(* Everything starts there.                                                *)
LEMMA DocumentsInit ==
  ASSUME Init
  PROVE  DocumentsInv
<1>1. /\ call \in Calls /\ stage = "called" /\ tree = NoTree
      /\ script = <<>> /\ cursor = <<1, 1>>
  BY DEF Init
<1>2. GivenTree /\ AdaptedTree /\ NormalTree
  BY <1>1 DEF GivenTree, AdaptedTree, NormalTree
<1>3. AlignedSoFar
  <2>1. SUFFICES ASSUME call.what = "align"
                 PROVE  AlignedTo(left, right, <<>>, 1, 1)
    BY <1>1 DEF AlignedSoFar
  <2>2. QED BY <1>1, <2>1, CallFacts, NothingAligned
<1>4. QED BY <1>1, <1>2, <1>3 DEF DocumentsInv

(* The steps of documents and trees.                                       *)
LEMMA TreeSteps ==
  ASSUME DocumentsInv, Reject \/ Raise \/ Adapt \/ Build \/ BuildRaises \/ Validate \/ Normalise
  PROVE  DocumentsInv'
<1>1. /\ call \in Calls /\ call' = call /\ script' = script /\ cursor' = cursor
      /\ call'.what = call.what
  BY DEF DocumentsInv, Reject, Raise, Adapt, Build, BuildRaises, Validate, Normalise, aligned
<1>2. GivenTree /\ AdaptedTree /\ NormalTree /\ AlignedSoFar
  BY DEF DocumentsInv
<1>3. call.what # "align"
  <2>1. CASE Reject \/ Raise \/ Adapt
    BY <2>1 DEF Reject, Raise, Adapt, IsDocument
  <2>2. CASE Build \/ BuildRaises
    BY <2>2 DEF Build, BuildRaises
  <2>3. CASE Validate \/ Normalise
    BY <1>2, <2>3 DEF Validate, Normalise, AlignedSoFar
  <2>4. QED BY <2>1, <2>2, <2>3
<1>4. AlignedSoFar'
  BY <1>1, <1>3 DEF AlignedSoFar
<1>5. CASE Reject
  <2>1. call.what = "document" /\ stage = "called" /\ stage' = "rejected" /\ tree' = tree
    BY <1>5 DEF Reject, IsDocument
  <2>2. QED BY <1>1, <1>2, <1>4, <2>1 DEF DocumentsInv, GivenTree, AdaptedTree, NormalTree, NoTree
<1>6. CASE Raise
  <2>1. call.what = "document" /\ stage = "called" /\ stage' = "raised" /\ tree' = tree
    BY <1>6 DEF Raise, IsDocument
  <2>2. QED BY <1>1, <1>2, <1>4, <2>1 DEF DocumentsInv, GivenTree, AdaptedTree, NormalTree, NoTree
<1>7. CASE Adapt
  <2>1. /\ call.what = "document" /\ stage = "called" /\ stage' = "built" /\ tree' = Adapted(call)
        /\ ~Refused(call)
    BY <1>7 DEF Adapt, IsDocument
  <2>2. AdaptedTree'
    BY <1>1, <2>1, Zenon DEF AdaptedTree
  <2>3. QED BY <1>1, <1>4, <2>1, <2>2 DEF DocumentsInv, GivenTree, NormalTree
<1>8. CASE Build
  <2>1. /\ call.what = "tree" /\ stage = "called" /\ stage' = "built" /\ tree' = call.tree
        /\ TreeContract(call.tree)
    BY <1>8 DEF Build
  <2>2. QED BY <1>1, <1>4, <2>1 DEF DocumentsInv, GivenTree, AdaptedTree, NormalTree
<1>9. CASE BuildRaises
  <2>1. call.what = "tree" /\ stage = "called" /\ stage' = "raised" /\ tree' = tree /\ ~TreeContract(call.tree)
    BY <1>9 DEF BuildRaises
  <2>2. QED BY <1>1, <1>4, <2>1 DEF DocumentsInv, GivenTree, AdaptedTree, NormalTree
<1>10. CASE Validate
  <2>1. /\ stage = "built" /\ tree' = tree
        /\ stage' = IF Violations(tree) = {} THEN "valid" ELSE "invalid"
    BY <1>10 DEF Validate
  <2>2. stage' \in {"valid", "invalid"} /\ (stage' = "valid" <=> Violations(tree) = {})
    BY <2>1
  <2>3. GivenTree'
    BY <1>1, <1>2, <2>1, <2>2 DEF GivenTree
  <2>4. AdaptedTree'
    <3>1. SUFFICES ASSUME call.what = "document"
                   PROVE  tree = Adapted(call) /\ ~Refused(call) /\ stage' = "valid"
      BY <1>1, <2>1, Zenon DEF AdaptedTree
    <3>2. tree = Adapted(call) /\ ~Refused(call)
      BY <1>2, <2>1, <3>1 DEF AdaptedTree
    <3>3. IsTaken(call)
      BY <1>1, <3>1, <3>2, CallFacts DEF IsTaken
    <3>4. Violations(tree) = {}
      BY <3>2, <3>3, AdaptedAreValid
    <3>5. QED BY <2>2, <3>2, <3>4
  <2>5. QED BY <1>1, <1>4, <2>2, <2>3, <2>4 DEF DocumentsInv, NormalTree
<1>11. CASE Normalise
  <2>1. /\ stage = "valid" /\ tree' = tree /\ stage' = "normalised"
        /\ normal' = Normalised(tree, call.profile) /\ trace' = Trace(tree, call.profile)
    BY <1>11 DEF Normalise
  <2>2. GivenTree'
    BY <1>1, <1>2, <2>1 DEF GivenTree
  <2>3. AdaptedTree'
    <3>1. SUFFICES ASSUME call.what = "document" PROVE tree = Adapted(call) /\ ~Refused(call)
      BY <1>1, <2>1, Zenon DEF AdaptedTree
    <3>2. QED BY <1>2, <2>1, <3>1 DEF AdaptedTree
  <2>4. NormalTree'
    BY <1>1, <2>1, Zenon DEF NormalTree
  <2>5. QED BY <1>1, <1>4, <2>2, <2>3, <2>4 DEF DocumentsInv
<1>12. QED BY <1>5, <1>6, <1>7, <1>8, <1>9, <1>10, <1>11

(* An edit of align_sequences.                                             *)
LEMMA AlignSteps ==
  ASSUME DocumentsInv, AlignEqual \/ AlignLeft \/ AlignRight
  PROVE  DocumentsInv'
<1> DEFINE i == cursor[1]
           j == cursor[2]
           d == Longest(left, right)
<1>1. /\ call.what = "align" /\ stage = "called" /\ call \in Calls
      /\ call' = call /\ stage' = stage /\ tree' = tree
  BY DEF DocumentsInv, AlignEqual, AlignLeft, AlignRight, Aligning, Take
<1>2. /\ Len(left) \in Nat /\ Len(right) \in Nat
      /\ AlignedTo(left, right, script, i, j)
  BY <1>1, CallFacts DEF DocumentsInv, AlignedSoFar
<1>3. i \in 1..(Len(left) + 1) /\ j \in 1..(Len(right) + 1)
  BY <1>2 DEF AlignedTo
<1>4. Recurs(left, right, i, j)
  BY <1>2, <1>3, TableFacts
<1>5. ASSUME NEW op \in {"ALIGN", "LEFT_ONLY", "RIGHT_ONLY"}, NEW di \in {0, 1}, NEW dj \in {0, 1},
             Take(op, di, dj), i + di <= Len(left) + 1, j + dj <= Len(right) + 1,
             di = 1 <=> op # "RIGHT_ONLY", dj = 1 <=> op # "LEFT_ONLY",
             op = "ALIGN" => left[i] = right[j],
             d[<<i, j>>] = d[<<i + di, j + dj>>] + (IF op = "ALIGN" THEN 1 ELSE 0)
      PROVE  DocumentsInv'
  <2>1. AlignedTo(left, right, Append(script, [op |-> op, left |-> i, right |-> j]), i + di, j + dj)
    BY <1>2, <1>5, EditStep
  <2>2. /\ script' = Append(script, [op |-> op, left |-> i, right |-> j])
        /\ cursor' = <<i + di, j + dj>>
    BY <1>5 DEF Take
  <2>3. cursor'[1] = i + di /\ cursor'[2] = j + dj /\ left' = left /\ right' = right
    BY <1>1, <2>2 DEF left, right
  <2>4. AlignedTo(left, right, script', cursor'[1], cursor'[2])
    BY <2>1, <2>2, <2>3
  <2>5. AlignedSoFar'
    BY <1>1, <2>2, <2>3, <2>4 DEF AlignedSoFar
  <2>6. GivenTree' /\ AdaptedTree' /\ NormalTree'
    BY <1>1 DEF GivenTree, AdaptedTree, NormalTree
  <2>7. QED BY <1>1, <2>5, <2>6 DEF DocumentsInv
<1>6. \A x \in 1..(Len(left) + 1), y \in 1..(Len(right) + 1) : d[<<x, y>>] \in Nat
  BY <1>2, LongestIsANumber
<1>10. \A m \in Nat : \A x \in 1..(m + 1) :
          x + 0 = x /\ x <= m + 1 /\ (x <= m => x + 1 \in 1..(m + 1) /\ x + 1 <= m + 1)
  OBVIOUS
<1>7. CASE AlignEqual
  <2>1. i <= Len(left) /\ j <= Len(right) /\ left[i] = right[j] /\ Take("ALIGN", 1, 1)
    BY <1>7 DEF AlignEqual, BothLeft
  <2>2. d[<<i, j>>] = d[<<i + 1, j + 1>>] + 1
    BY <1>4, <2>1 DEF Recurs
  <2>3. i + 1 <= Len(left) + 1 /\ j + 1 <= Len(right) + 1
    BY <1>2, <1>3, <2>1
  <2> HIDE DEF i, j, d
  <2>4. QED BY <1>5, <2>1, <2>2, <2>3
<1>8. CASE AlignLeft
  <2>1. /\ i <= Len(left) /\ Take("LEFT_ONLY", 1, 0)
        /\ (i <= Len(left) /\ j <= Len(right)) =>
             left[i] # right[j] /\ d[<<i + 1, j>>] >= d[<<i, j + 1>>]
    BY <1>8 DEF AlignLeft, BothLeft, PrefersLeft
  <2>2. i + 1 \in 1..(Len(left) + 1) /\ i + 1 <= Len(left) + 1 /\ j + 0 = j /\ j <= Len(right) + 1
    BY <1>2, <1>3, <1>10, <2>1, Zenon
  <2>3. d[<<i, j>>] = d[<<i + 1, j>>]
    <3>1. CASE j <= Len(right)
      <4>1. j + 1 \in 1..(Len(right) + 1)
        BY <1>2, <1>3, <3>1
      <4>2. d[<<i + 1, j>>] \in Nat /\ d[<<i, j + 1>>] \in Nat
        BY <1>3, <1>6, <2>2, <4>1
      <4>3. d[<<i, j>>] = Max({d[<<i + 1, j>>], d[<<i, j + 1>>]})
        BY <1>4, <2>1, <3>1 DEF Recurs
      <4>4. d[<<i + 1, j>>] >= d[<<i, j + 1>>]
        BY <2>1, <3>1
      <4> HIDE DEF d, i, j
      <4>5. QED BY <4>2, <4>3, <4>4, Greater
    <3>2. CASE j > Len(right)
      <4>1. Recurs(left, right, i + 1, j)
        BY <1>2, <1>3, <2>2, TableFacts
      <4>2. QED BY <1>4, <3>2, <4>1 DEF Recurs
    <3>3. QED BY <1>2, <1>3, <3>1, <3>2
  <2>4. d[<<i, j>>] = d[<<i + 1, j + 0>>] + 0
    <3>1. d[<<i, j>>] \in Nat
      BY <1>3, <1>6
    <3> HIDE DEF d, i, j
    <3>2. QED BY <2>2, <2>3, <3>1
  <2> HIDE DEF i, j, d
  <2>5. QED BY <1>5, <2>1, <2>2, <2>4
<1>9. CASE AlignRight
  <2>1. /\ j <= Len(right) /\ Take("RIGHT_ONLY", 0, 1)
        /\ (i <= Len(left) /\ j <= Len(right)) =>
             left[i] # right[j] /\ ~(d[<<i + 1, j>>] >= d[<<i, j + 1>>])
    BY <1>9 DEF AlignRight, BothLeft, PrefersLeft
  <2>2. j + 1 \in 1..(Len(right) + 1) /\ j + 1 <= Len(right) + 1 /\ i + 0 = i /\ i <= Len(left) + 1
    BY <1>2, <1>3, <1>10, <2>1, Zenon
  <2>3. d[<<i, j>>] = d[<<i, j + 1>>]
    <3>1. CASE i <= Len(left)
      <4>1. i + 1 \in 1..(Len(left) + 1)
        BY <1>2, <1>3, <3>1
      <4>2. d[<<i + 1, j>>] \in Nat /\ d[<<i, j + 1>>] \in Nat
        BY <1>3, <1>6, <2>2, <4>1
      <4>3. d[<<i, j>>] = Max({d[<<i + 1, j>>], d[<<i, j + 1>>]})
        BY <1>4, <2>1, <3>1 DEF Recurs
      <4>4. ~(d[<<i + 1, j>>] >= d[<<i, j + 1>>])
        BY <2>1, <3>1
      <4> HIDE DEF d, i, j
      <4>5. QED BY <4>2, <4>3, <4>4, Greater
    <3>2. CASE i > Len(left)
      <4>1. Recurs(left, right, i, j + 1)
        BY <1>2, <1>3, <2>2, TableFacts
      <4>2. QED BY <1>4, <3>2, <4>1 DEF Recurs
    <3>3. QED BY <1>2, <1>3, <3>1, <3>2
  <2>4. d[<<i, j>>] = d[<<i + 0, j + 1>>] + 0
    <3>1. d[<<i, j>>] \in Nat
      BY <1>3, <1>6
    <3> HIDE DEF d, i, j
    <3>2. QED BY <2>2, <2>3, <3>1
  <2> HIDE DEF i, j, d
  <2>5. QED BY <1>5, <2>1, <2>2, <2>4
<1>11. QED BY <1>7, <1>8, <1>9

(* Every step keeps it.                                                    *)
LEMMA DocumentsStep ==
  ASSUME DocumentsInv, [Next]_vars
  PROVE  DocumentsInv'
<1>1. CASE Reject \/ Raise \/ Adapt \/ Build \/ BuildRaises \/ Validate \/ Normalise
  BY <1>1, TreeSteps
<1>2. CASE AlignEqual \/ AlignLeft \/ AlignRight
  BY <1>2, AlignSteps
<1>3. CASE AlignDone
  <2>1. /\ call.what = "align" /\ stage = "called" /\ stage' = "aligned" /\ call \in Calls
        /\ cursor = <<Len(left) + 1, Len(right) + 1>>
        /\ call' = call /\ script' = script /\ cursor' = cursor
    BY <1>3 DEF DocumentsInv, AlignDone, Aligning, aligned
  <2>2. left' = left /\ right' = right
    BY <2>1 DEF left, right
  <2>3. AlignedSoFar'
    BY <2>1, <2>2 DEF DocumentsInv, AlignedSoFar
  <2>4. GivenTree' /\ AdaptedTree' /\ NormalTree'
    BY <2>1 DEF GivenTree, AdaptedTree, NormalTree
  <2>5. QED BY <2>1, <2>3, <2>4 DEF DocumentsInv
<1>4. CASE UNCHANGED vars
  <2>1. /\ call' = call /\ stage' = stage /\ tree' = tree /\ normal' = normal /\ trace' = trace
        /\ script' = script /\ cursor' = cursor /\ left' = left /\ right' = right
    BY <1>4 DEF vars, left, right
  <2>2. GivenTree' /\ NormalTree'
    BY <2>1 DEF DocumentsInv, GivenTree, NormalTree
  <2>3. AdaptedTree' /\ AlignedSoFar'
    BY <2>1, Zenon DEF DocumentsInv, AdaptedTree, AlignedSoFar
  <2>4. QED BY <2>1, <2>2, <2>3 DEF DocumentsInv
<1>5. QED BY <1>1, <1>2, <1>3, <1>4 DEF Next, Ended

(* It holds throughout. It is stronger than the four properties of the run: *)
(* it says at every stage, not only at the last, what the tree, the trace   *)
(* and the script are.                                                      *)
THEOREM DocumentsInvariant == Spec => []DocumentsInv
<1>1. Init => DocumentsInv
  BY DocumentsInit
<1>2. DocumentsInv /\ [Next]_vars => DocumentsInv'
  BY DocumentsStep
<1>3. QED BY <1>1, <1>2, PTL DEF Spec

-----------------------------------------------------------------------------
(* What it gives. *)

(* The invariant gives the first property: the rules of validate_tree are   *)
(* those of a rooted tree.                                                  *)
LEMMA ExactWhenDone ==
  ASSUME DocumentsInv
  PROVE  ValidatorIsExact
<1>1. SUFFICES ASSUME call.what = "tree", stage # "called", stage # "built"
               PROVE  stage \in {"valid", "normalised"} <=> IsRootedTree(call.tree)
  BY DEF ValidatorIsExact
<1>2. IsMap(call.tree)
  BY <1>1, CallFacts DEF DocumentsInv
<1>3. IsRootedTree(call.tree) <=> TreeContract(call.tree) /\ Violations(call.tree) = {}
  BY <1>2, ValidTreesAreRooted, RootedTreesAreValid
<1>4. QED BY <1>1, <1>3 DEF DocumentsInv, GivenTree

(* validate_tree (core/validation/tree_validator.py) finds nothing exactly  *)
(* in the trees whose nodes all hang, once and with agreeing references,    *)
(* under the one root.                                                      *)
THEOREM ValidatorIsExactHolds == Spec => []ValidatorIsExact
BY DocumentsInvariant, ExactWhenDone, PTL

(* The invariant gives the second: the finished script is a longest one.    *)
LEMMA LongestWhenDone ==
  ASSUME DocumentsInv
  PROVE  LcsIsLongest
<1>1. SUFFICES ASSUME stage = "aligned"
      PROVE /\ \A k, m \in Lefts(script)  : k < m => script[k].left < script[m].left
            /\ \A k, m \in Rights(script) : k < m => script[k].right < script[m].right
            /\ { script[k].left : k \in Lefts(script) } = DOMAIN left
            /\ { script[k].right : k \in Rights(script) } = DOMAIN right
            /\ \A k \in Lefts(script) \cap Rights(script) : left[script[k].left] = right[script[k].right]
            /\ \A I \in SUBSET DOMAIN left : \A f \in [I -> DOMAIN right] :
                 (\A i, j \in I : left[i] = right[f[i]] /\ (i < j => f[i] < f[j])) =>
                   Cardinality(I) <= Cardinality(Lefts(script) \cap Rights(script))
  BY Zenon DEF LcsIsLongest, Lefts, Rights
<1>2. call.what = "align"
  BY <1>1, CallFacts DEF DocumentsInv, GivenTree, AdaptedTree
<1>3. /\ IsList(left) /\ IsList(right) /\ Len(left) \in Nat /\ Len(right) \in Nat
      /\ AlignedTo(left, right, script, Len(left) + 1, Len(right) + 1)
  BY <1>1, <1>2, CallFacts DEF DocumentsInv, AlignedSoFar
<1>4. DOMAIN left = 1..Len(left) /\ DOMAIN right = 1..Len(right)
  BY <1>3 DEF IsList
<1>5. (Len(left) + 1) - 1 = Len(left) /\ (Len(right) + 1) - 1 = Len(right)
  BY <1>3
<1>6. \A I \in SUBSET DOMAIN left : \A f \in [I -> DOMAIN right] :
        (\A i, j \in I : left[i] = right[f[i]] /\ (i < j => f[i] < f[j])) =>
          Cardinality(I) <= Cardinality(Lefts(script) \cap Rights(script))
  <2>1. SUFFICES ASSUME NEW I \in SUBSET (1..Len(left)), NEW f \in [I -> 1..Len(right)],
                        \A i, j \in I : left[i] = right[f[i]] /\ (i < j => f[i] < f[j])
                 PROVE  Cardinality(I) <= Cardinality(Lefts(script) \cap Rights(script))
    BY <1>4
  <2>2. Common(left, right, 1, 1, I, f)
    BY <2>1, Zenon DEF Common
  <2>3. QED BY <1>3, <2>2, EndedScripts, Zenon
<1>7. QED BY <1>3, <1>4, <1>5, <1>6 DEF AlignedTo

(* align_sequences (core/alignment/lcs.py) reads both sequences in order and*)
(* to the end, aligns only equal keys, and no order-preserving pairing of   *)
(* equal keys is larger.                                                    *)
THEOREM LcsIsLongestHolds == Spec => []LcsIsLongest
BY DocumentsInvariant, LongestWhenDone, PTL

(* The invariant gives the third: every difference has its rule in the      *)
(* trace.                                                                   *)
LEMMA AttributedWhenDone ==
  ASSUME DocumentsInv
  PROVE  NormalisationAttributed
<1>1. SUFFICES ASSUME stage = "normalised" PROVE NormalisationAttributed
  BY DEF NormalisationAttributed
<1>2. HasContents(tree)
  <2>1. CASE call.what = "tree"
    BY <1>1, <2>1, CallFacts DEF DocumentsInv, GivenTree
  <2>2. CASE call.what = "document"
    BY <1>1, <2>2, CallFacts, AdaptedHasContents DEF DocumentsInv, AdaptedTree
  <2>3. QED BY <1>1, <2>1, <2>2, CallFacts DEF DocumentsInv, AlignedSoFar
<1>3. normal = Normalised(tree, call.profile) /\ trace = Trace(tree, call.profile)
  BY <1>1 DEF DocumentsInv, NormalTree
<1>4. Attributed(tree, call.profile)
  BY <1>2, NormalisedFacts
<1>5. ASSUME NEW ref \in Refs(tree)
      PROVE  LET before == tree.node[ref].content
                 after  == normal.node[ref].content
                 rules(key) == { entry[3] : entry \in { e \in trace : e[1] = ref /\ e[2] = key } }
             IN  /\ [normal.node[ref] EXCEPT !.content = before] = tree.node[ref]
                 /\ \A key \in DOMAIN before :
                  CASE key \notin DOMAIN after ->
                         key \in call.profile.nonsemantic /\ rules(key) = {"exclude-nonsemantic"}
                    [] key \in DOMAIN after /\ after[key] # before[key] ->
                         /\ key \notin call.profile.preserve
                         /\ rules(key) = {"collapse-whitespace"}
                         /\ TidiedValue(before[key], after[key])
                    [] OTHER ->
                         /\ rules(key) = {} /\ key \notin call.profile.nonsemantic
                         /\ Collapses(call.profile, key) => TidiedValue(before[key], before[key])
  <2>1. /\ [normal.node[ref] EXCEPT !.content = tree.node[ref].content] = tree.node[ref]
        /\ normal.node[ref].content = NormalContent(tree.node[ref].content, call.profile)
    BY <1>3, <1>4 DEF Attributed
  <2> DEFINE before == tree.node[ref].content
             after == NormalContent(before, call.profile)
             rules(key) == RulesOf(Trace(tree, call.profile), ref, key)
  <2>2. \A key \in DOMAIN before :
                  CASE key \notin DOMAIN after ->
                         key \in call.profile.nonsemantic /\ rules(key) = {"exclude-nonsemantic"}
                    [] key \in DOMAIN after /\ after[key] # before[key] ->
                         /\ key \notin call.profile.preserve
                         /\ rules(key) = {"collapse-whitespace"}
                         /\ TidiedValue(before[key], after[key])
                    [] OTHER ->
                         /\ rules(key) = {} /\ key \notin call.profile.nonsemantic
                         /\ Collapses(call.profile, key) => TidiedValue(before[key], before[key])
    BY <1>2, NodeAttributed
  <2>3. normal.node[ref].content = after
    BY <2>1
  <2>4. \A key : rules(key) = { entry[3] : entry \in { e \in trace : e[1] = ref /\ e[2] = key } }
    BY <1>3 DEF RulesOf
  <2>5. [normal.node[ref] EXCEPT !.content = before] = tree.node[ref]
    BY <2>1
  <2> HIDE DEF after
  <2>6. QED BY <2>2, <2>3, <2>4, <2>5, Zenon
<1>6. Normalised(normal, call.profile) = normal /\ Trace(normal, call.profile) = {}
  BY <1>3, <1>4 DEF Attributed
<1>7. QED BY <1>5, <1>6, Zenon DEF NormalisationAttributed

(* TreeNormalizerService.normalize (core/normalization/service.py):         *)
(* structure and identity stay, every changed or dropped key has its one    *)
(* rule in the trace, and normalising again does nothing.                   *)
THEOREM NormalisationAttributedHolds == Spec => []NormalisationAttributed
BY DocumentsInvariant, AttributedWhenDone, PTL

-----------------------------------------------------------------------------

(* The invariant gives the fourth, for the adapters of both kinds of        *)
(* document.                                                                *)
LEMMA FaithfulAlways ==
  ASSUME DocumentsInv
  PROVE  AdaptationFaithful
<1>1. SUFFICES ASSUME call.what = "document", tree # NoTree
               PROVE  ReadsBack(call, tree) /\ WithinLimits(call, tree)
  BY DEF AdaptationFaithful
<1>2. tree = Adapted(call) /\ IsTaken(call)
  BY <1>1, CallFacts DEF DocumentsInv, AdaptedTree, IsTaken
<1>3. ReadsBack(call, Adapted(call)) /\ WithinLimits(call, Adapted(call))
  BY <1>2, XmlFaithful, DataFaithful
<1>4. QED BY <1>2, <1>3

(* The adapters of data trees, XML and DITA: a document that is taken gives *)
(* a rooted tree with the nodes, the order, the texts and the ids of the    *)
(* document, and within the limits.                                         *)
THEOREM AdaptationFaithfulHolds == Spec => []AdaptationFaithful
BY DocumentsInvariant, FaithfulAlways, PTL

(* What ends as invalid was never a document.                              *)
AdaptedTreesPass == call.what = "document" => stage # "invalid"

(* The invariant excludes an invalid stage of a document.                   *)
LEMMA PassAlways ==
  ASSUME DocumentsInv
  PROVE  AdaptedTreesPass
BY DEF DocumentsInv, AdaptedTree, AdaptedTreesPass

(* No document is refused by validate_tree: the tree of an adapter always   *)
(* passes.                                                                  *)
THEOREM AdaptedTreesPassHolds == Spec => []AdaptedTreesPass
BY DocumentsInvariant, PassAlways, PTL
=============================================================================

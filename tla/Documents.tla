----------------------------- MODULE Documents -----------------------------
(***************************************************************************)
(* From a document to the tree the engine matches: the four document       *)
(* adapters with their parsers' limits, the contracts a tree of any origin *)
(* must meet, validate_tree and normalize; and align_sequences.            *)
(*                                                                         *)
(* A document is a function from positions to labels.  A position is the   *)
(* sequence of the (zero-based) numbers of the children that lead to it.   *)
(*   JSON, YAML: [kind, key, text]; kind "object", "array" or a scalar;    *)
(*               key is NoKey for the items of an array.                   *)
(*   XML, DITA:  [kind, attributes, text, navtitle]; kind is a local name, *)
(*               "comment" or "entity"; attributes a sequence of names and *)
(*               values; navtitle the attribute, <<>> when absent.         *)
(* What labels cannot tell is a mark of the document: its bytes, its       *)
(* syntax, the features of YAML that are refused, nesting beyond what the  *)
(* interpreter can follow.  Attributes are not blank.                      *)
(***************************************************************************)
EXTENDS Trees

CONSTANTS
  Calls,                      \* what the program is asked to do
  NoKey, OddKey, NoId         \* no key; a key that is not a string; no id

DataFormats == {"json", "yaml"}

Scalars == {"null", "boolean", "number", "string"}

(* Marks that are found before, while and after the text is loaded.        *)
UnreadableMarks  == {"oversized", "not UTF-8", "malformed"}
RefusedTokens    == {"anchor", "alias", "tag", "merge key"}

(* A document: children are numbered from 0, without gaps; only the        *)
(* containers of data have any; XML has an element at its root, and no two *)
(* attributes of one name at one element.  A document has either a number  *)
(* that is not finite or an integer with more digits than int() takes, as  *)
(* json.loads stops at the first of the two that it meets.                 *)
IsNumbered(positions) ==
  /\ IsFiniteSet(positions) /\ <<>> \in positions
  /\ \A p \in positions : p \in Seq(Nat)
  /\ \A p \in positions \ {<<>>} :
       /\ Front(p) \in positions
       /\ Last(p) > 0 => Append(Front(p), Last(p) - 1) \in positions

HasValues(doc) ==
  /\ \A p \in DOMAIN doc :
       IsList(doc[p].text) /\ (p # <<>> => doc[Front(p)].kind \in Containers)
  /\ ~({"nonfinite", "endless integer"} \subseteq { doc[p].kind : p \in DOMAIN doc })

HasElements(doc) ==
  /\ doc[<<>>].kind # "comment"
  /\ \A p \in DOMAIN doc :
       LET attributes == doc[p].attributes
       IN  /\ IsList(doc[p].text) /\ IsList(doc[p].navtitle) /\ IsList(attributes)
           /\ \A i, j \in DOMAIN attributes :
                /\ attributes[i] = <<attributes[i][1], attributes[i][2]>>
                /\ attributes[i][1] = attributes[j][1] => i = j

IsCall(c) ==
  \/ /\ c.what = "document" /\ c.format \in DataFormats \cup {"xml", "dita"}
     /\ IsNumbered(DOMAIN c.doc)
     /\ IF c.format \in DataFormats THEN HasValues(c.doc) ELSE HasElements(c.doc)
     /\ c.limits.nodes \in Nat /\ c.limits.depth \in Nat
  \/ c.what = "tree" /\ IsMap(c.tree) /\ HasContents(c.tree)
  \/ c.what = "align" /\ IsList(c.left) /\ IsList(c.right)

ASSUME DocumentsAssumption == (\A c \in Calls : IsCall(c)) /\ NoRef \notin Seq(Nat)

VARIABLES
  call,                       \* the call, from Calls
  stage,
  tree,                       \* the canonical tree
  violations,                 \* TreeValidationResult
  normal, trace,              \* NormalizedTree
  script, cursor              \* of align_sequences

vars == <<call, stage, tree, violations, normal, trace, script, cursor>>

-----------------------------------------------------------------------------
(* Positions, in the document of the call c. *)

Positions(c) == DOMAIN c.doc
Kind(c, p)   == c.doc[p].kind
Above(p)  == { SubSeq(p, 1, k) : k \in 0..(Len(p) - 1) }

(* The children of a position in document order. *)
ChildrenOf(c, p) ==
  LET n == Cardinality({ q \in Positions(c) : Len(q) = Len(p) + 1 /\ Front(q) = p })
  IN  [i \in 1..n |-> Append(p, i - 1)]

-----------------------------------------------------------------------------
(* What the parsers leave of a document. *)

(* Mutant of Survivor: the first of the entries with one key wins. *)
MutantSurvivor(c, p, q) == q

(* A mapping built from the entries of an object: a repeated key keeps its *)
(* place and gets its last value.                                          *)
Survivor(c, p, q) ==
  LET same == { r \in ToSet(ChildrenOf(c, p)) : c.doc[r].key = c.doc[q].key }
  IN  CHOOSE r \in same : \A s \in same : Last(s) <= Last(r)

FirstOfItsKey(c, p, q) ==
  \A r \in ToSet(ChildrenOf(c, p)) : c.doc[r].key = c.doc[q].key => Last(q) <= Last(r)

IsElement(c, p) == Kind(c, p) \notin {"comment", "entity"}

(* The children that become children of the node of p. *)
Kept(c, p) ==
  CASE c.format \in DataFormats /\ Kind(c, p) = "object" ->
         LET firsts == Filter(ChildrenOf(c, p), { q \in Positions(c) : FirstOfItsKey(c, p, q) })
         IN  [i \in DOMAIN firsts |-> Survivor(c, p, firsts[i])]
    [] c.format = "xml" -> Filter(ChildrenOf(c, p), { q \in Positions(c) : IsElement(c, q) })
    [] c.format = "dita" ->
         Filter(ChildrenOf(c, p),
                { q \in Positions(c) : IsElement(c, q) /\ Kind(c, q) # "topicmeta" })
    [] OTHER -> ChildrenOf(c, p)

Survives(c, p) == \A q \in Above(p) : SubSeq(p, 1, Len(q) + 1) \in ToSet(Kept(c, q))

Survivors(c) == { p \in Positions(c) : Survives(c, p) }

(* The numbers of the kept children that lead to p. *)
Path(c, p) ==
  [k \in DOMAIN p |->
     (CHOOSE i \in DOMAIN Kept(c, SubSeq(p, 1, k - 1)) :
        Kept(c, SubSeq(p, 1, k - 1))[i] = SubSeq(p, 1, k)) - 1]

(* What counts against the limits: every value that was loaded, every      *)
(* element, metadata included.                                             *)
Counted(c) ==
  IF c.format \in DataFormats THEN Survivors(c) ELSE { p \in Positions(c) : IsElement(c, p) }

OverLimit(c) ==
  \/ Cardinality(Counted(c)) > c.limits.nodes
  \/ \E p \in Counted(c) : Len(p) + 1 > c.limits.depth

UnsupportedValue(c, p) ==
  \/ Kind(c, p) \notin Containers \cup Scalars
  \/ Kind(c, p) = "object" /\ OddKey \in { c.doc[q].key : q \in ToSet(ChildrenOf(c, p)) }

(* The text is refused before it is loaded; the yaml scanner sees tokens.  *)
Unreadable(c) ==
  \/ c.marks \cap UnreadableMarks # {}
  \/ c.format = "yaml" /\ c.marks \cap RefusedTokens # {}

(* json.loads and yaml.safe_load_all may raise what is not an error of     *)
(* theirs: RecursionError, and ValueError for an integer with more digits  *)
(* than int() takes and for a date that does not exist.                    *)
LoadingRaises(c) ==
  \/ c.format \in DataFormats /\ "bottomless" \in c.marks
  \/ c.format \in DataFormats /\ \E p \in Positions(c) : Kind(c, p) = "endless integer"
  \/ c.format = "yaml" /\ \E p \in Positions(c) : Kind(c, p) = "impossible date"

(* libxml2 has a depth limit of its own. *)
Refused(c) ==
  \/ "documents" \in c.marks
  \/ c.format \notin DataFormats /\ "bottomless" \in c.marks
  \/ c.format \notin DataFormats /\ \E p \in Positions(c) : Kind(c, p) = "entity"
  \/ OverLimit(c)
  \/ c.format \in DataFormats /\ \E p \in Survivors(c) : UnsupportedValue(c, p)

-----------------------------------------------------------------------------
(* Canonical nodes. *)

NewNode(parent, kids, type, location) ==
  [parent |-> parent, kids |-> kids, type |-> type, id |-> NoId,
   content |-> <<>>, location |-> location]

(* A function from the pairs of a set. *)
MapOf(pairs) == [x \in { pair[1] : pair \in pairs } |-> (CHOOSE pair \in pairs : pair[1] = x)[2]]

(* DataTreeAdapter.  The value at the root is n.0; every other value is a  *)
(* property or an item of its parent's node, and below that node, as its   *)
(* child 0, a node of its own if it is a container.                        *)
ValueRef(path) ==
  [k \in 1..(2 * Len(path) + 1) |-> IF k % 2 = 1 THEN 0 ELSE path[k \div 2]]

EntryRef(path) == Front(ValueRef(path))

EntryRefs(c, p) == [i \in DOMAIN Kept(c, p) |-> EntryRef(Append(Path(c, p), i - 1))]

ScalarContent(c, p) ==
  IF Kind(c, p) = "null" THEN [key \in {"value"} |-> <<"null", <<>>>>]
  ELSE [value |-> <<Kind(c, p), c.doc[p].text>>, text |-> <<"string", c.doc[p].text>>]

DocumentNode == NewNode(NoRef, <<ValueRef(<<>>)>>, "data:document", <<>>)

ValueNode(c, p) ==
  LET parent == IF p = <<>> THEN <<>> ELSE EntryRef(Path(c, p))
  IN  IF Kind(c, p) \in Containers
      THEN NewNode(parent, EntryRefs(c, p), Kind(c, p), p)
      ELSE [NewNode(parent, <<>>, Kind(c, p), p) EXCEPT !.content = ScalarContent(c, p)]

EntryNode(c, p) ==
  LET nested == Kind(c, p) \in Containers
  IN  [NewNode(ValueRef(Front(Path(c, p))), IF nested THEN <<ValueRef(Path(c, p))>> ELSE <<>>,
               IF Kind(c, Front(p)) = "object" THEN "data:property" ELSE "data:item", p)
         EXCEPT !.id      = c.doc[p].key,
                !.content = IF nested THEN <<>> ELSE ScalarContent(c, p)]

DataNodes(c) ==
  MapOf({<< <<>>, DocumentNode >>}
        \cup { <<ValueRef(Path(c, p)), ValueNode(c, p)>> :
                 p \in { q \in Survivors(c) : q = <<>> \/ Kind(c, q) \in Containers } }
        \cup { <<EntryRef(Path(c, p)), EntryNode(c, p)>> : p \in Survivors(c) \ {<<>>} })

(* The XML adapters: an element is a node, and its reference its path. *)
HasAttribute(c, p, name) ==
  \E i \in DOMAIN c.doc[p].attributes : c.doc[p].attributes[i][1] = name

Attribute(c, p, name) ==
  LET attributes == c.doc[p].attributes
  IN  attributes[CHOOSE i \in DOMAIN attributes : attributes[i][1] = name][2]

(* Generic XML: the last of the two id attributes. *)
XmlId(c, p) ==
  LET attributes == c.doc[p].attributes
      ids == { i \in DOMAIN attributes : attributes[i][1] \in {"id", "xml:id"} }
  IN  IF ids = {} THEN NoId ELSE <<"id", attributes[Max(ids)][2]>>

(* A DITA map: id before xml:id before keys before href. *)
DitaId(c, p) ==
  LET signals == <<"id", "xml:id", "keys", "href">>
      given   == { i \in DOMAIN signals : HasAttribute(c, p, signals[i]) }
      name    == signals[Min(given)]
  IN  IF given = {} THEN NoId
      ELSE <<IF name = "xml:id" THEN "id" ELSE name, Attribute(c, p, name)>>

(* The attribute, or the first title in the metadata of the element that   *)
(* is not blank.                                                           *)
Titles(c, p) ==
  { q \in Positions(c) :
      /\ Len(q) = Len(p) + 2 /\ SubSeq(q, 1, Len(p)) = p
      /\ Kind(c, q) = "navtitle" /\ Kind(c, Front(q)) = "topicmeta"
      /\ Strip(c.doc[q].text) # <<>> }

Earlier(q, r) ==
  LET n == Len(q)
  IN  q[n - 1] < r[n - 1] \/ (q[n - 1] = r[n - 1] /\ q[n] <= r[n])

NavTitle(c, p) ==
  IF Strip(c.doc[p].navtitle) # <<>> \/ Titles(c, p) = {} THEN Strip(c.doc[p].navtitle)
  ELSE Strip(c.doc[CHOOSE q \in Titles(c, p) : \A r \in Titles(c, p) : Earlier(q, r)].text)

ElementContent(c, p) ==
  LET values == [text     |-> Strip(c.doc[p].text),
                 navtitle |-> IF c.format = "dita" THEN NavTitle(c, p) ELSE <<>>]
  IN  [key \in { k \in DOMAIN values : values[k] # <<>> } |-> <<"string", values[key]>>]

ElementNode(c, p) ==
  [NewNode(IF p = <<>> THEN NoRef ELSE Front(Path(c, p)),
           [i \in DOMAIN Kept(c, p) |-> Append(Path(c, p), i - 1)], Kind(c, p), p)
     EXCEPT !.id      = IF c.format = "dita" THEN DitaId(c, p) ELSE XmlId(c, p),
            !.content = ElementContent(c, p)]

XmlNodes(c) == MapOf({ <<Path(c, p), ElementNode(c, p)>> : p \in Survivors(c) })

Adapted(c) ==
  [root |-> <<>>, node |-> IF c.format \in DataFormats THEN DataNodes(c) ELSE XmlNodes(c)]

-----------------------------------------------------------------------------
(* align_sequences *)

left  == call.left
right == call.right

(* dp: how long a common subsequence of what is left on both sides can be. *)
Longest(l, r) ==
  LET dp[at \in (1..(Len(l) + 1)) \X (1..(Len(r) + 1))] ==
        CASE at[1] > Len(l) \/ at[2] > Len(r) -> 0
          [] OTHER ->
               IF l[at[1]] = r[at[2]] THEN dp[<<at[1] + 1, at[2] + 1>>] + 1
               ELSE Max({dp[<<at[1] + 1, at[2]>>], dp[<<at[1], at[2] + 1>>]})
  IN  dp

BothLeft == cursor[1] <= Len(left) /\ cursor[2] <= Len(right)

-----------------------------------------------------------------------------
NoTree == [root |-> NoRef, node |-> <<>>]

Init ==
  /\ call \in Calls
  /\ stage = "called"
  /\ tree = NoTree /\ normal = NoTree
  /\ violations = {} /\ trace = {}
  /\ script = <<>> /\ cursor = <<1, 1>>

checked == <<violations, normal, trace>>
aligned == <<script, cursor>>

IsDocument == stage = "called" /\ call.what = "document"

(* An AdaptationError: the job is rejected. *)
Reject ==
  /\ IsDocument
  /\ Unreadable(call) \/ (~LoadingRaises(call) /\ Refused(call))
  /\ stage' = "rejected"
  /\ UNCHANGED <<call, tree, checked, aligned>>

(* Anything else a parser raises leaves the job service. *)
Raise ==
  /\ IsDocument
  /\ ~Unreadable(call) /\ LoadingRaises(call)
  /\ stage' = "raised"
  /\ UNCHANGED <<call, tree, checked, aligned>>

Adapt ==
  /\ IsDocument
  /\ ~Unreadable(call) /\ ~LoadingRaises(call) /\ ~Refused(call)
  /\ tree' = Adapted(call)
  /\ stage' = "built"
  /\ UNCHANGED <<call, checked, aligned>>

(* A caller of the library builds a tree himself. *)
Build ==
  /\ stage = "called" /\ call.what = "tree"
  /\ TreeContract(call.tree)
  /\ tree' = call.tree
  /\ stage' = "built"
  /\ UNCHANGED <<call, checked, aligned>>

BuildRaises ==
  /\ stage = "called" /\ call.what = "tree"
  /\ ~TreeContract(call.tree)
  /\ stage' = "raised"
  /\ UNCHANGED <<call, tree, checked, aligned>>

Validate ==
  /\ stage = "built"
  /\ violations' = Violations(tree)
  /\ stage' = IF Violations(tree) = {} THEN "valid" ELSE "invalid"
  /\ UNCHANGED <<call, tree, normal, trace, aligned>>

Normalise ==
  /\ stage = "valid"
  /\ normal' = Normalised(tree, call.profile)
  /\ trace' = Trace(tree, call.profile)
  /\ stage' = "normalised"
  /\ UNCHANGED <<call, tree, violations, aligned>>

Aligning == stage = "called" /\ call.what = "align"

Take(op, di, dj) ==
  /\ script' = Append(script, [op |-> op, left |-> cursor[1], right |-> cursor[2]])
  /\ cursor' = <<cursor[1] + di, cursor[2] + dj>>
  /\ UNCHANGED <<call, stage, tree, checked>>

AlignEqual ==
  /\ Aligning
  /\ BothLeft /\ left[cursor[1]] = right[cursor[2]]
  /\ Take("ALIGN", 1, 1)

(* Mutant of PrefersLeft: the side that promises less is taken. *)
MutantPrefersLeft ==
  LET dp == Longest(left, right)
  IN  dp[<<cursor[1] + 1, cursor[2]>>] <= dp[<<cursor[1], cursor[2] + 1>>]

PrefersLeft ==
  LET dp == Longest(left, right)
  IN  dp[<<cursor[1] + 1, cursor[2]>>] >= dp[<<cursor[1], cursor[2] + 1>>]

AlignLeft ==
  /\ Aligning
  /\ cursor[1] <= Len(left)
  /\ BothLeft => left[cursor[1]] # right[cursor[2]] /\ PrefersLeft
  /\ Take("LEFT_ONLY", 1, 0)

AlignRight ==
  /\ Aligning
  /\ cursor[2] <= Len(right)
  /\ BothLeft => left[cursor[1]] # right[cursor[2]] /\ ~PrefersLeft
  /\ Take("RIGHT_ONLY", 0, 1)

AlignDone ==
  /\ Aligning
  /\ cursor = <<Len(left) + 1, Len(right) + 1>>
  /\ stage' = "aligned"
  /\ UNCHANGED <<call, tree, checked, aligned>>

Ended ==
  /\ stage \in {"rejected", "raised", "invalid", "normalised", "aligned"}
  /\ UNCHANGED vars

Next ==
  \/ Reject \/ Raise \/ Adapt
  \/ Build \/ BuildRaises
  \/ Validate \/ Normalise
  \/ AlignEqual \/ AlignLeft \/ AlignRight \/ AlignDone
  \/ Ended

Spec == Init /\ [][Next]_vars

-----------------------------------------------------------------------------
(* Properties. *)

(* What a rooted tree is, without a walk: every reference is known, every  *)
(* node but the root is in one place of one list of children, that of its  *)
(* parent, and no proper part that holds the root is closed.               *)
IsRootedTree(t) ==
  LET Listings(ref) ==
        UNION { { <<up, i>> : i \in { j \in DOMAIN t.node[up].kids : t.node[up].kids[j] = ref } } :
                  up \in Refs(t) }
  IN  /\ t.root \in Refs(t) /\ t.node[t.root].parent = NoRef /\ Listings(t.root) = {}
      /\ \A ref \in Refs(t) : KidsOf(t, ref) \subseteq Refs(t)
      /\ \A ref \in Refs(t) \ {t.root} :
           \E place \in Listings(ref) :
             Listings(ref) = {place} /\ place[1] = t.node[ref].parent
      /\ \A S \in SUBSET Refs(t) :
           (t.root \in S /\ \A ref \in S : KidsOf(t, ref) \subseteq S) => S = Refs(t)

(* REQ-166 to REQ-170: the contracts and validate_tree together let        *)
(* through rooted trees, all of them and nothing else; the engine walks    *)
(* down from the root afterwards and would not come back from a cycle.     *)
ValidatorIsExact ==
  (call.what = "tree" /\ stage # "called" /\ stage # "built") =>
    (stage \in {"valid", "normalised"} <=> IsRootedTree(call.tree))

Siblings(c, p) == { q \in Positions(c) : Len(q) = Len(p) /\ Front(q) = Front(p) }

SameEntry(c, p) ==
  IF c.format \in DataFormats /\ Kind(c, Front(p)) = "object"
  THEN { q \in Siblings(c, p) : c.doc[q].key = c.doc[p].key } ELSE {p}

(* Not in the tree: the entries that a later one with the same key         *)
(* replaces, comments, DITA metadata, and what is below them.              *)
Omitted(c, p) ==
  \E q \in (Above(p) \cup {p}) \ {<<>>} :
    \/ \E r \in SameEntry(c, q) : Last(r) > Last(q)
    \/ Kind(c, q) = "comment"
    \/ c.format = "dita" /\ Kind(c, q) = "topicmeta"

PlaceAmong(c, p) == Min({ Last(q) : q \in SameEntry(c, p) })

TextAt(c, p) == IF c.format \in DataFormats THEN c.doc[p].text ELSE Strip(c.doc[p].text)

HasText(c, p) ==
  IF c.format \in DataFormats THEN Kind(c, p) \notin Containers \cup {"null"}
  ELSE TextAt(c, p) # <<>>

NodesAt(t, p) == { ref \in Refs(t) : t.node[ref].location = p }

(* A document can be read back from its tree: each value, entry or element *)
(* that is not omitted is there (a container of a JSON or YAML document,   *)
(* and its root, as two nodes), below its parent, in the order of the      *)
(* document, with its text and the id of its strongest attribute.          *)
ReadsBack(c, t) ==
  /\ IsRootedTree(t)
  /\ \A p \in Positions(c) :
       Cardinality(NodesAt(t, p)) =
         IF Omitted(c, p) THEN 0
         ELSE IF c.format \in DataFormats /\ (p = <<>> \/ Kind(c, p) \in Containers) THEN 2
         ELSE 1
  /\ \A ref \in Refs(t) \ {t.root} :
       LET at == t.node[ref].location
           up == t.node[t.node[ref].parent].location
       IN  up = at \/ (at # <<>> /\ up = Front(at))
  /\ \A ref \in Refs(t) :
       LET kids == t.node[ref].kids
       IN  \A i, j \in DOMAIN kids : i < j =>
             PlaceAmong(c, t.node[kids[i]].location) < PlaceAmong(c, t.node[kids[j]].location)
  /\ \A p \in Positions(c) : (~Omitted(c, p) /\ HasText(c, p)) =>
       \E ref \in NodesAt(t, p) :
         LET content == t.node[ref].content
         IN  "text" \in DOMAIN content /\ content["text"] = <<"string", TextAt(c, p)>>
  /\ c.format = "dita" =>
       \A ref \in Refs(t) :
         LET given == ToSet(c.doc[t.node[ref].location].attributes)
         IN  CASE \E a \in given : a[1] \in {"id", "xml:id"} -> t.node[ref].id[1] = "id"
               [] OTHER -> \A a \in given : a[1] = "keys" => t.node[ref].id = a

(* The limits of the parsers count values and elements; they bound the     *)
(* nodes and the depth of the canonical tree, twofold for data.  A node    *)
(* one level down has a reference that is longer by one.                   *)
WithinLimits(c, t) ==
  LET factor == IF c.format \in DataFormats THEN 2 ELSE 1
  IN  /\ Cardinality(Refs(t)) <= factor * c.limits.nodes
      /\ \A ref \in Refs(t) :
           Len(ref) + 1 <= factor * c.limits.depth

(* Whatever is adapted can be read back, and is as small as promised. *)
AdaptationFaithful ==
  (call.what = "document" /\ tree # NoTree) => ReadsBack(call, tree) /\ WithinLimits(call, tree)

(* s, its words parted by single blanks; said without collapsing: there is *)
(* a place for every letter, the first letter and the last are at the      *)
(* ends, letters that follow each other stay together or get one blank     *)
(* between them, and there is nothing else.                                *)
IsTidy(s, tidy) ==
  \E at \in [Ink(s) -> DOMAIN tidy] :
    /\ \A i \in Ink(s) : /\ tidy[at[i]] = s[i]
                         /\ (\A j \in Ink(s) : i <= j) => at[i] = 1
                         /\ (\A j \in Ink(s) : j <= i) => at[i] = Len(tidy)
    /\ \A i, j \in Ink(s) : (i < j /\ ~\E k \in Ink(s) : i < k /\ k < j) =>
         at[j] = at[i] + (IF j = i + 1 THEN 1 ELSE 2)
    /\ \A k \in DOMAIN tidy : tidy[k] = Space \/ \E i \in Ink(s) : at[i] = k
    /\ Ink(s) = {} => tidy = <<>>

(* A value and what normalisation may make of it: the strings tidy, at     *)
(* every path of a list or a dict, and nothing else touched.               *)
TidiedScalar(before, after) ==
  IF before[1] = "string" THEN after[1] = "string" /\ IsTidy(before[2], after[2])
  ELSE after = before

TidiedValue(before, after) ==
  IF before[1] \in Containers
  THEN /\ after[1] = before[1] /\ DOMAIN after[2] = DOMAIN before[2]
       /\ \A path \in DOMAIN before[2] : TidiedScalar(before[2][path], after[2][path])
  ELSE TidiedScalar(before, after)

(* REQ-018, REQ-020, REQ-022: normalisation changes contents only, takes   *)
(* out what is not semantic, makes the words of a string single-spaced     *)
(* (of every string inside a list or a dict) and leaves what is preserved; *)
(* once is enough; and the trace attributes every change, and nothing      *)
(* else, to the one rule that made it.                                     *)
NormalisationAttributed ==
  stage = "normalised" =>
    /\ Normalised(normal, call.profile) = normal /\ Trace(normal, call.profile) = {}
    /\ \A ref \in Refs(tree) :
         LET before == tree.node[ref].content
             after  == normal.node[ref].content
             rules(key) == { entry[3] : entry \in { e \in trace : e[1] = ref /\ e[2] = key } }
         IN  /\ [normal.node[ref] EXCEPT !.content = before] = tree.node[ref]
             /\ \A key \in DOMAIN before :
                  CASE key \notin DOMAIN after ->
                         key \in call.profile.nonsemantic /\ rules(key) = {"exclude-nonsemantic"}
                    [] key \in DOMAIN after /\ after[key] # before[key] ->
                         /\ key \notin call.profile.preserve
                         /\ rules(key) = {"collapse-whitespace"}
                         /\ TidiedValue(before[key], after[key])
                    [] OTHER ->
                         /\ rules(key) = {} /\ key \notin call.profile.nonsemantic
                         /\ Collapses(call.profile, key) => TidiedValue(before[key], before[key])

(* The script reads both sequences in order and to their ends, aligns      *)
(* equal keys only, and no common subsequence (places on the left and, in  *)
(* the same order, places on the right with the same keys) has more keys.  *)
LcsIsLongest ==
  stage = "aligned" =>
    LET lefts  == { k \in DOMAIN script : script[k].op # "RIGHT_ONLY" }
        rights == { k \in DOMAIN script : script[k].op # "LEFT_ONLY" }
    IN  /\ \A k, m \in lefts  : k < m => script[k].left < script[m].left
        /\ \A k, m \in rights : k < m => script[k].right < script[m].right
        /\ { script[k].left : k \in lefts } = DOMAIN left
        /\ { script[k].right : k \in rights } = DOMAIN right
        /\ \A k \in lefts \cap rights : left[script[k].left] = right[script[k].right]
        /\ \A I \in SUBSET DOMAIN left : \A f \in [I -> DOMAIN right] :
             (\A i, j \in I : left[i] = right[f[i]] /\ (i < j => f[i] < f[j])) =>
               Cardinality(I) <= Cardinality(lefts \cap rights)
=============================================================================

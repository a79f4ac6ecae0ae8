---------------------------- MODULE MCDocuments ----------------------------
(***************************************************************************)
(* Documents of up to four positions, trees over three references, and     *)
(* pairs of sequences over two keys.                                       *)
(***************************************************************************)
EXTENDS Documents, TLC

CONSTANTS Ref1, Ref2, Ref3

a == <<0>>  b == <<1>>  c == <<2>>
aa == <<0, 0>>  ab == <<0, 1>>  ba == <<1, 0>>  aaa == <<0, 0, 0>>

Shapes ==
  {{<<>>}, {<<>>, a}, {<<>>, a, b}, {<<>>, a, aa}, {<<>>, a, b, c}, {<<>>, a, b, aa},
   {<<>>, a, b, ba}, {<<>>, a, aa, ab}, {<<>>, a, aa, aaa}}

IsLeaf(shape, p) == \A q \in shape : Len(q) <= Len(p) \/ SubSeq(q, 1, Len(p)) # p

Word == <<"x">>

Loose  == [nodes |-> 10, depth |-> 10]
Strict == [collapse |-> TRUE, nonsemantic |-> {}, preserve |-> {}]

Document(format, d, limits, marks, profile) ==
  [what |-> "document", format |-> format, doc |-> d, limits |-> limits,
   marks |-> marks, profile |-> profile]

-----------------------------------------------------------------------------
(* JSON and YAML: objects with equal keys, containers that are empty, and  *)
(* in the small shapes every kind of value there is.                       *)

OddKinds == {"null", "number", "nonfinite", "timestamp", "impossible date", "endless integer"}

DataLabels(shape, p) ==
  { [kind |-> kind, key |-> key, text |-> Word] :
      kind \in IF ~IsLeaf(shape, p) THEN Containers
               ELSE {"string", "array"} \cup (IF Cardinality(shape) < 4 THEN OddKinds ELSE {}),
      key \in {NoKey, "k", "l"} \cup (IF Cardinality(shape) < 4 THEN {OddKey} ELSE {}) }

Keyed(d) ==
  \A p \in DOMAIN d :
    (d[p].key = NoKey) <=> IF p = <<>> THEN TRUE ELSE d[SubSeq(p, 1, Len(p) - 1)].kind # "object"

DataDocuments ==
  UNION { { d \in [shape -> UNION { DataLabels(shape, p) : p \in shape }] :
              Keyed(d) /\ HasValues(d) /\ \A p \in shape : d[p] \in DataLabels(shape, p) } :
            shape \in Shapes }

YamlOnly(d) ==
  \E p \in DOMAIN d : d[p].kind \in {"timestamp", "impossible date"} \/ d[p].key = OddKey

DataCalls ==
  { Document("yaml", d, limits, {}, Strict) :
      d \in DataDocuments, limits \in {Loose, [Loose EXCEPT !.nodes = 3], [Loose EXCEPT !.depth = 2]} }
  \cup
  { Document("json", d, Loose, {}, Strict) : d \in { e \in DataDocuments : ~YamlOnly(e) } }

Marks == {"oversized", "malformed", "anchor", "documents", "bottomless"}

One(text) == [p \in {<<>>} |-> [kind |-> "string", key |-> NoKey, text |-> text]]

MarkedCalls ==
  { Document("yaml", One(Word), Loose, {mark}, Strict) : mark \in Marks }
  \cup
  { Document("json", One(Word), Loose, {mark}, Strict) : mark \in Marks \ {"anchor", "documents"} }

(* Every text of up to four characters, under every kind of profile. *)
Texts == UNION { [1..n -> {"x", " ", "tab"}] : n \in 0..4 }

Profiles ==
  [collapse : BOOLEAN, nonsemantic : {{}, {"value"}}, preserve : {{}, {"text"}}]

TextCalls ==
  { Document("json", One(text), Loose, {}, profile) : text \in Texts, profile \in Profiles }

-----------------------------------------------------------------------------
(* XML and DITA. *)

AttributeLists ==
  {<<>>, <<<<"id", 1>>>>, <<<<"href", 2>>, <<"keys", 1>>>>, <<<<"keys", 2>>, <<"xml:id", 1>>>>}

XmlLabels(shape, p) ==
  { [kind |-> kind, attributes |-> attributes, navtitle |-> <<>>,
     text |-> IF p = <<>> THEN <<" ">> ELSE <<" ", "x">>] :
      kind \in IF p = <<>> THEN {"map"}
               ELSE IF ~IsLeaf(shape, p) THEN {"topicref", "topicmeta"}
               ELSE {"topicref", "topicmeta", "navtitle", "comment", "entity"},
      attributes \in IF p = <<>> \/ ~IsLeaf(shape, p) THEN {<<>>} ELSE AttributeLists }

Plain(d) ==
  \A p \in DOMAIN d : d[p].kind \notin {"topicref", "navtitle"} => d[p].attributes = <<>>

XmlDocuments ==
  UNION { { d \in [shape -> UNION { XmlLabels(shape, p) : p \in shape }] :
              Plain(d) /\ \A p \in shape : d[p] \in XmlLabels(shape, p) } : shape \in Shapes }

XmlCalls ==
  { Document(format, d, limits, {}, Strict) :
      format \in {"xml", "dita"}, d \in XmlDocuments,
      limits \in {Loose, [Loose EXCEPT !.nodes = 3, !.depth = 3]} }

-----------------------------------------------------------------------------
(* Trees built by hand: of two nodes, any parents and children, one of     *)
(* which may be missing; of three, whatever the contract of a node allows. *)

HandRefs == {Ref1, Ref2, Ref3}

HandNodes(parents, lists) ==
  [parent : parents \cup {NoRef}, kids : lists, content : {<<>>}]

KidLists(refs) == UNION { [1..n -> refs] : n \in 0..2 }

LegalNodes(ref) ==
  LET others == HandRefs \ {ref}
  IN  HandNodes(others, { s \in KidLists(others) : Len(s) = 2 => s[1] # s[2] })

SomeLists == {<<>>, <<Ref1>>, <<Ref2>>, <<Ref3>>, <<Ref2, Ref3>>, <<Ref2, Ref2>>}

TreeCalls ==
  { [what |-> "tree", tree |-> [root |-> Ref1, node |-> nodes], profile |-> Strict] :
      nodes \in [{Ref1, Ref2} -> HandNodes(HandRefs, SomeLists)]
             \cup { (Ref1 :> m) @@ (Ref2 :> n) @@ (Ref3 :> o) :
                      m \in LegalNodes(Ref1), n \in LegalNodes(Ref2), o \in LegalNodes(Ref3) } }

(* A node whose content has lists and dicts, which no adapter makes; the   *)
(* keys inside of the dict are those the profiles speak of.                *)
Leaves ==
  { <<"string", text>> : text \in {Word, <<>>, <<" ", "x">>, <<"x", "tab", " ", "x">>} }
  \cup {<<"number", <<" ", "x">>>>}

NestedValues ==
  { <<"array", f>> : f \in [{<<0>>, <<1, 0>>} -> Leaves] }
  \cup { <<"object", f>> : f \in [{<<"value">>, <<"k", "text">>} -> Leaves] }

NestedCalls ==
  { [what |-> "tree", profile |-> profile,
     tree |-> [root |-> Ref1,
               node |-> [ref \in {Ref1} |->
                 [parent |-> NoRef, kids |-> <<>>, content |-> [value |-> v, text |-> v]]]]] :
      v \in NestedValues, profile \in Profiles }

-----------------------------------------------------------------------------
Words == UNION { [1..n -> {"k", "l"}] : n \in 0..4 }

AlignCalls == { [what |-> "align", left |-> l, right |-> r] : l \in Words, r \in Words }

MCCalls == DataCalls \cup MarkedCalls \cup TextCalls \cup XmlCalls \cup TreeCalls \cup NestedCalls
           \cup AlignCalls
=============================================================================

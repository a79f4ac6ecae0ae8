---------------------------- MODULE MCMatcherXml ----------------------------
(* Generic-XML elements: ids that are unique, shared, duplicated or on     *)
(* incompatible types, and elements that repeat an id, a text or a child   *)
(* structure, so that several sources compete for one target.              *)
EXTENDS Matcher

Element(type, pid, text, kids) ==
  [type |-> type, pid |-> pid, label |-> NoValue, text |-> text, kids |-> kids]

Sections == { Element("section", 1, 1, <<>>), Element("section", 1, 2, <<>>),
              Element("section", 1, 1, <<"p">>), Element("section", 2, 2, <<"p">>),
              Element("section", NoValue, 1, <<"p">>) }

MCSourceInputs == [Sources -> Sections \cup {Element("p", 2, 1, <<>>)}]
MCTargetInputs == [Targets -> Sections \cup {Element("p", 1, 1, <<>>)}]
=============================================================================
